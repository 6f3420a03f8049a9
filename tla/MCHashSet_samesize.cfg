\* One cell per bucket, a 4-bucket set (hint 2) reseeded each time it
\* empties: overflow buckets pile up below the load factor until an insert
\* starts a same-size growth, which later writes finish.
CONSTANTS
  Keys = {1, 2, 3}
  NaNs = {}
  NaNHashes = {0}
  ZeroKey = 0
  Seeds = {0, 1, 2, 3}
  Hash <- HashReseed
  MaxB = 3
  BucketCnt = 1
  Hints = {2}
  ElemHasPointers = TRUE
  Fast32 = FALSE
  Tables = {m}
  Main = m
  BucketBytes = 48
  SizeClasses = {896}
  NArrays = 3
  NOvf = 6
SPECIFICATION SpecMain
VIEW View
INVARIANTS
  GrowthBounded
  KeysExportContents
  EmptyRestEndsChain
  LenMatchesContents
  LookupFindsContents
PROPERTIES
  RefinesSetSpec
  
