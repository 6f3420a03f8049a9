\* A set of uint32 elements: delete and lookup take the fast path, keys of
\* deleted cells stay in memory (no pointers), and old buckets are never
\* cleared.  One cell per bucket; a one-bucket set (hint 0), read without
\* hashing until it grows, or a 4-bucket set (hint 2) that doubles on its
\* third insert; seed 0 chains every key through bucket 1, seed 1 spreads
\* them.
CONSTANTS
  Keys = {1, 2, 3}
  NaNs = {}
  NaNHashes = {0}
  ZeroKey = 0
  Seeds = {0, 1}
  Hash <- HashGrow3
  MaxB = 3
  BucketCnt = 1
  Hints = {0, 2}
  ElemHasPointers = FALSE
  Fast32 = TRUE
  Tables = {m}
  Main = m
  BucketBytes = 48
  SizeClasses = {896}
  NArrays = 3
  NOvf = 6
SPECIFICATION SpecMain
VIEW View
INVARIANTS
  GrowthBounded
  KeysExportContents
  LenMatchesContents
  LookupFindsContents
PROPERTIES
  RefinesSetSpec
