\* Two cells per bucket, three keys: insert, delete and clear on the main
\* handle and clones of it into a second handle.  Every growth finishes
\* inside the operation that starts it.
CONSTANTS
  Keys = {1, 2, 3}
  NaNs = {}
  NaNHashes = {0}
  ZeroKey = 0
  Seeds = {0, 1}
  Hash <- HashCells2
  MaxB = 2
  BucketCnt = 2
  Hints = {0}
  ElemHasPointers = TRUE
  Fast32 = FALSE
  Tables = {m, c}
  Main = m
  BucketBytes = 48
  SizeClasses = {896}
  NArrays = 4
  NOvf = 6
SPECIFICATION SpecClone
VIEW View
INVARIANTS
  TypeOK
  TablesDisjoint
  EmptyRestEndsChain
  LenMatchesContents
  LookupFindsContents
PROPERTIES
  RefinesSetSpec
