\* A set of uint32 made with hint 8: B = 4, the first size whose bucket
\* array makeSetBucketArray extends with overflow buckets.  A 48-byte bucket
\* gives 16 + 1 buckets, 816 bytes, rounded up to the 896-byte size class:
\* 18 buckets, two of them preallocated overflow buckets.  Three keys in
\* bucket 0 (seed 0) use both; two in bucket 3 (seed 1) use one, and after a
\* reseed the next chain takes the other and then a new object; clear hands
\* them out again.
CONSTANTS
  Keys = {1, 2, 3}
  NaNs = {}
  NaNHashes = {0}
  ZeroKey = 0
  Seeds = {0, 1}
  Hash <- HashPrealloc
  MaxB = 4
  BucketCnt = 1
  Hints = {8}
  ElemHasPointers = FALSE
  Fast32 = TRUE
  Tables = {m}
  Main = m
  BucketBytes = 48
  SizeClasses = {768, 896, 1024}
  NArrays = 1
  NOvf = 3
SPECIFICATION SpecMain
VIEW View
INVARIANTS
  OverflowChainsPrivate
  LookupFindsContents
PROPERTIES
  RefinesSetSpec
