\* sets.Collect(sets.Elems(m)) into c, after any writes on m: m is the
\* 4-bucket set of MCHashSet_iter.cfg, perhaps half way through a doubling;
\* c starts with no buckets and doubles twice as the loop fills it.
CONSTANTS
  Keys = {1, 2, 3}
  NaNs = {}
  NaNHashes = {0}
  ZeroKey = 0
  Seeds = {0, 1}
  Hash <- HashGrow3
  MaxB = 3
  BucketCnt = 1
  Hints = {2}
  ElemHasPointers = TRUE
  Fast32 = FALSE
  Tables = {m, c}
  Main = m
  BucketBytes = 48
  SizeClasses = {896}
  NArrays = 6
  NOvf = 6
SPECIFICATION SpecCollect
VIEW View
INVARIANTS
  CollectCopies
  LenMatchesContents
