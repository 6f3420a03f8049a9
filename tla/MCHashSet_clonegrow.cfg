\* One cell per bucket and a 4-bucket main handle: the third insert doubles
\* it and leaves old buckets unevacuated; the program then clones it.
CONSTANTS
  Keys = {1, 2, 3}
  NaNs = {}
  NaNHashes = {0}
  ZeroKey = 0
  Seeds = {1}
  Hash <- HashGrow3
  MaxB = 3
  BucketCnt = 1
  Hints = {2}
  ElemHasPointers = TRUE
  Fast32 = FALSE
  Tables = {m, c}
  Main = m
  BucketBytes = 48
  SizeClasses = {896}
  NArrays = 4
  NOvf = 6
SPECIFICATION SpecClone
PROPERTIES
  CloneKeepsElements
