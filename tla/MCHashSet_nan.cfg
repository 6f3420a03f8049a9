\* A set of floats holding a NaN: one cell per bucket, a 4-bucket main
\* handle, two keys and the NaN, so the third insert doubles the table to 8
\* buckets while a range loop may run.  The hasher returns 1 or 13 for the
\* NaN: both old bucket 1, tophash 5 or 6, and the X or the Y half.
CONSTANTS
  Keys = {1, 2}
  NaNs = {7}
  NaNHashes = {1, 13}
  ZeroKey = 0
  Seeds = {1}
  Hash <- HashGrow3
  MaxB = 3
  BucketCnt = 1
  Hints = {2}
  ElemHasPointers = TRUE
  Fast32 = FALSE
  Tables = {m}
  Main = m
  BucketBytes = 48
  SizeClasses = {896}
  NArrays = 4
  NOvf = 6
SPECIFICATION SpecIterNoClear
VIEW View
INVARIANTS
  IterYieldSound
  IterComplete
