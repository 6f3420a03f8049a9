\* The clear_loop program on a set of floats holding a NaN: two keys and the
\* NaN, so the third insert doubles the table.  A loop that started before
\* the growth walks the old array after the growth has finished, and clear
\* marks only h.buckets and h.oldbuckets.
CONSTANTS
  Keys = {1, 2}
  NaNs = {7}
  NaNHashes = {1, 13}
  ZeroKey = 0
  Seeds = {1}
  Hash <- HashGrow3
  MaxB = 3
  BucketCnt = 1
  Hints = {2}
  ElemHasPointers = TRUE
  Fast32 = FALSE
  Tables = {m}
  Main = m
  BucketBytes = 48
  SizeClasses = {896}
  NArrays = 4
  NOvf = 6
SPECIFICATION SpecIterClear
VIEW View
PROPERTIES
  ClearEndsLoop
