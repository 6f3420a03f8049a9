\* One cell per bucket, a 4-bucket main handle and three keys: the third
\* insert doubles the table and leaves old buckets unevacuated, and clear
\* may run while a range loop is on the old or the new buckets.
CONSTANTS
  Keys = {1, 2, 3}
  NaNs = {}
  NaNHashes = {0}
  ZeroKey = 0
  Seeds = {1}
  Hash <- HashGrow3
  MaxB = 3
  BucketCnt = 1
  Hints = {2}
  ElemHasPointers = TRUE
  Fast32 = FALSE
  Tables = {m}
  Main = m
  BucketBytes = 48
  SizeClasses = {896}
  NArrays = 4
  NOvf = 6
SPECIFICATION SpecIterClear
VIEW View
PROPERTIES
  ClearEndsLoop
