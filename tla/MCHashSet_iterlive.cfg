\* The layout of MCHashSet_iter.cfg under a range loop that keeps going:
\* every loop ends, through growths and writes between its rounds.
CONSTANTS
  Keys = {1, 2, 3}
  NaNs = {}
  NaNHashes = {0}
  ZeroKey = 0
  Seeds = {1}
  Hash <- HashGrow3
  MaxB = 3
  BucketCnt = 1
  Hints = {2}
  ElemHasPointers = TRUE
  Fast32 = FALSE
  Tables = {m}
  Main = m
  BucketBytes = 48
  SizeClasses = {896}
  NArrays = 4
  NOvf = 6
SPECIFICATION SpecIterFair
VIEW View
PROPERTIES
  LoopTerminates
