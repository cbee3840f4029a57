SPECIFICATION Spec
CONSTANTS
  t1 = t1
  t2 = t2
  dir = dir
  index = index
  file = file
  i1 = i1
  i2 = i2
  i3 = i3
  None = None
  Threads = {t1}
  Files = {file, index}
  Dir = dir
  Inside = {index}
  Index = index
  Inodes = {i1, i2}
  Readables <- AllReadable
  RequestsOf <- Limited
  MaxServed <- One
PROPERTY TooLargeMeansRequest
CHECK_DEADLOCK FALSE
