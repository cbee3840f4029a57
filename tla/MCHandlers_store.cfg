SPECIFICATION Spec
CONSTANTS
  t1 = t1
  t2 = t2
  dir = dir
  index = index
  file = file
  i1 = i1
  i2 = i2
  i3 = i3
  None = None
  Threads = {t1, t2}
  Files = {index, file}
  Dir = dir
  Inside = {index}
  Index = index
  Inodes = {i1, i2, i3}
  Readables <- AllOrNone
  RequestsOf <- Apart
  MaxServed <- One
PROPERTY ImplementsFileStore
SYMMETRY InodeSymmetry
CHECK_DEADLOCK FALSE
