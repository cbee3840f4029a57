SPECIFICATION FairSpec
CONSTANTS
  t1 = t1
  t2 = t2
  Threads = {t1, t2}
  Numbers = {1, 2, 3, 4, 5, 6, 7, 8, 9}
  Outcomes = {TRUE, FALSE}
  BodyBlocks = 2
  Capacity = 1
  MaxRuns = 1
  MaxConns = 1
INVARIANT TypeOK
INVARIANT NumbersKept
INVARIANT OutputIsOwn
INVARIANT OnlyStdinLeft
INVARIANT KilledOnlyForCause
PROPERTY EndsUnlessCrossed
CHECK_DEADLOCK FALSE
