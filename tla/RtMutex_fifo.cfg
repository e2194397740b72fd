SPECIFICATION Spec
CONSTANTS
  high = high
  mid = mid
  low = low
  Threads = {high, mid, low}
  Mutexes = {m, n}
  NULL = NULL
  init_priority <- ThreeLevels
  Flag = "FIFO"
  MaxHeld = 1
  MaxHold = 2
INVARIANT Inherits
