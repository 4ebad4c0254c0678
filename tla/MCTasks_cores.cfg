SPECIFICATION CoresSpec
CONSTANTS
  shell = shell
  button = button
  None = None
  Spawner = {}
  Limits <- MCLimits
  MAX_THREADS = 3
  MAX_PROCESSES = 2
  StackSize = 3
  ArgSize = 2
  Kills = FALSE
  Waiters = {1}
  HEAP_SIZE = 12
  HEADER_SIZE = 1
  SPLIT_THRESHOLD = 1
INVARIANTS HeapAccounted PoolsAgree
