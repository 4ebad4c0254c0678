SPECIFICATION CompactionSpec
CONSTANTS
  shell = shell
  button = button
  None = None
  Spawner = {}
  Limits <- MCLimits
  MAX_THREADS = 3
  MAX_PROCESSES = 2
  StackSize = 3
  ArgSize = 2
  Kills = TRUE
  Waiters = {1}
  HEAP_SIZE = 12
  HEADER_SIZE = 1
  SPLIT_THRESHOLD = 1
INVARIANT PoolsAgree
