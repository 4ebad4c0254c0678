SPECIFICATION SyncFairSpec
CONSTANTS
  Null = Null
  i0 = i0  i1 = i1  a = a  b = b  d = d
  Thread <- MCThread
  NumPrio = 4
  Priority <- MCPriority
  Affinity <- MCFree
  IdleOf <- MCIdleOf
  Stripe = {s1}
  StripeOf <- MCStripeOf
  InitialQueue <- MCQueue
  WaitList = {m1, sem}
  Mutex = {m1}
  Semaphore = {sem}
  Calls <- BothCalls
  Uses <- BothUses
  Target = {}
  InitialCount = 0
  MaxCount = 2
INVARIANTS MutualExclusion NoLostWakeup EveryUnitSought
PROPERTY NothingLies
