SPECIFICATION SyncSpec
CONSTANTS
  Null = Null
  i0 = i0  i1 = i1  a = a  b = b  d = d
  Thread <- MCThread
  NumPrio = 4
  Priority <- MCPriority
  Affinity <- MCPinned
  IdleOf <- MCIdleOf
  Stripe = {s1}
  StripeOf <- MCStripeOf
  InitialQueue <- MCQueue
  WaitList = {m1}
  Mutex = {m1}
  Semaphore = {}
  Calls <- KillCalls
  Uses <- LockUses
  Target = {a, b}
  InitialCount = 0
  MaxCount = 2
INVARIANT NoLostWakeup
