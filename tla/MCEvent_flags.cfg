SPECIFICATION EventFairSpec
CONSTANTS
  Null = Null
  i0 = i0  i1 = i1  a = a  b = b  d = d  f1 = f1  f2 = f2
  ev1 = ev1  ev2 = ev2  s1 = s1  s2 = s2
  Thread <- MCThread
  NumPrio = 4
  Priority <- MCPriority
  Affinity <- MCAffinity
  IdleOf <- MCIdleOf
  Stripe = {s1, s2}
  StripeOf <- MCStripeOf
  InitialQueue <- MCQueue
  WaitList = {ev1, ev2}
  Calls <- MCCalls
  Uses <- MCUses
  Target = {a, b}
  Bit = {f1, f2}
  MaxEventWaiters = 2
  Masks <- MCMasks
  SetMask <- MCSetMask
INVARIANTS PoolMatchesLists NoSatisfiedSleeper
PROPERTY AwaitReturns
