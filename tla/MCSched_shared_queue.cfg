SPECIFICATION Spec
CONSTANTS
  Null = Null
  i0 = i0  i1 = i1  a = a  b = b  d = d  e = e
  Thread <- PeerThreads
  NumPrio = 3
  Priority <- PeerPriority
  Affinity <- PeerFree
  IdleOf <- MCIdleOf
  WaitList = {w1}
  Stripe = {s1}
  StripeOf <- OneStripe
  Calls <- WaitCalls
  Target = {}
  InitialQueue <- PeerQueue
INVARIANT ReadyIsQueued
