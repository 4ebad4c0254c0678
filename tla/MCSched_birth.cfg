SPECIFICATION FairSpec
CONSTANTS
  Null = Null
  i0 = i0  i1 = i1  a = a  b = b  d = d  e = e
  Thread <- BirthThreads
  NumPrio = 3
  Priority <- BirthPriority
  Affinity <- BirthAffinity
  IdleOf <- MCIdleOf
  WaitList = {w1}
  Stripe = {s1}
  StripeOf <- OneStripe
  Calls <- BirthCalls
  Target = {a, b}
  InitialQueue <- BirthQueue
INVARIANT ReadyIsQueued
PROPERTIES PeersTakeTurns PendingKillEnds
