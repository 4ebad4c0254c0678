SPECIFICATION Spec
CONSTANTS
  Null = Null
  i0 = i0  i1 = i1  a = a  b = b  d = d  e = e
  Thread <- KillThreads
  NumPrio = 3
  Priority <- KillPriority
  Affinity <- KillAffinity
  IdleOf <- MCIdleOf
  WaitList = {w1}
  Stripe = {s1}
  StripeOf <- OneStripe
  Calls <- KillCalls
  Target = {a, b}
  InitialQueue <- KillQueue
INVARIANTS TypeOK OneCore RunningIsCurrent ListsSafe FreedOnce
PROPERTY KillIsFinal
