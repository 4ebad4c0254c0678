SPECIFICATION Spec
CONSTANTS
  Null = Null
  i0 = i0  i1 = i1  a = a  b = b  d = d  e = e
  Thread <- RoamThreads
  NumPrio = 3
  Priority <- RoamPriority
  Affinity <- RoamAffinity
  IdleOf <- MCIdleOf
  WaitList = {w1}
  Stripe = {s1}
  StripeOf <- OneStripe
  Calls <- RoamCalls
  Target = {a, b, d}
  InitialQueue <- RoamQueue
CONSTRAINT Discipline
INVARIANTS ListsSafe FreedOnce
PROPERTY KillIsFinal
CHECK_DEADLOCK FALSE
