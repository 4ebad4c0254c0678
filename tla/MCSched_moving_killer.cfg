SPECIFICATION Spec
CONSTANTS
  Null = Null
  i0 = i0  i1 = i1  a = a  b = b  d = d  e = e
  Thread <- LadderThreads
  NumPrio = 4
  Priority <- LadderPriority
  Affinity <- LadderFree
  IdleOf <- MCIdleOf
  WaitList = {w1}
  Stripe = {s1}
  StripeOf <- OneStripe
  Calls <- LadderCalls
  Target = {a, b}
  InitialQueue <- LadderQueue
INVARIANT WaitersAlive
