SPECIFICATION QSpec
CONSTANTS
  Null = Null
  i0 = i0  i1 = i1  a = a  b = b  d = d
  Thread <- TrioThread
  NumPrio = 4
  Priority <- TrioPriority
  Affinity <- MCAffinity
  InitialQueue <- TrioQueue
  Calls <- MCCalls
  IdleOf <- MCIdleOf
  Stripe = {s1}
  StripeOf <- MCStripeOf
  Target = {}
  send_waiters = send_waiters
  recv_waiters = recv_waiters
  WaitList <- MCWaitList
  Msg = {x, y}
  MQ_MAX_MSG = 2
  Uses <- TrioUses
INVARIANT EverySought
PROPERTY IsFifo
