SPECIFICATION WifiSpec
CONSTANTS
  Null = Null  p = p  s = s  Poll = Poll
  Client = {p, s}
  Net = {n1}
  Wrap = 2
  Uses <- MCTwo
INVARIANT ReaderUndisturbed
