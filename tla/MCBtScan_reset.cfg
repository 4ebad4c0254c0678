SPECIFICATION BtSpec
CONSTANTS
  Null = Null  p = p  s = s  Poll = Poll
  Client = {p, s}
  Net = {n1}
  Wrap = 1
  Uses <- MCAgain
PROPERTY NotResetWhileDelivering
