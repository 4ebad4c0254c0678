SPECIFICATION CraySpec
CONSTANTS
  None = None  Black = Black  app = app  shell = shell
  User = {app, shell}
  DISP_HEIGHT = 2
  GRID_COLS = 2
  GRID_ROWS = 2
  Colours = {k1, k2}
  Configs <- MCConfigs
  MAXNODES_MAX = 2
  Senders = {0, 1, 2}
  MQ_MAX_MSG = 2
  WIFI_MCAST_MAX_SOCKETS = 2
  Overlap = {}
INVARIANTS CrayTypeOK PanelCurrent BlocksFollow SocketKept
PROPERTY EndsTogether
