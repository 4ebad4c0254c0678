SPECIFICATION VfsSpec
CONSTANTS
  shell = shell
  writer = writer
  reader = reader
  g = g
  long = long
  led = led
  None = None
  Blank = Blank
  Zero = Zero
  Client = {shell, writer, reader}
  ModesOf <- MCModesOf
  Remover = {shell}
  VfsUser = {writer, reader}
  PathsOf <- MCPathsOf
  Killable = {writer}
  Device = {led}
  VFS_MAX_OPEN = 2
  Name = {g, long}
  Stored <- MCStored
  Deletes = "closed"
  FS_MAX_FILES = 2
  FS_MAX_OPEN_FDS = 2
  FS_MAX_FILE_DATA = 1
  MaxFailures = 1
VIEW Live
INVARIANT InProgressVisible
