-------------------------------- MODULE Vfs ---------------------------------
(***************************************************************************)
(* The VFS over the filesystem: one table of open files and devices, and   *)
(* vfs_lock held through every call, the flash operations of the           *)
(* filesystem call inside it included.  The shell commands call the        *)
(* filesystem directly and meet the VFS's callers at fs_mutex.             *)
(*                                                                         *)
(* fd_table is touched under vfs_lock only, so the last step of the        *)
(* filesystem, what it does to the entry and the unlock are one step.      *)
(***************************************************************************)
EXTENDS Fs

CONSTANTS
  VfsUser,             \* the clients that come through the VFS
  Device,              \* mounted paths, which no file has
  PathsOf,             \* what each of those users opens
  Killable,            \* those the kill command may take
  VFS_MAX_OPEN

ASSUME VfsAssumption ==
  /\ VfsUser \subseteq Client /\ Killable \subseteq VfsUser /\ VfsUser \intersect Remover = {}
  /\ Device \intersect Name = {} /\ VFS_MAX_OPEN \in Nat \ {0}
  /\ PathsOf \in [VfsUser -> SUBSET (Name \union Device)]

VFd == 0..VFS_MAX_OPEN-1

VARIABLES
  vfs_lock, asked,     \* who holds the lock, and what it asked for
  fd_table,            \* what each entry stands for: None, a device, or an fd of the filesystem
  vfd,                 \* the entry vfs_open() gave each user, until it closes it
  stuck                \* the users that were killed inside a call

vvars == <<vfs_lock, asked, fd_table, vfd>>
allvars == <<fvars, vvars, stuck>>

OnDevice(id) == <<"device", id>>
OnFile(fd)   == <<"file", fd>>

ASSUME EntryAssumption == \A x \in Device \union Fd : None \notin {OnDevice(x), OnFile(x)}

VfsInit ==
  /\ FsInit
  /\ vfs_lock = None /\ asked = None
  /\ fd_table = [v \in VFd |-> None]
  /\ vfd = [c \in VfsUser |-> None]
  /\ stuck = {}
-----------------------------------------------------------------------------
\* c gets vfs_lock for this call.
Locks(c, request) ==
  /\ vfs_lock = None /\ Idle(c)
  /\ vfs_lock' = c /\ asked' = request
  /\ UNCHANGED <<fvars, fd_table, vfd>>

VfsCalls(c) ==
  \/ vfd[c] = None /\ \E path \in PathsOf[c], mode \in ModesOf[c] :
                        Locks(c, <<"open", path, mode>>)
  \/ vfd[c] # None /\ \E what \in {"read", "write", "close"} : Locks(c, <<what>>)

Serving(c, what) == vfs_lock = c /\ asked[1] = what

\* It returns.
Unlocks == vfs_lock' = None /\ asked' = None

Fails == Unlocks /\ UNCHANGED <<fd_table, vfd>>
-----------------------------------------------------------------------------
(* vfs_open()                                                              *)

fd_alloc == {v \in VFd : fd_table[v] = None}

\* c's entry of the table stands for this from now on.
Fills(c, what) ==
  LET v == Min(fd_alloc)
  IN  fd_table' = [fd_table EXCEPT ![v] = what] /\ vfd' = [vfd EXCEPT ![c] = v]

TableFull(c) ==
  /\ Serving(c, "open") /\ fd_alloc = {}
  /\ Fails
  /\ UNCHANGED fvars

\* dev_open() is the driver's, and may refuse.
OpenDevice(c) ==
  LET id == asked[2]
  IN  /\ Serving(c, "open") /\ fd_alloc # {} /\ id \in Device
      /\ \/ Fails
         \/ Fills(c, OnDevice(id)) /\ Unlocks
      /\ UNCHANGED fvars

\* What fs_open() returned goes into the entry.
Opened(c) ==
  /\ IF handle'[c] = None THEN UNCHANGED <<fd_table, vfd>> ELSE Fills(c, OnFile(handle'[c]))
  /\ Unlocks

OpenFile(c) ==
  LET name == asked[2]
      mode == asked[3]
  IN  /\ Serving(c, "open") /\ fd_alloc # {} /\ name \in Name
      /\ \/ OpenFound(c, name, mode) /\ Opened(c)
         \/ OpenCreates(c, name, mode) /\ UNCHANGED vvars
         \/ OpenCreated(c) /\ Opened(c)

\* No such file, and fs_open() may not or cannot create it.
OpenMissing(c) ==
  LET name == asked[2]
      mode == asked[3]
  IN  /\ Serving(c, "open") /\ fd_alloc # {} /\ name \in Name
      /\ Idle(c) /\ fs_mutex = None /\ find_file(name) = {}
      /\ "creat" \notin mode \/ FreeFiles = {}
      /\ Fails
      /\ UNCHANGED fvars

vfs_open(c) == TableFull(c) \/ OpenDevice(c) \/ OpenFile(c) \/ OpenMissing(c)
-----------------------------------------------------------------------------
(* vfs_read(), vfs_write() and vfs_close()                                 *)

IsDevice(c) == fd_table[vfd[c]][1] = "device"
FsFd(c) == fd_table[vfd[c]][2]

\* The driver moves data, or fails; no entry changes.
DeviceTransfers(c) ==
  /\ Serving(c, "read") \/ Serving(c, "write")
  /\ IsDevice(c)
  /\ Fails
  /\ UNCHANGED fvars

\* The filesystem does; the entry's own position is nobody's to read.
FileTransfers(c) ==
  /\ Serving(c, "read") \/ Serving(c, "write")
  /\ ~IsDevice(c)
  /\ \/ Tests(c, asked[1], FsFd(c)) /\ UNCHANGED vvars
     \/ (fs_read(c) \/ fs_write(c)) /\ Fails

\* Mutant: a close that could not be committed keeps its entry.
FreesIfCommitted(c) ==
  /\ IF rc THEN fd_table' = [fd_table EXCEPT ![vfd[c]] = None] ELSE UNCHANGED fd_table
  /\ vfd' = [vfd EXCEPT ![c] = None]
  /\ Unlocks

\* The entry is free, whatever fs_close() returned.
Frees(c) ==
  /\ fd_table' = [fd_table EXCEPT ![vfd[c]] = None]
  /\ vfd' = [vfd EXCEPT ![c] = None]
  /\ Unlocks

CloseDevice(c) == Serving(c, "close") /\ IsDevice(c) /\ Frees(c) /\ UNCHANGED fvars

CloseFile(c) ==
  /\ Serving(c, "close") /\ ~IsDevice(c)
  /\ \/ (Tests(c, "close", FsFd(c)) \/ CloseCommits(c)) /\ UNCHANGED vvars
     \/ (CloseClean(c) \/ CloseCommitted(c)) /\ Frees(c)
-----------------------------------------------------------------------------
\* The kill command takes a user that is in no call: nobody closes its file,
\* and the user may be started again.
Killed(c) ==
  /\ c \in Killable /\ vfd[c] # None /\ vfs_lock # c
  /\ vfd' = [vfd EXCEPT ![c] = None] /\ handle' = [handle EXCEPT ![c] = None]
  /\ UNCHANGED <<fs_mutex, ram, flash, call, todo, rc, failures, ghost, vfs_lock, asked, fd_table>>

\* It takes one that is inside a call, waits there for fs_mutex or holds that
\* too, between any two of its flash operations: nobody gives its locks back.
KilledInside(c) ==
  /\ c \in Killable \ stuck /\ vfs_lock = c
  /\ stuck' = stuck \union {c}
  /\ UNCHANGED <<fvars, vvars>>

\* vfs_init() follows fs_init().
Restart ==
  /\ PowerCycle
  /\ vfs_lock' = None /\ asked' = None
  /\ fd_table' = [v \in VFd |-> None]
  /\ vfd' = [c \in VfsUser |-> None]
  /\ stuck' = {}

VfsOperation(c) ==
  \/ VfsCalls(c) \/ vfs_open(c)
  \/ DeviceTransfers(c) \/ FileTransfers(c) \/ CloseDevice(c) \/ CloseFile(c)
  \/ Killed(c)

\* A killed user takes no step, and no flash operation goes on for it.
VfsNext ==
  \/ /\ \/ \E c \in VfsUser \ stuck : VfsOperation(c)
        \/ (\/ \E c \in Client \ VfsUser : Operation(c)
            \/ fs_mutex \notin stuck /\ (FlashDone \/ FlashFailed)) /\ UNCHANGED vvars
     /\ UNCHANGED stuck
  \/ \E c \in VfsUser : KilledInside(c)
  \/ Restart

VfsSpec == VfsInit /\ [][VfsNext]_allvars
-----------------------------------------------------------------------------
VfsTypeOK ==
  /\ FsTypeOK
  /\ vfs_lock \in VfsUser \union {None}
  /\ fd_table \in [VFd -> {None} \union {OnDevice(id) : id \in Device} \union {OnFile(fd) : fd \in Fd}]
  /\ vfd \in [VfsUser -> VFd \union {None}]
  /\ stuck \subseteq Killable

\* While no call is under way the two fd tables agree: the entries for files
\* stand for fds that are in use, no two for the same one, and the fds no
\* entry stands for are the direct callers'.  A failed close, an open refused
\* halfway or a killed user leaves neither table an fd the other has lost.
TablesAgree ==
  LET Entries == {v \in VFd : fd_table[v] # None /\ fd_table[v][1] = "file"}
      FdOf(v) == fd_table[v][2]
      Direct  == {handle[c] : c \in Client \ VfsUser}
  IN  vfs_lock = None /\ fs_mutex = None =>
        /\ \A v, w \in Entries : FdOf(v) = FdOf(w) => v = w
        /\ {fd \in Fd : open_fds[fd].used} = {FdOf(v) : v \in Entries} \union (Direct \ {None})
        /\ \A v \in Entries : FdOf(v) \notin Direct
=============================================================================
