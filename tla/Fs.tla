--------------------------------- MODULE Fs ---------------------------------
(***************************************************************************)
(* The flash filesystem: a superblock sector with the table of files and   *)
(* one data sector per file, the RAM mirror of the table, one write buffer *)
(* for the one file that may be open for writing, and the fd table.        *)
(*                                                                         *)
(* Every operation runs under fs_mutex, except for the test of             *)
(* open_fds[fd].used that starts fs_read(), fs_write() and fs_close().     *)
(* What an operation does to RAM is one step at its begin or end, each of  *)
(* its flash operations is a step of its own, and power may be lost        *)
(* between any two.                                                        *)
(***************************************************************************)
EXTENDS Naturals, Sequences, FiniteSets, FiniteSetsExt

CONSTANTS
  Client,                        \* the threads that call the filesystem
  Name, Stored,                  \* file names; a name as strncpy() keeps it
  ModesOf,                       \* the modes each opens files in, as sets of flags
  Remover,                       \* those that also delete and format
  FS_MAX_FILES, FS_MAX_OPEN_FDS,
  FS_MAX_FILE_DATA,              \* cells of a sector
  Deletes,                       \* what may be deleted: "closed" files or "any"
  MaxFailures,                   \* bound: flash operations that fail between two mounts
  None, Blank, Zero              \* no value; an erased cell; a zeroed cell

Flag == {"w", "creat", "trunc", "append"}

ASSUME FsAssumption ==
  /\ Stored \in [Name -> Name] /\ None \notin Name
  /\ ModesOf \in [Client -> SUBSET SUBSET Flag] /\ Remover \subseteq Client
  /\ FS_MAX_FILES \in Nat \ {0} /\ FS_MAX_OPEN_FDS \in Nat \ {0}
  /\ FS_MAX_FILE_DATA \in Nat \ {0}
  /\ Deletes \in {"closed", "any"} /\ MaxFailures \in Nat
  /\ Blank # Zero /\ None \notin Client /\ {Blank, Zero} \cap Client = {}

File == 0..FS_MAX_FILES-1
Fd   == 0..FS_MAX_OPEN_FDS-1
Cell == 1..FS_MAX_FILE_DATA
FreeEntry == [name |-> None, size |-> 0]
ClosedFd  == [used |-> FALSE, dirty |-> FALSE, file_idx |-> 0, pos |-> 0, mode |-> {}]
Filled(v) == [k \in Cell |-> v]

\* What a client can be in the middle of.
FsCall == {<<"open", i, mode>> : i \in File, mode \in SUBSET Flag}
            \union ({"read", "write", "close"} \X Fd) \union ({"delete"} \X File) \union {<<"format">>}

ASSUME NoneAssumption == None \notin Nat \union FsCall

VARIABLES
  fs_mutex,        \* the client in it, or None
  superblock_ram,  \* the mirror: the entry of each file
  fs_buffer, scratch_owner,
  open_fds,
  flash_sb,        \* the table on flash, or None while its sector is erased
  sector,          \* the data sector of each file
  call,            \* what each client is in the middle of, or None
  handle,          \* the fd fs_open() gave it, until it closes it
  todo, rc,        \* the flash operations left to do; whether all went well
  failures,        \* the flash operations that failed since the mount
  store,           \* ghost: what a file durably is, while it is not in ...
  limbo,           \* ghost: ... the files with a change not yet on flash
  draft            \* ghost: what the writing client means the file to hold

ram   == <<superblock_ram, fs_buffer, scratch_owner, open_fds>>
flash == <<flash_sb, sector>>
ghost == <<store, limbo, draft>>
fvars == <<fs_mutex, ram, flash, call, handle, todo, rc, failures, ghost>>

EmptyTable == [i \in File |-> FreeEntry]

\* A formatted filesystem just mounted.
FsInit ==
  /\ fs_mutex = None /\ superblock_ram = EmptyTable
  /\ fs_buffer = Filled(Zero) /\ scratch_owner = None
  /\ open_fds = [fd \in Fd |-> ClosedFd]
  /\ flash_sb = EmptyTable /\ sector = [i \in File |-> Filled(Blank)]
  /\ call = [c \in Client |-> None] /\ handle = [c \in Client |-> None]
  /\ todo = <<>> /\ rc = TRUE /\ failures = 0
  /\ store = [i \in File |-> None] /\ limbo = {}
  /\ draft = [c \in Client |-> <<>>]
-----------------------------------------------------------------------------
(* The flash chip.  Sector 0 holds the superblock, sector i+1 file i.      *)

Erase(s)   == <<"erase", s>>
Program(s) == <<"program", s>>
DataSector(i) == i + 1
superblock_flush == <<Erase(0), Program(0)>>

Flashing == todo # <<>>

\* The next flash operation succeeds: an erased sector, or a programmed one.
FlashDone ==
  LET s == Head(todo)[2]
  IN  /\ Flashing
      /\ todo' = Tail(todo)
      /\ IF s = 0
         THEN /\ flash_sb' = IF Head(todo) = Erase(0) THEN None ELSE superblock_ram
              /\ UNCHANGED sector
         ELSE /\ sector' = [sector EXCEPT ![s - 1] =
                              IF Head(todo) = Erase(s) THEN Filled(Blank) ELSE fs_buffer]
              /\ UNCHANGED flash_sb
      /\ UNCHANGED <<fs_mutex, ram, call, handle, rc, failures, ghost>>

\* Mutant: the error code of the flash operation is dropped.
FlashFailedUnnoticed ==
  /\ Flashing /\ failures < MaxFailures
  /\ failures' = failures + 1
  /\ todo' = Tail(todo)
  /\ UNCHANGED <<fs_mutex, ram, flash, call, handle, rc, ghost>>

\* It fails and leaves flash alone.  The operation skips the rest; only
\* fs_format() goes on to its next sector, and stops at its superblock_flush().
FlashFailed ==
  /\ Flashing /\ failures < MaxFailures
  /\ failures' = failures + 1
  /\ todo' = IF call[fs_mutex] = <<"format">> /\ Len(todo) > Len(superblock_flush)
             THEN Tail(todo) ELSE <<>>
  /\ rc' = FALSE
  /\ UNCHANGED <<fs_mutex, ram, flash, call, handle, ghost>>
-----------------------------------------------------------------------------
(* Entering and leaving an operation, and what a file holds.               *)

Idle(c) == call[c] = None

\* c takes fs_mutex and has these flash operations to do.
Starts(c, what, ops) ==
  /\ fs_mutex' = c /\ todo' = ops
  /\ call' = [call EXCEPT ![c] = what]
  /\ UNCHANGED <<flash, rc, failures, handle>>

\* c has done them.
Finished(c, what) == fs_mutex = c /\ ~Flashing /\ call[c] # None /\ call[c][1] = what

Leaves(c) ==
  /\ fs_mutex' = None /\ rc' = TRUE
  /\ call' = [call EXCEPT ![c] = None]
  /\ UNCHANGED <<flash, todo, failures>>

\* What an entry and a sector say a file is.
Content(entry, cells) ==
  IF entry.name = None THEN None
  ELSE [name |-> entry.name, data |-> SubSeq(cells, 1, entry.size)]

\* i is in limbo once the mirror says something new of it, and durable again
\* when that, with its data, is on flash.
Unsettles(i) ==
  limbo' = IF superblock_ram'[i] = superblock_ram[i] THEN limbo ELSE limbo \union {i}
Settles(i, content) == limbo' = limbo \ {i} /\ store' = [store EXCEPT ![i] = content]

find_file(name) == {i \in File : superblock_ram[i].name = name}
FreeFiles == {i \in File : superblock_ram[i].name = None}
FreeFds   == {fd \in Fd : ~open_fds[fd].used}
OpenOn(i) == {fd \in Fd : open_fds[fd].used /\ open_fds[fd].file_idx = i}
-----------------------------------------------------------------------------
(* fs_open()                                                               *)

Writing(mode) == "w" \in mode

\* The lookup found no such file: a new entry, put on flash at once.
OpenCreates(c, name, mode) ==
  LET i == Min(FreeFiles)
  IN  /\ Idle(c) /\ handle[c] = None /\ fs_mutex = None
      /\ find_file(name) = {} /\ "creat" \in mode /\ FreeFiles # {}
      /\ superblock_ram' = [superblock_ram EXCEPT ![i] = [name |-> Stored[name], size |-> 0]]
      /\ limbo' = limbo \union {i}
      /\ Starts(c, <<"open", i, mode>>, superblock_flush)
      /\ UNCHANGED <<fs_buffer, scratch_owner, open_fds, store, draft>>

\* No fd is free: the open fails.
NoFd == FreeFds = {} /\ UNCHANGED <<open_fds, handle>>

TakesFd(c, i, mode, pos) ==
  LET fd == Min(FreeFds)
  IN  /\ FreeFds # {}
      /\ open_fds' = [open_fds EXCEPT ![fd] =
           [used |-> TRUE, dirty |-> FALSE, file_idx |-> i, pos |-> pos, mode |-> mode]]
      /\ handle' = [handle EXCEPT ![c] = fd]

OpensReader(c, i, mode) ==
  /\ ~Writing(mode)
  /\ NoFd \/ TakesFd(c, i, mode, 0)
  /\ UNCHANGED <<superblock_ram, fs_buffer, scratch_owner, draft>>

\* Refused: the one write buffer is taken.
OpenRefused(mode) ==
  /\ Writing(mode) /\ scratch_owner # None
  /\ UNCHANGED <<ram, handle, draft>>

\* Claims the buffer, fills it with zeroes or with the file, and gives the
\* claim back, but not the truncated size, when no fd is free.
OpensWriter(c, i, mode) ==
  LET size == IF "trunc" \in mode THEN 0 ELSE superblock_ram[i].size
  IN  /\ Writing(mode) /\ scratch_owner = None
      /\ fs_buffer' = IF "trunc" \in mode THEN Filled(Zero) ELSE sector[i]
      /\ superblock_ram' = [superblock_ram EXCEPT ![i].size = size]
      /\ \/ NoFd /\ UNCHANGED <<scratch_owner, draft>>
         \/ /\ TakesFd(c, i, mode, IF "append" \in mode THEN size ELSE 0)
            /\ scratch_owner' = i
            /\ draft' = [draft EXCEPT ![c] = SubSeq(sector[i], 1, size)]

\* From the claim of the buffer on.
Opens(c, i, mode) == OpensReader(c, i, mode) \/ OpenRefused(mode) \/ OpensWriter(c, i, mode)

\* The file was there: all of fs_open() at once.
OpenFound(c, name, mode) ==
  LET i == Min(find_file(name))
  IN  /\ Idle(c) /\ handle[c] = None /\ fs_mutex = None
      /\ find_file(name) # {}
      /\ Opens(c, i, mode)
      /\ Unsettles(i)
      /\ UNCHANGED <<fs_mutex, flash, call, todo, rc, failures, store>>

\* The new entry was flushed, or that failed, which fs_open() ignores.
OpenCreated(c) ==
  /\ Finished(c, "open")
  /\ LET i == call[c][2]
         durable == [name |-> superblock_ram[i].name, data |-> <<>>]
     IN  /\ Opens(c, i, call[c][3])
         /\ IF rc THEN Settles(i, durable) ELSE UNCHANGED <<store, limbo>>
  /\ Leaves(c)
-----------------------------------------------------------------------------
(* fs_read(), fs_write() and fs_close()                                    *)

\* The fd is tested before fs_mutex is taken.
Tests(c, what, fd) ==
  /\ Idle(c) /\ open_fds[fd].used
  /\ call' = [call EXCEPT ![c] = <<what, fd>>]
  /\ UNCHANGED <<fs_mutex, ram, flash, handle, todo, rc, failures, ghost>>

\* c, past the test, gets fs_mutex for this call.
Enters(c, what) == fs_mutex = None /\ call[c] # None /\ call[c][1] = what

\* What a read through fd would return now, cell by cell.
View(fd) ==
  LET ofd == open_fds[fd]
      source == IF ofd.file_idx = scratch_owner /\ ofd.dirty THEN fs_buffer ELSE sector[ofd.file_idx]
  IN  SubSeq(source, ofd.pos + 1, superblock_ram[ofd.file_idx].size)

fs_read(c) ==
  LET fd == call[c][2]
  IN  /\ Enters(c, "read")
      /\ open_fds' = IF View(fd) = <<>> THEN open_fds ELSE [open_fds EXCEPT ![fd].pos = @ + 1]
      /\ call' = [call EXCEPT ![c] = None]
      /\ UNCHANGED <<fs_mutex, superblock_ram, fs_buffer, scratch_owner, flash, handle, todo, rc, failures, ghost>>

Larger(m, n) == IF m > n THEN m ELSE n

\* One cell into the buffer; the size in the mirror follows.
Writes(c, fd) ==
  LET ofd == open_fds[fd]
      i == ofd.file_idx
      size == superblock_ram[i].size
  IN  /\ fs_buffer' = [fs_buffer EXCEPT ![ofd.pos + 1] = c]
      /\ open_fds' = [open_fds EXCEPT ![fd].pos = @ + 1, ![fd].dirty = TRUE]
      /\ superblock_ram' = [superblock_ram EXCEPT ![i].size = Larger(size, ofd.pos + 1)]
      /\ Unsettles(i)
      /\ draft' = [draft EXCEPT ![c] = [k \in 1..Larger(Len(@), ofd.pos + 1) |->
                                          IF k = ofd.pos + 1 THEN c ELSE @[k]]]

\* Mutant: the write is not clamped to the sector.
fs_writeUnclamped(c) ==
  /\ Enters(c, "write")
  /\ IF Writing(open_fds[call[c][2]].mode) THEN Writes(c, call[c][2])
     ELSE UNCHANGED <<fs_buffer, open_fds, superblock_ram, limbo, draft>>
  /\ call' = [call EXCEPT ![c] = None]
  /\ UNCHANGED <<fs_mutex, scratch_owner, flash, handle, todo, rc, failures, store>>

fs_write(c) ==
  LET ofd == open_fds[call[c][2]]
  IN  /\ Enters(c, "write")
      /\ IF Writing(ofd.mode) /\ ofd.pos < FS_MAX_FILE_DATA THEN Writes(c, call[c][2])
         ELSE UNCHANGED <<fs_buffer, open_fds, superblock_ram, limbo, draft>>
      /\ call' = [call EXCEPT ![c] = None]
      /\ UNCHANGED <<fs_mutex, scratch_owner, flash, handle, todo, rc, failures, store>>

\* Mutant: an fd that wrote nothing keeps the buffer claimed.
ReleasesIfDirty(c, fd) ==
  /\ scratch_owner' = IF open_fds[fd].dirty THEN None ELSE scratch_owner
  /\ open_fds' = [open_fds EXCEPT ![fd].used = FALSE, ![fd].dirty = FALSE]
  /\ handle' = [handle EXCEPT ![c] = None]

\* The end of fs_close(): the write buffer and the fd are free.
Releases(c, fd) ==
  LET ofd == open_fds[fd]
      owns == Writing(ofd.mode) /\ scratch_owner = ofd.file_idx
  IN  /\ scratch_owner' = IF ofd.dirty \/ owns THEN None ELSE scratch_owner
      /\ open_fds' = [open_fds EXCEPT ![fd].used = FALSE, ![fd].dirty = FALSE]
      /\ handle' = [handle EXCEPT ![c] = None]

CloseClean(c) ==
  LET fd == call[c][2]
  IN  /\ Enters(c, "close") /\ ~open_fds[fd].dirty
      /\ Releases(c, fd)
      /\ call' = [call EXCEPT ![c] = None]
      /\ draft' = [draft EXCEPT ![c] = <<>>]
      /\ UNCHANGED <<fs_mutex, superblock_ram, fs_buffer, flash, todo, rc, failures, store, limbo>>

\* What fs_close() writes of a file that was written to.
Commit(i) == <<Erase(DataSector(i)), Program(DataSector(i))>> \o superblock_flush

CloseCommits(c) ==
  LET fd == call[c][2]
      i == open_fds[fd].file_idx
  IN  /\ Enters(c, "close") /\ open_fds[fd].dirty
      /\ Starts(c, call[c], Commit(i))
      /\ limbo' = limbo \union {i}
      /\ UNCHANGED <<ram, store, draft>>

CloseCommitted(c) ==
  LET fd == call[c][2]
      i == open_fds[fd].file_idx
  IN  /\ Finished(c, "close")
      /\ Releases(c, fd)
      /\ IF rc THEN Settles(i, [name |-> superblock_ram[i].name, data |-> draft[c]])
         ELSE UNCHANGED <<store, limbo>>
      /\ draft' = [draft EXCEPT ![c] = <<>>]
      /\ Leaves(c)
      /\ UNCHANGED <<superblock_ram, fs_buffer>>
-----------------------------------------------------------------------------
(* fs_delete() and fs_format()                                             *)

MayClose(i) == Deletes = "any" \/ OpenOn(i) = {}

\* Every fd of these files is closed, without their owners.
ForceClosed(files) ==
  [fd \in Fd |-> IF open_fds[fd].file_idx \in files
                 THEN [open_fds[fd] EXCEPT !.used = FALSE, !.dirty = FALSE] ELSE open_fds[fd]]

DeleteBegins(c, name) ==
  LET i == Min(find_file(name))
  IN  /\ Idle(c) /\ fs_mutex = None
      /\ find_file(name) # {} /\ MayClose(i)
      /\ open_fds' = ForceClosed({i})
      /\ scratch_owner' = IF scratch_owner = i THEN None ELSE scratch_owner
      /\ superblock_ram' = [superblock_ram EXCEPT ![i] = FreeEntry]
      /\ limbo' = limbo \union {i}
      /\ Starts(c, <<"delete", i>>, <<Erase(DataSector(i))>> \o superblock_flush)
      /\ UNCHANGED <<fs_buffer, store, draft>>

DeleteEnds(c) ==
  LET i == call[c][2]
  IN  /\ Finished(c, "delete")
      /\ IF rc THEN Settles(i, None) ELSE UNCHANGED <<store, limbo>>
      /\ Leaves(c)
      /\ UNCHANGED <<ram, handle, draft>>

\* The mirror is cleared after the erases in the code; nobody sees it before.
FormatBegins(c) ==
  /\ Idle(c) /\ fs_mutex = None /\ \A i \in File : MayClose(i)
  /\ open_fds' = ForceClosed(File)
  /\ scratch_owner' = None
  /\ superblock_ram' = EmptyTable
  /\ limbo' = File
  /\ Starts(c, <<"format">>, [s \in 1..FS_MAX_FILES+1 |-> Erase(s - 1)] \o superblock_flush)
  /\ UNCHANGED <<fs_buffer, store, draft>>

FormatEnds(c) ==
  /\ Finished(c, "format")
  /\ IF rc THEN store' = [i \in File |-> None] /\ limbo' = {}
     ELSE UNCHANGED <<store, limbo>>
  /\ Leaves(c)
  /\ UNCHANGED <<ram, handle, draft>>
-----------------------------------------------------------------------------
\* Power is lost and fs_init() runs: it mounts the table on flash, or formats
\* a chip that has none.  Nothing runs beside it, and what it finds is what
\* the files now are: SettledOnFlash says how that relates to what they were.
PowerCycle ==
  /\ fs_mutex' = None /\ todo' = <<>> /\ rc' = TRUE /\ failures' = 0
  /\ call' = [c \in Client |-> None] /\ handle' = [c \in Client |-> None]
  /\ fs_buffer' = Filled(Zero) /\ scratch_owner' = None
  /\ open_fds' = [fd \in Fd |-> ClosedFd]
  /\ draft' = [c \in Client |-> <<>>]
  /\ IF flash_sb # None THEN superblock_ram' = flash_sb /\ UNCHANGED sector
     ELSE superblock_ram' = EmptyTable /\ sector' = [i \in File |-> Filled(Blank)]
  /\ flash_sb' = superblock_ram'
  /\ store' = [i \in File |-> Content(superblock_ram'[i], sector'[i])] /\ limbo' = {}

Operation(c) ==
  \/ \E name \in Name, mode \in ModesOf[c] : OpenCreates(c, name, mode) \/ OpenFound(c, name, mode)
  \/ c \in Remover /\ (FormatBegins(c) \/ \E name \in Name : DeleteBegins(c, name))
  \/ OpenCreated(c) \/ DeleteEnds(c) \/ FormatEnds(c)
  \/ handle[c] # None /\ \E what \in {"read", "write", "close"} : Tests(c, what, handle[c])
  \/ fs_read(c) \/ fs_write(c)
  \/ CloseClean(c) \/ CloseCommits(c) \/ CloseCommitted(c)

FsNext == (\E c \in Client : Operation(c)) \/ FlashDone \/ FlashFailed \/ PowerCycle

FsSpec == FsInit /\ [][FsNext]_fvars
-----------------------------------------------------------------------------
Entry == [name : Name \union {None}, size : 0..FS_MAX_FILE_DATA]
Datum == Client \union {Blank, Zero}
Contents == [name : Name, data : UNION {[1..n -> Datum] : n \in 0..FS_MAX_FILE_DATA}]

FsTypeOK ==
  /\ fs_mutex \in Client \union {None}
  /\ superblock_ram \in [File -> Entry] /\ flash_sb \in [File -> Entry] \union {None}
  /\ fs_buffer \in [Cell -> Datum] /\ sector \in [File -> [Cell -> Datum]]
  /\ scratch_owner \in File \union {None}
  /\ open_fds \in [Fd -> [used : BOOLEAN, dirty : BOOLEAN, file_idx : File,
                           pos : 0..FS_MAX_FILE_DATA, mode : SUBSET Flag]]
  /\ handle \in [Client -> Fd \union {None}]
  /\ rc \in BOOLEAN /\ limbo \subseteq File
  /\ store \in [File -> Contents \union {None}]

\* While nobody is in the filesystem, the write buffer is claimed for a file
\* exactly while one fd is open for writing, and that on this file: no open,
\* close, delete, failed flash operation or lack of fds leaks the claim or
\* gives the buffer to two.
BufferHasOneWriter ==
  LET writers == {fd \in Fd : open_fds[fd].used /\ Writing(open_fds[fd].mode)}
  IN  fs_mutex = None =>
        IF scratch_owner = None THEN writers = {}
        ELSE \E fd \in Fd : writers = {fd} /\ open_fds[fd].file_idx = scratch_owner

\* A file that has no change under way reads as its last writer meant it when
\* the close returned 0, whatever others create, write, delete or fail at ...
SettledInRam ==
  \A i \in File \ limbo : Content(superblock_ram[i], sector[i]) = store[i]

\* ... and would still do so after a power loss now, unless the sector of the
\* superblock is erased at this moment.
SettledOnFlash ==
  flash_sb # None =>
    \A i \in File \ limbo : Content(flash_sb[i], sector[i]) = store[i]

\* In RAM and on flash, at every step: creating, deleting or formatting flushes
\* the whole mirror, a truncating open and a failed flash operation change it
\* half way, and no other file may ever show it.
Settled == SettledInRam /\ SettledOnFlash

\* A reader of the file that is open for writing sees what is written to it.
InProgressVisible ==
  \A fd \in Fd :
    open_fds[fd].used /\ fs_mutex = None /\ open_fds[fd].file_idx = scratch_owner
      => View(fd) = SubSeq(fs_buffer, open_fds[fd].pos + 1, superblock_ram[scratch_owner].size)
=============================================================================
