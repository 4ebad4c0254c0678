----------------------------- MODULE VfsProofs -----------------------------
(***************************************************************************)
(* The files and the two tables of open files, for any number of clients,  *)
(* files, fds and cells, flash operations that fail and power lost between *)
(* any two of them, while no open file is deleted.                         *)
(*                                                                         *)
(* FsInv is inductive for the filesystem.  What it adds to the properties: *)
(* who has fs_mutex and what the mirror says of the file it works on; that *)
(* the flash operations still to do concern only files in limbo and end    *)
(* with the whole mirror, so when they all went well the table on flash is *)
(* the mirror; how far a close has come, the data before the table; and    *)
(* that a writer's draft is the head of the write buffer.  A file leaves   *)
(* limbo at the end of such an operation only.                             *)
(*                                                                         *)
(* VInv is the VFS's on top: only the holder of vfs_lock is in the         *)
(* filesystem, and the two tables agree also in the middle of its call.    *)
(* An operation of the filesystem keeps the fds in use, takes one that was *)
(* free or gives the caller's back (Kept, Got, Gave), and what the VFS     *)
(* does to its entries matches.                                            *)
(***************************************************************************)
EXTENDS Vfs, SequenceTheorems, WellFoundedInduction, TLAPS

-----------------------------------------------------------------------------
(* The inductive invariant of the filesystem *)

Op  == {"erase", "program"} \X (0..FS_MAX_FILES)
Doing(c) == IF call[c] = None THEN "nothing" ELSE call[c][1]

\* The types FsTypeOK leaves out.
CallTypeOK == /\ call \in [Client -> FsCall \union {None}]
              /\ draft \in [Client -> Seq(Datum)]
              /\ todo \in Seq(Op)

InUse == {fd \in Fd : open_fds[fd].used}

\* A client's fd is its own, and the one its call is about.
Handles == \A c \in Client :
  /\ handle[c] # None => open_fds[handle[c]].used
  /\ \A d \in Client : handle[c] = handle[d] /\ handle[c] # None => c = d
  /\ Doing(c) \in {"read", "write", "close"} => handle[c] = call[c][2]
  /\ Doing(c) = "open" => handle[c] = None

\* An fd in use names a file, and only a writer's is dirty.
Fds == \A fd \in Fd :
  /\ open_fds[fd].dirty => open_fds[fd].used /\ Writing(open_fds[fd].mode)
  /\ open_fds[fd].used => superblock_ram[open_fds[fd].file_idx].name # None

Writers == {fd \in Fd : open_fds[fd].used /\ Writing(open_fds[fd].mode)}

\* The write buffer is claimed for the one writer's file.
Claimed ==
  /\ \A fd \in Writers : open_fds[fd].file_idx = scratch_owner
  /\ \A fd, gd \in Writers : fd = gd
  /\ scratch_owner # None => Writers # {}

\* Who has fs_mutex, and what the mirror says of the file it works on.
MutexHeld(c) ==
  /\ Doing(c) \in {"open", "close", "delete", "format"}
  /\ Doing(c) = "open" =>
       /\ call[c][2] \in limbo
       /\ superblock_ram[call[c][2]].name # None /\ superblock_ram[call[c][2]].size = 0
  /\ Doing(c) = "close" =>
       /\ open_fds[call[c][2]].dirty
       /\ open_fds[call[c][2]].file_idx \in limbo
  /\ Doing(c) = "delete" => call[c][2] \in limbo /\ superblock_ram[call[c][2]] = FreeEntry
  /\ Doing(c) = "format" => limbo = File /\ superblock_ram = EmptyTable

Mutexed ==
  /\ fs_mutex = None => rc /\ todo = <<>>
  /\ fs_mutex # None => MutexHeld(fs_mutex)
  /\ \A c \in Client : Doing(c) \in {"open", "delete", "format"} => fs_mutex = c

\* Only files in limbo have flash operations ahead; the last of them all puts
\* the whole mirror on flash.
Flushes ==
  /\ \A k \in 1..Len(todo) : todo[k][2] # 0 => todo[k][2] - 1 \in limbo
  /\ todo # <<>> => todo[Len(todo)] = Program(0)
  /\ fs_mutex # None /\ rc /\ todo = <<>> => flash_sb = superblock_ram

\* How far a close has come: the data go first.
Commits(c) ==
  LET i == open_fds[call[c][2]].file_idx
  IN  \/ todo \in {Commit(i), <<Program(DataSector(i))>> \o superblock_flush}
      \/ /\ todo \in {superblock_flush, <<Program(0)>>, <<>>}
         /\ rc => sector[i] = fs_buffer

Committing == fs_mutex # None /\ Doing(fs_mutex) = "close" => Commits(fs_mutex)

\* The writer's draft is the head of the buffer, as long as the file.
Drafts == \A c \in Client :
  handle[c] # None /\ Writing(open_fds[handle[c]].mode) =>
    LET ofd  == open_fds[handle[c]]
        size == superblock_ram[ofd.file_idx].size
    IN  ofd.pos <= size /\ draft[c] = SubSeq(fs_buffer, 1, size)

\* A file out of limbo is in RAM and on flash what it durably is.
Durable == \A i \in File \ limbo :
  /\ flash_sb # None => flash_sb[i] = superblock_ram[i]
  /\ Content(superblock_ram[i], sector[i]) = store[i]

FsInv == /\ FsTypeOK /\ CallTypeOK /\ Handles /\ Fds /\ Claimed
         /\ Mutexed /\ Flushes /\ Committing /\ Drafts /\ Durable

-----------------------------------------------------------------------------
(* ... and of the VFS *)

Request(c) == {<<"open", path, mode>> : path \in PathsOf[c], mode \in ModesOf[c]}
                \union {<<"read">>, <<"write">>, <<"close">>}

\* A user is in the filesystem only inside a call of its own.
Asking ==
  /\ vfs_lock # None => asked \in Request(vfs_lock) /\ (asked[1] = "open" <=> vfd[vfs_lock] = None)
  /\ \A c \in VfsUser : call[c] # None => vfs_lock = c /\ Doing(c) = asked[1]
  /\ \A c \in VfsUser : Doing(c) = "open" => asked[2] \in Name /\ fd_alloc # {}

\* A user's entry is its own, and stands for its fd or for a device.
Owned == \A c \in VfsUser :
  /\ vfd[c] = None => handle[c] = None
  /\ vfd[c] # None => /\ fd_table[vfd[c]] # None
                      /\ IF handle[c] = None THEN fd_table[vfd[c]][1] = "device"
                         ELSE fd_table[vfd[c]] = OnFile(handle[c])
  /\ \A d \in VfsUser : vfd[c] = vfd[d] /\ vfd[c] # None => c = d

Entries == {v \in VFd : fd_table[v] # None /\ fd_table[v][1] = "file"}
FdOf(v) == fd_table[v][2]
Direct  == {handle[c] : c \in Client \ VfsUser}
\* The tables agree, also in the middle of a call.
Agree ==
  /\ \A v, w \in Entries : FdOf(v) = FdOf(w) => v = w
  /\ InUse = {FdOf(v) : v \in Entries} \union (Direct \ {None})
  /\ \A v \in Entries : FdOf(v) \notin Direct

VInv == VfsTypeOK /\ Asking /\ Owned /\ Agree
-----------------------------------------------------------------------------
(* Constants, least elements and heads of sectors *)

LEMMA Nones ==
  /\ None \notin File \union Fd \union VFd \union Client \union Name \union FsCall
  /\ File \subseteq Nat /\ Fd \subseteq Nat
BY FsAssumption, NoneAssumption DEF File, Fd, VFd

\* What a client in the middle of a call is doing.
LEMMA Shapes ==
  ASSUME CallTypeOK, NEW c \in Client
  PROVE  /\ Doing(c) = "nothing" <=> call[c] = None
         /\ call[c] # None => Doing(c) = call[c][1]
         /\ Doing(c) = "open" => \E i \in File, mode \in SUBSET Flag : call[c] = <<"open", i, mode>>
         /\ \A what \in {"read", "write", "close"} :
              Doing(c) = what => \E fd \in Fd : call[c] = <<what, fd>>
         /\ Doing(c) = "delete" => \E i \in File : call[c] = <<"delete", i>>
         /\ Doing(c) = "format" => call[c] = <<"format">>
<1>1. CASE call[c] = None
  BY <1>1 DEF Doing
<1>2. CASE call[c] # None
  <2>1. Doing(c) = call[c][1] /\ call[c] \in FsCall
    BY <1>2 DEF CallTypeOK, Doing
  <2>2. ASSUME NEW i \in File, NEW mode \in SUBSET Flag, call[c] = <<"open", i, mode>>
        PROVE  Doing(c) = "open"
    BY <2>1, <2>2
  <2>3. ASSUME NEW what \in {"read", "write", "close"}, NEW fd \in Fd, call[c] = <<what, fd>>
        PROVE  Doing(c) = what
    BY <2>1, <2>3
  <2>4. ASSUME NEW i \in File, call[c] = <<"delete", i>>
        PROVE  Doing(c) = "delete"
    BY <2>1, <2>4
  <2>5. CASE call[c] = <<"format">>
    BY <1>2, <2>1, <2>5
  <2>6. CASE \E i \in File, mode \in SUBSET Flag : call[c] = <<"open", i, mode>>
    BY <1>2, <2>1, <2>2, <2>6
  <2>7. CASE \E what \in {"read", "write", "close"}, fd \in Fd : call[c] = <<what, fd>>
    BY <1>2, <2>1, <2>3, <2>7
  <2>8. CASE \E i \in File : call[c] = <<"delete", i>>
    BY <1>2, <2>1, <2>4, <2>8
  <2>9. \/ \E i \in File, mode \in SUBSET Flag : call[c] = <<"open", i, mode>>
        \/ \E what \in {"read", "write", "close"}, fd \in Fd : call[c] = <<what, fd>>
        \/ \E i \in File : call[c] = <<"delete", i>>
        \/ call[c] = <<"format">>
    BY <2>1 DEF FsCall
  <2>. QED BY <2>5, <2>6, <2>7, <2>8, <2>9
<1>. QED BY <1>1, <1>2

\* Min() is the least number of a set: fs_open()'s loops find the first.
LEMMA MinNat ==
  ASSUME NEW S \in SUBSET Nat, S # {}
  PROVE  Min(S) \in S /\ \A y \in S : Min(S) <= y
<1>1. \E x \in S : \A y \in S : x <= y
  <2> DEFINE R == {ss \in Nat \X Nat : ss[1] < ss[2]}
  <2>1. IsWellFoundedOn(R, Nat)
    BY NatLessThanWellFounded DEF OpToRel
  <2>2. PICK x \in S : \A y \in S : <<y, x>> \notin R
    <3> HIDE DEF R
    <3>. QED BY <2>1, WFMin
  <2>3. \A y \in S : y \in Nat /\ x \in Nat /\ ~(y < x)
    BY <2>2
  <2>. QED BY <2>3
<1>. QED BY <1>1 DEF Min

LEMMA Found ==
  ASSUME FsTypeOK
  PROVE  /\ \A name \in Name : find_file(name) # {} =>
              /\ Min(find_file(name)) \in File
              /\ superblock_ram[Min(find_file(name))].name = name
         /\ FreeFiles # {} => /\ Min(FreeFiles) \in File
                              /\ superblock_ram[Min(FreeFiles)].name = None
         /\ FreeFds # {} => Min(FreeFds) \in Fd /\ ~open_fds[Min(FreeFds)].used
<1>1. \A S \in SUBSET Nat : S # {} => Min(S) \in S
  BY MinNat
<1>2. FreeFds \in SUBSET Nat /\ FreeFiles \in SUBSET Nat
        /\ \A name \in Name : find_file(name) \in SUBSET Nat
  BY Nones DEF FreeFds, FreeFiles, find_file
<1>. QED BY <1>1, <1>2 DEF FreeFds, FreeFiles, find_file

\* The head of a sector, as long as a file.
LEMMA Heads ==
  ASSUME NEW cells \in [Cell -> Datum], NEW n \in 0..FS_MAX_FILE_DATA
  PROVE  LET head == SubSeq(cells, 1, n) IN
         /\ head \in Seq(Datum) /\ head \in [1..n -> Datum] /\ Len(head) = n
         /\ \A k \in 1..n : head[k] = cells[k]
<1> DEFINE head == SubSeq(cells, 1, n)
<1>1. \A k \in 1..n : cells[k] \in Datum
  BY FsAssumption DEF Cell
<1>2. n \in Int /\ n \in Nat /\ 1 \in Int
  BY FsAssumption
<1>3. /\ head \in Seq(Datum) /\ Len(head) = IF 1 <= n THEN n - 1 + 1 ELSE 0
      /\ \A k \in 1..n - 1 + 1 : head[k] = cells[1 + k - 1]
  BY <1>1, <1>2, SubSeqProperties
<1>4. Len(head) = n
  BY <1>2, <1>3
<1>5. head \in [1..n -> Datum]
  BY <1>3, <1>4, LenProperties
<1>6. \A k \in 1..n : head[k] = cells[k]
  <2> TAKE k \in 1..n
  <2>1. k \in 1..n - 1 + 1 /\ 1 + k - 1 = k
    BY <1>2
  <2>. QED BY <1>3, <2>1
<1>. QED BY <1>3, <1>4, <1>5, <1>6

LEMMA ContentType ==
  ASSUME NEW entry \in Entry, NEW cells \in [Cell -> Datum]
  PROVE  Content(entry, cells) \in Contents \union {None}
<1>1. SubSeq(cells, 1, entry.size) \in [1..entry.size -> Datum]
  BY Heads DEF Entry
<1>. QED BY <1>1 DEF Content, Contents, Entry
-----------------------------------------------------------------------------
(* Steps of the filesystem, as the VFS makes them *)

\* A user is killed outside the filesystem: its fd is nobody's.
Forgets(c) ==
  /\ call[c] = None
  /\ handle' = [handle EXCEPT ![c] = None]
  /\ UNCHANGED <<fs_mutex, ram, flash, call, todo, rc, failures, ghost>>

FsStep == \/ \E c \in Client : Operation(c) \/ Forgets(c)
          \/ FlashDone \/ FlashFailed \/ PowerCycle

Types == FsTypeOK /\ CallTypeOK

LEMMA CommonTypes ==
  /\ Filled(Zero) \in [Cell -> Datum] /\ Filled(Blank) \in [Cell -> Datum]
  /\ EmptyTable \in [File -> Entry] /\ FreeEntry \in Entry /\ FreeEntry.size = 0
  /\ \A i \in File : Erase(DataSector(i)) \in Op /\ Program(DataSector(i)) \in Op
  /\ Erase(0) \in Op /\ Program(0) \in Op
  /\ superblock_flush \in Seq(Op) /\ <<>> \in Seq(Op) /\ <<>> \in Seq(Datum)
BY FsAssumption DEF Filled, Datum, EmptyTable, FreeEntry, Entry, Erase, Program, DataSector, Op, File,
  superblock_flush

FdRecord == [used : BOOLEAN, dirty : BOOLEAN, file_idx : File, pos : 0..FS_MAX_FILE_DATA, mode : SUBSET Flag]

FdsType == /\ open_fds \in [Fd -> FdRecord]
           /\ handle \in [Client -> Fd \union {None}]

RamType == /\ superblock_ram \in [File -> Entry]
           /\ fs_buffer \in [Cell -> Datum] /\ scratch_owner \in File \union {None}
           /\ draft \in [Client -> Seq(Datum)]
           /\ FdsType

\* From the claim of the buffer on an open keeps the types.
LEMMA OpensType ==
  ASSUME Types, NEW c \in Client, NEW i \in File, NEW mode \in SUBSET Flag, Opens(c, i, mode)
  PROVE  RamType'
<1>1. ASSUME NEW pos \in 0..FS_MAX_FILE_DATA, TakesFd(c, i, mode, pos)
      PROVE  FdsType'
  <2>1. Min(FreeFds) \in Fd
    BY <1>1, Found DEF TakesFd, Types
  <2>. QED BY <1>1, <2>1 DEF TakesFd, Types, FsTypeOK, FdsType, FdRecord
<1>2. NoFd => FdsType'
  BY DEF NoFd, Types, FsTypeOK, FdsType, FdRecord
<1>3. CASE OpensReader(c, i, mode)
  BY <1>1, <1>2, <1>3, FsAssumption DEF OpensReader, Types, FsTypeOK, CallTypeOK, RamType
<1>4. CASE OpenRefused(mode)
  BY <1>4 DEF OpenRefused, ram, Types, FsTypeOK, CallTypeOK, RamType, FdsType, FdRecord
<1>5. CASE OpensWriter(c, i, mode)
  <2> DEFINE size == IF "trunc" \in mode THEN 0 ELSE superblock_ram[i].size
  <2>1. size \in 0..FS_MAX_FILE_DATA /\ superblock_ram' = [superblock_ram EXCEPT ![i].size = size]
    BY <1>5, FsAssumption DEF OpensWriter, Types, FsTypeOK, Entry
  <2>2. superblock_ram' \in [File -> Entry]
    BY <2>1 DEF Types, FsTypeOK, Entry
  <2>3. fs_buffer' \in [Cell -> Datum]
    BY <1>5, CommonTypes DEF OpensWriter, Types, FsTypeOK
  <2>4. scratch_owner' \in File \union {None}
    BY <1>5 DEF OpensWriter, Types, FsTypeOK
  <2>5. SubSeq(sector[i], 1, size) \in Seq(Datum)
    BY <2>1, Heads DEF Types, FsTypeOK
  <2>6. draft' \in [Client -> Seq(Datum)]
    BY <1>5, <2>5 DEF OpensWriter, Types, CallTypeOK
  <2>7. FdsType'
    <3>1. CASE NoFd
      BY <1>2, <3>1
    <3>2. CASE ~NoFd
      <4>1. PICK pos \in 0..FS_MAX_FILE_DATA : TakesFd(c, i, mode, pos)
        <5>1. TakesFd(c, i, mode, IF "append" \in mode THEN size ELSE 0)
          BY <1>5, <3>2 DEF OpensWriter
        <5>. QED BY <2>1, <5>1, FsAssumption
      <4>. QED BY <1>1, <4>1
    <3>. QED BY <3>1, <3>2
  <2>. QED BY <2>2, <2>3, <2>4, <2>6, <2>7 DEF RamType
<1>. QED BY <1>3, <1>4, <1>5 DEF Opens
-----------------------------------------------------------------------------
(* Parts of the types, and of a step *)

CtlType   == /\ fs_mutex \in Client \union {None} /\ rc \in BOOLEAN /\ limbo \subseteq File
             /\ call \in [Client -> FsCall \union {None}] /\ todo \in Seq(Op)
FlashType == /\ flash_sb \in [File -> Entry] \union {None} /\ sector \in [File -> [Cell -> Datum]]
             /\ store \in [File -> Contents \union {None}]

LEMMA TypeParts == /\ Types <=> CtlType /\ RamType /\ FlashType
                   /\ Types' <=> CtlType' /\ RamType' /\ FlashType'
BY DEF Types, FsTypeOK, CallTypeOK, CtlType, RamType, FdsType, FdRecord, FlashType

\* Only c's call changes.
LEMMA Calls ==
  ASSUME Types, NEW c \in Client, NEW what \in FsCall \union {None}, call' = [call EXCEPT ![c] = what]
  PROVE  /\ call' \in [Client -> FsCall \union {None}]
         /\ call'[c] = what /\ Doing(c)' = IF what = None THEN "nothing" ELSE what[1]
         /\ \A d \in Client \ {c} : call'[d] = call[d] /\ Doing(d)' = Doing(d)
BY DEF Types, CallTypeOK, Doing
-----------------------------------------------------------------------------
(* Steps outside the operations *)

\* What is left to do after the first flash operation.
LEMMA Rest ==
  ASSUME Types, todo # <<>>
  PROVE  /\ Head(todo) = todo[1] /\ Head(todo) \in Op /\ Len(todo) \in Nat \ {0}
         /\ Tail(todo) \in Seq(Op) /\ Len(Tail(todo)) = Len(todo) - 1
         /\ \A k \in 1..Len(Tail(todo)) : Tail(todo)[k] = todo[k + 1] /\ k + 1 \in 1..Len(todo)
BY HeadTailProperties, EmptySeq, LenProperties DEF Types, CallTypeOK

\* What precedes a flush of the superblock.
LEMMA ConcatPairs ==
  ASSUME NEW a, NEW b, NEW c, NEW d
  PROVE  <<a>> \o <<c, d>> = <<a, c, d>> /\ <<a, b>> \o <<c, d>> = <<a, b, c, d>>
<1> DEFINE S == {a, b, c, d}
<1>1. <<a>> \in Seq(S) /\ <<a, b>> \in Seq(S) /\ <<c, d>> \in Seq(S)
        /\ <<a, c, d>> \in Seq(S) /\ <<a, b, c, d>> \in Seq(S)
  OBVIOUS
<1>2. /\ Len(<<a>>) = 1 /\ Len(<<a, b>>) = 2 /\ Len(<<c, d>>) = 2
      /\ Len(<<a, c, d>>) = 3 /\ Len(<<a, b, c, d>>) = 4
  OBVIOUS
<1>3. /\ <<a>> \o <<c, d>> \in Seq(S) /\ Len(<<a>> \o <<c, d>>) = 3
      /\ \A k \in 1..3 : (<<a>> \o <<c, d>>)[k] = IF k <= 1 THEN <<a>>[k] ELSE <<c, d>>[k - 1]
  BY <1>1, <1>2, ConcatProperties
<1>4. \A k \in 1..3 : (<<a>> \o <<c, d>>)[k] = <<a, c, d>>[k]
  BY <1>3
<1>5. /\ <<a, b>> \o <<c, d>> \in Seq(S) /\ Len(<<a, b>> \o <<c, d>>) = 4
      /\ \A k \in 1..4 : (<<a, b>> \o <<c, d>>)[k] = IF k <= 2 THEN <<a, b>>[k] ELSE <<c, d>>[k - 2]
  BY <1>1, <1>2, ConcatProperties
<1>6. \A k \in 1..4 : (<<a, b>> \o <<c, d>>)[k] = <<a, b, c, d>>[k]
  BY <1>5
<1>7. <<a>> \o <<c, d>> = <<a, c, d>>
  <2> HIDE DEF S
  <2>. QED BY <1>1, <1>2, <1>3, <1>4, SeqEqual
<1>8. <<a, b>> \o <<c, d>> = <<a, b, c, d>>
  <2> HIDE DEF S
  <2>. QED BY <1>1, <1>2, <1>5, <1>6, SeqEqual
<1>. QED BY <1>7, <1>8

LEMMA Tails ==
  ASSUME NEW a, NEW b, NEW c, NEW d
  PROVE  /\ Head(<<a>>) = a /\ Tail(<<a>>) = <<>>
         /\ Head(<<a, b>>) = a /\ Tail(<<a, b>>) = <<b>>
         /\ Head(<<a, b, c>>) = a /\ Tail(<<a, b, c>>) = <<b, c>>
         /\ Head(<<a, b, c, d>>) = a /\ Tail(<<a, b, c, d>>) = <<b, c, d>>
OBVIOUS

\* A commit, one flash operation after the other.
LEMMA CommitSeq ==
  ASSUME NEW i \in File
  PROVE  LET data == <<Program(DataSector(i))>> \o superblock_flush IN
         /\ Head(Commit(i)) = Erase(DataSector(i)) /\ Tail(Commit(i)) = data
         /\ Head(data) = Program(DataSector(i)) /\ Tail(data) = superblock_flush
         /\ Head(superblock_flush) = Erase(0) /\ Tail(superblock_flush) = <<Program(0)>>
         /\ Head(<<Program(0)>>) = Program(0) /\ Tail(<<Program(0)>>) = <<>>
<1> DEFINE data == <<Program(DataSector(i))>> \o superblock_flush
<1>1. /\ Commit(i) = <<Erase(DataSector(i)), Program(DataSector(i)), Erase(0), Program(0)>>
      /\ data = <<Program(DataSector(i)), Erase(0), Program(0)>>
      /\ superblock_flush = <<Erase(0), Program(0)>>
  BY ConcatPairs DEF Commit, superblock_flush
<1>2. Head(Commit(i)) = Erase(DataSector(i)) /\ Tail(Commit(i)) = data
  BY <1>1, Tails
<1>3. Head(data) = Program(DataSector(i)) /\ Tail(data) = superblock_flush
  <2>1. /\ Head(<<Program(DataSector(i)), Erase(0), Program(0)>>) = Program(DataSector(i))
        /\ Tail(<<Program(DataSector(i)), Erase(0), Program(0)>>) = <<Erase(0), Program(0)>>
    BY Tails
  <2>. QED BY <1>1, <2>1
<1>4. Head(superblock_flush) = Erase(0) /\ Tail(superblock_flush) = <<Program(0)>>
  BY DEF superblock_flush
<1>5. Head(<<Program(0)>>) = Program(0) /\ Tail(<<Program(0)>>) = <<>>
  BY Tails
<1>. QED BY <1>2, <1>3, <1>4, <1>5

\* What a new entry, a delete and a commit do to flash.
LEMMA FileOps ==
  ASSUME NEW i \in File,
         NEW ops \in {superblock_flush, <<Erase(DataSector(i))>> \o superblock_flush, Commit(i)}
  PROVE  /\ ops \in Seq(Op) /\ ops # <<>> /\ ops[Len(ops)] = Program(0)
         /\ \A k \in 1..Len(ops) : ops[k][2] # 0 => ops[k][2] - 1 = i
<1>1. \/ ops = <<Erase(0), Program(0)>>
      \/ ops = <<Erase(DataSector(i)), Erase(0), Program(0)>>
      \/ ops = <<Erase(DataSector(i)), Program(DataSector(i)), Erase(0), Program(0)>>
  BY ConcatPairs DEF Commit, superblock_flush
<1>2. {Erase(0), Program(0), Erase(DataSector(i)), Program(DataSector(i))} \subseteq Op
  BY CommonTypes
<1>3. /\ Erase(0)[2] = 0 /\ Program(0)[2] = 0
      /\ Erase(DataSector(i))[2] - 1 = i /\ Program(DataSector(i))[2] - 1 = i
  BY DEF Erase, Program, DataSector, File
<1>4. CASE ops = <<Erase(0), Program(0)>>
  BY <1>2, <1>3, <1>4
<1>5. CASE ops = <<Erase(DataSector(i)), Erase(0), Program(0)>>
  BY <1>2, <1>3, <1>5
<1>6. CASE ops = <<Erase(DataSector(i)), Program(DataSector(i)), Erase(0), Program(0)>>
  BY <1>2, <1>3, <1>6
<1>. QED BY <1>1, <1>4, <1>5, <1>6

FormatOps == [s \in 1..FS_MAX_FILES+1 |-> Erase(s - 1)] \o superblock_flush

LEMMA AllOps ==
  /\ FormatOps \in Seq(Op) /\ FormatOps # <<>> /\ FormatOps[Len(FormatOps)] = Program(0)
  /\ \A k \in 1..Len(FormatOps) : FormatOps[k][2] # 0 => FormatOps[k][2] - 1 \in File
<1> DEFINE erases == [s \in 1..FS_MAX_FILES+1 |-> Erase(s - 1)]
           n == FS_MAX_FILES + 1
<1>1. n \in Nat /\ n = FS_MAX_FILES + 1 /\ \A s \in 1..n : Erase(s - 1) \in Op
  BY FsAssumption DEF Erase, Op
<1>2. erases \in Seq(Op) /\ Len(erases) = n
  BY <1>1, LenProperties
<1>3. superblock_flush \in Seq(Op) /\ Len(superblock_flush) = 2 /\ superblock_flush[2] = Program(0)
  BY CommonTypes DEF superblock_flush
<1>4. /\ FormatOps \in Seq(Op) /\ Len(FormatOps) = n + 2
      /\ \A k \in 1..n + 2 : FormatOps[k] = IF k <= n THEN erases[k] ELSE superblock_flush[k - n]
  <2> HIDE DEF erases, n
  <2>1. erases \o superblock_flush = FormatOps
    BY DEF FormatOps, erases
  <2>2. LET m == Len(erases)
            l == Len(superblock_flush)
        IN  /\ FormatOps \in Seq(Op) /\ Len(FormatOps) = m + l
            /\ \A k \in 1..m + l : FormatOps[k] = IF k <= m THEN erases[k] ELSE superblock_flush[k - m]
    BY <1>2, <1>3, <2>1, ConcatProperties
  <2>. QED BY <1>2, <1>3, <2>2
<1>5. FormatOps[n + 2] = Program(0)
  BY <1>1, <1>3, <1>4
<1>6. FormatOps # <<>>
  <2>1. FormatOps = <<>> => Len(FormatOps) = 0
    BY <1>4, EmptySeq
  <2>. QED BY <1>1, <1>4, <2>1
<1>7. \A k \in 1..Len(FormatOps) : FormatOps[k] \in Op
  BY <1>4, LenProperties
<1>8. \A k \in 1..Len(FormatOps) : FormatOps[k][2] # 0 => FormatOps[k][2] - 1 \in File
  BY <1>7, FsAssumption DEF Op, File
<1>. QED BY <1>4, <1>5, <1>6, <1>8

\* Flash operations but for the first one still flush the mirror at the end.
LEMMA RestFlushes ==
  ASSUME FsInv, todo # <<>>, todo' = Tail(todo), limbo' = limbo
  PROVE  /\ \A k \in 1..Len(todo') : todo'[k][2] # 0 => todo'[k][2] - 1 \in limbo'
         /\ todo' # <<>> => todo'[Len(todo')] = Program(0)
         /\ todo' = <<>> => Head(todo) = Program(0)
<1>1. /\ \A k \in 1..Len(todo') : todo'[k] = todo[k + 1] /\ k + 1 \in 1..Len(todo)
      /\ Len(todo') = Len(todo) - 1 /\ todo' \in Seq(Op) /\ Len(todo) \in Nat \ {0}
  BY Rest DEF FsInv, Types
<1>2. \A k \in 1..Len(todo') : todo'[k][2] # 0 => todo'[k][2] - 1 \in limbo'
  BY <1>1 DEF FsInv, Flushes
<1>3. todo[Len(todo)] = Program(0)
  BY DEF FsInv, Flushes
<1>4. ASSUME todo' # <<>>
      PROVE  todo'[Len(todo')] = Program(0)
  <2>1. Len(todo') \in 1..Len(todo') /\ Len(todo') + 1 = Len(todo)
    BY <1>1, <1>4, EmptySeq
  <2>. QED BY <1>1, <1>3, <2>1
<1>5. ASSUME todo' = <<>>
      PROVE  Head(todo) = Program(0)
  <2>1. Len(todo) = 1
    <3>1. Len(todo') = 0
      BY <1>1, <1>5, EmptySeq
    <3>. QED BY <1>1, <3>1
  <2>2. Head(todo) = todo[1]
    BY Rest DEF FsInv, Types
  <2>. QED BY <1>3, <2>1, <2>2
<1>. QED BY <1>2, <1>4, <1>5

LEMMA ForgetsStep ==
  ASSUME FsInv, NEW c \in Client, Forgets(c)
  PROVE  FsInv'
<1>1. UNCHANGED <<fs_mutex, superblock_ram, fs_buffer, scratch_owner, open_fds, flash_sb, sector, call,
                  todo, rc, failures, store, limbo, draft>>
  BY DEF Forgets, ram, flash, ghost
<1>2. /\ handle' \in [Client -> Fd \union {None}] /\ handle'[c] = None
      /\ \A d \in Client \ {c} : handle'[d] = handle[d]
  BY DEF Forgets, FsInv, FsTypeOK
<1>3. FsTypeOK' /\ CallTypeOK'
  BY <1>1, <1>2 DEF FsInv, FsTypeOK, CallTypeOK
<1>4. Handles'
  BY <1>1, <1>2 DEF Forgets, FsInv, Handles, Doing
<1>5. Fds' /\ Claimed' /\ Mutexed' /\ Flushes' /\ Committing' /\ Durable'
  BY <1>1 DEF FsInv, Fds, Claimed, Writers, Mutexed, MutexHeld, Doing, Flushes, Committing, Commits, Durable
<1>6. Drafts'
  BY <1>1, <1>2 DEF FsInv, Drafts
<1>. QED BY <1>3, <1>4, <1>5, <1>6 DEF FsInv

\* A flash operation takes the mirror or the buffer as it is, and touches only
\* files in limbo.
LEMMA FlashDoneStep ==
  ASSUME FsInv, FlashDone
  PROVE  FsInv'
<1>1. UNCHANGED <<fs_mutex, superblock_ram, fs_buffer, scratch_owner, open_fds, call, handle, rc, failures,
                  store, limbo, draft>>
  BY DEF FlashDone, ram, flash, ghost
<1>2. /\ todo # <<>> /\ todo' = Tail(todo) /\ Head(todo)[2] \in 0..FS_MAX_FILES
      /\ Head(todo)[1] \in {"erase", "program"} /\ Head(todo) = todo[1]
  BY Rest DEF FlashDone, Flashing, FsInv, Types, Op
<1>3. /\ \A k \in 1..Len(todo') : todo'[k][2] # 0 => todo'[k][2] - 1 \in limbo'
      /\ todo' # <<>> => todo'[Len(todo')] = Program(0)
      /\ todo' = <<>> => Head(todo) = Program(0)
  BY <1>1, <1>2, RestFlushes
<1>4. /\ fs_mutex # None /\ fs_mutex \in Client /\ MutexHeld(fs_mutex)
      /\ Doing(fs_mutex) = "close" => call[fs_mutex][2] \in Fd
  <2>1. fs_mutex \in Client /\ MutexHeld(fs_mutex)
    BY <1>2 DEF FsInv, Mutexed, FsTypeOK
  <2>2. Doing(fs_mutex) = "close" => \E fd \in Fd : call[fs_mutex] = <<"close", fd>>
    BY <2>1, Shapes DEF FsInv
  <2>. QED BY <2>1, <2>2, Nones
<1>5. Handles' /\ Fds' /\ Claimed' /\ Mutexed'
  BY <1>1, <1>4 DEF FsInv, Handles, Fds, Claimed, Writers, Mutexed, MutexHeld, Doing
<1>6. Drafts'
  BY <1>1 DEF FsInv, Drafts
<1>7. ASSUME Doing(fs_mutex) = "close"
      PROVE  \E i \in File : /\ i = open_fds[call[fs_mutex][2]].file_idx
                             /\ \/ todo \in {Commit(i), <<Program(DataSector(i))>> \o superblock_flush}
                                \/ /\ todo \in {superblock_flush, <<Program(0)>>}
                                   /\ rc => sector[i] = fs_buffer
  BY <1>2, <1>4, <1>7 DEF FsInv, Committing, Commits, FsTypeOK
<1>8. CASE Head(todo)[2] = 0
  <2>1. /\ flash_sb' = IF Head(todo) = Erase(0) THEN None ELSE superblock_ram
        /\ sector' = sector
    BY <1>8 DEF FlashDone
  <2>2. Types'
    BY <1>1, <1>2, <2>1, Rest DEF FsInv, Types, FsTypeOK, CallTypeOK
  <2>3. Flushes'
    BY <1>1, <1>3, <2>1 DEF Flushes, Program, Erase
  <2>4. Committing'
    <3>1. SUFFICES ASSUME Doing(fs_mutex) = "close"
                   PROVE  Commits(fs_mutex)'
      BY <1>1 DEF Committing, Doing
    <3>2. PICK i \in File : /\ i = open_fds[call[fs_mutex][2]].file_idx
                            /\ \/ todo \in {Commit(i), <<Program(DataSector(i))>> \o superblock_flush}
                               \/ /\ todo \in {superblock_flush, <<Program(0)>>}
                                  /\ rc => sector[i] = fs_buffer
      BY <1>7, <3>1
    <3>3. todo \in {superblock_flush, <<Program(0)>>} /\ (rc => sector[i] = fs_buffer)
      <4>1. Head(Commit(i))[2] # 0 /\ Head(<<Program(DataSector(i))>> \o superblock_flush)[2] # 0
        <5>1. DataSector(i) # 0
          BY DEF DataSector, File
        <5>2. Erase(DataSector(i))[2] = DataSector(i) /\ Program(DataSector(i))[2] = DataSector(i)
          BY DEF Erase, Program
        <5>. QED BY <5>1, <5>2, CommitSeq
      <4>. QED BY <1>8, <3>2, <4>1
    <3>4. todo' \in {<<Program(0)>>, <<>>}
      BY <1>2, <3>2, <3>3, CommitSeq
    <3>. QED BY <1>1, <2>1, <3>2, <3>3, <3>4 DEF Commits
  <2>5. Durable'
    BY <1>1, <2>1 DEF FsInv, Durable
  <2>. QED BY <1>5, <1>6, <2>2, <2>3, <2>4, <2>5 DEF FsInv, Types
<1>9. CASE Head(todo)[2] # 0
  <2>1. PICK i \in File : i = Head(todo)[2] - 1 /\ i \in limbo
    <3>1. 1 \in 1..Len(todo) /\ todo[1] = Head(todo)
      BY <1>2, Rest DEF FsInv, Types
    <3>2. Head(todo)[2] - 1 \in limbo
      BY <1>9, <3>1 DEF FsInv, Flushes
    <3>. QED BY <3>2 DEF FsInv, FsTypeOK
  <2>2. /\ flash_sb' = flash_sb
        /\ sector' = [sector EXCEPT ![i] = IF Head(todo) = Erase(i + 1) THEN Filled(Blank) ELSE fs_buffer]
    BY <1>2, <1>9, <2>1 DEF FlashDone
  <2>3. Types'
    BY <1>1, <1>2, <2>2, Rest, CommonTypes DEF FsInv, Types, FsTypeOK, CallTypeOK
  <2>4. Flushes'
    BY <1>1, <1>3, <1>9, <2>2 DEF Flushes, Program
  <2>5. Committing'
    <3>1. SUFFICES ASSUME Doing(fs_mutex) = "close"
                   PROVE  Commits(fs_mutex)'
      BY <1>1 DEF Committing, Doing
    <3>2. PICK j \in File : /\ j = open_fds[call[fs_mutex][2]].file_idx
                            /\ \/ todo \in {Commit(j), <<Program(DataSector(j))>> \o superblock_flush}
                               \/ /\ todo \in {superblock_flush, <<Program(0)>>}
                                  /\ rc => sector[j] = fs_buffer
      BY <1>7, <3>1
    <3>3. todo \in {Commit(j), <<Program(DataSector(j))>> \o superblock_flush}
      BY <1>9, <3>2, CommitSeq DEF Erase, Program
    <3>4. CASE todo = Commit(j)
      <4>1. todo' = <<Program(DataSector(j))>> \o superblock_flush
        BY <1>2, <3>4, CommitSeq
      <4>. QED BY <1>1, <3>2, <4>1 DEF Commits
    <3>5. CASE todo = <<Program(DataSector(j))>> \o superblock_flush
      <4>1. Head(todo) = Program(DataSector(j)) /\ todo' = superblock_flush
        BY <1>2, <3>5, CommitSeq
      <4>2. i = j /\ sector'[j] = fs_buffer
        BY <2>1, <2>2, <4>1 DEF Program, Erase, DataSector, File, FsInv, FsTypeOK
      <4>. QED BY <1>1, <3>2, <4>1, <4>2 DEF Commits
    <3>. QED BY <3>3, <3>4, <3>5
  <2>6. Durable'
    BY <1>1, <2>1, <2>2 DEF FsInv, FsTypeOK, Durable
  <2>. QED BY <1>5, <1>6, <2>3, <2>4, <2>5, <2>6 DEF FsInv, Types
<1>. QED BY <1>8, <1>9

\* A failed flash operation leaves its file in limbo, and ends all but a format.
LEMMA FlashFailedStep ==
  ASSUME FsInv, FlashFailed
  PROVE  FsInv'
<1>1. /\ UNCHANGED <<fs_mutex, superblock_ram, fs_buffer, scratch_owner, open_fds, flash_sb, sector, call,
                     handle, store, limbo, draft>>
      /\ rc' = FALSE /\ todo # <<>>
  BY DEF FlashFailed, Flashing, ram, flash, ghost
<1>2. /\ todo' = Tail(todo) /\ call[fs_mutex] = <<"format">> /\ Tail(todo) # <<>>
      \/ todo' = <<>>
  <2>1. Len(superblock_flush) = 2
    BY DEF superblock_flush
  <2>2. Len(todo) > 2 => Tail(todo) # <<>>
    <3>1. Len(Tail(todo)) = Len(todo) - 1 /\ Len(todo) \in Nat /\ Tail(todo) \in Seq(Op)
      BY <1>1, Rest DEF FsInv, Types
    <3>2. Tail(todo) = <<>> => Len(Tail(todo)) = 0
      BY <3>1, EmptySeq
    <3>. QED BY <3>1, <3>2
  <2>. QED BY <2>1, <2>2 DEF FlashFailed
<1>3. todo' \in Seq(Op)
  BY <1>1, <1>2, Rest, CommonTypes DEF FsInv, Types
<1>4. FsTypeOK' /\ CallTypeOK'
  BY <1>1, <1>3 DEF FsInv, FsTypeOK, CallTypeOK
<1>5. fs_mutex # None /\ fs_mutex \in Client /\ MutexHeld(fs_mutex)
  BY <1>1 DEF FsInv, Mutexed, FsTypeOK
<1>6. Handles' /\ Fds' /\ Claimed' /\ Mutexed'
  BY <1>1, <1>5 DEF FsInv, Handles, Fds, Claimed, Writers, Mutexed, MutexHeld, Doing
<1>7. Drafts' /\ Durable'
  BY <1>1 DEF FsInv, Drafts, Durable
<1>8. Flushes'
  <2>1. CASE todo' = <<>>
    BY <1>1, <2>1 DEF Flushes
  <2>2. CASE todo' = Tail(todo)
    BY <1>1, <2>2, RestFlushes DEF Flushes
  <2>. QED BY <1>2, <2>1, <2>2
<1>9. Committing'
  <2>1. Doing(fs_mutex) = "close" => todo' = <<>>
    BY <1>2 DEF Doing
  <2>. QED BY <1>1, <2>1 DEF Committing, Commits, Doing
<1>. QED BY <1>4, <1>6, <1>7, <1>8, <1>9 DEF FsInv

\* A mount starts from what is on flash.
LEMMA PowerCycleStep ==
  ASSUME FsInv, PowerCycle
  PROVE  FsInv'
<1>1. /\ fs_mutex' = None /\ todo' = <<>> /\ rc' = TRUE /\ scratch_owner' = None /\ limbo' = {}
      /\ call' = [c \in Client |-> None] /\ handle' = [c \in Client |-> None]
      /\ fs_buffer' = Filled(Zero) /\ open_fds' = [fd \in Fd |-> ClosedFd]
      /\ draft' = [c \in Client |-> <<>>] /\ flash_sb' = superblock_ram'
      /\ store' = [i \in File |-> Content(superblock_ram'[i], sector'[i])]
  BY DEF PowerCycle
<1>2. superblock_ram' \in [File -> Entry] /\ sector' \in [File -> [Cell -> Datum]]
  BY CommonTypes DEF PowerCycle, FsInv, FsTypeOK
<1>3. \A i \in File : Content(superblock_ram'[i], sector'[i]) \in Contents \union {None}
  BY <1>2, ContentType
<1>4. FlashType'
  BY <1>1, <1>2, <1>3 DEF FlashType
<1>5. CtlType'
  BY <1>1, CommonTypes DEF CtlType
<1>6. RamType'
  <2>1. ClosedFd \in [used : BOOLEAN, dirty : BOOLEAN, file_idx : File,
                      pos : 0..FS_MAX_FILE_DATA, mode : SUBSET Flag]
    BY FsAssumption DEF ClosedFd, File
  <2>. QED BY <1>1, <1>2, <2>1, CommonTypes DEF RamType, FdsType, FdRecord
<1>7. \A fd \in Fd : ~open_fds'[fd].used /\ ~open_fds'[fd].dirty
  BY <1>1 DEF ClosedFd
<1>8. \A c \in Client : call'[c] = None /\ handle'[c] = None /\ Doing(c)' = "nothing"
  BY <1>1 DEF Doing
<1>9. Handles'
  BY <1>8 DEF Handles
<1>10. Fds' /\ Claimed'
  BY <1>1, <1>7 DEF Fds, Claimed, Writers
<1>11. Mutexed' /\ Flushes' /\ Committing'
  BY <1>1, <1>8 DEF Mutexed, Flushes, Committing
<1>12. Drafts' /\ Durable'
  BY <1>1, <1>8 DEF Drafts, Durable
<1>. QED BY <1>4, <1>5, <1>6, <1>9, <1>10, <1>11, <1>12, TypeParts DEF FsInv, Types
-----------------------------------------------------------------------------
(* Reading, and testing an fd *)

LEMMA TestsStep ==
  ASSUME FsInv, NEW c \in Client, NEW what \in {"read", "write", "close"},
         handle[c] # None, Tests(c, what, handle[c])
  PROVE  FsInv'
<1>1. /\ UNCHANGED <<fs_mutex, superblock_ram, fs_buffer, scratch_owner, open_fds, flash_sb, sector,
                     handle, todo, rc, store, limbo, draft>>
      /\ call[c] = None /\ call' = [call EXCEPT ![c] = <<what, handle[c]>>]
  BY DEF Tests, Idle, ram, flash, ghost
<1>2. handle[c] \in Fd /\ <<what, handle[c]>> \in FsCall
  BY DEF FsInv, FsTypeOK, FsCall
<1>3. /\ call' \in [Client -> FsCall \union {None}]
      /\ call'[c] = <<what, handle[c]>> /\ Doing(c)' = what /\ Doing(c) = "nothing"
      /\ \A d \in Client \ {c} : call'[d] = call[d] /\ Doing(d)' = Doing(d)
  BY <1>1, <1>2, Nones, Calls DEF FsInv, Types, Doing
<1>4. FsTypeOK' /\ CallTypeOK'
  BY <1>1, <1>3 DEF FsInv, FsTypeOK, CallTypeOK
<1>5. Handles'
  BY <1>1, <1>3 DEF FsInv, Handles
<1>6. fs_mutex # c
  BY <1>3, Nones DEF FsInv, Mutexed, MutexHeld
<1>7. Fds' /\ Claimed' /\ Drafts' /\ Flushes' /\ Durable'
  BY <1>1 DEF FsInv, Fds, Claimed, Writers, Drafts, Flushes, Durable
<1>8. fs_mutex # None => fs_mutex \in Client \ {c}
  BY <1>6 DEF FsInv, FsTypeOK
<1>9. Mutexed'
  BY <1>1, <1>3, <1>8 DEF FsInv, Mutexed, MutexHeld
<1>10. Committing'
  BY <1>1, <1>3, <1>8 DEF FsInv, Committing, Commits
<1>. QED BY <1>4, <1>5, <1>7, <1>9, <1>10 DEF FsInv

\* c, in fs_mutex for its call, has its fd and no flash operation to wait for.
LEMMA Entered ==
  ASSUME FsInv, NEW c \in Client, NEW what \in {"read", "write", "close"}, Enters(c, what)
  PROVE  /\ fs_mutex = None /\ rc /\ todo = <<>> /\ Doing(c) = what
         /\ call[c][2] \in Fd /\ handle[c] = call[c][2] /\ open_fds[call[c][2]].used
         /\ open_fds[call[c][2]].file_idx \in File /\ open_fds[call[c][2]].pos \in 0..FS_MAX_FILE_DATA
<1>1. fs_mutex = None /\ rc /\ todo = <<>> /\ Doing(c) = what /\ call[c] # None
  BY DEF Enters, Doing, FsInv, Mutexed
<1>2. PICK fd \in Fd : call[c] = <<what, fd>>
  BY <1>1, Shapes DEF FsInv
<1>3. handle[c] = call[c][2] /\ call[c][2] \in Fd /\ handle[c] # None
  BY <1>1, <1>2, Nones DEF FsInv, Handles
<1>4. open_fds[call[c][2]].used
  BY <1>3 DEF FsInv, Handles
<1>. QED BY <1>1, <1>3, <1>4 DEF FsInv, FsTypeOK

\* An fd that is at most read further.
SameFd(fd) ==
  /\ open_fds'[fd].used = open_fds[fd].used /\ open_fds'[fd].dirty = open_fds[fd].dirty
  /\ open_fds'[fd].file_idx = open_fds[fd].file_idx /\ open_fds'[fd].mode = open_fds[fd].mode
  /\ \/ open_fds'[fd].pos = open_fds[fd].pos
     \/ open_fds'[fd].pos <= superblock_ram[open_fds[fd].file_idx].size

LEMMA ReadStep ==
  ASSUME FsInv, NEW c \in Client, fs_read(c)
  PROVE  FsInv'
<1> DEFINE fd == call[c][2]
<1>1. /\ UNCHANGED <<fs_mutex, superblock_ram, fs_buffer, scratch_owner, flash_sb, sector,
                     handle, todo, rc, store, limbo, draft>>
      /\ Enters(c, "read") /\ call' = [call EXCEPT ![c] = None]
      /\ open_fds' = IF View(fd) = <<>> THEN open_fds ELSE [open_fds EXCEPT ![fd].pos = @ + 1]
  BY DEF fs_read, flash, ghost
<1>2. /\ fs_mutex = None /\ fd \in Fd
      /\ open_fds[fd].file_idx \in File /\ open_fds[fd].pos \in 0..FS_MAX_FILE_DATA
  BY <1>1, Entered
<1>3. /\ call' \in [Client -> FsCall \union {None}] /\ Doing(c)' = "nothing"
      /\ \A d \in Client \ {c} : call'[d] = call[d] /\ Doing(d)' = Doing(d)
  BY <1>1, Calls DEF FsInv, Types
<1>4. \/ open_fds' = open_fds
      \/ /\ open_fds' = [open_fds EXCEPT ![fd].pos = open_fds[fd].pos + 1]
         /\ open_fds[fd].pos + 1 <= superblock_ram[open_fds[fd].file_idx].size
  <2> DEFINE ofd == open_fds[fd]
             source == IF ofd.file_idx = scratch_owner /\ ofd.dirty THEN fs_buffer ELSE sector[ofd.file_idx]
             size == superblock_ram[ofd.file_idx].size
  <2>1. View(fd) = SubSeq(source, ofd.pos + 1, size)
    BY DEF View
  <2>2. size \in Nat /\ ofd.pos + 1 \in Nat
    BY <1>2 DEF FsInv, FsTypeOK, Entry
  <2>3. ofd.pos + 1 > size => View(fd) = <<>>
    <3> HIDE DEF size, ofd, source
    <3>. QED BY <2>1, <2>2, SubSeqEmpty
  <2>. QED BY <1>1, <2>2, <2>3
<1>5. Types' /\ \A gd \in Fd : SameFd(gd)
  <2>1. CASE open_fds' = open_fds
    BY <1>1, <1>3, <2>1 DEF FsInv, Types, FsTypeOK, CallTypeOK, SameFd
  <2>2. CASE open_fds' # open_fds
    <3>1. open_fds[fd].pos + 1 \in 0..FS_MAX_FILE_DATA
      <4>1. superblock_ram[open_fds[fd].file_idx].size \in 0..FS_MAX_FILE_DATA
        BY <1>2 DEF FsInv, FsTypeOK, Entry
      <4>. QED BY <1>2, <1>4, <2>2, <4>1, FsAssumption
    <3>2. FdsType'
      <4>1. open_fds' = [open_fds EXCEPT ![fd].pos = open_fds[fd].pos + 1]
        BY <1>4, <2>2
      <4>. HIDE DEF fd
      <4>2. open_fds \in [Fd -> FdRecord]
        BY DEF FsInv, FsTypeOK, FdRecord
      <4>3. [open_fds[fd] EXCEPT !.pos = open_fds[fd].pos + 1] \in FdRecord
        BY <1>2, <3>1, <4>2 DEF FdRecord
      <4>4. open_fds' \in [Fd -> FdRecord]
        BY <1>2, <4>1, <4>2, <4>3
      <4>. QED BY <1>1, <4>4 DEF FsInv, FsTypeOK, FdsType
    <3>3. RamType' /\ CtlType' /\ FlashType'
      BY <1>1, <1>3, <3>2 DEF FsInv, FsTypeOK, CallTypeOK, RamType, CtlType, FlashType
    <3>4. /\ open_fds'[fd] = [open_fds[fd] EXCEPT !.pos = open_fds[fd].pos + 1]
          /\ \A gd \in Fd \ {fd} : open_fds'[gd] = open_fds[gd]
      BY <1>2, <1>4, <2>2 DEF FsInv, FsTypeOK
    <3>5. SameFd(fd)
      BY <1>2, <1>4, <2>2, <3>4 DEF SameFd, FsInv, FsTypeOK
    <3>6. \A gd \in Fd \ {fd} : SameFd(gd)
      BY <3>4 DEF SameFd
    <3>. QED BY <3>3, <3>5, <3>6, TypeParts
  <2>. QED BY <2>1, <2>2
<1>6. \A gd \in Fd :
        /\ open_fds'[gd].used = open_fds[gd].used /\ open_fds'[gd].dirty = open_fds[gd].dirty
        /\ open_fds'[gd].file_idx = open_fds[gd].file_idx /\ open_fds'[gd].mode = open_fds[gd].mode
        /\ \/ open_fds'[gd].pos = open_fds[gd].pos
           \/ open_fds'[gd].pos <= superblock_ram[open_fds[gd].file_idx].size
  BY <1>5 DEF SameFd
<1>7. Handles'
  <2>1. \A d \in Client : handle[d] # None => handle[d] \in Fd
    BY DEF FsInv, FsTypeOK
  <2>2. \A d \in Client : Doing(d)' = "nothing" \/ (Doing(d)' = Doing(d) /\ call'[d] = call[d])
    BY <1>3
  <2>. QED BY <1>1, <1>6, <2>1, <2>2 DEF FsInv, Handles
<1>8. Fds' /\ Claimed'
  <2>1. Fds'
    BY <1>1, <1>6 DEF FsInv, Fds
  <2>2. Writers' = Writers
    BY <1>6 DEF Writers
  <2>3. Claimed'
    BY <1>1, <1>6, <2>2 DEF FsInv, Claimed, Writers
  <2>. QED BY <2>1, <2>3
<1>9. Mutexed' /\ Flushes' /\ Committing'
  <2>1. fs_mutex' = None /\ \A d \in Client : Doing(d)' \in {Doing(d), "nothing"}
    BY <1>1, <1>2, <1>3
  <2>2. Mutexed'
    BY <1>1, <1>2, <2>1 DEF FsInv, Mutexed
  <2>3. Flushes'
    BY <1>1, <2>1 DEF FsInv, Flushes
  <2>. QED BY <2>1, <2>2, <2>3 DEF Committing
<1>10. Drafts'
  <2> SUFFICES ASSUME NEW d \in Client, handle[d] # None, Writing(open_fds'[handle[d]].mode)
               PROVE  LET ofd  == open_fds'[handle[d]]
                          size == superblock_ram[ofd.file_idx].size
                      IN  ofd.pos <= size /\ draft[d] = SubSeq(fs_buffer, 1, size)
    BY <1>1 DEF Drafts
  <2>1. handle[d] \in Fd
    BY DEF FsInv, FsTypeOK
  <2>2. Writing(open_fds[handle[d]].mode) /\ open_fds'[handle[d]].file_idx = open_fds[handle[d]].file_idx
    BY <1>6, <2>1
  <2>3. LET size == superblock_ram[open_fds[handle[d]].file_idx].size
        IN  open_fds[handle[d]].pos <= size /\ draft[d] = SubSeq(fs_buffer, 1, size)
    BY <2>2 DEF FsInv, Drafts
  <2>. QED BY <1>6, <2>1, <2>2, <2>3
<1>11. Durable'
  BY <1>1 DEF FsInv, Durable
<1>. QED BY <1>5, <1>7, <1>8, <1>9, <1>10, <1>11 DEF FsInv, Types

\* c's fd is free, and the buffer with it if c was the writer.
LEMMA ReleasesStep ==
  ASSUME FsInv, NEW c \in Client, handle[c] \in Fd, Releases(c, handle[c]),
         UNCHANGED superblock_ram, call' = [call EXCEPT ![c] = None]
  PROVE  /\ FdsType' /\ scratch_owner' \in File \union {None}
         /\ Handles' /\ Fds' /\ Claimed'
         /\ handle'[c] = None /\ \A d \in Client \ {c} : handle'[d] = handle[d]
         /\ \A gd \in Fd : gd # handle[c] => open_fds'[gd] = open_fds[gd]
         /\ \A d \in Client : Doing(d)' \in {Doing(d), "nothing"}
<1> DEFINE fd == handle[c]
<1>1. open_fds[fd].used /\ \A d \in Client : handle[d] = handle[c] => d = c
  BY Nones DEF FsInv, Handles
<1>2. /\ handle' = [handle EXCEPT ![c] = None]
      /\ open_fds' = [open_fds EXCEPT ![fd].used = FALSE, ![fd].dirty = FALSE]
      /\ scratch_owner' = IF open_fds[fd].dirty \/ (Writing(open_fds[fd].mode) /\ scratch_owner = open_fds[fd].file_idx)
                          THEN None ELSE scratch_owner
  BY DEF Releases
<1>3. FdsType' /\ scratch_owner' \in File \union {None}
  <2>1. open_fds' \in [Fd -> FdRecord]
    <3>1. open_fds \in [Fd -> FdRecord]
      BY DEF FsInv, FsTypeOK, FdRecord
    <3>2. [open_fds[fd] EXCEPT !.used = FALSE, !.dirty = FALSE] \in FdRecord
      BY <3>1 DEF FdRecord
    <3>. QED BY <1>2, <3>1, <3>2
  <2>2. handle' \in [Client -> Fd \union {None}]
    BY <1>2 DEF FsInv, FsTypeOK
  <2>3. scratch_owner' \in File \union {None}
    BY <1>2 DEF FsInv, FsTypeOK
  <2>. QED BY <2>1, <2>2, <2>3 DEF FdsType
<1>4. /\ ~open_fds'[fd].used /\ ~open_fds'[fd].dirty
      /\ \A gd \in Fd : gd # fd => open_fds'[gd] = open_fds[gd]
  BY <1>2 DEF FsInv, FsTypeOK
<1>5. handle'[c] = None /\ \A d \in Client \ {c} : handle'[d] = handle[d]
  BY <1>2 DEF FsInv, FsTypeOK
<1>6. /\ Doing(c)' = "nothing"
      /\ \A d \in Client \ {c} : call'[d] = call[d] /\ Doing(d)' = Doing(d)
  BY Calls DEF FsInv, Types
<1>7. Handles'
  <2>1. \A d \in Client \ {c} : handle[d] # None => handle[d] \in Fd /\ open_fds'[handle[d]] = open_fds[handle[d]]
    BY <1>1, <1>4 DEF FsInv, FsTypeOK
  <2>. QED BY <1>5, <1>6, <2>1 DEF FsInv, Handles
<1>8. Fds'
  BY <1>4 DEF FsInv, Fds
<1>9. Claimed'
  <2>1. Writers' = Writers \ {fd}
    BY <1>4 DEF Writers
  <2>2. CASE fd \in Writers
    <3>1. Writers = {fd} /\ scratch_owner = open_fds[fd].file_idx
      BY <2>2 DEF FsInv, Claimed, Writers
    <3>2. Writers' = {} /\ scratch_owner' = None
      BY <1>2, <2>1, <2>2, <3>1 DEF Writers
    <3>. QED BY <3>2 DEF Claimed
  <2>3. CASE fd \notin Writers
    <3>1. ~Writing(open_fds[fd].mode) /\ ~open_fds[fd].dirty
      BY <1>1, <2>3 DEF Writers, FsInv, Fds
    <3>2. Writers' = Writers /\ scratch_owner' = scratch_owner
      BY <1>2, <2>1, <2>3, <3>1
    <3>3. \A gd \in Writers : open_fds'[gd] = open_fds[gd]
      BY <1>4, <2>3 DEF Writers
    <3>. QED BY <3>2, <3>3 DEF FsInv, Claimed
  <2>. QED BY <2>2, <2>3
<1>. QED BY <1>3, <1>4, <1>5, <1>6, <1>7, <1>8, <1>9

\* What c gives up is not another writer's.
LEMMA OthersDrafts ==
  ASSUME FsInv, NEW c \in Client, handle[c] \in Fd, UNCHANGED <<superblock_ram, fs_buffer>>,
         handle'[c] = None, \A d \in Client \ {c} : handle'[d] = handle[d] /\ draft'[d] = draft[d],
         \A gd \in Fd : gd # handle[c] => open_fds'[gd] = open_fds[gd]
  PROVE  Drafts'
<1>1. \A d \in Client \ {c} : handle[d] # None => open_fds'[handle[d]] = open_fds[handle[d]]
  <2>1. \A d \in Client \ {c} : handle[d] # None => handle[d] \in Fd /\ handle[d] # handle[c]
    BY DEF FsInv, FsTypeOK, Handles
  <2>. QED BY <2>1
<1>. QED BY <1>1 DEF FsInv, Drafts

LEMMA CloseCleanStep ==
  ASSUME FsInv, NEW c \in Client, CloseClean(c)
  PROVE  FsInv'
<1>1. /\ UNCHANGED <<fs_mutex, superblock_ram, fs_buffer, flash_sb, sector, todo, rc, store, limbo>>
      /\ Enters(c, "close") /\ Releases(c, call[c][2])
      /\ call' = [call EXCEPT ![c] = None] /\ draft' = [draft EXCEPT ![c] = <<>>]
  BY DEF CloseClean, flash
<1>2. fs_mutex = None /\ handle[c] \in Fd /\ handle[c] = call[c][2]
  BY <1>1, Entered
<1>3. /\ FdsType' /\ scratch_owner' \in File \union {None}
      /\ Handles' /\ Fds' /\ Claimed'
      /\ handle'[c] = None /\ \A d \in Client \ {c} : handle'[d] = handle[d]
      /\ \A gd \in Fd : gd # handle[c] => open_fds'[gd] = open_fds[gd]
      /\ \A d \in Client : Doing(d)' \in {Doing(d), "nothing"}
  BY <1>1, <1>2, ReleasesStep
<1>4. /\ draft' \in [Client -> Seq(Datum)] /\ \A d \in Client \ {c} : draft'[d] = draft[d]
  BY <1>1, CommonTypes DEF FsInv, CallTypeOK
<1>5. call' \in [Client -> FsCall \union {None}]
  BY <1>1 DEF FsInv, CallTypeOK
<1>6. Types'
  <2>1. RamType' /\ CtlType' /\ FlashType'
    BY <1>1, <1>3, <1>4, <1>5 DEF FsInv, FsTypeOK, CallTypeOK, RamType, CtlType, FlashType
  <2>. QED BY <2>1, TypeParts
<1>7. Mutexed' /\ Flushes' /\ Committing'
  BY <1>1, <1>2, <1>3 DEF FsInv, Mutexed, Flushes, Committing
<1>8. Durable'
  BY <1>1 DEF FsInv, Durable
<1>9. Drafts'
  <2>1. \A d \in Client \ {c} : handle'[d] = handle[d] /\ draft'[d] = draft[d]
    BY <1>3, <1>4
  <2>. QED BY <1>1, <1>2, <1>3, <2>1, OthersDrafts
<1>. QED BY <1>3, <1>6, <1>7, <1>8, <1>9 DEF FsInv, Types
-----------------------------------------------------------------------------
(* Taking fs_mutex for flash operations *)

\* c takes fs_mutex, and nobody else is in an operation with flash ahead.
LEMMA StartsStep ==
  ASSUME FsInv, NEW c \in Client, NEW what \in FsCall, NEW ops, Starts(c, what, ops), fs_mutex = None
  PROVE  /\ fs_mutex' = c /\ c # None /\ todo' = ops /\ rc'
         /\ call' \in [Client -> FsCall \union {None}]
         /\ call'[c] = what /\ Doing(c)' = what[1]
         /\ \A d \in Client \ {c} : call'[d] = call[d] /\ Doing(d)' = Doing(d)
         /\ \A d \in Client : Doing(d)' \in {"open", "delete", "format"} => d = c
         /\ UNCHANGED <<flash_sb, sector, rc, handle>>
<1>1. /\ fs_mutex' = c /\ todo' = ops /\ UNCHANGED <<flash_sb, sector, rc, handle>>
      /\ call' = [call EXCEPT ![c] = what]
  BY DEF Starts, flash
<1>2. rc
  BY DEF FsInv, Mutexed
<1>3. /\ call' \in [Client -> FsCall \union {None}]
      /\ call'[c] = what /\ Doing(c)' = what[1]
      /\ \A d \in Client \ {c} : call'[d] = call[d] /\ Doing(d)' = Doing(d)
  BY <1>1, Nones, Calls DEF FsInv, Types
<1>4. \A d \in Client : Doing(d) \notin {"open", "delete", "format"}
  BY Nones DEF FsInv, Mutexed
<1>. QED BY <1>1, <1>2, <1>3, <1>4, Nones

LEMMA OpenCreatesStep ==
  ASSUME FsInv, NEW c \in Client, NEW name \in Name, NEW mode \in SUBSET Flag, OpenCreates(c, name, mode)
  PROVE  FsInv'
<1> DEFINE i == Min(FreeFiles)
           what == <<"open", i, mode>>
<1>1. /\ UNCHANGED <<fs_buffer, scratch_owner, open_fds, store, draft>>
      /\ fs_mutex = None /\ handle[c] = None /\ FreeFiles # {}
      /\ superblock_ram' = [superblock_ram EXCEPT ![i] = [name |-> Stored[name], size |-> 0]]
      /\ limbo' = limbo \union {i} /\ Starts(c, what, superblock_flush)
  BY DEF OpenCreates
<1>2. i \in File /\ superblock_ram[i].name = None
  BY <1>1, Found DEF FsInv
<1>. HIDE DEF i
<1>3. what \in FsCall /\ what[1] = "open" /\ what[2] = i
  BY <1>2 DEF FsCall
<1>. HIDE DEF what
<1>4. /\ fs_mutex' = c /\ c # None /\ todo' = superblock_flush /\ rc'
      /\ call' \in [Client -> FsCall \union {None}]
      /\ call'[c] = what /\ Doing(c)' = "open"
      /\ \A d \in Client \ {c} : call'[d] = call[d] /\ Doing(d)' = Doing(d)
      /\ \A d \in Client : Doing(d)' \in {"open", "delete", "format"} => d = c
      /\ UNCHANGED <<flash_sb, sector, rc, handle>>
  BY <1>1, <1>3, StartsStep
<1>5. /\ superblock_ram' \in [File -> Entry]
      /\ superblock_ram'[i].name # None /\ superblock_ram'[i].size = 0
      /\ \A j \in File \ {i} : superblock_ram'[j] = superblock_ram[j]
  <2>1. [name |-> Stored[name], size |-> 0] \in Entry /\ Stored[name] # None
    BY FsAssumption DEF Entry
  <2>. QED BY <1>1, <1>2, <2>1 DEF FsInv, FsTypeOK
<1>6. /\ todo' \in Seq(Op) /\ todo' # <<>> /\ todo'[Len(todo')] = Program(0)
      /\ \A k \in 1..Len(todo') : todo'[k][2] # 0 => todo'[k][2] - 1 = i
  BY <1>2, <1>4, FileOps
<1>7. limbo' \subseteq File
  BY <1>1, <1>2 DEF FsInv, FsTypeOK
<1>8. Types'
  <2>1. RamType' /\ CtlType' /\ FlashType'
    BY <1>1, <1>4, <1>5, <1>6, <1>7 DEF FsInv, FsTypeOK, CallTypeOK, RamType, FdsType, FdRecord, CtlType, FlashType
  <2>. QED BY <2>1, TypeParts
<1>9. Handles'
  BY <1>1, <1>4 DEF FsInv, Handles
<1>10. \A fd \in Fd : open_fds[fd].used => open_fds[fd].file_idx \in File \ {i}
  BY <1>2 DEF FsInv, FsTypeOK, Fds
<1>11. Fds'
  BY <1>1, <1>5, <1>10 DEF FsInv, Fds
<1>12. Claimed'
  BY <1>1 DEF FsInv, Claimed, Writers
<1>13. MutexHeld(c)'
  BY <1>1, <1>3, <1>4, <1>5 DEF MutexHeld
<1>14. Mutexed'
  BY <1>4, <1>13 DEF Mutexed
<1>15. Flushes'
  BY <1>1, <1>6 DEF Flushes
<1>16. Committing'
  BY <1>4 DEF Committing
<1>17. Drafts'
  <2>1. \A d \in Client : handle[d] # None => handle[d] \in Fd /\ open_fds[handle[d]].used
    BY DEF FsInv, FsTypeOK, Handles
  <2>2. \A d \in Client : handle[d] # None =>
          superblock_ram'[open_fds[handle[d]].file_idx] = superblock_ram[open_fds[handle[d]].file_idx]
    BY <1>5, <1>10, <2>1
  <2>. QED BY <1>1, <1>4, <2>2 DEF FsInv, Drafts
<1>18. Durable'
  BY <1>1, <1>4, <1>5 DEF FsInv, Durable
<1>. QED BY <1>8, <1>9, <1>11, <1>12, <1>14, <1>15, <1>16, <1>17, <1>18 DEF FsInv, Types

LEMMA CloseCommitsStep ==
  ASSUME FsInv, NEW c \in Client, CloseCommits(c)
  PROVE  FsInv'
<1> DEFINE i == open_fds[call[c][2]].file_idx
<1>1. /\ UNCHANGED <<superblock_ram, fs_buffer, scratch_owner, open_fds, store, draft>>
      /\ Enters(c, "close") /\ open_fds[call[c][2]].dirty
      /\ limbo' = limbo \union {i} /\ Starts(c, call[c], Commit(i))
  BY DEF CloseCommits, ram
<1>2. fs_mutex = None /\ i \in File /\ Doing(c) = "close" /\ call[c] # None
  BY <1>1, Entered DEF Enters
<1>3. call[c] \in FsCall /\ call[c][1] = "close"
  BY <1>2 DEF FsInv, CallTypeOK, Doing
<1>4. /\ fs_mutex' = c /\ c # None /\ todo' = Commit(i) /\ rc'
      /\ call' \in [Client -> FsCall \union {None}]
      /\ call'[c] = call[c] /\ Doing(c)' = "close"
      /\ \A d \in Client \ {c} : call'[d] = call[d] /\ Doing(d)' = Doing(d)
      /\ \A d \in Client : Doing(d)' \in {"open", "delete", "format"} => d = c
      /\ UNCHANGED <<flash_sb, sector, rc, handle>>
  BY <1>1, <1>2, <1>3, StartsStep
<1>. HIDE DEF i
<1>5. /\ todo' \in Seq(Op) /\ todo' # <<>> /\ todo'[Len(todo')] = Program(0)
      /\ \A k \in 1..Len(todo') : todo'[k][2] # 0 => todo'[k][2] - 1 = i
  BY <1>2, <1>4, FileOps
<1>6. limbo' \subseteq File
  BY <1>1, <1>2 DEF FsInv, FsTypeOK
<1>7. Types'
  <2>1. RamType' /\ CtlType' /\ FlashType'
    BY <1>1, <1>4, <1>5, <1>6 DEF FsInv, FsTypeOK, CallTypeOK, RamType, FdsType, FdRecord, CtlType, FlashType
  <2>. QED BY <2>1, TypeParts
<1>8. Handles'
  BY <1>1, <1>2, <1>4 DEF FsInv, Handles
<1>9. Fds' /\ Claimed' /\ Drafts'
  BY <1>1, <1>4 DEF FsInv, Fds, Claimed, Writers, Drafts
<1>10. Mutexed'
  <2>1. MutexHeld(c)'
    BY <1>1, <1>4 DEF MutexHeld, i
  <2>. QED BY <1>4, <2>1 DEF Mutexed
<1>11. Flushes'
  BY <1>1, <1>5 DEF Flushes
<1>12. Committing'
  BY <1>1, <1>4 DEF Committing, Commits, i
<1>13. Durable'
  BY <1>1, <1>4 DEF FsInv, Durable
<1>. QED BY <1>7, <1>8, <1>9, <1>10, <1>11, <1>12, <1>13 DEF FsInv, Types

\* While no open file is deleted, a delete finds nothing to close ...
LEMMA NothingToClose ==
  ASSUME FsInv, Deletes = "closed", NEW files \in SUBSET File, \A i \in files : MayClose(i)
  PROVE  /\ ForceClosed(files) = open_fds
         /\ scratch_owner \notin files
         /\ \A fd \in Fd : open_fds[fd].used => open_fds[fd].file_idx \notin files
<1>1. \A fd \in Fd : open_fds[fd].used => open_fds[fd].file_idx \notin files
  BY DEF MayClose, OpenOn
<1>2. ASSUME NEW fd \in Fd, open_fds[fd].file_idx \in files
      PROVE  [open_fds[fd] EXCEPT !.used = FALSE, !.dirty = FALSE] = open_fds[fd]
  <2>1. ~open_fds[fd].used /\ ~open_fds[fd].dirty
    BY <1>1, <1>2 DEF FsInv, Fds
  <2>. QED BY <2>1 DEF FsInv, FsTypeOK
<1>3. ForceClosed(files) = open_fds
  BY <1>2 DEF ForceClosed, FsInv, FsTypeOK
<1>4. scratch_owner \notin files
  <2>1. scratch_owner # None => \E fd \in Fd : open_fds[fd].used /\ open_fds[fd].file_idx = scratch_owner
    BY DEF FsInv, Claimed, Writers
  <2>. QED BY <1>1, <2>1, Nones
<1>. QED BY <1>1, <1>3, <1>4

LEMMA DeleteBeginsStep ==
  ASSUME FsInv, Deletes = "closed", NEW c \in Client, NEW name \in Name, DeleteBegins(c, name)
  PROVE  FsInv'
<1> DEFINE i == Min(find_file(name))
           what == <<"delete", i>>
           ops == <<Erase(DataSector(i))>> \o superblock_flush
<1>1. /\ UNCHANGED <<fs_buffer, store, draft>>
      /\ fs_mutex = None /\ call[c] = None /\ find_file(name) # {} /\ MayClose(i)
      /\ open_fds' = ForceClosed({i})
      /\ scratch_owner' = IF scratch_owner = i THEN None ELSE scratch_owner
      /\ superblock_ram' = [superblock_ram EXCEPT ![i] = FreeEntry]
      /\ limbo' = limbo \union {i} /\ Starts(c, what, ops)
  BY DEF DeleteBegins, Idle
<1>2. i \in File
  BY <1>1, Found DEF FsInv
<1>. HIDE DEF i
<1>3. what \in FsCall /\ what[1] = "delete" /\ what[2] = i
  BY <1>2 DEF FsCall
<1>. HIDE DEF what
<1>4. /\ fs_mutex' = c /\ c # None /\ todo' = ops /\ rc'
      /\ call' \in [Client -> FsCall \union {None}]
      /\ call'[c] = what /\ Doing(c)' = "delete"
      /\ \A d \in Client \ {c} : call'[d] = call[d] /\ Doing(d)' = Doing(d)
      /\ \A d \in Client : Doing(d)' \in {"open", "delete", "format"} => d = c
      /\ UNCHANGED <<flash_sb, sector, rc, handle>>
  BY <1>1, <1>3, StartsStep
<1>5. /\ todo' \in Seq(Op) /\ todo' # <<>> /\ todo'[Len(todo')] = Program(0)
      /\ \A k \in 1..Len(todo') : todo'[k][2] # 0 => todo'[k][2] - 1 = i
  BY <1>2, <1>4, FileOps
<1>. HIDE DEF ops
<1>6. /\ ForceClosed({i}) = open_fds /\ scratch_owner \notin {i}
      /\ \A fd \in Fd : open_fds[fd].used => open_fds[fd].file_idx \notin {i}
  BY <1>1, <1>2, NothingToClose
<1>7. UNCHANGED <<open_fds, scratch_owner>>
  BY <1>1, <1>6
<1>8. /\ superblock_ram' \in [File -> Entry] /\ superblock_ram'[i] = FreeEntry
      /\ \A j \in File \ {i} : superblock_ram'[j] = superblock_ram[j]
  BY <1>1, <1>2, CommonTypes DEF FsInv, FsTypeOK
<1>9. limbo' \subseteq File
  BY <1>1, <1>2 DEF FsInv, FsTypeOK
<1>10. Types'
  <2>1. RamType' /\ CtlType' /\ FlashType'
    BY <1>1, <1>4, <1>5, <1>7, <1>8, <1>9 DEF FsInv, FsTypeOK, CallTypeOK, RamType, FdsType, FdRecord, CtlType, FlashType
  <2>. QED BY <2>1, TypeParts
<1>11. Handles'
  BY <1>4, <1>7 DEF FsInv, Handles
<1>12. \A fd \in Fd : open_fds[fd].used => open_fds[fd].file_idx \in File \ {i}
  BY <1>6 DEF FsInv, FsTypeOK
<1>13. Fds'
  BY <1>7, <1>8, <1>12 DEF FsInv, Fds
<1>14. Claimed'
  BY <1>7 DEF FsInv, Claimed, Writers
<1>15. Mutexed'
  <2>1. MutexHeld(c)'
    BY <1>1, <1>3, <1>4, <1>8 DEF MutexHeld
  <2>. QED BY <1>4, <2>1 DEF Mutexed
<1>16. Flushes'
  BY <1>1, <1>5 DEF Flushes
<1>17. Committing'
  BY <1>4 DEF Committing
<1>18. Drafts'
  <2> SUFFICES ASSUME NEW d \in Client, handle[d] # None, Writing(open_fds[handle[d]].mode)
               PROVE  LET ofd  == open_fds[handle[d]]
                          size == superblock_ram'[ofd.file_idx].size
                      IN  ofd.pos <= size /\ draft[d] = SubSeq(fs_buffer, 1, size)
    BY <1>1, <1>4, <1>7 DEF Drafts
  <2>1. handle[d] \in Fd /\ open_fds[handle[d]].used
    BY DEF FsInv, FsTypeOK, Handles
  <2>2. superblock_ram'[open_fds[handle[d]].file_idx] = superblock_ram[open_fds[handle[d]].file_idx]
    BY <1>8, <1>12, <2>1
  <2>3. LET ofd  == open_fds[handle[d]]
            size == superblock_ram[ofd.file_idx].size
        IN  ofd.pos <= size /\ draft[d] = SubSeq(fs_buffer, 1, size)
    BY DEF FsInv, Drafts
  <2>. QED BY <2>2, <2>3
<1>19. Durable'
  BY <1>1, <1>4, <1>8 DEF FsInv, Durable
<1>. QED BY <1>10, <1>11, <1>13, <1>14, <1>15, <1>16, <1>17, <1>18, <1>19 DEF FsInv, Types

\* ... and neither does a format, which is for an idle filesystem then.
LEMMA FormatBeginsStep ==
  ASSUME FsInv, Deletes = "closed", NEW c \in Client, FormatBegins(c)
  PROVE  FsInv'
<1>1. /\ UNCHANGED <<fs_buffer, store, draft>>
      /\ fs_mutex = None /\ call[c] = None /\ \A i \in File : MayClose(i)
      /\ open_fds' = ForceClosed(File) /\ scratch_owner' = None
      /\ superblock_ram' = EmptyTable /\ limbo' = File
      /\ Starts(c, <<"format">>, FormatOps)
  BY DEF FormatBegins, Idle, FormatOps
<1>2. <<"format">> \in FsCall /\ <<"format">>[1] = "format"
  BY DEF FsCall
<1>3. /\ fs_mutex' = c /\ c # None /\ todo' = FormatOps /\ rc'
      /\ call' \in [Client -> FsCall \union {None}]
      /\ call'[c] = <<"format">> /\ Doing(c)' = "format"
      /\ \A d \in Client \ {c} : call'[d] = call[d] /\ Doing(d)' = Doing(d)
      /\ \A d \in Client : Doing(d)' \in {"open", "delete", "format"} => d = c
      /\ UNCHANGED <<flash_sb, sector, rc, handle>>
  <2>1. /\ fs_mutex' = c /\ c # None /\ todo' = FormatOps /\ rc'
        /\ call' \in [Client -> FsCall \union {None}]
        /\ call'[c] = <<"format">> /\ Doing(c)' = <<"format">>[1]
        /\ \A d \in Client \ {c} : call'[d] = call[d] /\ Doing(d)' = Doing(d)
        /\ \A d \in Client : Doing(d)' \in {"open", "delete", "format"} => d = c
        /\ UNCHANGED <<flash_sb, sector, rc, handle>>
    BY <1>1, <1>2, StartsStep
  <2>. QED BY <1>2, <2>1
<1>4. /\ ForceClosed(File) = open_fds /\ scratch_owner \notin File
      /\ \A fd \in Fd : open_fds[fd].used => open_fds[fd].file_idx \notin File
  BY <1>1, NothingToClose
<1>5. UNCHANGED <<open_fds, scratch_owner>> /\ \A fd \in Fd : ~open_fds[fd].used
  BY <1>1, <1>4 DEF FsInv, FsTypeOK
<1>6. Types'
  <2>1. RamType' /\ CtlType' /\ FlashType'
    BY <1>1, <1>3, <1>5, AllOps, CommonTypes
      DEF FsInv, FsTypeOK, CallTypeOK, RamType, FdsType, FdRecord, CtlType, FlashType
  <2>. QED BY <2>1, TypeParts
<1>7. Handles'
  BY <1>3, <1>5 DEF FsInv, Handles
<1>8. Fds' /\ Claimed'
  BY <1>5 DEF FsInv, Fds, Claimed, Writers
<1>9. Mutexed'
  <2>1. MutexHeld(c)'
    BY <1>1, <1>3 DEF MutexHeld
  <2>. QED BY <1>3, <2>1 DEF Mutexed
<1>10. Flushes'
  BY <1>1, <1>3, AllOps DEF Flushes
<1>11. Committing'
  BY <1>3 DEF Committing
<1>12. Drafts'
  <2>1. \A d \in Client : handle[d] = None
    BY <1>5 DEF FsInv, FsTypeOK, Handles
  <2>. QED BY <1>3, <2>1 DEF Drafts
<1>13. Durable'
  BY <1>1 DEF Durable
<1>. QED BY <1>6, <1>7, <1>8, <1>9, <1>10, <1>11, <1>12, <1>13 DEF FsInv, Types
-----------------------------------------------------------------------------
(* The flash operations are done *)

LEMMA FinishedBy ==
  ASSUME FsInv, NEW c \in Client, NEW what, Finished(c, what)
  PROVE  /\ fs_mutex = c /\ c # None /\ todo = <<>> /\ Doing(c) = what /\ MutexHeld(c)
         /\ rc => flash_sb = superblock_ram
  BY Nones DEF FsInv, Finished, Flashing, Doing, Mutexed, Flushes

\* c leaves the filesystem to itself.
LEMMA LeavesStep ==
  ASSUME FsInv, NEW c \in Client, fs_mutex = c, c # None, todo = <<>>, Leaves(c)
  PROVE  /\ Mutexed' /\ Flushes' /\ Committing'
         /\ call' \in [Client -> FsCall \union {None}] /\ Doing(c)' = "nothing"
         /\ \A d \in Client \ {c} : call'[d] = call[d] /\ Doing(d)' = Doing(d)
         /\ fs_mutex' = None /\ rc' = TRUE /\ UNCHANGED <<flash_sb, sector, todo>>
<1>1. /\ fs_mutex' = None /\ rc' = TRUE /\ UNCHANGED <<flash_sb, sector, todo>>
      /\ call' = [call EXCEPT ![c] = None]
  BY DEF Leaves, flash
<1>2. /\ call' \in [Client -> FsCall \union {None}] /\ Doing(c)' = "nothing"
      /\ \A d \in Client \ {c} : call'[d] = call[d] /\ Doing(d)' = Doing(d)
  BY <1>1, Calls DEF FsInv, Types
<1>3. \A d \in Client : Doing(d)' \notin {"open", "delete", "format"}
  BY <1>2 DEF FsInv, Mutexed
<1>4. Mutexed'
  BY <1>1, <1>3 DEF Mutexed
<1>5. Flushes' /\ Committing'
  BY <1>1 DEF Flushes, Committing
<1>. QED BY <1>1, <1>2, <1>4, <1>5

LEMMA DeleteEndsStep ==
  ASSUME FsInv, NEW c \in Client, DeleteEnds(c)
  PROVE  FsInv'
<1> DEFINE i == call[c][2]
<1>1. /\ UNCHANGED <<superblock_ram, fs_buffer, scratch_owner, open_fds, handle, draft>>
      /\ Finished(c, "delete") /\ Leaves(c)
      /\ IF rc THEN limbo' = limbo \ {i} /\ store' = [store EXCEPT ![i] = None]
         ELSE UNCHANGED <<store, limbo>>
  BY DEF DeleteEnds, Settles, ram
<1>2. /\ fs_mutex = c /\ c # None /\ todo = <<>> /\ Doing(c) = "delete" /\ MutexHeld(c)
      /\ rc => flash_sb = superblock_ram
  BY <1>1, FinishedBy
<1>3. i \in File /\ superblock_ram[i].name = None
  <2>1. \E j \in File : call[c] = <<"delete", j>>
    BY <1>2, Shapes DEF FsInv
  <2>. QED BY <1>2, <2>1 DEF MutexHeld, FreeEntry
<1>. HIDE DEF i
<1>4. /\ Mutexed' /\ Flushes' /\ Committing'
      /\ call' \in [Client -> FsCall \union {None}] /\ Doing(c)' = "nothing"
      /\ \A d \in Client \ {c} : call'[d] = call[d] /\ Doing(d)' = Doing(d)
      /\ fs_mutex' = None /\ rc' = TRUE /\ UNCHANGED <<flash_sb, sector, todo>>
  BY <1>1, <1>2, LeavesStep
<1>5. store' \in [File -> Contents \union {None}] /\ limbo' \subseteq File
  BY <1>1, <1>3 DEF FsInv, FsTypeOK
<1>6. Types'
  <2>1. RamType' /\ CtlType' /\ FlashType'
    BY <1>1, <1>4, <1>5 DEF FsInv, FsTypeOK, CallTypeOK, RamType, FdsType, FdRecord, CtlType, FlashType
  <2>. QED BY <2>1, TypeParts
<1>7. Handles'
  BY <1>1, <1>4 DEF FsInv, Handles
<1>8. Fds' /\ Claimed' /\ Drafts'
  BY <1>1 DEF FsInv, Fds, Claimed, Writers, Drafts
<1>9. Durable'
  <2>1. CASE rc
    <3>1. /\ flash_sb = superblock_ram /\ limbo' = limbo \ {i} /\ store' = [store EXCEPT ![i] = None]
      BY <1>1, <1>2, <2>1
    <3>2. store'[i] = Content(superblock_ram[i], sector[i])
      BY <1>3, <3>1 DEF Content, FsInv, FsTypeOK
    <3>3. \A j \in File \ {i} : store'[j] = store[j]
      BY <3>1 DEF FsInv, FsTypeOK
    <3>. QED BY <1>1, <1>4, <3>1, <3>2, <3>3 DEF FsInv, Durable
  <2>2. CASE ~rc
    BY <1>1, <1>4, <2>2 DEF FsInv, Durable
  <2>. QED BY <2>1, <2>2
<1>. QED BY <1>4, <1>6, <1>7, <1>8, <1>9 DEF FsInv, Types

LEMMA FormatEndsStep ==
  ASSUME FsInv, NEW c \in Client, FormatEnds(c)
  PROVE  FsInv'
<1>1. /\ UNCHANGED <<superblock_ram, fs_buffer, scratch_owner, open_fds, handle, draft>>
      /\ Finished(c, "format") /\ Leaves(c)
      /\ IF rc THEN store' = [i \in File |-> None] /\ limbo' = {} ELSE UNCHANGED <<store, limbo>>
  BY DEF FormatEnds, ram
<1>2. /\ fs_mutex = c /\ c # None /\ todo = <<>> /\ Doing(c) = "format" /\ MutexHeld(c)
      /\ rc => flash_sb = superblock_ram
  BY <1>1, FinishedBy
<1>3. superblock_ram = EmptyTable
  BY <1>2 DEF MutexHeld
<1>4. /\ Mutexed' /\ Flushes' /\ Committing'
      /\ call' \in [Client -> FsCall \union {None}] /\ Doing(c)' = "nothing"
      /\ \A d \in Client \ {c} : call'[d] = call[d] /\ Doing(d)' = Doing(d)
      /\ fs_mutex' = None /\ rc' = TRUE /\ UNCHANGED <<flash_sb, sector, todo>>
  BY <1>1, <1>2, LeavesStep
<1>5. store' \in [File -> Contents \union {None}] /\ limbo' \subseteq File
  BY <1>1 DEF FsInv, FsTypeOK
<1>6. Types'
  <2>1. RamType' /\ CtlType' /\ FlashType'
    BY <1>1, <1>4, <1>5 DEF FsInv, FsTypeOK, CallTypeOK, RamType, FdsType, FdRecord, CtlType, FlashType
  <2>. QED BY <2>1, TypeParts
<1>7. Handles'
  BY <1>1, <1>4 DEF FsInv, Handles
<1>8. Fds' /\ Claimed' /\ Drafts'
  BY <1>1 DEF FsInv, Fds, Claimed, Writers, Drafts
<1>9. Durable'
  <2>1. CASE rc
    <3>1. \A i \in File : Content(superblock_ram[i], sector[i]) = None
      BY <1>3 DEF Content, EmptyTable, FreeEntry
    <3>. QED BY <1>1, <1>2, <1>4, <2>1, <3>1 DEF Durable
  <2>2. CASE ~rc
    BY <1>1, <1>4, <2>2 DEF FsInv, Durable
  <2>. QED BY <2>1, <2>2
<1>. QED BY <1>4, <1>6, <1>7, <1>8, <1>9 DEF FsInv, Types

\* A commit that went well leaves the file as its writer's draft.
LEMMA CloseCommittedStep ==
  ASSUME FsInv, NEW c \in Client, CloseCommitted(c)
  PROVE  FsInv'
<1> DEFINE fd == call[c][2]
           i == open_fds[fd].file_idx
           content == [name |-> superblock_ram[i].name, data |-> draft[c]]
<1>1. /\ UNCHANGED <<superblock_ram, fs_buffer>>
      /\ Finished(c, "close") /\ Releases(c, fd) /\ Leaves(c)
      /\ draft' = [draft EXCEPT ![c] = <<>>]
      /\ IF rc THEN limbo' = limbo \ {i} /\ store' = [store EXCEPT ![i] = content]
         ELSE UNCHANGED <<store, limbo>>
  BY DEF CloseCommitted, Settles
<1>2. /\ fs_mutex = c /\ c # None /\ todo = <<>> /\ Doing(c) = "close" /\ MutexHeld(c)
      /\ rc => flash_sb = superblock_ram
  BY <1>1, FinishedBy
<1>3. fd \in Fd /\ handle[c] = fd /\ handle[c] # None
  <2>1. \E gd \in Fd : call[c] = <<"close", gd>>
    BY <1>2, Shapes DEF FsInv
  <2>2. handle[c] = fd
    BY <1>2 DEF FsInv, Handles
  <2>. QED BY <2>1, <2>2, Nones
<1>4. open_fds[fd].used /\ open_fds[fd].dirty /\ Writing(open_fds[fd].mode) /\ i \in File
        /\ superblock_ram[i].name # None
  <2>1. open_fds[fd].dirty
    BY <1>2 DEF MutexHeld
  <2>. QED BY <1>3, <2>1 DEF FsInv, Fds, FsTypeOK
<1>5. rc => sector[i] = fs_buffer
  <2>1. Commits(c)
    BY <1>2 DEF FsInv, Committing
  <2>2. Commit(i) # <<>> /\ <<Program(DataSector(i))>> \o superblock_flush # <<>>
    <3>1. Commit(i) # <<>>
      BY <1>4, FileOps
    <3>2. <<Program(DataSector(i)), Erase(0), Program(0)>> # <<>>
      OBVIOUS
    <3>. QED BY <3>1, <3>2, ConcatPairs DEF superblock_flush
  <2>. QED BY <1>2, <2>1, <2>2 DEF Commits
<1>6. draft[c] = SubSeq(fs_buffer, 1, superblock_ram[i].size)
  BY <1>3, <1>4 DEF FsInv, Drafts
<1>. HIDE DEF i
<1>7. content \in Contents /\ (rc => content = Content(superblock_ram[i], sector[i]))
  <2>1. superblock_ram[i].name \in Name /\ superblock_ram[i].size \in 0..FS_MAX_FILE_DATA
    BY <1>4 DEF FsInv, FsTypeOK, Entry
  <2>2. draft[c] \in [1..superblock_ram[i].size -> Datum]
    BY <1>6, <2>1, Heads DEF FsInv, FsTypeOK
  <2>3. content \in Contents
    BY <2>1, <2>2 DEF Contents
  <2>4. content = Content(superblock_ram[i], fs_buffer)
    BY <1>4, <1>6 DEF Content
  <2>. QED BY <1>5, <2>3, <2>4
<1>. HIDE DEF content
<1>8. /\ Mutexed' /\ Flushes' /\ Committing'
      /\ call' \in [Client -> FsCall \union {None}] /\ Doing(c)' = "nothing"
      /\ \A d \in Client \ {c} : call'[d] = call[d] /\ Doing(d)' = Doing(d)
      /\ fs_mutex' = None /\ rc' = TRUE /\ UNCHANGED <<flash_sb, sector, todo>>
  BY <1>1, <1>2, LeavesStep
<1>9. /\ FdsType' /\ scratch_owner' \in File \union {None}
      /\ Handles' /\ Fds' /\ Claimed'
      /\ handle'[c] = None /\ \A d \in Client \ {c} : handle'[d] = handle[d]
      /\ \A gd \in Fd : gd # handle[c] => open_fds'[gd] = open_fds[gd]
  <2>1. call' = [call EXCEPT ![c] = None]
    BY <1>1 DEF Leaves
  <2>. QED BY <1>1, <1>3, <2>1, ReleasesStep
<1>10. /\ draft' \in [Client -> Seq(Datum)] /\ \A d \in Client \ {c} : draft'[d] = draft[d]
  BY <1>1, CommonTypes DEF FsInv, CallTypeOK
<1>11. store' \in [File -> Contents \union {None}] /\ limbo' \subseteq File
  BY <1>1, <1>4, <1>7 DEF FsInv, FsTypeOK
<1>12. Types'
  <2>1. RamType' /\ CtlType' /\ FlashType'
    BY <1>1, <1>8, <1>9, <1>10, <1>11 DEF FsInv, FsTypeOK, CallTypeOK, RamType, CtlType, FlashType
  <2>. QED BY <2>1, TypeParts
<1>13. Drafts'
  <2>1. \A d \in Client \ {c} : handle'[d] = handle[d] /\ draft'[d] = draft[d]
    BY <1>9, <1>10
  <2>. QED BY <1>1, <1>3, <1>9, <2>1, OthersDrafts
<1>14. Durable'
  <2>1. CASE rc
    <3>1. flash_sb = superblock_ram /\ limbo' = limbo \ {i} /\ store' = [store EXCEPT ![i] = content]
      BY <1>1, <1>2, <2>1
    <3>2. /\ store'[i] = Content(superblock_ram[i], sector[i])
          /\ \A j \in File \ {i} : store'[j] = store[j]
      BY <1>4, <1>7, <2>1, <3>1 DEF FsInv, FsTypeOK
    <3>. QED BY <1>1, <1>8, <3>1, <3>2 DEF FsInv, Durable
  <2>2. CASE ~rc
    BY <1>1, <1>8, <2>2 DEF FsInv, Durable
  <2>. QED BY <2>1, <2>2
<1>. QED BY <1>8, <1>9, <1>12, <1>13, <1>14 DEF FsInv, Types
-----------------------------------------------------------------------------
(* Opening *)

\* c gets an fd nobody had.
LEMMA TakesFdStep ==
  ASSUME FsInv, NEW c \in Client, NEW i \in File, NEW mode \in SUBSET Flag, NEW pos, TakesFd(c, i, mode, pos)
  PROVE  \E fd \in Fd :
           /\ ~open_fds[fd].used /\ handle'[c] = fd /\ \A d \in Client : handle[d] # fd
           /\ open_fds'[fd] = [used |-> TRUE, dirty |-> FALSE, file_idx |-> i, pos |-> pos, mode |-> mode]
           /\ \A gd \in Fd \ {fd} : open_fds'[gd] = open_fds[gd]
           /\ \A d \in Client \ {c} : handle'[d] = handle[d]
<1> DEFINE fd == Min(FreeFds)
<1>1. fd \in Fd /\ ~open_fds[fd].used
  BY Found DEF TakesFd, FsInv
<1>2. \A d \in Client : handle[d] # fd
  BY <1>1, Nones DEF FsInv, Handles
<1>. HIDE DEF fd
<1>3. /\ handle' = [handle EXCEPT ![c] = fd]
      /\ open_fds' = [open_fds EXCEPT ![fd] =
           [used |-> TRUE, dirty |-> FALSE, file_idx |-> i, pos |-> pos, mode |-> mode]]
  BY DEF TakesFd, fd
<1>. QED BY <1>1, <1>2, <1>3 DEF FsInv, FsTypeOK

\* From the claim of the buffer on, whatever comes of it: the fd tables and the
\* drafts are in order, and of the file only the size may be cut to 0.
LEMMA OpensStep ==
  ASSUME FsInv, NEW c \in Client, NEW i \in File, NEW mode \in SUBSET Flag, Opens(c, i, mode),
         handle[c] = None, superblock_ram[i].name # None,
         Doing(c)' = "nothing", \A d \in Client \ {c} : call'[d] = call[d] /\ Doing(d)' = Doing(d)
  PROVE  /\ RamType' /\ Handles' /\ Fds' /\ Claimed' /\ Drafts'
         /\ \A j \in File \ {i} : superblock_ram'[j] = superblock_ram[j]
         /\ superblock_ram[i].size = 0 => superblock_ram' = superblock_ram
<1>1. RamType'
  BY OpensType DEF FsInv, Types
<1>2. \A d \in Client : handle[d] # None => handle[d] \in Fd /\ open_fds[handle[d]].used
  BY DEF FsInv, FsTypeOK, Handles
<1>3. \/ UNCHANGED <<open_fds, handle, scratch_owner>>
      \/ \E pos : TakesFd(c, i, mode, pos)
  BY DEF Opens, OpensReader, OpenRefused, OpensWriter, NoFd, ram
<1>4. \/ UNCHANGED <<superblock_ram, fs_buffer, scratch_owner, draft>> /\ ~Writing(mode)
      \/ UNCHANGED <<superblock_ram, fs_buffer, scratch_owner, draft, open_fds, handle>>
      \/ OpensWriter(c, i, mode)
  BY DEF Opens, OpensReader, OpenRefused, ram
<1>5. \/ superblock_ram' = superblock_ram
      \/ OpensWriter(c, i, mode) /\ superblock_ram' = [superblock_ram EXCEPT ![i].size = 0]
  <2>1. OpensWriter(c, i, mode) /\ "trunc" \notin mode =>
          superblock_ram' = [superblock_ram EXCEPT ![i].size = superblock_ram[i].size]
    BY DEF OpensWriter
  <2>2. superblock_ram = [superblock_ram EXCEPT ![i].size = superblock_ram[i].size]
    BY DEF FsInv, FsTypeOK, Entry
  <2>3. OpensWriter(c, i, mode) /\ "trunc" \in mode => superblock_ram' = [superblock_ram EXCEPT ![i].size = 0]
    BY DEF OpensWriter
  <2>. QED BY <1>4, <2>1, <2>2, <2>3
<1>6. /\ \A j \in File : superblock_ram'[j].name = superblock_ram[j].name
      /\ \A j \in File \ {i} : superblock_ram'[j] = superblock_ram[j]
      /\ superblock_ram[i].size = 0 => superblock_ram' = superblock_ram
  <2>1. CASE superblock_ram' = superblock_ram
    BY <2>1
  <2>2. CASE superblock_ram' = [superblock_ram EXCEPT ![i].size = 0]
    <3>1. /\ \A j \in File : superblock_ram'[j].name = superblock_ram[j].name
          /\ \A j \in File \ {i} : superblock_ram'[j] = superblock_ram[j]
      BY <2>2 DEF FsInv, FsTypeOK, Entry
    <3>2. superblock_ram[i].size = 0 => superblock_ram' = superblock_ram
      BY <2>2 DEF FsInv, FsTypeOK, Entry
    <3>. QED BY <3>1, <3>2
  <2>. QED BY <1>5, <2>1, <2>2
<1>7. OpensWriter(c, i, mode) => scratch_owner = None /\ Writers = {}
  <2>1. OpensWriter(c, i, mode) => scratch_owner = None
    BY DEF OpensWriter
  <2>2. \A fd \in Writers : open_fds[fd].file_idx \in File /\ open_fds[fd].file_idx = scratch_owner
    BY DEF FsInv, FsTypeOK, Claimed, Writers
  <2>. QED BY <2>1, <2>2, Nones
<1>8. CASE UNCHANGED <<open_fds, handle, scratch_owner>>
  <2>1. Handles' /\ Fds' /\ Claimed'
    BY <1>6, <1>8 DEF FsInv, FsTypeOK, Handles, Fds, Claimed, Writers
  <2>2. Drafts'
    <3>1. CASE UNCHANGED <<superblock_ram, fs_buffer, draft>>
      BY <1>8, <3>1 DEF FsInv, Drafts
    <3>2. CASE OpensWriter(c, i, mode)
      BY <1>2, <1>7, <1>8, <3>2 DEF Drafts, Writers
    <3>. QED BY <1>4, <3>1, <3>2
  <2>. QED BY <1>1, <1>6, <2>1, <2>2
<1>9. ASSUME NEW pos, TakesFd(c, i, mode, pos)
      PROVE  Handles' /\ Fds' /\ Claimed' /\ Drafts'
  <2>1. PICK fd \in Fd :
          /\ ~open_fds[fd].used /\ handle'[c] = fd /\ \A d \in Client : handle[d] # fd
          /\ open_fds'[fd] = [used |-> TRUE, dirty |-> FALSE, file_idx |-> i, pos |-> pos, mode |-> mode]
          /\ \A gd \in Fd \ {fd} : open_fds'[gd] = open_fds[gd]
          /\ \A d \in Client \ {c} : handle'[d] = handle[d]
    BY <1>9, TakesFdStep
  <2>2. \A d \in Client \ {c} : handle'[d] # None =>
          handle'[d] = handle[d] /\ handle'[d] # fd /\ open_fds'[handle'[d]] = open_fds[handle[d]]
    BY <1>2, <2>1
  <2>3. open_fds'[handle'[c]].used
    BY <2>1
  <2>4. Handles'
    BY <1>2, <2>1, <2>2, <2>3, Nones DEF FsInv, Handles
  <2>5. Fds'
    BY <1>6, <2>1 DEF FsInv, FsTypeOK, Fds
  <2>6. CASE ~Writing(mode) /\ UNCHANGED <<superblock_ram, fs_buffer, scratch_owner, draft>>
    <3>1. Writers' = Writers /\ fd \notin Writers
      BY <2>1, <2>6 DEF Writers
    <3>2. Claimed'
      BY <2>1, <2>6, <3>1 DEF FsInv, Claimed, Writers
    <3>3. ~Writing(open_fds'[handle'[c]].mode)
      BY <2>1, <2>6
    <3>4. Drafts'
      BY <2>1, <2>2, <2>6, <3>3 DEF FsInv, Drafts
    <3>. QED BY <2>4, <2>5, <3>2, <3>4
  <2>7. CASE OpensWriter(c, i, mode)
    <3> DEFINE size == superblock_ram'[i].size
    <3>1. /\ Writing(mode) /\ scratch_owner' = i
          /\ fs_buffer' = IF "trunc" \in mode THEN Filled(Zero) ELSE sector[i]
          /\ size = IF "trunc" \in mode THEN 0 ELSE superblock_ram[i].size
          /\ size \in 0..FS_MAX_FILE_DATA /\ draft'[c] = SubSeq(sector[i], 1, size)
      <4>1. ~NoFd
        BY <1>9 DEF NoFd, TakesFd
      <4>2. /\ Writing(mode) /\ scratch_owner' = i
            /\ fs_buffer' = IF "trunc" \in mode THEN Filled(Zero) ELSE sector[i]
            /\ superblock_ram' = [superblock_ram EXCEPT ![i].size =
                                    IF "trunc" \in mode THEN 0 ELSE superblock_ram[i].size]
            /\ draft' = [draft EXCEPT ![c] = SubSeq(sector[i], 1,
                                    IF "trunc" \in mode THEN 0 ELSE superblock_ram[i].size)]
        BY <2>7, <4>1 DEF OpensWriter
      <4>3. size = IF "trunc" \in mode THEN 0 ELSE superblock_ram[i].size
        BY <4>2 DEF FsInv, FsTypeOK, Entry
      <4>4. size \in 0..FS_MAX_FILE_DATA
        BY <4>3, FsAssumption DEF FsInv, FsTypeOK, Entry
      <4>5. draft'[c] = SubSeq(sector[i], 1, size)
        BY <4>2, <4>3 DEF FsInv, CallTypeOK
      <4>. QED BY <4>2, <4>3, <4>4, <4>5
    <3>2. Writers' = {fd}
      BY <1>7, <2>1, <2>7, <3>1 DEF Writers
    <3>3. Claimed'
      BY <2>1, <3>1, <3>2, Nones DEF Claimed
    <3>4. draft'[c] = SubSeq(fs_buffer', 1, size)
      <4>1. CASE "trunc" \in mode
        <5>1. \A cells : SubSeq(cells, 1, 0) = <<>>
          BY SubSeqEmpty
        <5>. QED BY <3>1, <4>1, <5>1
      <4>2. CASE "trunc" \notin mode
        BY <3>1, <4>2
      <4>. QED BY <4>1, <4>2
    <3>5. open_fds'[fd].pos <= size
      <4>1. PICK at \in {0, size} : TakesFd(c, i, mode, at)
        <5>1. ~NoFd
          BY <1>9 DEF NoFd, TakesFd
        <5>2. TakesFd(c, i, mode, IF "append" \in mode
                                  THEN IF "trunc" \in mode THEN 0 ELSE superblock_ram[i].size ELSE 0)
          BY <2>7, <5>1 DEF OpensWriter
        <5>. QED BY <3>1, <5>2
      <4>2. open_fds'[fd].pos = at
        <5>1. PICK gd \in Fd :
                /\ handle'[c] = gd
                /\ open_fds'[gd] = [used |-> TRUE, dirty |-> FALSE, file_idx |-> i, pos |-> at, mode |-> mode]
          BY <4>1, TakesFdStep
        <5>2. gd = fd
          BY <2>1, <5>1
        <5>. QED BY <5>1, <5>2
      <4>. QED BY <3>1, <4>1, <4>2
    <3>6. \A d \in Client \ {c} : handle'[d] # None => handle'[d] \in Fd \ {fd} /\ handle'[d] \notin Writers'
      BY <1>2, <2>2, <3>2
    <3>7. Drafts'
      BY <2>1, <3>4, <3>5, <3>6, <1>2, <2>2, <1>7, <2>7 DEF Drafts, Writers
    <3>. QED BY <2>4, <2>5, <3>3, <3>7
  <2>. QED BY <1>4, <2>1, <2>6, <2>7
<1>. QED BY <1>1, <1>3, <1>6, <1>8, <1>9

LEMMA OpenFoundStep ==
  ASSUME FsInv, NEW c \in Client, NEW name \in Name, NEW mode \in SUBSET Flag, OpenFound(c, name, mode)
  PROVE  FsInv'
<1> DEFINE i == Min(find_file(name))
<1>1. /\ call[c] = None /\ handle[c] = None /\ fs_mutex = None /\ find_file(name) # {}
      /\ Opens(c, i, mode) /\ Unsettles(i)
      /\ UNCHANGED <<fs_mutex, flash_sb, sector, call, todo, rc, store>>
  BY DEF OpenFound, Idle, flash
<1>2. i \in File /\ superblock_ram[i].name # None
  BY <1>1, Found, Nones DEF FsInv
<1>. HIDE DEF i
<1>3. Doing(c)' = "nothing" /\ \A d \in Client \ {c} : call'[d] = call[d] /\ Doing(d)' = Doing(d)
  BY <1>1 DEF Doing
<1>4. /\ RamType' /\ Handles' /\ Fds' /\ Claimed' /\ Drafts'
      /\ \A j \in File \ {i} : superblock_ram'[j] = superblock_ram[j]
  BY <1>1, <1>2, <1>3, OpensStep
<1>5. /\ limbo \subseteq limbo' /\ limbo' \subseteq File
      /\ i \notin limbo' => superblock_ram'[i] = superblock_ram[i]
  BY <1>1, <1>2 DEF Unsettles, FsInv, FsTypeOK
<1>6. Types'
  <2>1. CtlType' /\ FlashType'
    BY <1>1, <1>5 DEF FsInv, FsTypeOK, CallTypeOK, CtlType, FlashType
  <2>. QED BY <1>4, <2>1, TypeParts
<1>7. Mutexed' /\ Flushes' /\ Committing'
  BY <1>1 DEF FsInv, Mutexed, Flushes, Committing, Doing
<1>8. Durable'
  <2>1. \A j \in File \ limbo' : j \notin limbo /\ superblock_ram'[j] = superblock_ram[j]
    BY <1>4, <1>5
  <2>. QED BY <1>1, <2>1 DEF FsInv, Durable
<1>. QED BY <1>4, <1>6, <1>7, <1>8 DEF FsInv, Types

\* A new entry that is on flash is an empty file.
LEMMA OpenCreatedStep ==
  ASSUME FsInv, NEW c \in Client, OpenCreated(c)
  PROVE  FsInv'
<1> DEFINE i == call[c][2]
           mode == call[c][3]
           durable == [name |-> superblock_ram[i].name, data |-> <<>>]
<1>1. /\ Finished(c, "open") /\ Opens(c, i, mode) /\ Leaves(c)
      /\ IF rc THEN limbo' = limbo \ {i} /\ store' = [store EXCEPT ![i] = durable]
         ELSE UNCHANGED <<store, limbo>>
  BY DEF OpenCreated, Settles
<1>2. /\ fs_mutex = c /\ c # None /\ todo = <<>> /\ Doing(c) = "open" /\ MutexHeld(c)
      /\ rc => flash_sb = superblock_ram
  BY <1>1, FinishedBy
<1>3. /\ i \in File /\ mode \in SUBSET Flag /\ i \in limbo
      /\ superblock_ram[i].name # None /\ superblock_ram[i].size = 0
  <2>1. \E j \in File, m \in SUBSET Flag : call[c] = <<"open", j, m>>
    BY <1>2, Shapes DEF FsInv
  <2>. QED BY <1>2, <2>1 DEF MutexHeld
<1>4. handle[c] = None
  BY <1>2 DEF FsInv, Handles
<1>. HIDE DEF i, mode
<1>5. /\ Mutexed' /\ Flushes' /\ Committing'
      /\ call' \in [Client -> FsCall \union {None}] /\ Doing(c)' = "nothing"
      /\ \A d \in Client \ {c} : call'[d] = call[d] /\ Doing(d)' = Doing(d)
      /\ fs_mutex' = None /\ rc' = TRUE /\ UNCHANGED <<flash_sb, sector, todo>>
  BY <1>1, <1>2, LeavesStep
<1>6. /\ RamType' /\ Handles' /\ Fds' /\ Claimed' /\ Drafts' /\ superblock_ram' = superblock_ram
  BY <1>1, <1>3, <1>4, <1>5, OpensStep
<1>7. durable \in Contents /\ durable = Content(superblock_ram[i], sector[i])
  <2>1. Content(superblock_ram[i], sector[i]) = [name |-> superblock_ram[i].name, data |-> SubSeq(sector[i], 1, 0)]
    BY <1>3 DEF Content
  <2>2. SubSeq(sector[i], 1, 0) = <<>>
    BY SubSeqEmpty
  <2>3. <<>> \in [1..0 -> Datum]
    OBVIOUS
  <2>4. superblock_ram[i].name \in Name
    BY <1>3 DEF FsInv, FsTypeOK, Entry
  <2>5. 0 \in 0..FS_MAX_FILE_DATA
    BY FsAssumption
  <2>6. durable \in Contents
    BY <2>3, <2>4, <2>5 DEF Contents
  <2>. QED BY <2>1, <2>2, <2>6
<1>. HIDE DEF durable
<1>8. store' \in [File -> Contents \union {None}] /\ limbo' \subseteq File
  BY <1>1, <1>3, <1>7 DEF FsInv, FsTypeOK
<1>9. Types'
  <2>1. CtlType' /\ FlashType'
    BY <1>5, <1>8 DEF FsInv, FsTypeOK, CallTypeOK, CtlType, FlashType
  <2>. QED BY <1>6, <2>1, TypeParts
<1>10. Durable'
  <2>1. CASE rc
    <3>1. flash_sb = superblock_ram /\ limbo' = limbo \ {i} /\ store' = [store EXCEPT ![i] = durable]
      BY <1>1, <1>2, <2>1
    <3>2. /\ store'[i] = Content(superblock_ram[i], sector[i])
          /\ \A j \in File \ {i} : store'[j] = store[j]
      BY <1>3, <1>7, <3>1 DEF FsInv, FsTypeOK
    <3>. QED BY <1>5, <1>6, <3>1, <3>2 DEF FsInv, Durable
  <2>2. CASE ~rc
    BY <1>1, <1>5, <1>6, <2>2 DEF FsInv, Durable
  <2>. QED BY <2>1, <2>2
<1>. QED BY <1>5, <1>6, <1>9, <1>10 DEF FsInv, Types
-----------------------------------------------------------------------------
(* Writing *)

\* The draft with one more cell ...
Written(old, pos, v) == [k \in 1..Larger(Len(old), pos + 1) |-> IF k = pos + 1 THEN v ELSE old[k]]

\* ... is the head of the buffer with that cell.
LEMMA DraftStep ==
  ASSUME NEW cells \in [Cell -> Datum], NEW size \in 0..FS_MAX_FILE_DATA,
         NEW pos \in 0..FS_MAX_FILE_DATA, pos <= size, pos < FS_MAX_FILE_DATA, NEW v \in Datum
  PROVE  LET more == Larger(size, pos + 1)
             new == Written(SubSeq(cells, 1, size), pos, v)
         IN  /\ more \in 0..FS_MAX_FILE_DATA /\ pos + 1 <= more
             /\ new \in Seq(Datum)
             /\ new = SubSeq([cells EXCEPT ![pos + 1] = v], 1, more)
<1> DEFINE old == SubSeq(cells, 1, size)
           more == Larger(size, pos + 1)
           new == Written(old, pos, v)
           after == [cells EXCEPT ![pos + 1] = v]
<1>1. Len(old) = size /\ \A k \in 1..size : old[k] = cells[k]
  BY Heads
<1>. HIDE DEF old
<1>2. /\ size \in Nat /\ pos \in Nat /\ more \in 0..FS_MAX_FILE_DATA /\ pos + 1 <= more /\ size <= more
      /\ more = size \/ (more = pos + 1 /\ pos = size)
  BY FsAssumption DEF Larger
<1>3. after \in [Cell -> Datum] /\ \A k \in Cell : after[k] = IF k = pos + 1 THEN v ELSE cells[k]
  BY <1>2
<1>4. /\ SubSeq(after, 1, more) \in Seq(Datum) /\ SubSeq(after, 1, more) \in [1..more -> Datum]
      /\ \A k \in 1..more : SubSeq(after, 1, more)[k] = after[k]
  <2> HIDE DEF after, more
  <2>. QED BY <1>2, <1>3, Heads
<1>5. \A k \in 1..more : k \in Cell /\ (k = pos + 1 \/ k \in 1..size)
  <2> HIDE DEF more
  <2>. QED BY <1>2, FsAssumption DEF Cell
<1>6. new = [k \in 1..more |-> IF k = pos + 1 THEN v ELSE old[k]]
  BY <1>1 DEF Written
<1>7. \A k \in 1..more : new[k] = after[k]
  <2> HIDE DEF after, more, new
  <2>. QED BY <1>1, <1>3, <1>5, <1>6
<1>8. new = SubSeq(after, 1, more)
  <2> HIDE DEF after, more, new
  <2>. QED BY <1>4, <1>6, <1>7
<1>. QED BY <1>2, <1>4, <1>8 DEF old

\* c, the writer, puts its cell into the buffer.
LEMMA WritesStep ==
  ASSUME FsInv, NEW c \in Client, NEW fd \in Fd, handle[c] = fd,
         open_fds[fd].used, Writing(open_fds[fd].mode), open_fds[fd].pos < FS_MAX_FILE_DATA,
         Writes(c, fd), UNCHANGED <<scratch_owner, flash_sb, sector, handle, store>>,
         \A d \in Client : Doing(d)' = "nothing" \/ (Doing(d)' = Doing(d) /\ call'[d] = call[d])
  PROVE  /\ RamType' /\ limbo' \subseteq File
         /\ Handles' /\ Fds' /\ Claimed' /\ Drafts' /\ Durable'
<1> DEFINE i == open_fds[fd].file_idx
           pos == open_fds[fd].pos
           size == superblock_ram[i].size
           more == Larger(size, pos + 1)
<1>0. i \in File /\ pos \in 0..FS_MAX_FILE_DATA /\ size \in 0..FS_MAX_FILE_DATA
  BY DEF FsInv, FsTypeOK, Entry
<1>1. /\ fs_buffer' = [fs_buffer EXCEPT ![pos + 1] = c]
      /\ open_fds' = [open_fds EXCEPT ![fd].pos = pos + 1, ![fd].dirty = TRUE]
      /\ superblock_ram' = [superblock_ram EXCEPT ![i].size = more]
      /\ Unsettles(i)
      /\ draft' = [draft EXCEPT ![c] = Written(draft[c], pos, c)]
  <2>1. draft' = [draft EXCEPT ![c] = [k \in 1..Larger(Len(draft[c]), pos + 1) |->
                                         IF k = pos + 1 THEN c ELSE draft[c][k]]]
    BY DEF Writes, FsInv, CallTypeOK
  <2>2. /\ fs_buffer' = [fs_buffer EXCEPT ![pos + 1] = c]
        /\ open_fds' = [open_fds EXCEPT ![fd].pos = pos + 1, ![fd].dirty = TRUE]
        /\ superblock_ram' = [superblock_ram EXCEPT ![i].size = more]
        /\ Unsettles(i)
    BY DEF Writes
  <2>. QED BY <2>1, <2>2 DEF Written
<1>2. pos <= size /\ draft[c] = SubSeq(fs_buffer, 1, size) /\ c \in Datum
  <2>1. handle[c] # None
    BY Nones
  <2>. QED BY <2>1 DEF FsInv, Drafts, Datum
<1>3. /\ more \in 0..FS_MAX_FILE_DATA /\ pos + 1 <= more
      /\ Written(draft[c], pos, c) \in Seq(Datum)
      /\ Written(draft[c], pos, c) = SubSeq([fs_buffer EXCEPT ![pos + 1] = c], 1, more)
  <2>1. fs_buffer \in [Cell -> Datum]
    BY DEF FsInv, FsTypeOK
  <2>2. /\ more \in 0..FS_MAX_FILE_DATA /\ pos + 1 <= more
        /\ Written(SubSeq(fs_buffer, 1, size), pos, c) \in Seq(Datum)
        /\ Written(SubSeq(fs_buffer, 1, size), pos, c) = SubSeq([fs_buffer EXCEPT ![pos + 1] = c], 1, more)
    <3> HIDE DEF pos, size
    <3>1. pos < FS_MAX_FILE_DATA
      BY DEF pos
    <3>. QED BY <1>0, <1>2, <2>1, <3>1, DraftStep
  <2>. QED BY <1>2, <2>2
<1>. HIDE DEF more
<1>4. PICK next \in 0..FS_MAX_FILE_DATA : next = pos + 1
  BY <1>0, FsAssumption
<1>5. /\ open_fds' \in [Fd -> FdRecord]
      /\ open_fds'[fd].used /\ open_fds'[fd].file_idx = i /\ open_fds'[fd].pos = next
      /\ open_fds'[fd].mode = open_fds[fd].mode
      /\ \A gd \in Fd \ {fd} : open_fds'[gd] = open_fds[gd]
  <2>1. open_fds' = [open_fds EXCEPT ![fd].pos = next, ![fd].dirty = TRUE]
    BY <1>1, <1>4
  <2>2. open_fds \in [Fd -> FdRecord]
    BY DEF FsInv, FsTypeOK, FdRecord
  <2>3. open_fds' \in [Fd -> FdRecord]
    <3>1. [open_fds[fd] EXCEPT !.pos = next, !.dirty = TRUE] \in FdRecord
      BY <2>2 DEF FdRecord
    <3>. QED BY <2>1, <2>2, <3>1
  <2>4. /\ open_fds'[fd].used = open_fds[fd].used /\ open_fds'[fd].file_idx = open_fds[fd].file_idx
        /\ open_fds'[fd].pos = next /\ open_fds'[fd].mode = open_fds[fd].mode
        /\ \A gd \in Fd \ {fd} : open_fds'[gd] = open_fds[gd]
    BY <2>1, <2>2 DEF FdRecord
  <2>. QED BY <2>3, <2>4
<1>6. /\ superblock_ram' \in [File -> Entry] /\ superblock_ram'[i].size = more
      /\ \A j \in File : superblock_ram'[j].name = superblock_ram[j].name
      /\ \A j \in File \ {i} : superblock_ram'[j] = superblock_ram[j]
  <2>1. more \in 0..FS_MAX_FILE_DATA /\ superblock_ram' = [superblock_ram EXCEPT ![i].size = more]
    BY <1>1, <1>3
  <2>2. superblock_ram \in [File -> Entry]
    BY DEF FsInv, FsTypeOK
  <2>. HIDE DEF i, pos, size
  <2>. QED BY <1>0, <2>1, <2>2 DEF Entry
<1>7. fs_buffer' \in [Cell -> Datum]
  BY <1>1, <1>2 DEF FsInv, FsTypeOK
<1>8. /\ draft' \in [Client -> Seq(Datum)] /\ \A d \in Client \ {c} : draft'[d] = draft[d]
      /\ draft'[c] = SubSeq(fs_buffer', 1, more)
  <2>1. /\ draft' \in [Client -> Seq(Datum)] /\ \A d \in Client \ {c} : draft'[d] = draft[d]
        /\ draft'[c] = Written(draft[c], pos, c)
    BY <1>1, <1>3 DEF FsInv, CallTypeOK
  <2>. QED BY <1>1, <1>3, <2>1
<1>9. /\ limbo \subseteq limbo' /\ limbo' \subseteq File
      /\ i \notin limbo' => superblock_ram'[i] = superblock_ram[i]
  BY <1>0, <1>1 DEF Unsettles, FsInv, FsTypeOK
<1>10. RamType'
  BY <1>5, <1>6, <1>7, <1>8 DEF FsInv, FsTypeOK, RamType, FdsType, FdRecord
<1>11. Writers = {fd} /\ Writers' = {fd} /\ scratch_owner = i
  <2>1. fd \in Writers
    BY DEF Writers
  <2>2. Writers = {fd} /\ scratch_owner = i
    BY <2>1 DEF FsInv, Claimed, Writers
  <2>3. Writers' = Writers
    BY <1>5, <2>1 DEF Writers
  <2>. QED BY <2>2, <2>3
<1>12. \A d \in Client : handle[d] # None => handle[d] \in Fd
  BY DEF FsInv, FsTypeOK
<1>13. Handles'
  BY <1>5, <1>12 DEF FsInv, Handles
<1>14. Fds'
  <2>1. Writing(open_fds'[fd].mode)
    BY <1>5
  <2>2. \A gd \in Fd : open_fds'[gd].file_idx = open_fds[gd].file_idx /\ open_fds'[gd].used = open_fds[gd].used
    <3>1. open_fds'[fd].file_idx = open_fds[fd].file_idx /\ open_fds'[fd].used = open_fds[fd].used
      BY <1>5
    <3>2. \A gd \in Fd \ {fd} : open_fds'[gd].file_idx = open_fds[gd].file_idx
                                  /\ open_fds'[gd].used = open_fds[gd].used
      BY <1>5
    <3>. QED BY <3>1, <3>2
  <2>3. \A gd \in Fd : open_fds[gd].used => superblock_ram'[open_fds[gd].file_idx].name # None
    BY <1>6 DEF FsInv, FsTypeOK, Fds
  <2>4. \A gd \in Fd : open_fds'[gd].dirty => open_fds'[gd].used /\ Writing(open_fds'[gd].mode)
    BY <1>5, <2>1 DEF FsInv, Fds
  <2>. QED BY <2>2, <2>3, <2>4 DEF Fds
<1>15. Claimed'
  BY <1>5, <1>11, Nones DEF Claimed
<1>16. Drafts'
  <2>1. \A d \in Client \ {c} : handle'[d] # None => handle'[d] \in Fd \ {fd} /\ open_fds'[handle'[d]].used
    BY <1>12, <1>13, Nones DEF Handles
  <2>2. \A d \in Client \ {c} : handle'[d] # None => ~Writing(open_fds'[handle'[d]].mode)
    BY <1>11, <2>1 DEF Writers
  <2>3. handle'[c] = fd
    OBVIOUS
  <2>. QED BY <1>3, <1>4, <1>5, <1>6, <1>8, <2>2, <2>3 DEF Drafts
<1>17. Durable'
  <2>1. \A j \in File \ limbo' : j \notin limbo /\ superblock_ram'[j] = superblock_ram[j]
    BY <1>6, <1>9
  <2>. QED BY <2>1 DEF FsInv, Durable
<1>. QED BY <1>9, <1>10, <1>13, <1>14, <1>15, <1>16, <1>17

LEMMA WriteStep ==
  ASSUME FsInv, NEW c \in Client, fs_write(c)
  PROVE  FsInv'
<1>1. /\ Enters(c, "write") /\ call' = [call EXCEPT ![c] = None]
      /\ UNCHANGED <<fs_mutex, scratch_owner, flash_sb, sector, handle, todo, rc, store>>
  BY DEF fs_write, flash
<1>2. PICK fd \in Fd :
        /\ fs_mutex = None /\ rc /\ todo = <<>> /\ call[c][2] = fd /\ handle[c] = fd /\ open_fds[fd].used
        /\ open_fds[fd].file_idx \in File /\ open_fds[fd].pos \in 0..FS_MAX_FILE_DATA
  BY <1>1, Entered
<1>3. /\ call' \in [Client -> FsCall \union {None}] /\ Doing(c)' = "nothing"
      /\ \A d \in Client \ {c} : call'[d] = call[d] /\ Doing(d)' = Doing(d)
  BY <1>1, Calls DEF FsInv, Types
<1>4. \A d \in Client : Doing(d)' = "nothing" \/ (Doing(d)' = Doing(d) /\ call'[d] = call[d])
  BY <1>3
<1>5. Mutexed' /\ Flushes' /\ Committing'
  BY <1>1, <1>2, <1>4 DEF FsInv, Mutexed, Flushes, Committing
<1>6. CASE UNCHANGED <<fs_buffer, open_fds, superblock_ram, limbo, draft>>
  <2>1. Types'
    BY <1>1, <1>3, <1>6 DEF FsInv, Types, FsTypeOK, CallTypeOK
  <2>2. Handles'
    BY <1>1, <1>4, <1>6 DEF FsInv, Handles
  <2>3. Fds' /\ Claimed' /\ Drafts' /\ Durable'
    BY <1>1, <1>6 DEF FsInv, Fds, Claimed, Writers, Drafts, Durable
  <2>. QED BY <1>5, <2>1, <2>2, <2>3 DEF FsInv, Types
<1>7. CASE Writing(open_fds[fd].mode) /\ open_fds[fd].pos < FS_MAX_FILE_DATA /\ Writes(c, fd)
  <2>1. /\ RamType' /\ limbo' \subseteq File
        /\ Handles' /\ Fds' /\ Claimed' /\ Drafts' /\ Durable'
    BY <1>1, <1>2, <1>4, <1>7, WritesStep
  <2>2. CtlType' /\ FlashType'
    BY <1>1, <1>3, <2>1 DEF FsInv, FsTypeOK, CallTypeOK, CtlType, FlashType
  <2>. QED BY <1>5, <2>1, <2>2, TypeParts DEF FsInv, Types
<1>. QED BY <1>2, <1>6, <1>7 DEF fs_write
-----------------------------------------------------------------------------
(* The filesystem's invariant is inductive *)

LEMMA FsInvInit == FsInit => FsInv
<1> SUFFICES ASSUME FsInit
             PROVE  FsInv
  OBVIOUS
<1>1. /\ \A c \in Client : call[c] = None /\ handle[c] = None /\ Doing(c) = "nothing"
      /\ \A fd \in Fd : ~open_fds[fd].used /\ ~open_fds[fd].dirty
  BY DEF FsInit, ClosedFd, Doing
<1>2. ClosedFd \in [used : BOOLEAN, dirty : BOOLEAN, file_idx : File,
                    pos : 0..FS_MAX_FILE_DATA, mode : SUBSET Flag]
  BY FsAssumption DEF ClosedFd, File
<1>3. RamType /\ CtlType /\ FlashType
  BY <1>2, CommonTypes DEF FsInit, RamType, FdsType, FdRecord, CtlType, FlashType
<1>4. Handles /\ Fds /\ Claimed
  BY <1>1 DEF FsInit, Handles, Fds, Claimed, Writers
<1>5. Mutexed /\ Flushes /\ Committing /\ Drafts
  BY <1>1 DEF FsInit, Mutexed, Flushes, Committing, Drafts
<1>6. Durable
  <2>1. \A i \in File : superblock_ram[i].name = None
    BY DEF FsInit, EmptyTable, FreeEntry
  <2>. QED BY <2>1 DEF FsInit, Durable, Content
<1>. QED BY <1>3, <1>4, <1>5, <1>6, TypeParts DEF FsInv, Types

LEMMA FsInvStep ==
  ASSUME FsInv, FsStep, Deletes = "closed"
  PROVE  FsInv'
<1>1. ASSUME NEW c \in Client, Operation(c)
      PROVE  FsInv'
  <2>1. ModesOf[c] \subseteq SUBSET Flag
    BY FsAssumption
  <2>2. ASSUME NEW name \in Name, NEW mode \in ModesOf[c], OpenCreates(c, name, mode) \/ OpenFound(c, name, mode)
        PROVE  FsInv'
    BY <2>1, <2>2, OpenCreatesStep, OpenFoundStep
  <2>3. CASE FormatBegins(c) \/ \E name \in Name : DeleteBegins(c, name)
    BY <2>3, FormatBeginsStep, DeleteBeginsStep
  <2>4. CASE OpenCreated(c) \/ DeleteEnds(c) \/ FormatEnds(c)
    BY <2>4, OpenCreatedStep, DeleteEndsStep, FormatEndsStep
  <2>5. CASE handle[c] # None /\ \E what \in {"read", "write", "close"} : Tests(c, what, handle[c])
    BY <2>5, TestsStep
  <2>6. CASE fs_read(c) \/ fs_write(c)
    BY <2>6, ReadStep, WriteStep
  <2>7. CASE CloseClean(c) \/ CloseCommits(c) \/ CloseCommitted(c)
    BY <2>7, CloseCleanStep, CloseCommitsStep, CloseCommittedStep
  <2>. QED BY <1>1, <2>2, <2>3, <2>4, <2>5, <2>6, <2>7 DEF Operation
<1>2. ASSUME NEW c \in Client, Forgets(c)
      PROVE  FsInv'
  BY <1>2, ForgetsStep
<1>3. CASE FlashDone \/ FlashFailed \/ PowerCycle
  BY <1>3, FlashDoneStep, FlashFailedStep, PowerCycleStep
<1>. QED BY <1>1, <1>2, <1>3 DEF FsStep

LEMMA FsInvStutter ==
  ASSUME FsInv, UNCHANGED fvars
  PROVE  FsInv'
<1>1. UNCHANGED <<fs_mutex, superblock_ram, fs_buffer, scratch_owner, open_fds, flash_sb, sector, call, handle,
                  todo, rc, store, limbo, draft>>
  BY DEF fvars, ram, flash, ghost
<1>2. FsTypeOK' /\ CallTypeOK'
  BY <1>1 DEF FsInv, FsTypeOK, CallTypeOK
<1>3. Handles' /\ Fds' /\ Claimed' /\ Mutexed' /\ Flushes' /\ Committing'
  BY <1>1 DEF FsInv, Handles, Fds, Claimed, Writers, Mutexed, MutexHeld, Doing, Flushes, Committing, Commits
<1>4. Drafts' /\ Durable'
  BY <1>1 DEF FsInv, Drafts, Durable
<1>. QED BY <1>2, <1>3, <1>4 DEF FsInv
-----------------------------------------------------------------------------
(* What an operation does to the fds *)

\* Nothing ...
Kept == handle' = handle /\ InUse' = InUse
\* ... c gets one that was free, or gives its own back.
Got(c) == /\ handle[c] = None /\ handle'[c] \in Fd \ InUse /\ InUse' = InUse \union {handle'[c]}
          /\ \A d \in Client \ {c} : handle'[d] = handle[d]
Gave(c) == /\ handle[c] \in InUse /\ handle'[c] = None /\ InUse' = InUse \ {handle[c]}
           /\ \A d \in Client \ {c} : handle'[d] = handle[d]

\* Of the calls, only c's changes.
CallOf(c) == \A d \in Client \ {c} : call'[d] = call[d]

LEMMA KeptFds ==
  ASSUME UNCHANGED <<open_fds, handle>>
  PROVE  Kept
BY DEF Kept, InUse

LEMMA OpensMoves ==
  ASSUME FsInv, NEW c \in Client, NEW i \in File, NEW mode \in SUBSET Flag, Opens(c, i, mode), handle[c] = None
  PROVE  Kept \/ Got(c)
<1>1. UNCHANGED <<open_fds, handle>> \/ \E pos : TakesFd(c, i, mode, pos)
  BY DEF Opens, OpensReader, OpenRefused, OpensWriter, NoFd, ram
<1>2. ASSUME NEW pos, TakesFd(c, i, mode, pos)
      PROVE  Got(c)
  <2>1. PICK fd \in Fd :
          /\ ~open_fds[fd].used /\ handle'[c] = fd
          /\ open_fds'[fd] = [used |-> TRUE, dirty |-> FALSE, file_idx |-> i, pos |-> pos, mode |-> mode]
          /\ \A gd \in Fd \ {fd} : open_fds'[gd] = open_fds[gd]
          /\ \A d \in Client \ {c} : handle'[d] = handle[d]
    BY <1>2, TakesFdStep
  <2>2. fd \notin InUse /\ InUse' = InUse \union {fd}
    BY <2>1 DEF InUse
  <2>. QED BY <2>1, <2>2 DEF Got
<1>. QED BY <1>1, <1>2, KeptFds

LEMMA ReleasesMoves ==
  ASSUME FsInv, NEW c \in Client, handle[c] \in Fd, Releases(c, handle[c])
  PROVE  Gave(c)
<1>1. handle[c] \in InUse
  BY Nones DEF FsInv, Handles, InUse
<1>2. /\ handle' = [handle EXCEPT ![c] = None]
      /\ open_fds' = [open_fds EXCEPT ![handle[c]].used = FALSE, ![handle[c]].dirty = FALSE]
  BY DEF Releases
<1>3. /\ ~open_fds'[handle[c]].used /\ \A gd \in Fd \ {handle[c]} : open_fds'[gd] = open_fds[gd]
  BY <1>2 DEF FsInv, FsTypeOK
<1>4. InUse' = InUse \ {handle[c]}
  BY <1>3 DEF InUse
<1>. QED BY <1>1, <1>2, <1>4 DEF Gave, FsInv, FsTypeOK

\* An open may give c an fd, at its end.
LEMMA OpenMoves ==
  ASSUME FsInv, NEW c \in Client
  PROVE  /\ \A name \in Name, mode \in SUBSET Flag :
              /\ OpenCreates(c, name, mode) => Kept /\ CallOf(c) /\ Doing(c)' = "open"
              /\ OpenFound(c, name, mode) => (Kept \/ Got(c)) /\ call' = call /\ call[c] = None /\ handle[c] = None
         /\ OpenCreated(c) => /\ Kept \/ Got(c)
                              /\ CallOf(c) /\ call'[c] = None /\ handle[c] = None
<1>1. ASSUME NEW name \in Name, NEW mode \in SUBSET Flag, OpenCreates(c, name, mode)
      PROVE  Kept /\ CallOf(c) /\ Doing(c)' = "open"
  <2>1. FreeFiles # {} /\ call' = [call EXCEPT ![c] = <<"open", Min(FreeFiles), mode>>]
          /\ UNCHANGED <<open_fds, handle>>
    BY <1>1 DEF OpenCreates, Starts
  <2>2. Min(FreeFiles) \in File
    BY <2>1, Found DEF FsInv
  <2>3. <<"open", Min(FreeFiles), mode>> \in FsCall /\ <<"open", Min(FreeFiles), mode>>[1] = "open"
    BY <2>2 DEF FsCall
  <2>4. /\ Doing(c)' = <<"open", Min(FreeFiles), mode>>[1]
        /\ \A d \in Client \ {c} : call'[d] = call[d]
    <3> DEFINE what == <<"open", Min(FreeFiles), mode>>
    <3>1. what \in FsCall \union {None} /\ what # None /\ call' = [call EXCEPT ![c] = what]
      BY <2>1, <2>3, Nones
    <3>. HIDE DEF what
    <3>2. Doing(c)' = what[1] /\ \A d \in Client \ {c} : call'[d] = call[d]
      BY <3>1, Calls DEF FsInv, Types
    <3>. QED BY <3>2 DEF what
  <2>. QED BY <2>1, <2>3, <2>4, KeptFds DEF CallOf
<1>2. ASSUME NEW name \in Name, NEW mode \in SUBSET Flag, OpenFound(c, name, mode)
      PROVE  (Kept \/ Got(c)) /\ call' = call /\ call[c] = None /\ handle[c] = None
  <2>1. /\ call' = call /\ call[c] = None /\ handle[c] = None /\ find_file(name) # {}
        /\ Opens(c, Min(find_file(name)), mode)
    BY <1>2 DEF OpenFound, Idle
  <2>2. Min(find_file(name)) \in File
    BY <2>1, Found DEF FsInv
  <2>. QED BY <2>1, <2>2, OpensMoves
<1>3. ASSUME OpenCreated(c)
      PROVE  (Kept \/ Got(c)) /\ CallOf(c) /\ call'[c] = None /\ handle[c] = None
  <2>1. Finished(c, "open") /\ Opens(c, call[c][2], call[c][3]) /\ call' = [call EXCEPT ![c] = None]
    BY <1>3 DEF OpenCreated, Leaves
  <2>2. Doing(c) = "open"
    BY <2>1, FinishedBy
  <2>3. handle[c] = None
    BY <2>2 DEF FsInv, Handles
  <2>4. PICK i \in File, mode \in SUBSET Flag : call[c] = <<"open", i, mode>>
    BY <2>2, Shapes DEF FsInv
  <2>5. call[c][2] = i /\ call[c][3] = mode
    BY <2>4
  <2>6. Opens(c, i, mode)
    BY <2>1, <2>5
  <2>7. Kept \/ Got(c)
    BY <2>3, <2>6, OpensMoves
  <2>. QED BY <2>1, <2>3, <2>7 DEF CallOf, FsInv, CallTypeOK
<1>. QED BY <1>1, <1>2, <1>3

\* A call on an fd leaves it with c ...
LEMMA CallMoves ==
  ASSUME FsInv, NEW c \in Client
  PROVE  /\ \A what \in {"read", "write", "close"} :
              handle[c] # None /\ Tests(c, what, handle[c]) =>
                Kept /\ CallOf(c) /\ call[c] = None /\ call'[c] # None /\ Doing(c)' = what
         /\ fs_read(c) \/ fs_write(c) => Kept /\ CallOf(c) /\ call'[c] = None
<1>1. ASSUME NEW what \in {"read", "write", "close"}, handle[c] # None, Tests(c, what, handle[c])
      PROVE  Kept /\ CallOf(c) /\ call[c] = None /\ call'[c] # None /\ Doing(c)' = what
  <2>1. handle[c] \in Fd /\ UNCHANGED <<open_fds, handle>>
          /\ call[c] = None /\ call' = [call EXCEPT ![c] = <<what, handle[c]>>]
    BY <1>1 DEF Tests, Idle, ram, FsInv, FsTypeOK
  <2>2. <<what, handle[c]>> \in FsCall
    BY <2>1 DEF FsCall
  <2>3. call'[c] = <<what, handle[c]>> /\ call'[c] # None /\ \A d \in Client \ {c} : call'[d] = call[d]
    BY <2>1, <2>2, Nones DEF FsInv, CallTypeOK
  <2>4. Doing(c)' = what
    BY <2>3 DEF Doing
  <2>. QED BY <2>1, <2>3, <2>4, KeptFds DEF CallOf
<1>2. fs_read(c) \/ fs_write(c) =>
        handle' = handle /\ call' = [call EXCEPT ![c] = None] /\ (Enters(c, "read") \/ Enters(c, "write"))
  BY DEF fs_read, fs_write
<1>3. fs_read(c) \/ fs_write(c) => CallOf(c) /\ call'[c] = None
  BY <1>2 DEF CallOf, FsInv, CallTypeOK
<1>4. fs_read(c) \/ fs_write(c) => \A fd \in Fd : open_fds'[fd].used = open_fds[fd].used
  <2>1. ASSUME fs_read(c) \/ fs_write(c)
        PROVE  call[c][2] \in Fd
    BY <1>2, <2>1, Entered
  <2>2. ASSUME fs_read(c)
        PROVE  \A fd \in Fd : open_fds'[fd].used = open_fds[fd].used
    <3>1. \/ open_fds' = open_fds
          \/ open_fds' = [open_fds EXCEPT ![call[c][2]].pos = open_fds[call[c][2]].pos + 1]
      BY <2>2 DEF fs_read
    <3>2. open_fds \in [Fd -> FdRecord]
      BY DEF FsInv, FsTypeOK, FdRecord
    <3>. QED BY <2>1, <2>2, <3>1, <3>2 DEF FdRecord
  <2>3. ASSUME fs_write(c)
        PROVE  \A fd \in Fd : open_fds'[fd].used = open_fds[fd].used
    <3>1. \/ open_fds' = open_fds
          \/ open_fds' = [open_fds EXCEPT ![call[c][2]].pos = open_fds[call[c][2]].pos + 1,
                                          ![call[c][2]].dirty = TRUE]
      BY <2>3 DEF fs_write, Writes
    <3>. QED BY <2>1, <2>3, <3>1 DEF FsInv, FsTypeOK
  <2>. QED BY <2>2, <2>3
<1>. QED BY <1>1, <1>2, <1>3, <1>4 DEF Kept, InUse

\* ... until a close is over, whether it could commit or not.
LEMMA CloseMoves ==
  ASSUME FsInv, NEW c \in Client
  PROVE  /\ CloseCommits(c) => Kept /\ call' = call /\ Doing(c) = "close"
         /\ CloseClean(c) \/ CloseCommitted(c) => Gave(c) /\ CallOf(c) /\ call'[c] = None
<1>1. ASSUME CloseCommits(c)
      PROVE  Kept /\ call' = call /\ Doing(c) = "close"
  <2>1. UNCHANGED <<open_fds, handle>> /\ call' = [call EXCEPT ![c] = call[c]] /\ Enters(c, "close")
    BY <1>1 DEF CloseCommits, Starts, ram
  <2>2. call' = call
    BY <2>1 DEF FsInv, CallTypeOK
  <2>. QED BY <2>1, <2>2, KeptFds, Entered
<1>2. ASSUME CloseClean(c)
      PROVE  Gave(c) /\ call' = [call EXCEPT ![c] = None]
  <2>1. Enters(c, "close") /\ Releases(c, call[c][2]) /\ call' = [call EXCEPT ![c] = None]
    BY <1>2 DEF CloseClean
  <2>2. handle[c] \in Fd /\ handle[c] = call[c][2]
    BY <2>1, Entered
  <2>. QED BY <2>1, <2>2, ReleasesMoves
<1>3. ASSUME CloseCommitted(c)
      PROVE  Gave(c) /\ call' = [call EXCEPT ![c] = None]
  <2>1. Finished(c, "close") /\ Releases(c, call[c][2]) /\ call' = [call EXCEPT ![c] = None]
    BY <1>3 DEF CloseCommitted, Leaves
  <2>2. Doing(c) = "close"
    BY <2>1, FinishedBy
  <2>3. \E fd \in Fd : call[c] = <<"close", fd>>
    BY <2>2, Shapes DEF FsInv
  <2>4. handle[c] \in Fd /\ handle[c] = call[c][2]
    BY <2>2, <2>3 DEF FsInv, Handles
  <2>. QED BY <2>1, <2>4, ReleasesMoves
<1>. QED BY <1>1, <1>2, <1>3 DEF CallOf, FsInv, CallTypeOK

LEMMA OperationMoves ==
  ASSUME FsInv, Deletes = "closed", NEW c \in Client, Operation(c)
  PROVE  (Kept \/ Got(c) \/ Gave(c)) /\ CallOf(c)
<1>1. ModesOf[c] \subseteq SUBSET Flag
  BY FsAssumption
<1>2. CASE \E name \in Name, mode \in ModesOf[c] : OpenCreates(c, name, mode) \/ OpenFound(c, name, mode)
  BY <1>1, <1>2, OpenMoves DEF CallOf
<1>3. CASE OpenCreated(c) \/ fs_read(c) \/ fs_write(c)
  BY <1>3, OpenMoves, CallMoves
<1>4. CASE handle[c] # None /\ \E what \in {"read", "write", "close"} : Tests(c, what, handle[c])
  BY <1>4, CallMoves
<1>5. CASE CloseClean(c) \/ CloseCommits(c) \/ CloseCommitted(c)
  BY <1>5, CloseMoves DEF CallOf
<1>6. CASE FormatBegins(c) \/ \E name \in Name : DeleteBegins(c, name)
  <2>1. handle' = handle /\ CallOf(c)
    <3>1. \E what : handle' = handle /\ call' = [call EXCEPT ![c] = what]
      BY <1>6 DEF FormatBegins, DeleteBegins, Starts
    <3>. QED BY <3>1 DEF CallOf, FsInv, CallTypeOK
  <2>2. open_fds' = open_fds
    <3>1. CASE FormatBegins(c)
      BY <3>1, NothingToClose DEF FormatBegins
    <3>2. ASSUME NEW name \in Name, DeleteBegins(c, name)
          PROVE  open_fds' = open_fds
      <4>1. find_file(name) # {} /\ MayClose(Min(find_file(name))) /\ open_fds' = ForceClosed({Min(find_file(name))})
        BY <3>2 DEF DeleteBegins
      <4>2. Min(find_file(name)) \in File
        BY <4>1, Found DEF FsInv
      <4>. QED BY <4>1, <4>2, NothingToClose
    <3>. QED BY <1>6, <3>1, <3>2
  <2>. QED BY <2>1, <2>2, KeptFds
<1>7. CASE DeleteEnds(c) \/ FormatEnds(c)
  <2>1. UNCHANGED <<open_fds, handle>> /\ call' = [call EXCEPT ![c] = None]
    BY <1>7 DEF DeleteEnds, FormatEnds, Leaves, ram
  <2>. QED BY <2>1, KeptFds DEF CallOf, FsInv, CallTypeOK
<1>. QED BY <1>2, <1>3, <1>4, <1>5, <1>6, <1>7 DEF Operation
-----------------------------------------------------------------------------
(* A step of the VFS is one of the filesystem, or leaves that alone *)

\* What the call of a user that holds vfs_lock is about.
LEMMA Served ==
  ASSUME VInv, NEW c \in VfsUser, vfs_lock = c
  PROVE  /\ asked[1] = "open" => /\ asked[2] \in Name \union Device /\ asked[3] \in ModesOf[c]
                                 /\ vfd[c] = None /\ handle[c] = None
         /\ asked[1] # "open" => vfd[c] \in VFd /\ fd_table[vfd[c]] # None
         /\ asked[1] # "open" /\ ~IsDevice(c) =>
              /\ handle[c] # None /\ fd_table[vfd[c]] = OnFile(handle[c]) /\ FsFd(c) = handle[c]
         /\ asked[1] # "open" /\ IsDevice(c) => handle[c] = None
<1>1. c # None /\ PathsOf[c] \subseteq Name \union Device
  BY FsAssumption, VfsAssumption
<1>2. asked \in Request(c) /\ (asked[1] = "open" <=> vfd[c] = None)
  BY <1>1 DEF VInv, Asking
<1>3. ASSUME asked[1] = "open"
      PROVE  asked[2] \in Name \union Device /\ asked[3] \in ModesOf[c]
  BY <1>1, <1>2, <1>3 DEF Request
<1>4. vfd[c] # None => vfd[c] \in VFd
  BY DEF VInv, VfsTypeOK
<1>5. OnFile(handle[c])[1] = "file" /\ OnFile(handle[c])[2] = handle[c]
  BY DEF OnFile
<1>. QED BY <1>2, <1>3, <1>4, <1>5 DEF VInv, Owned, IsDevice, FsFd

LEMMA UserSteps ==
  ASSUME VInv, NEW c \in VfsUser, VfsOperation(c)
  PROVE  Operation(c) \/ Forgets(c) \/ UNCHANGED fvars
<1>1. CASE VfsCalls(c)
  BY <1>1 DEF VfsCalls, Locks
<1>2. CASE vfs_open(c)
  <2>1. CASE TableFull(c) \/ OpenDevice(c) \/ OpenMissing(c)
    BY <2>1 DEF TableFull, OpenDevice, OpenMissing
  <2>2. CASE OpenFile(c)
    <3>1. asked[2] \in Name /\ asked[3] \in ModesOf[c]
      BY <2>2, Served DEF OpenFile, Serving
    <3>2. \/ OpenFound(c, asked[2], asked[3]) \/ OpenCreates(c, asked[2], asked[3])
          \/ OpenCreated(c)
      BY <2>2 DEF OpenFile
    <3>. QED BY <3>1, <3>2 DEF Operation
  <2>. QED BY <1>2, <2>1, <2>2 DEF vfs_open
<1>3. CASE DeviceTransfers(c) \/ CloseDevice(c)
  BY <1>3 DEF DeviceTransfers, CloseDevice
<1>4. CASE FileTransfers(c)
  <2>1. vfs_lock = c /\ asked[1] \in {"read", "write"} /\ ~IsDevice(c)
    BY <1>4 DEF FileTransfers, Serving
  <2>2. handle[c] # None /\ FsFd(c) = handle[c]
    BY <2>1, Served
  <2>3. Tests(c, asked[1], FsFd(c)) \/ fs_read(c) \/ fs_write(c)
    BY <1>4 DEF FileTransfers
  <2>. QED BY <2>1, <2>2, <2>3 DEF Operation
<1>5. CASE CloseFile(c)
  <2>1. vfs_lock = c /\ asked[1] = "close" /\ ~IsDevice(c)
    BY <1>5 DEF CloseFile, Serving
  <2>2. handle[c] # None /\ FsFd(c) = handle[c]
    BY <2>1, Served
  <2>3. Tests(c, "close", FsFd(c)) \/ CloseCommits(c) \/ CloseClean(c) \/ CloseCommitted(c)
    BY <1>5 DEF CloseFile
  <2>. QED BY <2>2, <2>3 DEF Operation
<1>6. CASE Killed(c)
  BY <1>6 DEF Killed, Forgets, VInv, Asking
<1>. QED BY <1>1, <1>2, <1>3, <1>4, <1>5, <1>6 DEF VfsOperation

LEMMA VfsSteps ==
  ASSUME VInv, VfsNext
  PROVE  FsStep \/ UNCHANGED fvars
<1>1. VfsUser \subseteq Client
  BY VfsAssumption
<1>2. ASSUME NEW c \in VfsUser, VfsOperation(c)
      PROVE  FsStep \/ UNCHANGED fvars
  <2>1. Operation(c) \/ Forgets(c) \/ UNCHANGED fvars
    BY <1>2, UserSteps
  <2>. QED BY <1>1, <2>1 DEF FsStep
<1>3. CASE \E c \in Client \ VfsUser : Operation(c)
  BY <1>3 DEF FsStep
<1>4. CASE FlashDone \/ FlashFailed \/ Restart
  BY <1>4 DEF FsStep, Restart
<1>5. ASSUME NEW c \in VfsUser, KilledInside(c)
      PROVE  UNCHANGED fvars
  BY <1>5 DEF KilledInside
<1>. QED BY <1>2, <1>3, <1>4, <1>5 DEF VfsNext
-----------------------------------------------------------------------------
(* What a step does to the entries *)

EntryOf == {None} \union {OnDevice(id) : id \in Device} \union {OnFile(fd) : fd \in Fd}
TableType == fd_table \in [VFd -> EntryOf] /\ vfd \in [VfsUser -> VFd \union {None}]
Tables == TableType /\ Owned /\ Agree

\* An entry is for a device or for an fd.
LEMMA EntryShape ==
  /\ \A id \in Device : OnDevice(id) # None /\ OnDevice(id)[1] = "device"
  /\ \A fd \in Fd : OnFile(fd) # None /\ OnFile(fd)[1] = "file" /\ OnFile(fd)[2] = fd
BY EntryAssumption DEF OnDevice, OnFile

\* Two users never share an fd, and an fd a client has is in use.
LEMMA HandleOwners ==
  ASSUME FsInv
  PROVE  /\ \A c \in Client : handle[c] # None => handle[c] \in InUse
         /\ \A c, d \in Client : handle[c] = handle[d] /\ handle[c] # None => c = d
BY DEF FsInv, FsTypeOK, Handles, InUse

LEMMA KeptTables ==
  ASSUME Tables, Kept, UNCHANGED <<fd_table, vfd>>
  PROVE  Tables'
<1>1. UNCHANGED <<fd_table, vfd, handle>> /\ InUse' = InUse
  BY DEF Kept
<1>2. Entries' = Entries /\ Direct' = Direct /\ \A v : FdOf(v)' = FdOf(v)
  BY <1>1 DEF Entries, Direct, FdOf
<1>3. Agree'
  BY <1>1, <1>2 DEF Tables, Agree
<1>. QED BY <1>1, <1>3 DEF Tables, TableType, Owned

\* The first free entry is free.
LEMMA FirstFree ==
  ASSUME fd_alloc # {}
  PROVE  Min(fd_alloc) \in VFd /\ fd_table[Min(fd_alloc)] = None
<1>1. fd_alloc \in SUBSET Nat
  BY DEF fd_alloc, VFd
<1>2. Min(fd_alloc) \in fd_alloc
  BY <1>1, MinNat
<1>. QED BY <1>2 DEF fd_alloc

\* A new entry disturbs no other.
LEMMA FillsEntry ==
  ASSUME Tables, NEW c \in VfsUser, vfd[c] = None, fd_alloc # {}, NEW what \in EntryOf \ {None}, Fills(c, what)
  PROVE  \E v \in VFd :
           /\ fd_table[v] = None /\ fd_table'[v] = what /\ vfd'[c] = v /\ TableType'
           /\ \A w \in VFd \ {v} : fd_table'[w] = fd_table[w]
           /\ \A d \in VfsUser \ {c} : vfd'[d] = vfd[d] /\ vfd[d] # v
           /\ v \notin Entries
<1> DEFINE v == Min(fd_alloc)
<1>1. v \in VFd /\ fd_table[v] = None
  BY FirstFree
<1>2. fd_table' = [fd_table EXCEPT ![v] = what] /\ vfd' = [vfd EXCEPT ![c] = v]
  BY DEF Fills
<1> HIDE DEF v
<1>3. v # None
  BY <1>1, Nones
<1>4. /\ fd_table'[v] = what /\ vfd'[c] = v /\ TableType'
      /\ \A w \in VFd \ {v} : fd_table'[w] = fd_table[w]
      /\ \A d \in VfsUser \ {c} : vfd'[d] = vfd[d]
  BY <1>1, <1>2 DEF Tables, TableType
<1>5. \A d \in VfsUser : vfd[d] # v
  BY <1>1, <1>3 DEF Tables, Owned
<1>. QED BY <1>1, <1>4, <1>5 DEF Entries

LEMMA FillsFile ==
  ASSUME FsInv, Tables, NEW c \in VfsUser, vfd[c] = None, fd_alloc # {},
         Got(c), Fills(c, OnFile(handle'[c]))
  PROVE  Tables'
<1>1. VfsUser \subseteq Client
  BY VfsAssumption
<1>2. PICK fd \in Fd \ InUse : /\ handle'[c] = fd /\ InUse' = InUse \union {fd}
                               /\ \A d \in Client \ {c} : handle'[d] = handle[d]
  BY DEF Got
<1>3. OnFile(fd) \in EntryOf \ {None} /\ fd # None
  BY <1>2, EntryShape, Nones DEF EntryOf
<1>4. Fills(c, OnFile(fd))
  BY <1>2
<1>5. PICK v \in VFd :
           /\ fd_table[v] = None /\ fd_table'[v] = OnFile(fd) /\ vfd'[c] = v /\ TableType'
           /\ \A w \in VFd \ {v} : fd_table'[w] = fd_table[w]
           /\ \A d \in VfsUser \ {c} : vfd'[d] = vfd[d] /\ vfd[d] # v
           /\ v \notin Entries
  BY <1>3, <1>4, FillsEntry
<1>6. v # None
  BY Nones
<1>7. Owned'
  <2>1. ASSUME NEW d \in VfsUser \ {c}
        PROVE  /\ vfd'[d] = vfd[d] /\ handle'[d] = handle[d]
               /\ vfd[d] # None => vfd[d] \in VFd \ {v} /\ fd_table'[vfd[d]] = fd_table[vfd[d]]
    BY <1>1, <1>2, <1>5 DEF Tables, TableType
  <2>2. ASSUME NEW d \in VfsUser
        PROVE  /\ vfd'[d] = None => handle'[d] = None
               /\ vfd'[d] # None => /\ fd_table'[vfd'[d]] # None
                                    /\ IF handle'[d] = None THEN fd_table'[vfd'[d]][1] = "device"
                                       ELSE fd_table'[vfd'[d]] = OnFile(handle'[d])
    <3>1. CASE d = c
      BY <1>2, <1>3, <1>5, <1>6, <3>1
    <3>2. CASE d # c
      BY <2>1, <3>2 DEF Tables, Owned
    <3>. QED BY <3>1, <3>2
  <2>3. ASSUME NEW d \in VfsUser, NEW e \in VfsUser, vfd'[d] = vfd'[e], vfd'[d] # None
        PROVE  d = e
    BY <1>5, <2>1, <2>3 DEF Tables, Owned
  <2>. QED BY <2>2, <2>3 DEF Owned
<1>8. Agree'
  <2>1. Entries' = Entries \union {v}
    BY <1>3, <1>5, EntryShape DEF Entries
  <2>2. FdOf(v)' = fd /\ \A w \in Entries : FdOf(w)' = FdOf(w)
    BY <1>3, <1>5, EntryShape DEF Entries, FdOf
  <2>3. Direct' = Direct
    BY <1>2 DEF Direct
  <2>4. fd \notin {FdOf(w) : w \in Entries} \union Direct
    BY <1>2, <1>3 DEF Tables, Agree
  <2>5. {FdOf(w)' : w \in Entries'} = {FdOf(w) : w \in Entries} \union {fd}
    BY <2>1, <2>2
  <2>6. \A u, w \in Entries' : FdOf(u)' = FdOf(w)' => u = w
    BY <2>1, <2>2, <2>4 DEF Tables, Agree
  <2>7. InUse' = {FdOf(w)' : w \in Entries'} \union (Direct' \ {None})
    BY <1>2, <2>3, <2>5 DEF Tables, Agree
  <2>8. \A w \in Entries' : FdOf(w)' \notin Direct'
    BY <2>1, <2>2, <2>3, <2>4 DEF Tables, Agree
  <2>. QED BY <2>6, <2>7, <2>8 DEF Agree
<1>. QED BY <1>5, <1>7, <1>8 DEF Tables

LEMMA FillsDevice ==
  ASSUME Tables, NEW c \in VfsUser, vfd[c] = None, fd_alloc # {}, Kept,
         NEW id \in Device, Fills(c, OnDevice(id))
  PROVE  Tables'
<1>1. OnDevice(id) \in EntryOf \ {None} /\ OnDevice(id)[1] = "device"
  BY EntryShape DEF EntryOf
<1>2. PICK v \in VFd :
           /\ fd_table[v] = None /\ fd_table'[v] = OnDevice(id) /\ vfd'[c] = v /\ TableType'
           /\ \A w \in VFd \ {v} : fd_table'[w] = fd_table[w]
           /\ \A d \in VfsUser \ {c} : vfd'[d] = vfd[d] /\ vfd[d] # v
           /\ v \notin Entries
  BY <1>1, FillsEntry
<1>3. v # None /\ handle' = handle /\ InUse' = InUse
  BY Nones DEF Kept
<1>4. handle[c] = None
  BY DEF Tables, Owned
<1>5. Owned'
  <2>1. ASSUME NEW d \in VfsUser \ {c}
        PROVE  /\ vfd'[d] = vfd[d] /\ handle'[d] = handle[d]
               /\ vfd[d] # None => vfd[d] \in VFd \ {v} /\ fd_table'[vfd[d]] = fd_table[vfd[d]]
    BY <1>2, <1>3 DEF Tables, TableType
  <2>2. ASSUME NEW d \in VfsUser
        PROVE  /\ vfd'[d] = None => handle'[d] = None
               /\ vfd'[d] # None => /\ fd_table'[vfd'[d]] # None
                                    /\ IF handle'[d] = None THEN fd_table'[vfd'[d]][1] = "device"
                                       ELSE fd_table'[vfd'[d]] = OnFile(handle'[d])
    <3>1. CASE d = c
      BY <1>1, <1>2, <1>3, <1>4, <3>1
    <3>2. CASE d # c
      BY <2>1, <3>2 DEF Tables, Owned
    <3>. QED BY <3>1, <3>2
  <2>3. ASSUME NEW d \in VfsUser, NEW e \in VfsUser, vfd'[d] = vfd'[e], vfd'[d] # None
        PROVE  d = e
    BY <1>2, <2>1, <2>3 DEF Tables, Owned
  <2>. QED BY <2>2, <2>3 DEF Owned
<1>6. Agree'
  <2>1. Entries' = Entries /\ \A w \in Entries : FdOf(w)' = FdOf(w)
    BY <1>1, <1>2 DEF Entries, FdOf
  <2>2. Direct' = Direct
    BY <1>3 DEF Direct
  <2>3. {FdOf(w)' : w \in Entries'} = {FdOf(w) : w \in Entries}
    BY <2>1
  <2>. QED BY <1>3, <2>1, <2>2, <2>3 DEF Tables, Agree
<1>. QED BY <1>2, <1>5, <1>6 DEF Tables

\* An entry is given back with its fd, or with its device.
LEMMA FreesTables ==
  ASSUME FsInv, Tables, NEW c \in VfsUser, vfd[c] # None, Frees(c),
         IF IsDevice(c) THEN Kept ELSE Gave(c)
  PROVE  Tables'
<1> DEFINE v == vfd[c]
<1>1. v \in VFd /\ fd_table' = [fd_table EXCEPT ![v] = None] /\ vfd' = [vfd EXCEPT ![c] = None]
  BY DEF Frees, Tables, TableType
<1>2. fd_table[v] # None /\ \A d \in VfsUser : vfd[d] = v => c = d
  BY DEF Tables, Owned
<1>3. IF handle[c] = None THEN fd_table[v][1] = "device" ELSE fd_table[v] = OnFile(handle[c])
  BY DEF Tables, Owned
<1>4. IsDevice(c) <=> fd_table[v][1] = "device"
  BY DEF IsDevice
<1> HIDE DEF v
<1>5. /\ fd_table'[v] = None /\ vfd'[c] = None /\ TableType'
      /\ \A w \in VFd \ {v} : fd_table'[w] = fd_table[w]
      /\ \A d \in VfsUser \ {c} : vfd'[d] = vfd[d]
  BY <1>1 DEF Tables, TableType, EntryOf
<1>6. c \in Client /\ handle'[c] = None /\ \A d \in Client \ {c} : handle'[d] = handle[d]
  <2>1. c \in Client
    BY VfsAssumption
  <2>2. CASE ~IsDevice(c)
    BY <2>1, <2>2 DEF Gave
  <2>3. CASE IsDevice(c)
    <3>1. handle[c] = None
      <4>1. handle[c] \in Fd \union {None}
        BY <2>1 DEF FsInv, FsTypeOK
      <4>. QED BY <1>3, <1>4, <2>3, <4>1, EntryShape
    <3>. QED BY <2>1, <2>3, <3>1 DEF Kept
  <2>. QED BY <2>2, <2>3
<1>7. Owned'
  <2>1. ASSUME NEW d \in VfsUser \ {c}
        PROVE  /\ vfd'[d] = vfd[d] /\ handle'[d] = handle[d]
               /\ vfd[d] # None => vfd[d] \in VFd \ {v} /\ fd_table'[vfd[d]] = fd_table[vfd[d]]
    BY <1>2, <1>5, <1>6, VfsAssumption DEF Tables, TableType
  <2>2. ASSUME NEW d \in VfsUser
        PROVE  /\ vfd'[d] = None => handle'[d] = None
               /\ vfd'[d] # None => /\ fd_table'[vfd'[d]] # None
                                    /\ IF handle'[d] = None THEN fd_table'[vfd'[d]][1] = "device"
                                       ELSE fd_table'[vfd'[d]] = OnFile(handle'[d])
    <3>1. CASE d = c
      BY <1>5, <1>6, <3>1
    <3>2. CASE d # c
      BY <2>1, <3>2 DEF Tables, Owned
    <3>. QED BY <3>1, <3>2
  <2>3. ASSUME NEW d \in VfsUser, NEW e \in VfsUser, vfd'[d] = vfd'[e], vfd'[d] # None
        PROVE  d = e
    BY <1>5, <2>1, <2>3 DEF Tables, Owned
  <2>. QED BY <2>2, <2>3 DEF Owned
<1>8. Agree'
  <2>1. Entries' = Entries \ {v} /\ \A w \in Entries \ {v} : FdOf(w)' = FdOf(w)
    BY <1>5 DEF Entries, FdOf
  <2>2. Direct' = Direct
    BY <1>6 DEF Direct
  <2>3. {FdOf(w)' : w \in Entries'} = {FdOf(w) : w \in Entries \ {v}}
    BY <2>1
  <2>4. InUse' = {FdOf(w) : w \in Entries \ {v}} \union (Direct \ {None})
    <3>1. CASE IsDevice(c)
      BY <1>4, <3>1 DEF Kept, Tables, Agree, Entries
    <3>2. CASE ~IsDevice(c)
      <4>1. handle[c] # None /\ handle[c] \in Fd
        BY <1>3, <1>4, <1>6, <3>2 DEF FsInv, FsTypeOK
      <4>2. fd_table[v] = OnFile(handle[c])
        BY <1>3, <4>1
      <4>3. v \in Entries /\ FdOf(v) = handle[c]
        BY <1>1, <4>1, <4>2, EntryShape DEF Entries, FdOf
      <4>4. InUse' = InUse \ {FdOf(v)}
        BY <3>2, <4>3 DEF Gave
      <4>. QED BY <4>3, <4>4 DEF Tables, Agree
    <3>. QED BY <3>1, <3>2
  <2>. QED BY <2>1, <2>2, <2>3, <2>4 DEF Tables, Agree
<1>. QED BY <1>5, <1>7, <1>8 DEF Tables

\* A direct caller's fd is no entry's.
LEMMA DirectTables ==
  ASSUME FsInv, Tables, NEW c \in Client \ VfsUser, UNCHANGED <<fd_table, vfd>>, Got(c) \/ Gave(c)
  PROVE  Tables'
<1>1. \A d \in VfsUser : handle'[d] = handle[d]
  BY VfsAssumption DEF Got, Gave
<1>2. TableType' /\ Owned'
  BY <1>1 DEF Tables, TableType, Owned
<1>3. Entries' = Entries /\ \A w : FdOf(w)' = FdOf(w)
  BY DEF Entries, FdOf
<1>4. {FdOf(w)' : w \in Entries'} = {FdOf(w) : w \in Entries}
  BY <1>3
<1> DEFINE rest == {handle[d] : d \in (Client \ VfsUser) \ {c}}
<1>5. Direct = rest \union {handle[c]}
  BY DEF Direct
<1>6. Direct' = rest \union {handle'[c]}
  BY DEF Direct, Got, Gave
<1>7. CASE Got(c)
  <2>1. Direct' \ {None} = (Direct \ {None}) \union {handle'[c]}
    BY <1>5, <1>6, <1>7, Nones DEF Got
  <2>2. handle'[c] \notin {FdOf(w) : w \in Entries}
    BY <1>7 DEF Got, Tables, Agree
  <2>3. Direct' \subseteq Direct \union {handle'[c]}
    BY <1>5, <1>6
  <2>4. \A w \in Entries' : FdOf(w)' \notin Direct'
    BY <1>3, <2>2, <2>3 DEF Tables, Agree
  <2>. QED BY <1>2, <1>3, <1>4, <1>7, <2>1, <2>4 DEF Got, Tables, Agree
<1>8. CASE Gave(c)
  <2>1. handle[c] # None /\ handle'[c] = None
    BY <1>8, Nones DEF Gave, InUse
  <2>2. handle[c] \notin rest
    BY <2>1, HandleOwners
  <2>3. Direct' \ {None} = (Direct \ {None}) \ {handle[c]}
    BY <1>5, <1>6, <2>1, <2>2
  <2>4. handle[c] \notin {FdOf(w) : w \in Entries}
    BY <1>5 DEF Tables, Agree
  <2>5. \A w \in Entries : FdOf(w) # None
    <3>1. {FdOf(w) : w \in Entries} \subseteq InUse
      BY DEF Tables, Agree
    <3>. QED BY <3>1, Nones DEF InUse
  <2>6. Direct' \subseteq Direct \union {None}
    BY <1>5, <1>6, <2>1
  <2>7. \A w \in Entries' : FdOf(w)' \notin Direct'
    BY <1>3, <2>5, <2>6 DEF Tables, Agree
  <2>8. InUse' = {FdOf(w)' : w \in Entries'} \union (Direct' \ {None})
    BY <1>4, <1>8, <2>3, <2>4 DEF Gave, Tables, Agree
  <2>. QED BY <1>2, <1>3, <2>7, <2>8 DEF Tables, Agree
<1>. QED BY <1>7, <1>8

\* Nobody closes a killed user's file, and its entry keeps the fd.
LEMMA KilledTables ==
  ASSUME FsInv, Tables, NEW c \in VfsUser, Killed(c)
  PROVE  Tables'
<1>1. c \in Client /\ vfd' = [vfd EXCEPT ![c] = None] /\ handle' = [handle EXCEPT ![c] = None]
        /\ UNCHANGED <<open_fds, fd_table>>
  BY VfsAssumption DEF Killed, ram
<1>2. /\ handle'[c] = None /\ vfd'[c] = None
      /\ \A d \in Client \ {c} : handle'[d] = handle[d]
      /\ \A d \in VfsUser \ {c} : vfd'[d] = vfd[d] /\ handle'[d] = handle[d]
  BY <1>1, VfsAssumption DEF Tables, TableType, FsInv, FsTypeOK
<1>3. TableType'
  BY <1>1 DEF Tables, TableType
<1>4. Owned'
  BY <1>1, <1>2 DEF Tables, Owned
<1>5. InUse' = InUse /\ Entries' = Entries /\ Direct' = Direct /\ \A w : FdOf(w)' = FdOf(w)
  BY <1>1, <1>2 DEF InUse, Entries, Direct, FdOf
<1>6. {FdOf(w)' : w \in Entries'} = {FdOf(w) : w \in Entries}
  BY <1>5
<1>. QED BY <1>3, <1>4, <1>5, <1>6 DEF Tables, Agree

\* Both tables are empty after fs_init() and vfs_init().
LEMMA EmptyTables ==
  ASSUME handle = [c \in Client |-> None], open_fds = [fd \in Fd |-> ClosedFd],
         fd_table = [v \in VFd |-> None], vfd = [c \in VfsUser |-> None]
  PROVE  Tables
<1>1. TableType
  BY DEF TableType, EntryOf
<1>2. Owned
  BY VfsAssumption DEF Owned
<1>3. Entries = {} /\ InUse = {} /\ Direct \ {None} = {}
  BY DEF Entries, InUse, Direct, ClosedFd
<1>. QED BY <1>1, <1>2, <1>3 DEF Tables, Agree

LEMMA RestartTables ==
  ASSUME Restart
  PROVE  Tables'
<1>1. /\ handle' = [c \in Client |-> None] /\ open_fds' = [fd \in Fd |-> ClosedFd]
      /\ fd_table' = [v \in VFd |-> None] /\ vfd' = [c \in VfsUser |-> None]
  BY DEF Restart, PowerCycle
<1>2. TableType'
  BY <1>1 DEF TableType, EntryOf
<1>3. Owned'
  BY <1>1, VfsAssumption DEF Owned
<1>4. Entries' = {} /\ InUse' = {} /\ Direct' \ {None} = {}
  BY <1>1 DEF Entries, InUse, Direct, ClosedFd
<1>. QED BY <1>2, <1>3, <1>4 DEF Tables, Agree
-----------------------------------------------------------------------------
(* What a step does to the calls of the users *)

\* Only the holder of vfs_lock is in the filesystem.
LEMMA OthersOut ==
  ASSUME VInv, NEW c \in VfsUser, vfs_lock = None \/ vfs_lock = c
  PROVE  \A d \in VfsUser \ {c} : call[d] = None
<1>1. None \notin VfsUser
  BY FsAssumption, VfsAssumption
<1>. QED BY <1>1 DEF VInv, Asking

\* The call on a device never reaches the filesystem.
LEMMA DeviceOut ==
  ASSUME VInv, FsInv, NEW c \in VfsUser, vfs_lock = c, asked[1] \in {"read", "write", "close"}, IsDevice(c)
  PROVE  call[c] = None
<1>1. handle[c] = None
  BY Served
<1>2. SUFFICES ASSUME call[c] # None PROVE FALSE
  OBVIOUS
<1>3. c \in Client /\ Doing(c) \in {"read", "write", "close"}
  BY <1>2, VfsAssumption DEF VInv, Asking
<1>4. handle[c] = call[c][2]
  BY <1>3 DEF FsInv, Handles
<1>5. \E what \in {"read", "write", "close"}, fd \in Fd : call[c] = <<what, fd>>
  BY <1>3, Shapes DEF FsInv
<1>. QED BY <1>1, <1>4, <1>5, Nones

LEMMA ReturnAsks ==
  ASSUME vfs_lock' = None, \A d \in VfsUser : call'[d] = None
  PROVE  Asking'
BY DEF Asking, Doing

LEMMA GoesOnAsks ==
  ASSUME VInv, NEW c \in VfsUser, vfs_lock = c, UNCHANGED vvars, CallOf(c),
         call'[c] # None => Doing(c)' = asked[1],
         Doing(c)' = "open" => asked[2] \in Name /\ fd_alloc # {}
  PROVE  Asking'
<1>1. UNCHANGED <<vfs_lock, asked, fd_table, vfd>> /\ fd_alloc' = fd_alloc
  BY DEF vvars, fd_alloc
<1>2. \A d \in VfsUser \ {c} : call'[d] = None /\ Doing(d)' = "nothing"
  BY OthersOut, VfsAssumption DEF CallOf, Doing
<1>. QED BY <1>1, <1>2 DEF VInv, Asking

LEMMA UserAsks ==
  ASSUME VInv, FsInv, NEW c \in VfsUser, VfsOperation(c)
  PROVE  Asking'
<1>0. c \in Client /\ c # None /\ ModesOf[c] \subseteq SUBSET Flag
  BY FsAssumption, VfsAssumption
<1>1. ASSUME vfs_lock = c, vfs_lock' = None, call'[c] = None, CallOf(c)
      PROVE  Asking'
  BY <1>1, OthersOut, ReturnAsks, VfsAssumption DEF CallOf
<1>2. ASSUME vfs_lock = c, vfs_lock' = None, call' = call, call[c] = None
      PROVE  Asking'
  BY <1>1, <1>2 DEF CallOf
<1>3. CASE VfsCalls(c)
  <2>1. PICK request \in Request(c) : Locks(c, request) /\ (request[1] = "open" <=> vfd[c] = None)
    <3>1. ASSUME NEW path \in PathsOf[c], NEW mode \in ModesOf[c]
          PROVE  <<"open", path, mode>> \in Request(c) /\ <<"open", path, mode>>[1] = "open"
      BY DEF Request
    <3>2. ASSUME NEW what \in {"read", "write", "close"}
          PROVE  <<what>> \in Request(c) /\ <<what>>[1] # "open"
      BY DEF Request
    <3>3. CASE vfd[c] = None
      <4>1. PICK path \in PathsOf[c], mode \in ModesOf[c] : Locks(c, <<"open", path, mode>>)
        BY <1>3, <3>3 DEF VfsCalls
      <4>. QED BY <3>1, <3>3, <4>1
    <3>4. CASE vfd[c] # None
      <4>1. PICK what \in {"read", "write", "close"} : Locks(c, <<what>>)
        BY <1>3, <3>4 DEF VfsCalls
      <4>. QED BY <3>2, <3>4, <4>1
    <3>. QED BY <3>3, <3>4
  <2>2. /\ vfs_lock = None /\ call[c] = None
        /\ vfs_lock' = c /\ asked' = request /\ UNCHANGED <<call, fd_table, vfd>>
    BY <2>1 DEF Locks, Idle, fvars
  <2>3. \A d \in VfsUser : call'[d] = None /\ Doing(d)' = "nothing"
    BY <2>2, OthersOut DEF Doing
  <2>4. vfs_lock' # None => asked' \in Request(vfs_lock') /\ (asked'[1] = "open" <=> vfd'[vfs_lock'] = None)
    BY <2>1, <2>2
  <2>. QED BY <2>3, <2>4 DEF Asking, Request
<1>4. CASE vfs_open(c)
  <2>1. vfs_lock = c /\ asked[1] = "open"
    BY <1>4 DEF vfs_open, TableFull, OpenDevice, OpenFile, OpenMissing, Serving
  <2>2. call[c] # None => asked[2] \in Name /\ fd_alloc # {}
    BY <2>1 DEF VInv, Asking
  <2>3. CASE TableFull(c) \/ OpenDevice(c) \/ OpenMissing(c)
    <3>1. call' = call /\ vfs_lock' = None
      BY <2>3 DEF TableFull, OpenDevice, OpenMissing, Fails, Unlocks, fvars
    <3>2. call[c] = None
      BY <2>2, <2>3, VfsAssumption DEF TableFull, OpenDevice, OpenMissing, Idle
    <3>. QED BY <1>2, <2>1, <3>1, <3>2
  <2>4. CASE OpenFile(c)
    <3>1. asked[2] \in Name /\ asked[3] \in SUBSET Flag /\ fd_alloc # {}
      BY <1>0, <2>1, <2>4, Served DEF OpenFile
    <3>2. CASE OpenFound(c, asked[2], asked[3]) /\ Opened(c)
      <4>1. call' = call /\ call[c] = None /\ vfs_lock' = None
        BY <1>0, <3>1, <3>2, OpenMoves DEF Opened, Unlocks
      <4>. QED BY <1>2, <2>1, <4>1
    <3>3. CASE OpenCreates(c, asked[2], asked[3]) /\ UNCHANGED vvars
      <4>1. CallOf(c) /\ Doing(c)' = "open"
        BY <1>0, <3>1, <3>3, OpenMoves
      <4>. QED BY <2>1, <3>1, <3>3, <4>1, GoesOnAsks
    <3>4. CASE OpenCreated(c) /\ Opened(c)
      <4>1. CallOf(c) /\ call'[c] = None /\ vfs_lock' = None
        BY <1>0, <3>4, OpenMoves DEF Opened, Unlocks
      <4>. QED BY <1>1, <2>1, <4>1
    <3>. QED BY <2>4, <3>2, <3>3, <3>4 DEF OpenFile
  <2>. QED BY <1>4, <2>3, <2>4 DEF vfs_open
<1>5. CASE DeviceTransfers(c) \/ CloseDevice(c)
  <2>1. /\ vfs_lock = c /\ asked[1] \in {"read", "write", "close"} /\ IsDevice(c)
        /\ call' = call /\ vfs_lock' = None
    BY <1>5 DEF DeviceTransfers, CloseDevice, Serving, Fails, Frees, Unlocks, fvars
  <2>. QED BY <1>2, <2>1, DeviceOut
<1>6. CASE FileTransfers(c)
  <2>1. vfs_lock = c /\ asked[1] \in {"read", "write"} /\ ~IsDevice(c)
    BY <1>6 DEF FileTransfers, Serving
  <2>2. handle[c] # None /\ FsFd(c) = handle[c]
    BY <2>1, Served
  <2>3. CASE Tests(c, asked[1], FsFd(c)) /\ UNCHANGED vvars
    <3>1. CallOf(c) /\ Doing(c)' = asked[1]
      BY <1>0, <2>1, <2>2, <2>3, CallMoves
    <3>. QED BY <2>1, <2>3, <3>1, GoesOnAsks
  <2>4. CASE (fs_read(c) \/ fs_write(c)) /\ Fails
    <3>1. CallOf(c) /\ call'[c] = None /\ vfs_lock' = None
      BY <1>0, <2>4, CallMoves DEF Fails, Unlocks
    <3>. QED BY <1>1, <2>1, <3>1
  <2>. QED BY <1>6, <2>3, <2>4 DEF FileTransfers
<1>7. CASE CloseFile(c)
  <2>1. vfs_lock = c /\ asked[1] = "close" /\ ~IsDevice(c)
    BY <1>7 DEF CloseFile, Serving
  <2>2. handle[c] # None /\ FsFd(c) = handle[c]
    BY <2>1, Served
  <2>3. CASE Tests(c, "close", FsFd(c)) /\ UNCHANGED vvars
    <3>1. CallOf(c) /\ Doing(c)' = "close"
      BY <1>0, <2>2, <2>3, CallMoves
    <3>. QED BY <2>1, <2>3, <3>1, GoesOnAsks
  <2>4. CASE CloseCommits(c) /\ UNCHANGED vvars
    <3>1. call' = call /\ Doing(c) = "close"
      BY <1>0, <2>4, CloseMoves
    <3>2. CallOf(c) /\ Doing(c)' = "close"
      BY <3>1 DEF CallOf, Doing
    <3>. QED BY <2>1, <2>4, <3>2, GoesOnAsks
  <2>5. CASE (CloseClean(c) \/ CloseCommitted(c)) /\ Frees(c)
    <3>1. CallOf(c) /\ call'[c] = None /\ vfs_lock' = None
      BY <1>0, <2>5, CloseMoves DEF Frees, Unlocks
    <3>. QED BY <1>1, <2>1, <3>1
  <2>. QED BY <1>7, <2>3, <2>4, <2>5 DEF CloseFile
<1>8. CASE Killed(c)
  <2>1. UNCHANGED <<call, vfs_lock, asked, fd_table>> /\ vfs_lock # c /\ vfd' = [vfd EXCEPT ![c] = None]
    BY <1>8 DEF Killed
  <2>2. vfs_lock # None => vfd'[vfs_lock] = vfd[vfs_lock]
    BY <2>1 DEF VInv, VfsTypeOK
  <2>3. fd_alloc' = fd_alloc /\ \A d : Doing(d)' = Doing(d)
    BY <2>1 DEF fd_alloc, Doing
  <2>. QED BY <2>1, <2>2, <2>3 DEF VInv, Asking, Request
<1>. QED BY <1>3, <1>4, <1>5, <1>6, <1>7, <1>8 DEF VfsOperation
-----------------------------------------------------------------------------
(* Both invariants, through every step *)

LEMMA UserTables ==
  ASSUME VInv, FsInv, NEW c \in VfsUser, VfsOperation(c)
  PROVE  Tables'
<1>0. c \in Client /\ Tables
  BY VfsAssumption DEF VInv, VfsTypeOK, Tables, TableType, EntryOf
<1>1. ASSUME UNCHANGED <<fd_table, vfd, open_fds, handle>>
      PROVE  Tables'
  BY <1>0, <1>1, KeptTables, KeptFds
<1>2. CASE VfsCalls(c)
  BY <1>1, <1>2 DEF VfsCalls, Locks, fvars, ram
<1>3. CASE vfs_open(c)
  <2>1. CASE TableFull(c) \/ OpenMissing(c)
    BY <1>1, <2>1 DEF TableFull, OpenMissing, Fails, fvars, ram
  <2>2. vfs_lock = c /\ asked[1] = "open"
    BY <1>3 DEF vfs_open, TableFull, OpenDevice, OpenFile, OpenMissing, Serving
  <2>3. /\ asked[2] \in Name \union Device /\ asked[3] \in SUBSET Flag /\ vfd[c] = None
    BY <1>0, <2>2, Served, FsAssumption
  <2>4. CASE OpenDevice(c)
    <3>1. Kept /\ fd_alloc # {} /\ asked[2] \in Device
      BY <2>4, KeptFds DEF OpenDevice, fvars, ram
    <3>2. Fails \/ Fills(c, OnDevice(asked[2]))
      BY <2>4 DEF OpenDevice
    <3>. QED BY <1>0, <2>3, <3>1, <3>2, KeptTables, FillsDevice DEF Fails
  <2>5. ASSUME Kept \/ Got(c), Opened(c), fd_alloc # {}, handle[c] = None
        PROVE  Tables'
    <3>1. CASE handle'[c] = None
      <4>1. ~Got(c)
        BY <3>1, Nones DEF Got
      <4>. QED BY <1>0, <2>5, <3>1, <4>1, KeptTables DEF Opened
    <3>2. CASE handle'[c] # None
      <4>1. Got(c) /\ Fills(c, OnFile(handle'[c]))
        BY <2>5, <3>2 DEF Opened, Kept
      <4>. QED BY <1>0, <2>3, <2>5, <4>1, FillsFile
    <3>. QED BY <3>1, <3>2
  <2>6. CASE OpenFile(c)
    <3>1. asked[2] \in Name /\ fd_alloc # {}
      BY <2>6 DEF OpenFile
    <3>2. CASE OpenCreates(c, asked[2], asked[3]) /\ UNCHANGED vvars
      BY <1>0, <2>3, <3>1, <3>2, OpenMoves, KeptTables DEF vvars
    <3>3. CASE (OpenFound(c, asked[2], asked[3]) \/ OpenCreated(c)) /\ Opened(c)
      BY <1>0, <2>3, <2>5, <3>1, <3>3, OpenMoves
    <3>. QED BY <2>6, <3>2, <3>3 DEF OpenFile
  <2>. QED BY <1>3, <2>1, <2>4, <2>6 DEF vfs_open
<1>4. CASE DeviceTransfers(c)
  BY <1>1, <1>4 DEF DeviceTransfers, Fails, fvars, ram
<1>5. CASE FileTransfers(c)
  <2>1. vfs_lock = c /\ asked[1] \in {"read", "write"} /\ ~IsDevice(c)
    BY <1>5 DEF FileTransfers, Serving
  <2>2. handle[c] # None /\ FsFd(c) = handle[c]
    BY <2>1, Served
  <2>3. Tests(c, asked[1], FsFd(c)) \/ fs_read(c) \/ fs_write(c)
    BY <1>5 DEF FileTransfers
  <2>4. Kept
    BY <1>0, <2>1, <2>2, <2>3, CallMoves
  <2>. QED BY <1>0, <1>5, <2>4, KeptTables DEF FileTransfers, Fails, vvars
<1>6. CASE CloseDevice(c)
  <2>1. vfs_lock = c /\ asked[1] = "close" /\ IsDevice(c) /\ Frees(c) /\ Kept
    BY <1>6, KeptFds DEF CloseDevice, Serving, fvars, ram
  <2>2. vfd[c] # None
    BY <2>1, Served, Nones
  <2>. QED BY <1>0, <2>1, <2>2, FreesTables
<1>7. CASE CloseFile(c)
  <2>1. vfs_lock = c /\ asked[1] = "close" /\ ~IsDevice(c)
    BY <1>7 DEF CloseFile, Serving
  <2>2. handle[c] # None /\ FsFd(c) = handle[c] /\ vfd[c] # None
    BY <2>1, Served, Nones
  <2>3. CASE (Tests(c, "close", FsFd(c)) \/ CloseCommits(c)) /\ UNCHANGED vvars
    BY <1>0, <2>2, <2>3, CallMoves, CloseMoves, KeptTables DEF vvars
  <2>4. CASE (CloseClean(c) \/ CloseCommitted(c)) /\ Frees(c)
    BY <1>0, <2>1, <2>2, <2>4, CloseMoves, FreesTables
  <2>. QED BY <1>7, <2>3, <2>4 DEF CloseFile
<1>8. CASE Killed(c)
  BY <1>0, <1>8, KilledTables
<1>. QED BY <1>2, <1>3, <1>4, <1>5, <1>6, <1>7, <1>8 DEF VfsOperation

\* The lock is a user's or nobody's.
LEMMA UserLocks ==
  ASSUME VInv, NEW c \in VfsUser, VfsOperation(c)
  PROVE  vfs_lock' \in VfsUser \union {None}
<1>1. vfs_lock' \in {vfs_lock, c, None}
  <2>1. CASE vfs_open(c)
    BY <2>1 DEF vfs_open, TableFull, OpenDevice, OpenFile, OpenMissing, Opened, Fails, Unlocks, vvars
  <2>2. CASE DeviceTransfers(c) \/ FileTransfers(c) \/ CloseDevice(c) \/ CloseFile(c)
    BY <2>2 DEF DeviceTransfers, FileTransfers, CloseDevice, CloseFile, Frees, Fails, Unlocks, vvars
  <2>3. CASE VfsCalls(c) \/ Killed(c)
    BY <2>3 DEF VfsCalls, Locks, Killed
  <2>. QED BY <2>1, <2>2, <2>3 DEF VfsOperation
<1>. QED BY <1>1 DEF VInv, VfsTypeOK

LEMMA VfsInvInit == VfsInit => FsInv /\ VInv
<1> SUFFICES ASSUME VfsInit PROVE FsInv /\ VInv
  OBVIOUS
<1>1. FsInv
  BY FsInvInit DEF VfsInit
<1>2. Tables
  BY EmptyTables DEF VfsInit, FsInit
<1>3. vfs_lock = None /\ \A c \in Client : call[c] = None
  BY DEF VfsInit, FsInit
<1>4. Asking
  BY <1>3, VfsAssumption DEF Asking, Doing
<1>5. VfsTypeOK
  BY <1>1, <1>2, <1>3 DEF VfsInit, FsInv, Tables, TableType, EntryOf, VfsTypeOK
<1>. QED BY <1>1, <1>2, <1>4, <1>5 DEF VInv, Tables

LEMMA VfsInvStep ==
  ASSUME FsInv, VInv, Deletes = "closed", [VfsNext]_allvars
  PROVE  FsInv' /\ VInv'
<1>1. FsInv'
  <2>1. VfsNext => FsStep \/ UNCHANGED fvars
    BY VfsSteps
  <2>2. UNCHANGED allvars => UNCHANGED fvars
    BY DEF allvars
  <2>. QED BY <2>1, <2>2, FsInvStep, FsInvStutter
<1>2. Tables
  BY DEF VInv, VfsTypeOK, Tables, TableType, EntryOf
<1>3. Tables' /\ Asking' /\ vfs_lock' \in VfsUser \union {None}
  <2>1. ASSUME NEW c \in VfsUser, VfsOperation(c)
        PROVE  Tables' /\ Asking' /\ vfs_lock' \in VfsUser \union {None}
    BY <2>1, UserTables, UserAsks, UserLocks
  <2>2. ASSUME UNCHANGED vvars, \A d \in VfsUser : call'[d] = call[d]
        PROVE  Asking' /\ vfs_lock' \in VfsUser \union {None}
    <3>1. UNCHANGED <<vfs_lock, asked, fd_table, vfd>> /\ fd_alloc' = fd_alloc
      BY <2>2 DEF vvars, fd_alloc
    <3>2. \A d \in VfsUser : Doing(d)' = Doing(d)
      BY <2>2 DEF Doing
    <3>. QED BY <2>2, <3>1, <3>2 DEF VInv, Asking, VfsTypeOK, Request
  <2>3. ASSUME NEW c \in Client \ VfsUser, Operation(c), UNCHANGED vvars
        PROVE  Tables' /\ Asking' /\ vfs_lock' \in VfsUser \union {None}
    <3>1. (Kept \/ Got(c) \/ Gave(c)) /\ CallOf(c)
      BY <2>3, OperationMoves
    <3>2. UNCHANGED <<fd_table, vfd>> /\ \A d \in VfsUser : call'[d] = call[d]
      BY <2>3, <3>1, VfsAssumption DEF CallOf, vvars
    <3>. QED BY <1>2, <2>2, <2>3, <3>1, <3>2, KeptTables, DirectTables
  <2>4. CASE \/ (FlashDone \/ FlashFailed) /\ UNCHANGED vvars
             \/ \E c \in VfsUser : KilledInside(c)
             \/ UNCHANGED allvars
    <3>1. UNCHANGED <<open_fds, handle, call, vvars>>
      BY <2>4 DEF FlashDone, FlashFailed, KilledInside, ram, allvars, fvars
    <3>. QED BY <1>2, <2>2, <3>1, KeptFds, KeptTables DEF vvars
  <2>5. CASE Restart
    <3>1. vfs_lock' = None /\ \A c \in Client : call'[c] = None
      BY <2>5 DEF Restart, PowerCycle
    <3>. QED BY <2>5, <3>1, RestartTables, ReturnAsks, VfsAssumption
  <2>. QED BY <2>1, <2>3, <2>4, <2>5 DEF VfsNext
<1>4. stuck' \subseteq Killable
  <2>1. stuck \subseteq Killable
    BY DEF VInv, VfsTypeOK
  <2>2. stuck' = stuck \/ stuck' = {} \/ \E c \in Killable : stuck' = stuck \union {c}
    BY DEF VfsNext, KilledInside, Restart, allvars
  <2>. QED BY <2>1, <2>2
<1>5. VfsTypeOK'
  BY <1>1, <1>3, <1>4 DEF FsInv, Tables, TableType, EntryOf, VfsTypeOK
<1>. QED BY <1>1, <1>3, <1>5 DEF VInv, Tables

LEMMA Invariants ==
  ASSUME Deletes = "closed"
  PROVE  VfsSpec => [](FsInv /\ VInv)
<1>1. FsInv /\ VInv /\ [VfsNext]_allvars => FsInv' /\ VInv'
  BY VfsInvStep
<1>. QED BY <1>1, VfsInvInit, PTL DEF VfsSpec
-----------------------------------------------------------------------------
(* The theorems *)

\* Fds, entries, sizes and positions stay within their tables and sectors: a
\* write never runs past a sector, an open never takes an fd or an entry that
\* does not exist, and vfs_lock is only ever a VFS caller's.
THEOREM VfsTypes ==
  ASSUME Deletes = "closed"
  PROVE  VfsSpec => []VfsTypeOK
<1>1. FsInv /\ VInv => VfsTypeOK
  BY DEF VInv
<1>. QED BY <1>1, Invariants, PTL

\* The one write buffer of fs.c: while nobody is in fs_mutex it is claimed for a
\* file exactly while one fd is open for writing, and that on this file.  No
\* refused open, failed close or flash operation leaks the claim or gives the
\* buffer to two.
THEOREM BufferSafe ==
  ASSUME Deletes = "closed"
  PROVE  VfsSpec => []BufferHasOneWriter
<1>1. FsInv => BufferHasOneWriter
  <2> SUFFICES ASSUME FsInv PROVE BufferHasOneWriter
    OBVIOUS
  <2>1. CASE scratch_owner = None
    <3>1. Writers = {}
      BY <2>1, Nones DEF FsInv, Claimed, Writers, FsTypeOK
    <3>. QED BY <2>1, <3>1 DEF BufferHasOneWriter, Writers
  <2>2. CASE scratch_owner # None
    <3>1. PICK fd \in Writers : TRUE
      BY <2>2 DEF FsInv, Claimed
    <3>2. fd \in Fd /\ Writers = {fd} /\ open_fds[fd].file_idx = scratch_owner
      BY <3>1 DEF FsInv, Claimed, Writers
    <3>. QED BY <2>2, <3>2 DEF BufferHasOneWriter, Writers
  <2>. QED BY <2>1, <2>2
<1>. QED BY <1>1, Invariants, PTL

\* A file with no create, write or delete under way holds in RAM what the last
\* one to succeed meant it to, and a power loss now would leave it so unless it
\* falls on the erased superblock: whatever the others do meanwhile, fail at or
\* are killed in.
THEOREM FilesSettled ==
  ASSUME Deletes = "closed"
  PROVE  VfsSpec => []Settled
<1>1. FsInv => Settled
  BY DEF FsInv, Durable, Settled, SettledInRam, SettledOnFlash
<1>. QED BY <1>1, Invariants, PTL

\* The tables of vfs.c and fs.c name the same open files whenever no call is under
\* way, whichever opens and closes failed and whichever users were killed.
THEOREM TablesConsistent ==
  ASSUME Deletes = "closed"
  PROVE  VfsSpec => []TablesAgree
<1>1. FsInv /\ VInv => TablesAgree
  BY DEF VInv, Agree, TablesAgree, Entries, FdOf, Direct, InUse
<1>. QED BY <1>1, Invariants, PTL
=============================================================================
