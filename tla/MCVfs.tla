------------------------------- MODULE MCVfs --------------------------------
(***************************************************************************)
(* An instance of Vfs: the shell rewrites, deletes and formats with the    *)
(* filesystem's own calls; through the VFS one app appends, and may be     *)
(* killed, and another reads files and a device.                           *)
(***************************************************************************)
EXTENDS Vfs, TLC

CONSTANTS shell, writer, reader, g, long, led

Reading   == {}
Rewriting == {"w", "creat", "trunc"}
Appending == {"w", "creat", "append"}
MCModesOf == (shell :> {Rewriting}) @@ (writer :> {Appending}) @@ (reader :> {Reading})
MCPathsOf == (writer :> {g}) @@ (reader :> {g, led})

\* A name too long for an entry is cut when it is stored: long becomes g.
MCStored == [n \in Name |-> IF n = long THEN g ELSE n]

\* States that differ only in what a closed fd or an unclaimed buffer still
\* holds are one: with Deletes = "closed" nothing reads either.
Live ==
  <<fs_mutex, superblock_ram, scratch_owner, flash, call, handle, todo, rc, failures, ghost, vvars, stuck,
    IF scratch_owner = None THEN None ELSE fs_buffer,
    [fd \in Fd |-> IF open_fds[fd].used THEN open_fds[fd] ELSE ClosedFd]>>
=============================================================================
