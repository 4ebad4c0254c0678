-------------------------------- MODULE Heap --------------------------------
(***************************************************************************)
(* The kernel heap: a list of blocks in address order, first fit with a    *)
(* split, and merging with the neighbours on free.  kmalloc() and kfree()  *)
(* hold heap_lock throughout, so each is one step of its caller: here they *)
(* are operators on the list.  Sizes are in units of eight bytes.          *)
(***************************************************************************)
EXTENDS Naturals, Sequences, SequencesExt, FiniteSetsExt

CONSTANTS
  HEAP_SIZE, HEADER_SIZE,
  SPLIT_THRESHOLD          \* the smallest payload worth a block of its own

ASSUME HeapAssumption ==
  /\ HEADER_SIZE \in Nat \ {0} /\ SPLIT_THRESHOLD \in Nat
  /\ HEAP_SIZE \in Nat /\ HEAP_SIZE > HEADER_SIZE

Block(at, size, free) == [at |-> at, size |-> size, free |-> free]

kmem_init == <<Block(0, HEAP_SIZE - HEADER_SIZE, TRUE)>>

\* The blocks that can take n units.
Fits(h, n) == {i \in DOMAIN h : h[i].free /\ h[i].size >= n}

\* What becomes of block b when n units of it are taken.
Carved(b, n) ==
  LET leftover == b.size - n
  IN  IF leftover >= HEADER_SIZE + SPLIT_THRESHOLD
      THEN <<Block(b.at, n, FALSE),
             Block(b.at + HEADER_SIZE + n, leftover - HEADER_SIZE, TRUE)>>
      ELSE <<[b EXCEPT !.free = FALSE]>>

\* kmalloc(n), when some block fits: where the block is, and the list after.
MallocAt(h, n) == h[Min(Fits(h, n))].at
Malloc(h, n) ==
  LET i == Min(Fits(h, n)) IN SubSeq(h, 1, i - 1) \o Carved(h[i], n) \o SubSeq(h, i + 1, Len(h))

\* Blocks i..j of the list become one free block.
Merged(h, i, j) ==
  SubSeq(h, 1, i - 1)
    \o <<Block(h[i].at, h[j].at + h[j].size - h[i].at, TRUE)>>
    \o SubSeq(h, j + 1, Len(h))

\* Mutant: a freed block is merged with what follows it only.
FreeForward(h, at) ==
  LET i == CHOOSE k \in DOMAIN h : h[k].at = at
      last == Max({j \in i..Len(h) : \A k \in i+1..j : h[k].free})
  IN  Merged(h, i, last)

\* kfree() of the block at this address: it is merged with all the free blocks
\* that follow it, and with the one before it if that is free.
Free(h, at) ==
  LET i == CHOOSE k \in DOMAIN h : h[k].at = at
      last == Max({j \in i..Len(h) : \A k \in i+1..j : h[k].free})
      first == IF i > 1 /\ h[i - 1].free THEN i - 1 ELSE i
  IN  Merged(h, first, last)

UsedBlocks(h) == {h[i].at : i \in {k \in DOMAIN h : ~h[k].free}}

\* The blocks cover the heap, each ending where the next begins.
Tiles(h) ==
  /\ h # <<>> /\ h[1].at = 0
  /\ h[Len(h)].at + HEADER_SIZE + h[Len(h)].size = HEAP_SIZE
  /\ \A i \in 1..Len(h)-1 : h[i].at + HEADER_SIZE + h[i].size = h[i + 1].at

\* No two free blocks are neighbours.
Coalesced(h) == \A i \in 1..Len(h)-1 : ~(h[i].free /\ h[i + 1].free)
=============================================================================
