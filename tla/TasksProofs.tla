---------------------------- MODULE TasksProofs -----------------------------
(***************************************************************************)
(* Processes, threads, PIDs and the heap, for pools, PID ranges, stacks    *)
(* and a heap of any size and any number of callers of SYS_SPAWN.  That    *)
(* the pools and the heap agree is proved of SerialSpec: while no two of   *)
(* run, SYS_SPAWN, thread creation, kill and killproc overlap and PendSV   *)
(* leaves the compaction of threads[] alone, which the code does not see   *)
(* to.  What PIDs need is less, and is proved of TasksSpec, where anything *)
(* comes between anything, in the last part.                               *)
(*                                                                         *)
(* The argument.  Splice says what kmalloc() and kfree() do to the list of *)
(* blocks: each replaces a stretch of it by another that covers the same   *)
(* bytes, so the list stays whole and merged (MallocWorks, FreeWorks).     *)
(* For the pools an operation is a row of steps, and between any two of    *)
(* them threads exit and PendSV reaps them.  TasksInv says at every step   *)
(* what an operation has found and may rely on (Found, Made, Freed), that  *)
(* a killer and PendSV never work on one thread (Apart), what the slots    *)
(* they pass through look like (SlotsAt), and how far threads[] agrees     *)
(* with the TCBs meanwhile: a thread being freed is first out of the list  *)
(* (Out), and until the list is compacted it reaches one entry further     *)
(* than thread_count says (Reach).  A process without threads, a thread    *)
(* without process and a stack without owner exist only while somebody is  *)
(* about to free or fill them (Peopled, Housed, Owned).  For every kind of *)
(* step there is a lemma that says what it does (...Effect) and one that   *)
(* it keeps TasksInv (...Keeps).                                           *)
(***************************************************************************)
EXTENDS Tasks, SequenceTheorems, FiniteSetTheorems, WellFoundedInduction, TLAPS

-----------------------------------------------------------------------------
(* The least and the greatest of some numbers.                             *)

LEMMA LeastOf ==
  ASSUME NEW S \in SUBSET Nat, S # {}
  PROVE  Min(S) \in S /\ \A y \in S : Min(S) <= y
<1> DEFINE R == {ss \in Nat \X Nat : ss[1] < ss[2]}
<1>1. IsWellFoundedOn(R, Nat)
  BY NatLessThanWellFounded DEF OpToRel
<1>2. PICK x \in S : \A y \in S : <<y, x>> \notin R
  <2> HIDE DEF R
  <2>. QED BY <1>1, WFMin
<1>3. \A y \in S : x \in Nat /\ y \in Nat /\ ~(y < x)
  BY <1>2
<1>4. \E z \in S : \A y \in S : z <= y
  BY <1>3
<1>. QED BY <1>4, Zenon DEF Min

LEMMA GreatestOf ==
  ASSUME NEW S \in SUBSET Nat, S # {}, NEW n \in Nat, \A y \in S : y <= n
  PROVE  Max(S) \in S /\ \A y \in S : Max(S) >= y
<1> DEFINE D == {n - y : y \in S}
<1>1. D \in SUBSET Nat /\ D # {}
  <2>1. \A y \in S : n - y \in Nat
    OBVIOUS
  <2>. QED BY <2>1
<1>2. Min(D) \in D /\ \A d \in D : Min(D) <= d
  <2> HIDE DEF D
  <2>. QED BY <1>1, LeastOf
<1>3. PICK x \in S : Min(D) = n - x
  BY <1>2
<1>4. \A y \in S : x >= y
  BY <1>2, <1>3
<1>5. \E z \in S : \A y \in S : z >= y
  BY <1>4
<1>. QED BY <1>5, Zenon DEF Max

-----------------------------------------------------------------------------
(* Lists of blocks.                                                        *)

Blocks == [at : Nat, size : Nat, free : BOOLEAN]

\* The heap as kmem_init(), kmalloc() and kfree() leave it.
Whole(h) == h \in Seq(Blocks) /\ Tiles(h) /\ Coalesced(h)

\* Entries i to j of a list are replaced by others.
Splice(h, i, mid, j) == SubSeq(h, 1, i - 1) \o mid \o SubSeq(h, j + 1, Len(h))

\* s is such a list: its length, and what is where in it.
Spliced(h, i, mid, j, s) ==
  /\ Len(s) = i - 1 + Len(mid) + Len(h) - j
  /\ \A k \in 1..i - 1 : s[k] = h[k]
  /\ \A k \in 1..Len(mid) : s[i - 1 + k] = mid[k]
  /\ \A k \in j + 1..Len(h) : s[k + i - 1 + Len(mid) - j] = h[k]

\* Place k of s and the one after it are of h or of mid.
Neighbours(h, i, mid, j, s, k) ==
  \/ k + 1 \in 1..i - 1 /\ s[k] = h[k] /\ s[k + 1] = h[k + 1] /\ k \in 1..Len(h) - 1
  \/ k = i - 1 /\ i > 1 /\ s[k] = h[i - 1] /\ s[k + 1] = mid[1]
  \/ \E n \in 1..Len(mid) - 1 : s[k] = mid[n] /\ s[k + 1] = mid[n + 1]
  \/ j < Len(h) /\ s[k] = mid[Len(mid)] /\ s[k + 1] = h[j + 1]
  \/ \E n \in j + 1..Len(h) - 1 : s[k] = h[n] /\ s[k + 1] = h[n + 1]

LEMMA SpliceProperties ==
  ASSUME NEW B, NEW h \in Seq(B), NEW mid \in Seq(B),
         NEW i \in 1..Len(h), NEW j \in i..Len(h)
  PROVE  Splice(h, i, mid, j) \in Seq(B) /\ Spliced(h, i, mid, j, Splice(h, i, mid, j))
<1> DEFINE before == SubSeq(h, 1, i - 1)
           after == SubSeq(h, j + 1, Len(h))
<1>1. Len(h) \in Nat /\ Len(mid) \in Nat /\ i \in Nat /\ j \in Nat /\ i <= j /\ j <= Len(h)
  OBVIOUS
<1>2. /\ before \in Seq(B) /\ Len(before) = i - 1
      /\ \A k \in 1..i - 1 : before[k] = h[k]
  <2>1. \A k \in 1..i - 1 : h[k] \in B
    BY <1>1
  <2>. QED BY <1>1, <2>1, SubSeqProperties
<1>3. /\ after \in Seq(B) /\ Len(after) = Len(h) - j
      /\ \A k \in 1..Len(h) - j : after[k] = h[j + k]
  <2>1. \A k \in j + 1..Len(h) : h[k] \in B
    BY <1>1
  <2>2. /\ after \in Seq(B) /\ Len(after) = IF j + 1 <= Len(h) THEN Len(h) - (j + 1) + 1 ELSE 0
        /\ \A k \in 1..Len(h) - (j + 1) + 1 : after[k] = h[j + 1 + k - 1]
    BY <1>1, <2>1, SubSeqProperties
  <2>. QED BY <1>1, <2>2
<1> HIDE DEF before, after
<1> DEFINE head == before \o mid
<1>4. /\ head \in Seq(B) /\ Len(head) = i - 1 + Len(mid)
      /\ \A k \in 1..i - 1 : head[k] = h[k]
      /\ \A k \in 1..Len(mid) : head[i - 1 + k] = mid[k]
  <2>1. /\ head \in Seq(B) /\ Len(head) = Len(before) + Len(mid)
        /\ \A k \in 1..Len(before) + Len(mid) :
             head[k] = IF k <= Len(before) THEN before[k] ELSE mid[k - Len(before)]
    BY <1>2, ConcatProperties
  <2> HIDE DEF head
  <2>2. \A k \in 1..i - 1 : k \in 1..Len(before) + Len(mid) /\ k <= Len(before)
    BY <1>1, <1>2
  <2>3. \A k \in 1..Len(mid) : /\ i - 1 + k \in 1..Len(before) + Len(mid)
                               /\ ~(i - 1 + k <= Len(before)) /\ (i - 1 + k) - Len(before) = k
    BY <1>1, <1>2
  <2>4. \A k \in 1..Len(mid) : head[i - 1 + k] = mid[(i - 1 + k) - Len(before)]
    BY <2>1, <2>3
  <2>. QED BY <1>1, <1>2, <2>1, <2>2, <2>3, <2>4
<1> HIDE DEF head
<1>5. /\ head \o after \in Seq(B) /\ Len(head \o after) = Len(head) + Len(after)
      /\ \A k \in 1..Len(head) + Len(after) :
           (head \o after)[k] = IF k <= Len(head) THEN head[k] ELSE after[k - Len(head)]
  <2>1. head \in Seq(B) /\ after \in Seq(B)
    BY <1>3, <1>4
  <2>. QED BY <2>1, ConcatProperties
<1>6. Splice(h, i, mid, j) = head \o after
  BY DEF Splice, head, before, after
<1> DEFINE s == Splice(h, i, mid, j)
<1> HIDE DEF s
<1>7. /\ s \in Seq(B) /\ Len(s) = i - 1 + Len(mid) + Len(h) - j
      /\ \A k \in 1..Len(s) : s[k] = IF k <= i - 1 + Len(mid) THEN head[k] ELSE after[k - (i - 1 + Len(mid))]
  BY <1>1, <1>3, <1>4, <1>5, <1>6 DEF s
<1>8. \A k \in 1..i - 1 : s[k] = h[k]
  BY <1>1, <1>4, <1>7
<1>9. \A k \in 1..Len(mid) : s[i - 1 + k] = mid[k]
  <2>1. \A k \in 1..Len(mid) : i - 1 + k \in 1..Len(s) /\ i - 1 + k <= i - 1 + Len(mid)
    BY <1>1, <1>7
  <2>2. \A k \in 1..Len(mid) : s[i - 1 + k] = head[i - 1 + k]
    BY <1>7, <2>1
  <2>. QED BY <1>4, <2>2
<1>10. \A k \in j + 1..Len(h) : s[k + i - 1 + Len(mid) - j] = h[k]
  <2> TAKE k \in j + 1..Len(h)
  <2>1. k - j \in 1..Len(h) - j /\ j + (k - j) = k
    BY <1>1
  <2>2. after[k - j] = h[k]
    BY <1>3, <2>1
  <2>3. k + i - 1 + Len(mid) - j \in 1..Len(s) /\ ~(k + i - 1 + Len(mid) - j <= i - 1 + Len(mid))
    BY <1>1, <1>7
  <2>4. (k + i - 1 + Len(mid) - j) - (i - 1 + Len(mid)) = k - j
    BY <1>1
  <2>5. s[k + i - 1 + Len(mid) - j] = after[(k + i - 1 + Len(mid) - j) - (i - 1 + Len(mid))]
    BY <1>7, <2>3
  <2>. QED BY <2>2, <2>4, <2>5
<1>. QED BY <1>7, <1>8, <1>9, <1>10 DEF s, Spliced

\* Each place of the new list, and the place after it.
LEMMA SplicePlaces ==
  ASSUME NEW B, NEW h \in Seq(B), NEW mid \in Seq(B), mid # <<>>,
         NEW i \in 1..Len(h), NEW j \in i..Len(h),
         NEW k \in 1..Len(Splice(h, i, mid, j)) - 1
  PROVE  Neighbours(h, i, mid, j, Splice(h, i, mid, j), k)
<1> DEFINE s == Splice(h, i, mid, j)
           m == Len(mid)
<1>1. Len(h) \in Nat /\ m \in Nat \ {0} /\ i \in Nat /\ j \in Nat /\ 1 <= i /\ i <= j /\ j <= Len(h)
  <2>1. Len(mid) \in Nat /\ Len(mid) # 0
    BY EmptySeq
  <2>. QED BY <2>1
<1>2. /\ Len(s) = i - 1 + m + Len(h) - j
      /\ \A n \in 1..i - 1 : s[n] = h[n]
      /\ \A n \in 1..m : s[i - 1 + n] = mid[n]
      /\ \A n \in j + 1..Len(h) : s[n + i - 1 + m - j] = h[n]
  <2>1. Spliced(h, i, mid, j, s)
    BY SpliceProperties
  <2> HIDE DEF s
  <2>. QED BY <2>1 DEF Spliced
<1>3. k \in 1..Len(s) - 1
  OBVIOUS
<1> HIDE DEF s, m, Neighbours
<1>4. k \in Nat /\ 1 <= k /\ k + 1 <= i - 1 + m + Len(h) - j
  BY <1>1, <1>2, <1>3
<1>5. CASE k + 1 < i
  <2>1. k + 1 \in 1..i - 1 /\ k \in 1..i - 1 /\ k \in 1..Len(h) - 1
    BY <1>1, <1>4, <1>5
  <2>. QED BY <1>2, <2>1 DEF s, Neighbours
<1>6. CASE k + 1 = i
  <2>1. k = i - 1 /\ i > 1 /\ k \in 1..i - 1 /\ 1 \in 1..m /\ k + 1 = i - 1 + 1
    BY <1>1, <1>4, <1>6
  <2>2. s[k] = h[k] /\ s[i - 1 + 1] = mid[1]
    BY <1>2, <2>1
  <2>. QED BY <2>1, <2>2 DEF s, Neighbours
<1>7. CASE i <= k /\ k < i - 1 + m
  <2> DEFINE n == k - (i - 1)
  <2>1. n \in 1..m - 1 /\ n \in 1..m /\ n + 1 \in 1..m /\ i - 1 + n = k /\ i - 1 + (n + 1) = k + 1
    BY <1>1, <1>4, <1>7
  <2>2. s[i - 1 + n] = mid[n] /\ s[i - 1 + (n + 1)] = mid[n + 1]
    <3> HIDE DEF n
    <3>. QED BY <1>2, <2>1
  <2>3. n \in 1..Len(mid) - 1 /\ s[k] = mid[n] /\ s[k + 1] = mid[n + 1]
    BY <2>1, <2>2 DEF m
  <2> HIDE DEF n
  <2>. QED BY <2>3 DEF s, Neighbours
<1>8. CASE k = i - 1 + m
  <2>1. m \in 1..m /\ j + 1 \in j + 1..Len(h) /\ j < Len(h) /\ (j + 1) + i - 1 + m - j = k + 1
    BY <1>1, <1>4, <1>8
  <2>2. s[i - 1 + m] = mid[m] /\ s[(j + 1) + i - 1 + m - j] = h[j + 1]
    BY <1>2, <2>1
  <2>. QED BY <1>8, <2>1, <2>2 DEF s, m, Neighbours
<1>9. CASE k > i - 1 + m
  <2> DEFINE n == k - (i - 1) - m + j
  <2>1. /\ n \in j + 1..Len(h) - 1 /\ n \in j + 1..Len(h) /\ n + 1 \in j + 1..Len(h)
        /\ n + i - 1 + m - j = k /\ (n + 1) + i - 1 + m - j = k + 1
    BY <1>1, <1>4, <1>9
  <2>2. s[n + i - 1 + m - j] = h[n] /\ s[(n + 1) + i - 1 + m - j] = h[n + 1]
    <3> HIDE DEF n
    <3>. QED BY <1>2, <2>1
  <2>3. n \in j + 1..Len(h) - 1 /\ s[k] = h[n] /\ s[k + 1] = h[n + 1]
    BY <2>1, <2>2
  <2> HIDE DEF n
  <2>. QED BY <2>3 DEF s, Neighbours
<1>. QED BY <1>1, <1>4, <1>5, <1>6, <1>7, <1>8, <1>9

LEMMA SameEnd ==
  ASSUME NEW b \in Blocks, NEW c \in Blocks, NEW header \in Nat, b.at + b.size = c.at + c.size
  PROVE  b.at + header + b.size = c.at + header + c.size
<1>1. b.at \in Nat /\ b.size \in Nat /\ c.at \in Nat /\ c.size \in Nat
  BY DEF Blocks
<1>. QED BY <1>1

\* What makes the new list a whole heap: the new entries begin and end where
\* the old ones did, and no two free ones meet.
LEMMA SpliceWhole ==
  ASSUME NEW h, Whole(h), NEW mid \in Seq(Blocks), mid # <<>>,
         NEW i \in 1..Len(h), NEW j \in i..Len(h),
         mid[1].at = h[i].at,
         mid[Len(mid)].at + mid[Len(mid)].size = h[j].at + h[j].size,
         \A n \in 1..Len(mid) - 1 : /\ mid[n].at + HEADER_SIZE + mid[n].size = mid[n + 1].at
                                    /\ ~(mid[n].free /\ mid[n + 1].free),
         i > 1 => ~(h[i - 1].free /\ mid[1].free),
         j < Len(h) => ~(mid[Len(mid)].free /\ h[j + 1].free)
  PROVE  Whole(Splice(h, i, mid, j))
<1> DEFINE s == Splice(h, i, mid, j)
           m == Len(mid)
<1>1. h \in Seq(Blocks) /\ Len(h) \in Nat /\ m \in Nat \ {0} /\ i \in Nat /\ j \in Nat
      /\ 1 <= i /\ i <= j /\ j <= Len(h)
  <2>1. Len(mid) \in Nat /\ Len(mid) # 0
    BY EmptySeq
  <2>. QED BY <2>1 DEF Whole
<1>2. /\ s \in Seq(Blocks) /\ Len(s) = i - 1 + m + Len(h) - j
      /\ \A n \in 1..i - 1 : s[n] = h[n]
      /\ \A n \in 1..m : s[i - 1 + n] = mid[n]
      /\ \A n \in j + 1..Len(h) : s[n + i - 1 + m - j] = h[n]
  <2>1. s \in Seq(Blocks) /\ Spliced(h, i, mid, j, s)
    BY <1>1, SpliceProperties
  <2> HIDE DEF s
  <2>. QED BY <2>1 DEF Spliced
<1>3. \A n \in 1..Len(h) : h[n] \in Blocks
  BY <1>1
<1>4. \A n \in 1..m : mid[n] \in Blocks
  OBVIOUS
<1>5. HEADER_SIZE \in Nat
  BY HeapAssumption
<1>6. s # <<>> /\ s[1].at = 0
  <2>1. Len(s) # 0 /\ h[1].at = 0
    BY <1>1, <1>2 DEF Whole, Tiles
  <2>2. CASE i = 1
    <3>1. 1 \in 1..m /\ i - 1 + 1 = 1
      BY <1>1, <2>2
    <3>2. s[i - 1 + 1] = mid[1]
      BY <1>2, <3>1
    <3>3. mid[1].at = 0
      BY <2>1, <2>2
    <3>. QED BY <2>1, <3>1, <3>2, <3>3, EmptySeq
  <2>3. CASE i > 1
    <3>1. 1 \in 1..i - 1
      BY <1>1, <2>3
    <3>. QED BY <1>2, <2>1, <3>1, EmptySeq
  <2>. QED BY <1>1, <2>2, <2>3
<1>7. s[Len(s)].at + HEADER_SIZE + s[Len(s)].size = HEAP_SIZE
  <2>1. h[Len(h)].at + HEADER_SIZE + h[Len(h)].size = HEAP_SIZE
    BY DEF Whole, Tiles
  <2>2. CASE j < Len(h)
    <3>1. Len(h) \in j + 1..Len(h) /\ Len(h) + i - 1 + m - j = Len(s)
      BY <1>1, <1>2, <2>2
    <3>2. s[Len(h) + i - 1 + m - j] = h[Len(h)]
      BY <1>2, <3>1
    <3>3. s[Len(s)] = h[Len(h)]
      BY <3>1, <3>2
    <3>. QED BY <2>1, <3>3
  <2>3. CASE j = Len(h)
    <3>1. m \in 1..m /\ i - 1 + m = Len(s)
      BY <1>1, <1>2, <2>3
    <3>2. s[i - 1 + m] = mid[m]
      BY <1>2, <3>1
    <3>3. s[Len(s)] = mid[m]
      BY <3>1, <3>2
    <3>4. mid[m] \in Blocks /\ h[j] \in Blocks
      BY <1>1, <1>3, <1>4, <3>1
    <3>5. mid[m].at + mid[m].size = h[j].at + h[j].size
      OBVIOUS
    <3>6. mid[m].at + HEADER_SIZE + mid[m].size = h[j].at + HEADER_SIZE + h[j].size
      BY <1>5, <3>4, <3>5, SameEnd
    <3>. QED BY <2>1, <2>3, <3>3, <3>6
  <2>. QED BY <1>1, <2>2, <2>3
<1>8. \A k \in 1..Len(s) - 1 : s[k].at + HEADER_SIZE + s[k].size = s[k + 1].at /\ ~(s[k].free /\ s[k + 1].free)
  <2> SUFFICES ASSUME NEW k \in 1..Len(s) - 1
               PROVE  s[k].at + HEADER_SIZE + s[k].size = s[k + 1].at /\ ~(s[k].free /\ s[k + 1].free)
    OBVIOUS
  <2>1. Neighbours(h, i, mid, j, s, k)
    BY <1>1, SplicePlaces
  <2>2. \A n \in 1..Len(h) - 1 : h[n].at + HEADER_SIZE + h[n].size = h[n + 1].at /\ ~(h[n].free /\ h[n + 1].free)
    BY DEF Whole, Tiles, Coalesced
  <2> HIDE DEF s
  <2>3. CASE k + 1 \in 1..i - 1 /\ s[k] = h[k] /\ s[k + 1] = h[k + 1] /\ k \in 1..Len(h) - 1
    BY <2>2, <2>3
  <2>4. CASE k = i - 1 /\ i > 1 /\ s[k] = h[i - 1] /\ s[k + 1] = mid[1]
    <3>1. i - 1 \in 1..Len(h) - 1 /\ i - 1 + 1 = i
      BY <1>1, <2>4
    <3>2. h[i - 1].at + HEADER_SIZE + h[i - 1].size = h[i - 1 + 1].at
      BY <2>2, <3>1
    <3>. QED BY <2>4, <3>1, <3>2
  <2>5. CASE \E n \in 1..Len(mid) - 1 : s[k] = mid[n] /\ s[k + 1] = mid[n + 1]
    BY <2>5
  <2>6. CASE j < Len(h) /\ s[k] = mid[Len(mid)] /\ s[k + 1] = h[j + 1]
    <3>1. j \in 1..Len(h) - 1 /\ m \in 1..m
      BY <1>1, <2>6
    <3>2. h[j].at + HEADER_SIZE + h[j].size = h[j + 1].at
      BY <2>2, <3>1
    <3>4. mid[m] \in Blocks /\ h[j] \in Blocks
      BY <1>1, <1>3, <1>4, <3>1
    <3>5. mid[m].at + mid[m].size = h[j].at + h[j].size
      OBVIOUS
    <3>6. mid[m].at + HEADER_SIZE + mid[m].size = h[j].at + HEADER_SIZE + h[j].size
      BY <1>5, <3>4, <3>5, SameEnd
    <3>. QED BY <2>6, <3>2, <3>6
  <2>7. CASE \E n \in j + 1..Len(h) - 1 : s[k] = h[n] /\ s[k + 1] = h[n + 1]
    <3>1. PICK n \in j + 1..Len(h) - 1 : s[k] = h[n] /\ s[k + 1] = h[n + 1]
      BY <2>7
    <3>2. n \in 1..Len(h) - 1
      BY <1>1
    <3>. QED BY <2>2, <3>1, <3>2
  <2>. QED BY <2>1, <2>3, <2>4, <2>5, <2>6, <2>7 DEF Neighbours
<1>. QED
  <2> HIDE DEF s
  <2>1. Tiles(s) /\ Coalesced(s)
    BY <1>6, <1>7, <1>8 DEF Tiles, Coalesced
  <2>. QED BY <1>2, <2>1 DEF Whole, s

\* Blocks lie one behind the other, so an address is one block's.
LEMMA AddressesIncrease ==
  ASSUME NEW h, Whole(h)
  PROVE  \A i, j \in 1..Len(h) : i < j => h[i].at < h[j].at
<1> DEFINE S == {j \in Nat : j <= Len(h) /\ \E i \in 1..Len(h) : i < j /\ ~(h[i].at < h[j].at)}
<1>1. SUFFICES ASSUME S # {} PROVE FALSE
  BY DEF Whole
<1>2. S \in SUBSET Nat
  OBVIOUS
<1>3. Min(S) \in S /\ \A j \in S : Min(S) <= j
  <2> HIDE DEF S
  <2>. QED BY <1>1, <1>2, LeastOf
<1>4. PICK j \in S : \A k \in S : j <= k
  <2> HIDE DEF S
  <2>. QED BY <1>3
<1>5. PICK i \in 1..Len(h) : i < j /\ ~(h[i].at < h[j].at)
  BY <1>4
<1>6. Len(h) \in Nat /\ j \in Nat /\ j <= Len(h) /\ \A n \in 1..Len(h) : h[n] \in Blocks
  BY <1>4 DEF Whole
<1>7. j - 1 \in 1..Len(h) - 1 /\ j - 1 + 1 = j /\ j - 1 \in Nat
  BY <1>5, <1>6
<1>8. h[j - 1].at + HEADER_SIZE + h[j - 1].size = h[j - 1 + 1].at
  BY <1>7 DEF Whole, Tiles
<1>9. h[j - 1].at < h[j].at
  <2>1. h[j - 1] \in Blocks /\ h[j] \in Blocks
    BY <1>6, <1>7
  <2>. QED BY <1>7, <1>8, <2>1, HeapAssumption DEF Blocks
<1>10. CASE i = j - 1
  BY <1>5, <1>9, <1>10
<1>11. CASE i < j - 1
  <2>1. j - 1 \notin S
    BY <1>4, <1>6
  <2>2. h[i].at < h[j - 1].at
    BY <1>6, <1>7, <1>11, <2>1
  <2>3. h[i].at \in Nat /\ h[j - 1].at \in Nat /\ h[j].at \in Nat
    <3>1. h[i] \in Blocks /\ h[j - 1] \in Blocks /\ h[j] \in Blocks
      BY <1>5, <1>6, <1>7
    <3>. QED BY <3>1 DEF Blocks
  <2>. QED BY <1>5, <1>9, <2>2, <2>3
<1>. QED BY <1>5, <1>6, <1>10, <1>11

\* The blocks in use are those left of h and those of mid.
LEMMA SpliceUsed ==
  ASSUME NEW B, NEW h \in Seq(B), NEW mid \in Seq(B),
         NEW i \in 1..Len(h), NEW j \in i..Len(h)
  PROVE  UsedBlocks(Splice(h, i, mid, j)) =
           {h[n].at : n \in {k \in 1..Len(h) : (k < i \/ k > j) /\ ~h[k].free}} \union UsedBlocks(mid)
<1> DEFINE s == Splice(h, i, mid, j)
           m == Len(mid)
           Kept == {k \in 1..Len(h) : (k < i \/ k > j) /\ ~h[k].free}
<1>1. Len(h) \in Nat /\ m \in Nat /\ i \in Nat /\ j \in Nat /\ 1 <= i /\ i <= j /\ j <= Len(h)
  OBVIOUS
<1>2. /\ s \in Seq(B) /\ Len(s) = i - 1 + m + Len(h) - j
      /\ \A n \in 1..i - 1 : s[n] = h[n]
      /\ \A n \in 1..m : s[i - 1 + n] = mid[n]
      /\ \A n \in j + 1..Len(h) : s[n + i - 1 + m - j] = h[n]
  <2>1. s \in Seq(B) /\ Spliced(h, i, mid, j, s)
    BY SpliceProperties
  <2> HIDE DEF s
  <2>. QED BY <2>1 DEF Spliced
<1>3. DOMAIN s = 1..Len(s) /\ DOMAIN mid = 1..m
  BY <1>2
<1> HIDE DEF s, m
<1>4. ASSUME NEW k \in 1..Len(s), ~s[k].free
      PROVE  s[k].at \in {h[n].at : n \in Kept} \union UsedBlocks(mid)
  <2>1. CASE k < i
    <3>1. k \in 1..i - 1 /\ k \in 1..Len(h)
      BY <1>1, <2>1
    <3>2. s[k] = h[k]
      BY <1>2, <3>1
    <3>3. k \in Kept
      BY <1>4, <2>1, <3>1, <3>2
    <3>. QED BY <3>2, <3>3
  <2>2. CASE i <= k /\ k <= i - 1 + m
    <3> DEFINE n == k - (i - 1)
    <3>1. n \in 1..m /\ i - 1 + n = k
      BY <1>1, <2>2
    <3>2. s[i - 1 + n] = mid[n]
      <4> HIDE DEF n
      <4>. QED BY <1>2, <3>1
    <3>3. s[k] = mid[n]
      BY <3>1, <3>2
    <3> HIDE DEF n
    <3>4. s[k].at \in UsedBlocks(mid)
      BY <1>3, <1>4, <3>1, <3>3 DEF UsedBlocks
    <3>. QED BY <3>4
  <2>3. CASE k > i - 1 + m
    <3> DEFINE n == k - (i - 1) - m + j
    <3>1. n \in j + 1..Len(h) /\ n \in 1..Len(h) /\ n > j /\ n + i - 1 + m - j = k
      BY <1>1, <1>2, <2>3
    <3>2. s[n + i - 1 + m - j] = h[n]
      <4> HIDE DEF n
      <4>. QED BY <1>2, <3>1
    <3>3. s[k] = h[n]
      BY <3>1, <3>2
    <3> HIDE DEF n
    <3>4. n \in Kept
      BY <1>4, <3>1, <3>3
    <3>. QED BY <3>3, <3>4
  <2>. QED BY <1>1, <1>2, <2>1, <2>2, <2>3
<1>5. ASSUME NEW n \in Kept
      PROVE  \E k \in 1..Len(s) : s[k] = h[n]
  <2>1. CASE n < i
    <3>1. n \in 1..i - 1 /\ n \in 1..Len(s)
      BY <1>1, <1>2, <2>1
    <3>. QED BY <1>2, <3>1
  <2>2. CASE n > j
    <3>1. n \in j + 1..Len(h) /\ n + i - 1 + m - j \in 1..Len(s)
      BY <1>1, <1>2, <2>2
    <3>. QED BY <1>2, <3>1
  <2>. QED BY <2>1, <2>2
<1>6. ASSUME NEW n \in 1..m
      PROVE  \E k \in 1..Len(s) : s[k] = mid[n]
  <2>1. i - 1 + n \in 1..Len(s)
    BY <1>1, <1>2
  <2>. QED BY <1>2, <2>1
<1>7. UsedBlocks(s) \subseteq {h[n].at : n \in Kept} \union UsedBlocks(mid)
  <2> HIDE DEF Kept
  <2>. QED BY <1>3, <1>4 DEF UsedBlocks
<1>8. \A n \in Kept : h[n].at \in UsedBlocks(s)
  BY <1>3, <1>5 DEF UsedBlocks
<1>9. \A n \in 1..m : ~mid[n].free => mid[n].at \in UsedBlocks(s)
  BY <1>3, <1>6 DEF UsedBlocks
<1>10. UsedBlocks(mid) \subseteq UsedBlocks(s)
  BY <1>3, <1>9 DEF UsedBlocks
<1>11. UsedBlocks(s) = {h[n].at : n \in Kept} \union UsedBlocks(mid)
  <2> HIDE DEF Kept
  <2>. QED BY <1>7, <1>8, <1>10
<1>. QED BY <1>11 DEF s

-----------------------------------------------------------------------------
(* kmalloc() and kfree().                                                  *)

LEMMA WholeBlocks ==
  ASSUME NEW h, Whole(h)
  PROVE  /\ h \in Seq(Blocks) /\ Len(h) \in Nat \ {0} /\ DOMAIN h = 1..Len(h)
         /\ \A n \in 1..Len(h) : h[n] \in Blocks /\ h[n].at \in Nat /\ h[n].size \in Nat /\ h[n].free \in BOOLEAN
<1>1. h \in Seq(Blocks) /\ h # <<>>
  BY DEF Whole, Tiles
<1>2. Len(h) # 0
  BY <1>1, EmptySeq
<1>3. \A n \in 1..Len(h) : h[n] \in Blocks
  BY <1>1
<1>. QED BY <1>1, <1>2, <1>3 DEF Blocks

\* A block that was free is in use: a new one, cut out of a free one.
LEMMA MallocWorks ==
  ASSUME NEW h, Whole(h), NEW n \in Nat, Fits(h, n) # {}
  PROVE  /\ Whole(Malloc(h, n))
         /\ MallocAt(h, n) \in Nat /\ MallocAt(h, n) \notin UsedBlocks(h)
         /\ UsedBlocks(Malloc(h, n)) = UsedBlocks(h) \union {MallocAt(h, n)}
<1>1. /\ h \in Seq(Blocks) /\ Len(h) \in Nat \ {0} /\ DOMAIN h = 1..Len(h)
      /\ \A k \in 1..Len(h) : h[k] \in Blocks /\ h[k].at \in Nat /\ h[k].size \in Nat /\ h[k].free \in BOOLEAN
  BY WholeBlocks
<1> DEFINE i == Min(Fits(h, n))
<1>2. i \in 1..Len(h) /\ h[i].free /\ h[i].size >= n
  <2>1. Fits(h, n) \in SUBSET Nat
    BY <1>1 DEF Fits
  <2>2. i \in Fits(h, n)
    BY <2>1, LeastOf
  <2> HIDE DEF i
  <2>. QED BY <1>1, <2>2 DEF Fits
<1> DEFINE mid == Carved(h[i], n)
<1>3. Malloc(h, n) = Splice(h, i, mid, i) /\ MallocAt(h, n) = h[i].at
  BY DEF Malloc, Splice, MallocAt
<1> HIDE DEF i
<1>4. HEADER_SIZE \in Nat /\ SPLIT_THRESHOLD \in Nat
  BY HeapAssumption
<1> DEFINE b == h[i]
           one == [b EXCEPT !.free = FALSE]
           taken == Block(b.at, n, FALSE)
           rest == Block(b.at + HEADER_SIZE + n, b.size - n - HEADER_SIZE, TRUE)
           large == b.size - n >= HEADER_SIZE + SPLIT_THRESHOLD
<1>5. mid = IF large THEN <<taken, rest>> ELSE <<one>>
  BY DEF Carved
<1>6. b \in Blocks /\ b.at \in Nat /\ b.size \in Nat /\ b.free /\ b.size >= n
  BY <1>1, <1>2
<1>7. one \in Blocks /\ one.at = b.at /\ one.size = b.size /\ ~one.free
  <2> HIDE DEF b
  <2>. QED BY <1>6 DEF Blocks
<1>8. taken \in Blocks /\ taken.at = b.at /\ taken.size = n /\ ~taken.free
  <2> HIDE DEF b
  <2>. QED BY <1>6 DEF Blocks, Block
<1>9. large => rest \in Blocks /\ rest.at = b.at + HEADER_SIZE + n /\ rest.size = b.size - n - HEADER_SIZE /\ rest.free
  <2> HIDE DEF b
  <2>. QED BY <1>4, <1>6 DEF Blocks, Block
<1>10. b = h[i]
  OBVIOUS
<1> HIDE DEF b, one, taken, rest, mid
<1>11. /\ mid \in Seq(Blocks) /\ mid # <<>> /\ DOMAIN mid = 1..Len(mid)
       /\ mid[1].at = b.at /\ ~mid[1].free
       /\ mid[Len(mid)].at + mid[Len(mid)].size = b.at + b.size
       /\ \A k \in 1..Len(mid) - 1 : /\ mid[k].at + HEADER_SIZE + mid[k].size = mid[k + 1].at
                                     /\ ~(mid[k].free /\ mid[k + 1].free)
       /\ UsedBlocks(mid) = {b.at}
  <2>1. CASE large
    <3>1. mid = <<taken, rest>> /\ mid \in Seq(Blocks) /\ Len(mid) = 2 /\ mid[1] = taken /\ mid[2] = rest
      BY <1>5, <1>8, <1>9, <2>1
    <3>2. DOMAIN mid = 1..2 /\ mid # <<>>
      BY <3>1
    <3>3. {k \in DOMAIN mid : ~mid[k].free} = {1}
      BY <1>8, <1>9, <2>1, <3>1, <3>2
    <3>4. UsedBlocks(mid) = {b.at}
      BY <1>8, <3>1, <3>3 DEF UsedBlocks
    <3> HIDE DEF large
    <3>5. \A k \in 1..Len(mid) - 1 : k = 1
      BY <3>1
    <3>. QED BY <1>4, <1>6, <1>8, <1>9, <2>1, <3>1, <3>2, <3>4, <3>5
  <2>2. CASE ~large
    <3>1. mid = <<one>> /\ mid \in Seq(Blocks) /\ Len(mid) = 1 /\ mid[1] = one
      BY <1>5, <1>7, <2>2
    <3>2. DOMAIN mid = 1..1 /\ mid # <<>> /\ 1..Len(mid) - 1 = {}
      BY <3>1
    <3>3. {k \in DOMAIN mid : ~mid[k].free} = {1}
      BY <1>7, <3>1, <3>2
    <3>4. UsedBlocks(mid) = {b.at}
      BY <1>7, <3>1, <3>3 DEF UsedBlocks
    <3>. QED BY <1>7, <3>1, <3>2, <3>4
  <2>. QED BY <2>1, <2>2
<1>12. i \in i..Len(h)
  BY <1>1, <1>2
<1>13. i < Len(h) => ~h[i + 1].free
  <2>1. i < Len(h) => i \in 1..Len(h) - 1
    BY <1>1, <1>2
  <2>. QED BY <1>2, <2>1 DEF Whole, Coalesced
<1>14. Whole(Splice(h, i, mid, i))
  BY <1>2, <1>10, <1>11, <1>12, <1>13, SpliceWhole
<1>15. UsedBlocks(Splice(h, i, mid, i)) =
         {h[k].at : k \in {l \in 1..Len(h) : (l < i \/ l > i) /\ ~h[l].free}} \union {b.at}
  <2>1. UsedBlocks(Splice(h, i, mid, i)) =
         {h[k].at : k \in {l \in 1..Len(h) : (l < i \/ l > i) /\ ~h[l].free}} \union UsedBlocks(mid)
    BY <1>1, <1>2, <1>11, <1>12, SpliceUsed
  <2>. QED BY <1>11, <2>1
<1>16. {l \in 1..Len(h) : (l < i \/ l > i) /\ ~h[l].free} = {l \in DOMAIN h : ~h[l].free}
  BY <1>1, <1>2
<1>17. b.at \notin UsedBlocks(h)
  <2> SUFFICES ASSUME NEW k \in 1..Len(h), ~h[k].free, h[k].at = h[i].at PROVE FALSE
    BY <1>1, <1>10 DEF UsedBlocks
  <2>1. k # i /\ h[k].at \in Nat /\ h[i].at \in Nat
    BY <1>1, <1>2
  <2>. QED BY <1>1, <1>2, <2>1, AddressesIncrease
<1>18. UsedBlocks(Splice(h, i, mid, i)) = UsedBlocks(h) \union {b.at}
  BY <1>15, <1>16 DEF UsedBlocks
<1>. QED BY <1>3, <1>6, <1>10, <1>14, <1>17, <1>18

\* A block that was in use is none any more, and what it is merged with was
\* free.
LEMMA FreeWorks ==
  ASSUME NEW h, Whole(h), NEW at \in UsedBlocks(h)
  PROVE  Whole(Free(h, at)) /\ UsedBlocks(Free(h, at)) = UsedBlocks(h) \ {at}
<1>1. /\ h \in Seq(Blocks) /\ Len(h) \in Nat \ {0} /\ DOMAIN h = 1..Len(h)
      /\ \A k \in 1..Len(h) : h[k] \in Blocks /\ h[k].at \in Nat /\ h[k].size \in Nat /\ h[k].free \in BOOLEAN
  BY WholeBlocks
<1> DEFINE i == CHOOSE k \in DOMAIN h : h[k].at = at
           Ends == {j \in i..Len(h) : \A k \in i + 1..j : h[k].free}
           last == Max(Ends)
           first == IF i > 1 /\ h[i - 1].free THEN i - 1 ELSE i
<1>2. i \in 1..Len(h) /\ h[i].at = at /\ ~h[i].free
  <2>1. PICK k \in DOMAIN h : ~h[k].free /\ h[k].at = at
    BY DEF UsedBlocks
  <2>2. i \in DOMAIN h /\ h[i].at = at
    BY <2>1
  <2> HIDE DEF i
  <2>3. h[k].at \in Nat /\ h[i].at \in Nat /\ k \in Nat /\ i \in Nat
    BY <1>1, <2>1, <2>2
  <2>4. i = k
    BY <1>1, <2>1, <2>2, <2>3, AddressesIncrease
  <2>. QED BY <1>1, <2>1, <2>2, <2>4
<1>3. Free(h, at) = Merged(h, first, last)
  BY DEF Free
<1> HIDE DEF i
<1>4. last \in i..Len(h) /\ (\A k \in i + 1..last : h[k].free) /\ \A j \in Ends : j <= last
  <2>1. i \in Ends
    BY <1>1, <1>2
  <2>2. Ends \in SUBSET Nat /\ \A y \in Ends : y <= Len(h)
    BY <1>1, <1>2
  <2>3. Max(Ends) \in Ends /\ \A y \in Ends : Max(Ends) >= y
    <3> HIDE DEF Ends
    <3>. QED BY <1>1, <2>1, <2>2, GreatestOf
  <2>4. \A y \in Ends : y <= Max(Ends)
    BY <2>2, <2>3
  <2>. QED BY <2>3, <2>4
<1>5. last < Len(h) => ~h[last + 1].free
  <2> SUFFICES ASSUME last < Len(h), h[last + 1].free PROVE FALSE
    OBVIOUS
  <2> HIDE DEF last
  <2>1. last + 1 \in i..Len(h) /\ last \in Nat
    BY <1>1, <1>2, <1>4
  <2>2. \A k \in i + 1..last + 1 : k \in i + 1..last \/ k = last + 1
    BY <1>1, <1>2, <1>4
  <2>3. last + 1 \in Ends
    BY <1>4, <2>1, <2>2
  <2>. QED BY <1>4, <2>1, <2>3
<1>6. first \in 1..i /\ (first = i \/ (first = i - 1 /\ h[first].free))
  BY <1>1, <1>2
<1>7. first > 1 => ~h[first - 1].free
  <2>1. CASE first = i
    BY <1>1, <1>2, <2>1
  <2>2. CASE first = i - 1 /\ h[first].free /\ first > 1
    <3> HIDE DEF first
    <3>1. first - 1 \in 1..Len(h) - 1 /\ first - 1 + 1 = first
      BY <1>1, <1>2, <1>6, <2>2
    <3>2. ~(h[first - 1].free /\ h[first - 1 + 1].free)
      BY <3>1 DEF Whole, Coalesced
    <3>. QED BY <2>2, <3>1, <3>2
  <2>. QED BY <1>6, <2>1, <2>2
<1> HIDE DEF first, last, Ends
<1>8. first \in 1..Len(h) /\ last \in first..Len(h) /\ last \in 1..Len(h)
  BY <1>1, <1>2, <1>4, <1>6
<1> DEFINE size == h[last].at + h[last].size - h[first].at
           one == Block(h[first].at, size, TRUE)
           mid == <<one>>
<1>9. size \in Nat /\ h[first].at + size = h[last].at + h[last].size
  <2>1. h[first].at \in Nat /\ h[last].at \in Nat /\ h[last].size \in Nat
    BY <1>1, <1>8
  <2>2. first = last \/ first < last
    BY <1>8
  <2>3. h[first].at <= h[last].at
    BY <1>8, <2>1, <2>2, AddressesIncrease
  <2>. QED BY <2>1, <2>3
<1>10. one \in Blocks /\ one.at = h[first].at /\ one.size = size /\ one.free
  <2>1. h[first].at \in Nat
    BY <1>1, <1>8
  <2> HIDE DEF size
  <2>. QED BY <1>9, <2>1 DEF Block, Blocks
<1>11. Merged(h, first, last) = Splice(h, first, mid, last)
  BY DEF Merged, Splice
<1> HIDE DEF one, size
<1>12. mid \in Seq(Blocks) /\ mid # <<>> /\ Len(mid) = 1 /\ mid[1] = one /\ DOMAIN mid = 1..1
  BY <1>10
<1> HIDE DEF mid
<1>13. UsedBlocks(mid) = {} /\ 1..Len(mid) - 1 = {}
  BY <1>10, <1>12 DEF UsedBlocks
<1>14. Whole(Splice(h, first, mid, last))
  <2>1. mid[1].at = h[first].at /\ mid[Len(mid)].at + mid[Len(mid)].size = h[last].at + h[last].size
    BY <1>9, <1>10, <1>12
  <2>2. first > 1 => ~(h[first - 1].free /\ mid[1].free)
    BY <1>7
  <2>3. last < Len(h) => ~(mid[Len(mid)].free /\ h[last + 1].free)
    BY <1>5
  <2>. QED BY <1>8, <1>12, <1>13, <2>1, <2>2, <2>3, SpliceWhole
<1> DEFINE Kept == {k \in 1..Len(h) : (k < first \/ k > last) /\ ~h[k].free}
<1>15. UsedBlocks(Splice(h, first, mid, last)) = {h[k].at : k \in Kept} \union UsedBlocks(mid)
  BY <1>1, <1>8, <1>12, SpliceUsed
<1>16. Kept = {k \in DOMAIN h : ~h[k].free} \ {i}
  <2>1. \A k \in 1..Len(h) : ~h[k].free /\ k # i => k < first \/ k > last
    <3> TAKE k \in 1..Len(h)
    <3>1. CASE k \in i + 1..last
      BY <1>4, <3>1
    <3>2. CASE k = first /\ k # i
      BY <1>6, <3>2
    <3>3. k < first \/ k > last \/ k = i \/ k \in i + 1..last \/ k = first
      BY <1>2, <1>6, <1>8
    <3>. QED BY <3>1, <3>2, <3>3
  <2>2. ~(i < first) /\ ~(i > last)
    BY <1>2, <1>4, <1>6
  <2>. QED BY <1>1, <2>1, <2>2
<1>17. \A k \in 1..Len(h) : k # i => h[k].at # h[i].at
  <2> TAKE k \in 1..Len(h)
  <2>1. h[k].at \in Nat /\ h[i].at \in Nat /\ (k < i \/ i < k \/ k = i)
    BY <1>1, <1>2
  <2>. QED BY <1>2, <2>1, AddressesIncrease
<1>18. {h[k].at : k \in Kept} = UsedBlocks(h) \ {at}
  <2>1. \A k \in Kept : h[k].at \in UsedBlocks(h) /\ h[k].at # at
    BY <1>1, <1>2, <1>16, <1>17 DEF UsedBlocks
  <2>2. \A x \in UsedBlocks(h) : x # at => \E k \in Kept : x = h[k].at
    <3> HIDE DEF Kept
    <3>. QED BY <1>2, <1>16 DEF UsedBlocks
  <2> HIDE DEF Kept
  <2>. QED BY <2>1, <2>2
<1>. QED BY <1>3, <1>11, <1>13, <1>14, <1>15, <1>18

\* As it is made.
LEMMA HeapBegins == Whole(kmem_init) /\ UsedBlocks(kmem_init) = {}
<1> DEFINE b == Block(0, HEAP_SIZE - HEADER_SIZE, TRUE)
<1>1. b \in Blocks /\ b.at = 0 /\ b.size = HEAP_SIZE - HEADER_SIZE /\ b.free
  BY HeapAssumption DEF Block, Blocks
<1>2. kmem_init = <<b>>
  BY DEF kmem_init
<1> HIDE DEF b
<1>3. kmem_init \in Seq(Blocks) /\ Len(kmem_init) = 1 /\ kmem_init[1] = b /\ DOMAIN kmem_init = 1..1 /\ kmem_init # <<>>
  BY <1>1, <1>2
<1>4. 1..Len(kmem_init) - 1 = {}
  BY <1>3
<1>5. 0 + HEADER_SIZE + (HEAP_SIZE - HEADER_SIZE) = HEAP_SIZE
  BY HeapAssumption
<1>. QED BY <1>1, <1>3, <1>4, <1>5 DEF Whole, Tiles, Coalesced, UsedBlocks

-----------------------------------------------------------------------------
(* The inductive invariant.                                                *)

Maker == Manager \union {app}
Freer == {shell, reaper}

\* The places of an operation that makes a thread; of one that makes a process
\* for it first; and of one that frees a thread.
Making == {"scan", "claim", "stack", "fill"}
Creating == {"pid", "arg", "check", "pool", "process"} \union Making
Freeing == {"unlink", "shift", "unuse", "wipe", "process?"}
Places == {"idle", "boot", "mark", "snapshot"} \union Creating \union Freeing

States == {"new", "ready", "blocked", "dying", "zombie"}
TcbRecords == [pid : Pid \union {0}, stack : Nat \union {None}, arg : Nat \union {None}, state : States]
PcbRecords == [pid : Pid \union {0}, alive : BOOLEAN, count : 0..MAX_THREADS,
               threads : [1..MAX_THREADS -> Tcb \union {None}]]
OpRecords == [at : Places, range : PidRange \union {None}, pid : Pid \union {0}, proc : Pcb \union {None},
              tcb : Tcb \union {None}, arg : Nat \union {None}, by : Tcb \union {None},
              stack : Nat \union {None}, slot : Nat, list : Seq(Tcb)]

Typing ==
  /\ tcb_used \in [Tcb -> BOOLEAN] /\ tcb \in [Tcb -> TcbRecords]
  /\ pcb_used \in [Pcb -> BOOLEAN] /\ pcb \in [Pcb -> PcbRecords]
  /\ next_pid \in [PidRange -> Nat] /\ \A r \in PidRange : next_pid[r] \in PidsOf(r)
  /\ args \in SUBSET Nat
  /\ op \in [Actor -> OpRecords]

\* At most one operation makes or kills, PendSV may come between two steps of
\* it but not into the compaction of threads[], and each has its places.
Turns ==
  /\ \A a, b \in Maker : ~At(a, "idle") /\ ~At(b, "idle") => a = b
  /\ ~At(reaper, "idle") => ~At(shell, "shift")
  /\ op[reaper].at \in {"idle"} \union Freeing /\ op[reaper].list = <<>>
  /\ op[app].at \in {"idle"} \union Making
  /\ \A m \in Manager : m # shell => op[m].at \in {"idle"} \union Creating
  /\ \A a \in Actor : op[a].arg # None => op[a].at \in Creating /\ a # app
  /\ At(shell, "mark") => op[shell].list # <<>>
  /\ At(shell, "snapshot") => op[shell].proc \in Pcb

\* Before the shell's prompt there is no thread yet.
Booting == At(shell, "boot") => At(reaper, "idle") /\ \A t \in Tcb : tcb[t].state = "new"

\* What an operation has found is still so.
FoundAt(m) ==
  /\ op[m].at \in {"pid", "arg", "check"} =>
       op[m].range \in PidRange /\ op[m].pid \in PidsOf(op[m].range) \union {0}
  /\ op[m].at \in {"pool", "process"} =>
       op[m].pid \in Pid /\ \A p \in Pcb : pcb_used[p] => pcb[p].pid # op[m].pid
  /\ At(m, "process") => op[m].proc \in Pcb /\ ~pcb_used[op[m].proc]
  /\ op[m].at \in Making =>
       /\ op[m].proc \in Pcb /\ pcb_used[op[m].proc]
       /\ m # app => pcb[op[m].proc].count = 0
       /\ m = app => /\ op[m].by \in Tcb /\ tcb_used[op[m].by]
                     /\ tcb[op[m].by].state = "ready" /\ tcb[op[m].by].pid = pcb[op[m].proc].pid
Found == \A m \in Maker : FoundAt(m)

\* The TCB it works on: claimed, given a stack, and not yet known to anyone.
Blank(m) ==
  /\ op[m].tcb \in Tcb
  /\ tcb_used[op[m].tcb] <=> ~At(m, "claim")
  /\ tcb[op[m].tcb].pid = 0 /\ tcb[op[m].tcb].state = "new" /\ tcb[op[m].tcb].arg = None
  /\ tcb[op[m].tcb].stack = None <=> ~At(m, "fill")
Made == \A m \in Maker : op[m].at \in {"claim", "stack", "fill"} => Blank(m)

\* The TCB being freed: a zombie, which nobody else frees.  It may have been
\* freed before, if it stood in a killer's list.
Again(t) == ~tcb_used[t] /\ tcb[t] = [Zeroed EXCEPT !.state = "zombie"]
FreedAt(a) ==
  /\ op[a].at \in Freeing => op[a].tcb \in Tcb
  /\ op[a].at \in Freeing \ {"process?"} => tcb[op[a].tcb].state = "zombie"
  /\ op[a].at \in {"unlink", "unuse"} =>
       (tcb_used[op[a].tcb] /\ tcb[op[a].tcb].pid # 0) \/ Again(op[a].tcb)
  /\ At(a, "shift") =>
       LET p == op[a].proc IN
         /\ p \in Pcb /\ pcb_used[p] /\ pcb[p].count < MAX_THREADS
         /\ tcb_used[op[a].tcb] /\ tcb[op[a].tcb].pid = pcb[p].pid
         /\ op[a].slot \in 1..pcb[p].count + 1 /\ pcb[p].threads[op[a].slot] = op[a].tcb
  /\ At(a, "wipe") => ~tcb_used[op[a].tcb] /\ op[a].stack = tcb[op[a].tcb].stack
Freed == \A a \in Freer : FreedAt(a)

\* PendSV frees another thread than a killer does, and no process that is being
\* made.
Apart ==
  /\ op[shell].at \in Freeing \ {"process?"} /\ op[reaper].at \in Freeing \ {"process?"}
       => op[shell].tcb # op[reaper].tcb
  /\ \A m \in Manager : op[m].at \in Making /\ op[reaper].at \in Freeing => op[reaper].proc # op[m].proc

\* A free slot is zeroed, but for the one that somebody is about to zero; a
\* used one is some process's, but for the one that somebody is about to fill.
SlotsAt ==
  /\ \A t \in Tcb : ~tcb_used[t] =>
       tcb[t] = Zeroed
         \/ \E a \in Freer : op[a].tcb = t /\ (At(a, "wipe") \/ (op[a].at \in {"unlink", "unuse"} /\ Again(t)))
  /\ \A t \in Tcb : tcb_used[t] /\ (tcb[t].pid = 0 \/ tcb[t].state = "new") =>
       \E m \in Maker : op[m].tcb = t /\ op[m].at \in {"stack", "fill"}
  /\ \A p \in Pcb : IF pcb_used[p] THEN pcb[p].pid \in Pid ELSE pcb[p] = ZeroedProcess

\* The threads of a process are those that carry its PID and are not already
\* out of threads[]; while it is compacted, one more is listed than counted.
Out(t) == \E a \in Freer : At(a, "unuse") /\ op[a].tcb = t
Compacted(p) == \E a \in Freer : At(a, "shift") /\ op[a].proc = p
Reach(p) == IF Compacted(p) THEN pcb[p].count + 1 ELSE pcb[p].count
Has(p, t) == tcb_used[t] /\ tcb[t].pid = pcb[p].pid /\ ~Out(t)
Agree ==
  \A p \in Pcb : pcb_used[p] =>
    /\ \A i \in 1..Reach(p) : pcb[p].threads[i] \in Tcb /\ Has(p, pcb[p].threads[i])
    /\ \A t \in Tcb : Has(p, t) => \E i \in 1..Reach(p) : pcb[p].threads[i] = t
    /\ \A i, j \in 1..Reach(p) : pcb[p].threads[i] = pcb[p].threads[j] => i = j

\* A process without threads is just being made or freed.
Peopled ==
  \A p \in Pcb : pcb_used[p] /\ pcb[p].count = 0 =>
    \E a \in Actor : op[a].proc = p /\ (op[a].at \in Freeing \ {"unlink"} \/ (op[a].at \in Making /\ a # app))

\* A thread without a process is just being freed, and is out of threads[].
Housed ==
  \A t \in Tcb : tcb_used[t] /\ tcb[t].pid # 0 =>
    \/ Out(t) \/ \E a \in Freer : At(a, "shift") /\ op[a].tcb = t
    \/ \E p \in Pcb : pcb_used[p] /\ pcb[p].pid = tcb[t].pid

\* What is on the heap has one owner.
Owned ==
  /\ \A t \in Tcb : tcb[t].stack # None => tcb[t].stack \notin args
  /\ \A t, u \in Tcb : tcb[t].stack # None /\ tcb[t].stack = tcb[u].stack => t = u
  /\ \A t \in Tcb : tcb[t].arg # None => tcb[t].arg \in args
  /\ \A t, u \in Tcb : tcb[t].arg # None /\ tcb[t].arg = tcb[u].arg => t = u
  /\ \A m \in Maker : op[m].arg # None => op[m].arg \in args /\ \A t \in Tcb : tcb[t].arg # op[m].arg

Stacks == {tcb[t].stack : t \in {u \in Tcb : tcb[u].stack # None}}
Heaped == Whole(heap) /\ UsedBlocks(heap) = Stacks \union args

TasksInv ==
  /\ Typing /\ Turns /\ Booting /\ Found /\ Made /\ Freed /\ Apart /\ SlotsAt
  /\ PidsUnique /\ Agree /\ Peopled /\ Housed /\ Owned /\ Heaped

-----------------------------------------------------------------------------
(* Steps.                                                                  *)

LEMMA Names ==
  /\ Pid \subseteq Nat /\ 0 \notin Pid /\ Tcb \subseteq Nat /\ Pcb \subseteq Nat
  /\ None \notin Nat /\ None \notin Pid /\ None \notin Tcb /\ None \notin Pcb
  /\ shell \in Manager /\ button \in Manager /\ app \notin Manager /\ reaper \notin Manager /\ app # reaper
  /\ Manager \subseteq Maker /\ Maker \subseteq Actor /\ Freer \subseteq Actor /\ reaper \notin Maker
  /\ Actor = Maker \union {reaper}
  /\ \A r \in PidRange : PidsOf(r) \subseteq Pid /\ Limits[r][1] \in PidsOf(r) /\ Limits[r][2] \in PidsOf(r)
<1>1. Tcb \subseteq Nat /\ Pcb \subseteq Nat /\ None \notin Nat
  BY TasksAssumption DEF Tcb, Pcb
<1>2. \A r \in PidRange : PidsOf(r) \subseteq Nat \ {0} /\ Limits[r][1] \in PidsOf(r) /\ Limits[r][2] \in PidsOf(r)
  BY TasksAssumption DEF PidsOf
<1>3. Pid \subseteq Nat \ {0} /\ \A r \in PidRange : PidsOf(r) \subseteq Pid
  BY <1>2 DEF Pid
<1>4. shell \in Manager /\ button \in Manager /\ app \notin Manager /\ reaper \notin Manager /\ app # reaper
  BY TasksAssumption DEF Manager, app, reaper
<1>5. /\ Manager \subseteq Maker /\ Maker \subseteq Actor /\ Freer \subseteq Actor /\ reaper \notin Maker
      /\ Actor = Maker \union {reaper}
  BY <1>4 DEF Maker, Actor, Freer
<1>. QED BY <1>1, <1>2, <1>3, <1>4, <1>5

\* One disjunct for every kind of step.
Starts(m, r) ==
  /\ (m = shell /\ At(shell, "boot")) \/ Busy = {}
  /\ FindPid(m, r)
StartsNothing ==
  At(shell, "boot") /\ Done(shell) /\ UNCHANGED <<pools, next_pid, heap, args>>

\* PendSV is not interrupted; the apps' threads run while it does not, and while
\* nobody compacts threads[].
Runs(a) == a # reaper => At(reaper, "idle")
AppsRun == At(reaper, "idle") /\ \A m \in Manager : ~At(m, "shift")

\* Of two operations the second begins when the first has ended.
LEMMA OneBegins ==
  ASSUME OneAtATime, NEW a \in Manager \union {app}, At(a, "idle"), op'[a] # op[a]
  PROVE  Busy = {}
BY DEF OneAtATime

LEMMA Begun ==
  ASSUME OneAtATime, NEW a \in Manager \union {app}, At(a, "idle"), op'[a].at # "idle"
  PROVE  Busy = {}
BY OneBegins DEF At

LEMMA TasksSteps ==
  ASSUME Turns, DOMAIN op = Actor, SerialNext
  PROVE  \/ \E m \in Manager, r \in PidRange : Starts(m, r)
         \/ StartsNothing
         \/ \E m \in Manager : /\ Runs(m)
                               /\ TakePid(m) \/ CopyArg(m) \/ CheckPid(m) \/ ScanProcesses(m) \/ ClaimProcess(m)
         \/ \E m \in Maker : Runs(m) /\ (ScanThreads(m) \/ ClaimThread(m) \/ AllocStack(m) \/ Publish(m))
         \/ Busy = {} /\ \E c \in Tcb : ThreadCreate(c)
         \/ Busy = {} /\ (cmd_kill \/ cmd_killproc)
         \/ Runs(shell) /\ (Snapshot(shell) \/ Mark(shell))
         \/ \E a \in Freer : Runs(a) /\ (Unlink(a) \/ Shift(a) \/ Unuse(a) \/ Wipe(a) \/ FreeProcess(a))
         \/ AppsRun /\ \E t \in Tcb : TakesArg(t) \/ Exits(t) \/ Waits(t) \/ Woken(t)
<1>1. CASE At(reaper, "idle") /\ Operations /\ OneAtATime
  <2>1. Runs(shell) /\ \A m \in Maker : Runs(m)
    BY <1>1 DEF Runs
  <2>2. ASSUME NEW m \in Manager, NEW r \in PidRange, At(m, "idle"), FindPid(m, r) PROVE Starts(m, r)
    <3>1. op'[m].at = "pid"
      BY <2>2, Names DEF FindPid, NoOp
    <3>2. Busy = {}
      BY <1>1, <2>2, <3>1, Begun
    <3>. QED BY <2>2, <3>2 DEF Starts
  <2>3. CASE cmd_run \/ btn_monitor_thread \/ \E m \in Spawner : SYS_SPAWN(m)
    BY <2>2, <2>3, Names DEF cmd_run, btn_monitor_thread, SYS_SPAWN, PidRange, Manager
  <2>4. CASE shell_autorun_init
    BY <2>4, Names DEF shell_autorun_init, Starts, StartsNothing, PidRange
  <2>5. ASSUME NEW c \in Tcb, ThreadCreate(c) PROVE Busy = {}
    <3>1. PICK p : op' = [op EXCEPT ![app] = [NoOp EXCEPT !.at = "scan", !.proc = p, !.by = c]]
      BY <2>5 DEF ThreadCreate
    <3>2. At(app, "idle")
      BY <2>5 DEF ThreadCreate
    <3>3. op'[app].at = "scan"
      BY <3>1 DEF NoOp, Actor
    <3>. QED BY <1>1, <3>2, <3>3, Begun
  <2>6. CASE cmd_kill
    <3>1. PICK t : op' = [op EXCEPT ![shell] = [NoOp EXCEPT !.at = "mark", !.list = <<t>>]]
      BY <2>6 DEF cmd_kill
    <3>2. At(shell, "idle")
      BY <2>6 DEF cmd_kill
    <3>3. op'[shell].at = "mark"
      BY <3>1, Names DEF NoOp
    <3>4. Busy = {}
      BY <1>1, <3>2, <3>3, Begun, Names
    <3>. QED BY <2>6, <3>4
  <2>7. CASE cmd_killproc
    <3>1. PICK p : op' = [op EXCEPT ![shell] = [NoOp EXCEPT !.at = "snapshot", !.proc = p]]
      BY <2>7 DEF cmd_killproc
    <3>2. At(shell, "idle")
      BY <2>7 DEF cmd_killproc
    <3>3. op'[shell].at = "snapshot"
      BY <3>1, Names DEF NoOp
    <3>4. Busy = {}
      BY <1>1, <3>2, <3>3, Begun, Names
    <3>. QED BY <2>7, <3>4
  <2>8. CASE \E t \in Tcb : ThreadCreate(t)
    BY <2>5, <2>8
  <2>9. CASE Snapshot(shell) \/ Mark(shell)
    BY <2>1, <2>9
  <2>10. CASE \E m \in Manager : MakesProcess(m) \/ MakesThread(m)
    BY <2>1, <2>10, Names DEF MakesProcess, MakesThread
  <2>11. CASE MakesThread(app)
    <3>1. app \in Maker
      BY DEF Maker
    <3>. QED BY <2>1, <2>11, <3>1 DEF MakesThread
  <2>12. CASE FreesThread(shell)
    <3>1. shell \in Freer
      BY DEF Freer
    <3>. QED BY <2>1, <2>12, <3>1 DEF FreesThread
  <2>. QED BY <1>1, <2>3, <2>4, <2>6, <2>7, <2>8, <2>9, <2>10, <2>11, <2>12 DEF Operations
<1>2. CASE At(reaper, "idle") /\ ~At(shell, "shift") /\ AppThreads
  <2>1. AppsRun
    BY <1>2 DEF AppsRun, Turns, At, Creating, Making
  <2>. QED BY <1>2, <2>1 DEF AppThreads
<1>3. CASE FreesThread(reaper)
  <2>1. reaper \in Freer /\ Runs(reaper)
    BY DEF Freer, Runs
  <2>. QED BY <1>3, <2>1 DEF FreesThread
<1>. QED BY <1>1, <1>2, <1>3 DEF SerialNext

\* What a step of a does to op.
Others(a) == \A b \in Actor : b # a => op'[b] = op[b]
Same(a) ==
  /\ op'[a].range = op[a].range /\ op'[a].pid = op[a].pid /\ op'[a].proc = op[a].proc
  /\ op'[a].tcb = op[a].tcb /\ op'[a].arg = op[a].arg /\ op'[a].by = op[a].by
  /\ op'[a].stack = op[a].stack /\ op'[a].slot = op[a].slot /\ op'[a].list = op[a].list

LEMMA NoOpTyped ==
  /\ NoOp \in OpRecords /\ NoOp.at = "idle" /\ NoOp.arg = None /\ NoOp.proc = None /\ NoOp.list = <<>>
BY Names, EmptySeq DEF NoOp, OpRecords, Places, Creating, Making, Freeing

LEMMA GoesSets ==
  ASSUME op \in [Actor -> OpRecords], NEW a \in Actor, NEW where \in Places, Goes(a, where)
  PROVE  op' \in [Actor -> OpRecords] /\ Others(a) /\ Same(a) /\ op'[a].at = where
<1> DEFINE new == [op[a] EXCEPT !.at = where]
<1>1. op[a] \in OpRecords
  OBVIOUS
<1>2. /\ new \in OpRecords /\ new.at = where
      /\ new.range = op[a].range /\ new.pid = op[a].pid /\ new.proc = op[a].proc
      /\ new.tcb = op[a].tcb /\ new.arg = op[a].arg /\ new.by = op[a].by
      /\ new.stack = op[a].stack /\ new.slot = op[a].slot /\ new.list = op[a].list
  BY <1>1 DEF OpRecords
<1>3. op' = [op EXCEPT ![a] = new]
  BY DEF Goes
<1> HIDE DEF new
<1>. QED BY <1>2, <1>3 DEF Others, Same

LEMMA DoneSets ==
  ASSUME op \in [Actor -> OpRecords], NEW a \in Actor, Done(a)
  PROVE  op' \in [Actor -> OpRecords] /\ Others(a) /\ op'[a] = NoOp
BY NoOpTyped DEF Done, Others

LEMMA GivesUpSets ==
  ASSUME op \in [Actor -> OpRecords], NEW a \in Actor, GivesUp(a)
  PROVE  op' \in [Actor -> OpRecords] /\ Others(a) /\ op'[a] = NoOp
BY DoneSets DEF GivesUp

\* A step of the rest of a killer's list.
LEMMA LongTail ==
  ASSUME NEW list \in Seq(Tcb), Len(list) > 1
  PROVE  Tail(list) \in Seq(Tcb) /\ Tail(list) # <<>>
<1>1. list # <<>>
  BY EmptySeq
<1>2. Tail(list) \in Seq(Tcb) /\ Len(Tail(list)) = Len(list) - 1
  BY <1>1, HeadTailProperties
<1>3. Len(list) \in Nat
  BY LenProperties
<1>4. Len(Tail(list)) # 0
  BY <1>2, <1>3
<1>. QED BY <1>2, <1>4, EmptySeq

LEMMA MarkTyped ==
  ASSUME NEW list \in Seq(Tcb)
  PROVE  LET rest == [NoOp EXCEPT !.at = "mark", !.list = list]
         IN  rest \in OpRecords /\ rest.at = "mark" /\ rest.list = list /\ rest.arg = None /\ rest.proc = None
<1>1. "mark" \in Places
  BY DEF Places
<1>2. [NoOp EXCEPT !.at = "mark", !.list = list] \in OpRecords
  BY <1>1, NoOpTyped DEF OpRecords
<1>. QED BY <1>2 DEF NoOp

LEMMA GoesOnSets ==
  ASSUME op \in [Actor -> OpRecords], NEW a \in Actor, GoesOn(a)
  PROVE  /\ op' \in [Actor -> OpRecords] /\ Others(a)
         /\ op'[a].at \in {"idle", "mark"} /\ op'[a].arg = None /\ op'[a].proc = None
         /\ op'[a].at = "mark" => op'[a].list # <<>>
         /\ op'[a].at = "mark" => Len(op[a].list) > 1
<1> DEFINE list == op[a].list
           rest == [NoOp EXCEPT !.at = "mark", !.list = Tail(list)]
           new == IF Len(list) > 1 THEN rest ELSE NoOp
<1>1. op[a] \in OpRecords /\ list \in Seq(Tcb)
  BY DEF OpRecords
<1>2. op' = [op EXCEPT ![a] = new]
  BY DEF GoesOn
<1> HIDE DEF list
<1>3. Len(list) > 1 => Tail(list) \in Seq(Tcb) /\ Tail(list) # <<>>
  <2> HIDE DEF rest, new
  <2>. QED BY <1>1, LongTail
<1>4. Len(list) > 1 => rest \in OpRecords /\ rest.at = "mark" /\ rest.list # <<>> /\ rest.arg = None /\ rest.proc = None
  BY <1>3, MarkTyped
<1> HIDE DEF rest
<1>5. new \in OpRecords /\ new.at \in {"idle", "mark"} /\ new.arg = None /\ new.proc = None
      /\ (new.at = "mark" => new.list # <<>> /\ Len(list) > 1)
  BY <1>4, NoOpTyped
<1> HIDE DEF new
<1>. QED BY <1>2, <1>5 DEF Others, list

\* While an operation takes a step nothing else is under way, unless it is
\* PendSV's.
LEMMA Alone ==
  ASSUME Turns, NEW a \in Maker, ~At(a, "idle"), At(reaper, "idle")
  PROVE  \A b \in Actor : b # a => At(b, "idle")
BY Names DEF Turns

LEMMA NobodyBusy ==
  ASSUME Busy = {}
  PROVE  \A b \in Actor : At(b, "idle")
BY DEF Busy

LEMMA RunsAlone ==
  ASSUME Turns, NEW a \in Maker, ~At(a, "idle"), Runs(a)
  PROVE  At(reaper, "idle") /\ \A b \in Actor : b # a => At(b, "idle")
BY Names, Alone DEF Runs

-----------------------------------------------------------------------------
(* Types.                                                                  *)

LEMMA NextFreeTyped ==
  ASSUME NEW r \in PidRange
  PROVE  NextFree(r) \in PidsOf(r) \union {0}
<1>1. PidsOf(r) \subseteq Nat
  BY Names
<1>2. FreePids(r) \in SUBSET PidsOf(r)
  BY DEF FreePids
<1>3. ASSUME NEW S \in SUBSET FreePids(r), S # {} PROVE Min(S) \in PidsOf(r)
  <2>1. S \in SUBSET Nat
    BY <1>1, <1>2
  <2>2. Min(S) \in S
    BY <1>3, <2>1, LeastOf
  <2>. QED BY <1>2, <2>2
<1> DEFINE ahead == {pid \in FreePids(r) : pid >= next_pid[r]}
<1>4. ahead # {} => Min(ahead) \in PidsOf(r)
  BY <1>3
<1>5. FreePids(r) # {} => Min(FreePids(r)) \in PidsOf(r)
  BY <1>3
<1>6. NextFree(r) = IF FreePids(r) = {} THEN 0 ELSE IF ahead # {} THEN Min(ahead) ELSE Min(FreePids(r))
  BY DEF NextFree
<1> HIDE DEF ahead
<1>. QED BY <1>4, <1>5, <1>6

LEMMA AfterTyped ==
  ASSUME NEW r \in PidRange, NEW pid \in PidsOf(r)
  PROVE  After(r, pid) \in PidsOf(r)
<1>1. Limits[r][1] \in Nat /\ Limits[r][2] \in Nat /\ Limits[r][1] <= Limits[r][2]
  BY TasksAssumption
<1>. QED BY <1>1 DEF After, PidsOf

LEMMA FirstFree ==
  /\ FreePcbs # {} => Min(FreePcbs) \in Pcb /\ ~pcb_used[Min(FreePcbs)]
  /\ FreeTcbs # {} => Min(FreeTcbs) \in Tcb /\ ~tcb_used[Min(FreeTcbs)]
<1>1. FreePcbs \in SUBSET Nat /\ FreeTcbs \in SUBSET Nat
  BY Names DEF FreePcbs, FreeTcbs
<1>2. FreePcbs # {} => Min(FreePcbs) \in FreePcbs
  BY <1>1, LeastOf
<1>3. FreeTcbs # {} => Min(FreeTcbs) \in FreeTcbs
  BY <1>1, LeastOf
<1>. QED BY <1>2, <1>3 DEF FreePcbs, FreeTcbs

LEMMA ZeroedTyped ==
  /\ Zeroed \in TcbRecords /\ Zeroed.pid = 0 /\ Zeroed.stack = None /\ Zeroed.arg = None /\ Zeroed.state = "new"
  /\ ZeroedProcess \in PcbRecords /\ ZeroedProcess.pid = 0 /\ ZeroedProcess.count = 0
  /\ NoThreads \in [1..MAX_THREADS -> Tcb \union {None}]
<1>1. MAX_THREADS \in Nat
  BY TasksAssumption
<1>2. NoThreads \in [1..MAX_THREADS -> Tcb \union {None}]
  BY DEF NoThreads
<1>. QED BY <1>1, <1>2 DEF Zeroed, ZeroedProcess, TcbRecords, PcbRecords, States

-----------------------------------------------------------------------------
(* What each step does, place by place.  Typing is kept along the way.     *)

\* A step of a changes its own record only.
OpStep(a) == op' \in [Actor -> OpRecords] /\ Others(a)
TcbStep(t) == tcb' \in [Tcb -> TcbRecords] /\ \A u \in Tcb : u # t => tcb'[u] = tcb[u]
PcbStep(p) == pcb' \in [Pcb -> PcbRecords] /\ \A q \in Pcb : q # p => pcb'[q] = pcb[q]
TcbUsed(t, used) ==
  tcb_used' \in [Tcb -> BOOLEAN] /\ tcb_used'[t] = used /\ \A u \in Tcb : u # t => tcb_used'[u] = tcb_used[u]
PcbUsed(p, used) ==
  pcb_used' \in [Pcb -> BOOLEAN] /\ pcb_used'[p] = used /\ \A q \in Pcb : q # p => pcb_used'[q] = pcb_used[q]

LEMMA TcbUsedSets ==
  ASSUME tcb_used \in [Tcb -> BOOLEAN], NEW t \in Tcb, NEW used \in BOOLEAN,
         tcb_used' = [tcb_used EXCEPT ![t] = used]
  PROVE  TcbUsed(t, used)
BY DEF TcbUsed

LEMMA PcbUsedSets ==
  ASSUME pcb_used \in [Pcb -> BOOLEAN], NEW p \in Pcb, NEW used \in BOOLEAN,
         pcb_used' = [pcb_used EXCEPT ![p] = used]
  PROVE  PcbUsed(p, used)
BY DEF PcbUsed

LEMMA TcbSets ==
  ASSUME tcb \in [Tcb -> TcbRecords], NEW t \in Tcb, NEW new \in TcbRecords, tcb' = [tcb EXCEPT ![t] = new]
  PROVE  TcbStep(t) /\ tcb'[t] = new
BY DEF TcbStep

LEMMA PcbSets ==
  ASSUME pcb \in [Pcb -> PcbRecords], NEW p \in Pcb, NEW new \in PcbRecords, pcb' = [pcb EXCEPT ![p] = new]
  PROVE  PcbStep(p) /\ pcb'[p] = new
BY DEF PcbStep

LEMMA OpSets ==
  ASSUME op \in [Actor -> OpRecords], NEW a \in Actor, NEW new \in OpRecords, op' = [op EXCEPT ![a] = new]
  PROVE  OpStep(a) /\ op'[a] = new
BY DEF OpStep, Others

\* run, SYS_SPAWN, a button or the shell's start begin an operation.
Started(m, r) ==
  /\ OpStep(m) /\ op'[m].at = "pid" /\ op'[m].range = r /\ op'[m].pid \in PidsOf(r) \union {0} /\ op'[m].arg = None
  /\ UNCHANGED <<tcb_used, tcb, pcb_used, pcb, next_pid, heap, args>>

LEMMA StartedByStarts ==
  ASSUME Typing, NEW m \in Manager, NEW r \in PidRange, Starts(m, r)
  PROVE  Started(m, r)
<1> DEFINE new == [NoOp EXCEPT !.at = "pid", !.range = r, !.pid = NextFree(r)]
<1>1. NextFree(r) \in PidsOf(r) \union {0} /\ NextFree(r) \in Pid \union {0}
  BY Names, NextFreeTyped
<1>2. new \in OpRecords /\ new.at = "pid" /\ new.range = r /\ new.pid = NextFree(r) /\ new.arg = None
  BY <1>1, NoOpTyped DEF OpRecords, NoOp, Places, Creating
<1>3. op' = [op EXCEPT ![m] = new] /\ UNCHANGED <<pools, next_pid, heap, args>>
  BY DEF Starts, FindPid
<1> HIDE DEF new
<1>4. op \in [Actor -> OpRecords] /\ m \in Actor
  BY Names DEF Typing
<1>5. OpStep(m) /\ op'[m] = new
  BY <1>2, <1>3, <1>4, OpSets
<1>. QED BY <1>1, <1>2, <1>3, <1>5 DEF Started, pools

\* A step that only goes from one place to the next.
Went(m, from, where) == op[m].at = from /\ OpStep(m) /\ Same(m) /\ op'[m].at = where

LEMMA WentByGoes ==
  ASSUME Typing, NEW m \in Actor, NEW from, At(m, from), NEW where \in Places, Goes(m, where)
  PROVE  Went(m, from, where)
BY GoesSets DEF Typing, Went, OpStep, At

LEMMA TakePidDoes ==
  ASSUME Typing, Turns, Found, NEW m \in Manager, TakePid(m)
  PROVE  /\ Went(m, "pid", "arg")
         /\ next_pid' \in [PidRange -> Nat] /\ \A r \in PidRange : next_pid'[r] \in PidsOf(r)
         /\ UNCHANGED <<tcb_used, tcb, pcb_used, pcb, heap, args>>
<1> DEFINE r == op[m].range
           pid == op[m].pid
<1>1. At(m, "pid") /\ Goes(m, "arg") /\ UNCHANGED <<pools, heap, args>>
      /\ next_pid' = IF pid = 0 THEN next_pid ELSE [next_pid EXCEPT ![r] = After(r, pid)]
  BY DEF TakePid
<1>2. m \in Actor /\ m \in Maker /\ "arg" \in Places
  BY Names DEF Places, Creating
<1>3. Went(m, "pid", "arg")
  BY <1>1, <1>2, WentByGoes
<1>4. r \in PidRange /\ pid \in PidsOf(r) \union {0}
  BY <1>1, <1>2 DEF Found, FoundAt, At
<1>5. pid # 0 => After(r, pid) \in PidsOf(r) /\ After(r, pid) \in Nat
  BY <1>4, AfterTyped, Names
<1>6. next_pid' \in [PidRange -> Nat] /\ \A q \in PidRange : next_pid'[q] \in PidsOf(q)
  <2> HIDE DEF r, pid
  <2>. QED BY <1>1, <1>4, <1>5 DEF Typing
<1>. QED BY <1>1, <1>3, <1>6 DEF pools

\* The argument is left out, or copied.
CopyArgDoes(m) ==
  /\ At(m, "arg") /\ At(reaper, "idle") /\ OpStep(m) /\ op'[m].at = "check"
  /\ op'[m].range = op[m].range /\ op'[m].pid = op[m].pid
  /\ \/ op'[m].arg = op[m].arg /\ UNCHANGED <<heap, args>>
     \/ /\ Fits(heap, ArgSize) # {} /\ op'[m].arg = MallocAt(heap, ArgSize)
        /\ heap' = Malloc(heap, ArgSize) /\ args' = args \union {MallocAt(heap, ArgSize)}
  /\ UNCHANGED <<tcb_used, tcb, pcb_used, pcb, next_pid>>

LEMMA CopyArgEffect ==
  ASSUME Typing, Heaped, NEW m \in Manager, Runs(m), CopyArg(m)
  PROVE  CopyArgDoes(m) /\ args' \in SUBSET Nat
<1> DEFINE at == MallocAt(heap, ArgSize)
           new == [op[m] EXCEPT !.at = "check", !.arg = at]
<1>1. m \in Actor /\ m # reaper /\ "check" \in Places /\ op \in [Actor -> OpRecords] /\ op[m] \in OpRecords
  BY Names DEF Places, Creating, Typing
<1>2. At(m, "arg") /\ At(reaper, "idle") /\ UNCHANGED <<pools, next_pid>>
  BY <1>1 DEF CopyArg, Runs
<1>3. CASE Goes(m, "check") /\ UNCHANGED <<heap, args>>
  <2>1. Went(m, "arg", "check")
    BY <1>1, <1>2, <1>3, WentByGoes
  <2>. QED BY <1>2, <1>3, <2>1 DEF CopyArgDoes, Went, Same, pools, Typing
<1>4. CASE /\ op[m].range = "run" /\ Fits(heap, ArgSize) # {}
           /\ heap' = Malloc(heap, ArgSize)
           /\ args' = args \union {at}
           /\ op' = [op EXCEPT ![m].at = "check", ![m].arg = at]
  <2>1. at \in Nat
    BY <1>4, MallocWorks, TasksAssumption DEF Heaped
  <2> HIDE DEF at
  <2>2. /\ new \in OpRecords /\ new.at = "check" /\ new.arg = at /\ new.range = op[m].range /\ new.pid = op[m].pid
    BY <1>1, <2>1 DEF OpRecords
  <2>3. op' = [op EXCEPT ![m] = new]
    BY <1>4
  <2> HIDE DEF new
  <2>4. OpStep(m) /\ op'[m] = new
    BY <1>1, <2>2, <2>3, OpSets
  <2>5. CopyArgDoes(m)
    BY <1>2, <1>4, <2>2, <2>4 DEF CopyArgDoes, pools, at
  <2>. QED BY <1>4, <2>1, <2>5 DEF Typing
<1>. QED BY <1>3, <1>4 DEF CopyArg

\* The operation ends without a thread, and gives back what it has claimed.
Quit(m) ==
  /\ op[m].at \in {"check", "pool", "scan", "stack"} /\ At(reaper, "idle")
  /\ OpStep(m) /\ op'[m] = NoOp
  /\ IF At(m, "stack") THEN TcbUsed(op[m].tcb, FALSE) ELSE UNCHANGED tcb_used
  /\ IF op[m].at \in Making /\ m # app
     THEN PcbUsed(op[m].proc, FALSE) /\ PcbStep(op[m].proc) /\ pcb'[op[m].proc] = ZeroedProcess
     ELSE UNCHANGED <<pcb_used, pcb>>
  /\ IF op[m].arg = None THEN UNCHANGED <<heap, args>>
     ELSE heap' = Free(heap, op[m].arg) /\ args' = args \ {op[m].arg}
  /\ UNCHANGED <<tcb, next_pid>>

\* What one of the scans has found.
Checked(m) ==
  /\ Went(m, "check", "pool") /\ At(reaper, "idle") /\ op[m].pid \in Pid
  /\ \A p \in Pcb : pcb_used[p] => pcb[p].pid # op[m].pid
  /\ UNCHANGED <<tcb_used, tcb, pcb_used, pcb, next_pid, heap, args>>
ProcessFound(m) ==
  /\ At(m, "pool") /\ At(reaper, "idle") /\ OpStep(m) /\ op'[m].at = "process"
  /\ op'[m].pid = op[m].pid /\ op'[m].arg = op[m].arg
  /\ op'[m].proc \in Pcb /\ ~pcb_used[op'[m].proc]
  /\ UNCHANGED <<tcb_used, tcb, pcb_used, pcb, next_pid, heap, args>>
ThreadFound(m) ==
  /\ At(m, "scan") /\ At(reaper, "idle") /\ OpStep(m) /\ op'[m].at = "claim"
  /\ op'[m].proc = op[m].proc /\ op'[m].arg = op[m].arg /\ op'[m].by = op[m].by
  /\ op'[m].tcb \in Tcb /\ ~tcb_used[op'[m].tcb]
  /\ UNCHANGED <<tcb_used, tcb, pcb_used, pcb, next_pid, heap, args>>

LEMMA QuitByGivingUp ==
  ASSUME Typing, NEW m \in Maker, op[m].at \in {"check", "pool"}, Runs(m), GivesUp(m), UNCHANGED <<pools, next_pid>>
  PROVE  Quit(m)
<1>1. m \in Actor /\ op \in [Actor -> OpRecords] /\ m # reaper
  BY Names DEF Typing
<1>2. OpStep(m) /\ op'[m] = NoOp
  BY <1>1, GivesUpSets DEF OpStep
<1>3. op[m].at \notin Making /\ ~At(m, "stack") /\ At(reaper, "idle")
  BY <1>1 DEF Making, At, Runs
<1>. QED BY <1>2, <1>3 DEF Quit, GivesUp, pools

LEMMA CheckPidEffect ==
  ASSUME Typing, Found, NEW m \in Manager, Runs(m), CheckPid(m)
  PROVE  Quit(m) \/ Checked(m)
<1>1. m \in Actor /\ m \in Maker /\ m # reaper /\ "pool" \in Places
  BY Names DEF Places, Creating
<1>2. At(m, "check") /\ Runs(m) /\ UNCHANGED <<pools, next_pid>> /\ At(reaper, "idle")
  BY <1>1 DEF CheckPid, Runs
<1>3. CASE op[m].pid = 0 \/ task_find_process(op[m].pid) # {}
  <2>1. GivesUp(m)
    BY <1>3 DEF CheckPid
  <2>. QED BY <1>1, <1>2, <2>1, QuitByGivingUp DEF At
<1>4. CASE ~(op[m].pid = 0 \/ task_find_process(op[m].pid) # {})
  <2>1. Goes(m, "pool") /\ UNCHANGED <<heap, args>>
    BY <1>4 DEF CheckPid
  <2>2. Went(m, "check", "pool")
    BY <1>1, <1>2, <2>1, WentByGoes
  <2>3. op[m].range \in PidRange /\ op[m].pid \in PidsOf(op[m].range) \union {0}
    BY <1>1, <1>2 DEF Found, FoundAt, At
  <2>4. op[m].pid \in Pid
    BY <1>4, <2>3, Names
  <2>5. \A p \in Pcb : pcb_used[p] => pcb[p].pid # op[m].pid
    BY <1>4 DEF task_find_process
  <2>. QED BY <1>2, <2>1, <2>2, <2>4, <2>5 DEF Checked, pools
<1>. QED BY <1>3, <1>4

LEMMA ScanProcessesEffect ==
  ASSUME Typing, NEW m \in Manager, Runs(m), ScanProcesses(m)
  PROVE  Quit(m) \/ ProcessFound(m)
<1>1. m \in Actor /\ m \in Maker /\ m # reaper /\ op \in [Actor -> OpRecords] /\ op[m] \in OpRecords
  BY Names DEF Typing
<1>2. At(m, "pool") /\ Runs(m) /\ UNCHANGED <<pools, next_pid>> /\ At(reaper, "idle")
  BY <1>1 DEF ScanProcesses, Runs
<1>3. CASE FreePcbs = {}
  <2>1. GivesUp(m)
    BY <1>3 DEF ScanProcesses
  <2>. QED BY <1>1, <1>2, <2>1, QuitByGivingUp DEF At
<1>4. CASE FreePcbs # {}
  <2> DEFINE p == Min(FreePcbs)
             new == [op[m] EXCEPT !.at = "process", !.proc = p]
  <2>1. p \in Pcb /\ ~pcb_used[p]
    BY <1>4, FirstFree
  <2>2. op' = [op EXCEPT ![m] = new] /\ UNCHANGED <<heap, args>>
    BY <1>4 DEF ScanProcesses
  <2> HIDE DEF p
  <2>3. new \in OpRecords /\ new.at = "process" /\ new.proc = p /\ new.pid = op[m].pid /\ new.arg = op[m].arg
    BY <1>1, <2>1 DEF OpRecords, Places, Creating
  <2> HIDE DEF new
  <2>4. OpStep(m) /\ op'[m] = new
    BY <1>1, <2>2, <2>3, OpSets
  <2>. QED BY <1>2, <2>1, <2>2, <2>3, <2>4 DEF ProcessFound, pools
<1>. QED BY <1>3, <1>4

\* The slot is the process's.
ProcessClaimed(m) ==
  /\ Went(m, "process", "scan") /\ At(reaper, "idle")
  /\ PcbUsed(op[m].proc, TRUE) /\ PcbStep(op[m].proc)
  /\ pcb'[op[m].proc].pid = op[m].pid /\ pcb'[op[m].proc].count = 0
  /\ UNCHANGED <<tcb_used, tcb, next_pid, heap, args>>

LEMMA ClaimProcessEffect ==
  ASSUME Typing, Found, NEW m \in Manager, Runs(m), ClaimProcess(m)
  PROVE  ProcessClaimed(m)
<1> DEFINE p == op[m].proc
           new == [pid |-> op[m].pid, alive |-> TRUE, count |-> 0, threads |-> NoThreads]
<1>1. m \in Actor /\ m \in Maker /\ m # reaper /\ "scan" \in Places
  BY Names DEF Places, Creating, Making
<1>2. /\ At(m, "process") /\ At(reaper, "idle") /\ Goes(m, "scan")
      /\ pcb_used' = [pcb_used EXCEPT ![p] = TRUE] /\ pcb' = [pcb EXCEPT ![p] = new]
      /\ UNCHANGED <<tcb_used, tcb, next_pid, heap, args>>
  BY <1>1 DEF ClaimProcess, Runs
<1>3. Went(m, "process", "scan")
  BY <1>1, <1>2, WentByGoes
<1>4. p \in Pcb /\ op[m].pid \in Pid
  BY <1>1, <1>2 DEF Found, FoundAt, At
<1>5. new \in PcbRecords /\ new.pid = op[m].pid /\ new.count = 0
  <2>1. 0 \in 0..MAX_THREADS
    BY TasksAssumption
  <2>. QED BY <1>4, <2>1, ZeroedTyped DEF PcbRecords
<1> HIDE DEF p, new
<1>6. PcbUsed(p, TRUE) /\ PcbStep(p) /\ pcb'[p] = new
  BY <1>2, <1>4, <1>5, PcbUsedSets, PcbSets DEF Typing
<1>. QED BY <1>2, <1>3, <1>5, <1>6 DEF ProcessClaimed, p

\* No thread can be made.
LEMMA QuitByNoThread ==
  ASSUME Typing, Found, NEW m \in Maker, op[m].at \in {"scan", "stack"}, Runs(m), NoThread(m),
         IF At(m, "stack") THEN TcbUsed(op[m].tcb, FALSE) ELSE UNCHANGED tcb_used,
         UNCHANGED <<tcb, next_pid>>
  PROVE  Quit(m)
<1>1. m \in Actor /\ op \in [Actor -> OpRecords] /\ m # reaper
  BY Names DEF Typing
<1>2. GivesUp(m)
  BY DEF NoThread
<1>3. OpStep(m) /\ op'[m] = NoOp
  BY <1>1, <1>2, GivesUpSets DEF OpStep
<1>4. op[m].at \in Making /\ At(reaper, "idle")
  BY <1>1 DEF Making, Runs
<1>5. op[m].proc \in Pcb
  BY <1>4 DEF Found, FoundAt
<1>6. m # app => PcbUsed(op[m].proc, FALSE) /\ PcbStep(op[m].proc) /\ pcb'[op[m].proc] = ZeroedProcess
  <2> SUFFICES ASSUME m # app
               PROVE  PcbUsed(op[m].proc, FALSE) /\ PcbStep(op[m].proc) /\ pcb'[op[m].proc] = ZeroedProcess
    OBVIOUS
  <2>1. pcb_used' = [pcb_used EXCEPT ![op[m].proc] = FALSE] /\ pcb' = [pcb EXCEPT ![op[m].proc] = ZeroedProcess]
    BY DEF NoThread
  <2>. QED BY <1>5, <2>1, ZeroedTyped, PcbUsedSets, PcbSets DEF Typing
<1>7. m = app => UNCHANGED <<pcb_used, pcb>>
  BY DEF NoThread
<1>. QED BY <1>2, <1>3, <1>4, <1>6, <1>7 DEF Quit, GivesUp

LEMMA ScanThreadsEffect ==
  ASSUME Typing, Found, NEW m \in Maker, Runs(m), ScanThreads(m)
  PROVE  Quit(m) \/ ThreadFound(m)
<1>1. m \in Actor /\ m # reaper /\ op \in [Actor -> OpRecords] /\ op[m] \in OpRecords
  BY Names DEF Typing
<1>2. At(m, "scan") /\ Runs(m) /\ UNCHANGED <<tcb_used, tcb, next_pid>> /\ At(reaper, "idle")
  BY <1>1 DEF ScanThreads, Runs
<1>3. CASE FreeTcbs = {}
  <2>1. NoThread(m)
    BY <1>3 DEF ScanThreads
  <2>. QED BY <1>1, <1>2, <2>1, QuitByNoThread DEF At
<1>4. CASE FreeTcbs # {}
  <2> DEFINE t == Min(FreeTcbs)
             new == [op[m] EXCEPT !.at = "claim", !.tcb = t]
  <2>1. t \in Tcb /\ ~tcb_used[t]
    BY <1>4, FirstFree
  <2>2. op' = [op EXCEPT ![m] = new] /\ UNCHANGED <<pcb_used, pcb, heap, args>>
    BY <1>4 DEF ScanThreads
  <2> HIDE DEF t
  <2>3. /\ new \in OpRecords /\ new.at = "claim" /\ new.tcb = t
        /\ new.proc = op[m].proc /\ new.arg = op[m].arg /\ new.by = op[m].by
    BY <1>1, <2>1 DEF OpRecords, Places, Creating, Making
  <2> HIDE DEF new
  <2>4. OpStep(m) /\ op'[m] = new
    BY <1>1, <2>2, <2>3, OpSets
  <2>. QED BY <1>2, <2>1, <2>2, <2>3, <2>4 DEF ThreadFound
<1>. QED BY <1>3, <1>4

\* The slot is the thread's.
ThreadClaimed(m) ==
  /\ Went(m, "claim", "stack") /\ At(reaper, "idle") /\ TcbUsed(op[m].tcb, TRUE)
  /\ UNCHANGED <<tcb, pcb_used, pcb, next_pid, heap, args>>

LEMMA ClaimThreadEffect ==
  ASSUME Typing, Made, NEW m \in Maker, Runs(m), ClaimThread(m)
  PROVE  ThreadClaimed(m)
<1>1. m \in Actor /\ m # reaper /\ "stack" \in Places
  BY Names DEF Places, Creating, Making
<1>2. At(m, "claim") /\ At(reaper, "idle") /\ Goes(m, "stack")
  BY <1>1 DEF ClaimThread, Runs
<1>3. Went(m, "claim", "stack")
  BY <1>1, <1>2, WentByGoes
<1>4. op[m].tcb \in Tcb
  BY <1>2 DEF Made, Blank, At
<1>5. TcbUsed(op[m].tcb, TRUE)
  BY <1>4, TcbUsedSets DEF ClaimThread, Typing
<1>. QED BY <1>2, <1>3, <1>5 DEF ThreadClaimed, ClaimThread

\* It has its stack.
StackGot(m) ==
  LET t == op[m].tcb IN
  /\ Went(m, "stack", "fill") /\ At(reaper, "idle") /\ Fits(heap, StackSize) # {}
  /\ heap' = Malloc(heap, StackSize)
  /\ TcbStep(t) /\ tcb'[t].stack = MallocAt(heap, StackSize)
  /\ tcb'[t].pid = tcb[t].pid /\ tcb'[t].arg = tcb[t].arg /\ tcb'[t].state = tcb[t].state
  /\ UNCHANGED <<tcb_used, pcb_used, pcb, next_pid, args>>

LEMMA AllocStackEffect ==
  ASSUME Typing, Found, Made, Heaped, NEW m \in Maker, Runs(m), AllocStack(m)
  PROVE  Quit(m) \/ StackGot(m)
<1> DEFINE t == op[m].tcb
<1>1. m \in Actor /\ m # reaper /\ "fill" \in Places
  BY Names DEF Places, Creating, Making
<1>2. At(m, "stack") /\ Runs(m) /\ UNCHANGED next_pid /\ At(reaper, "idle")
  BY <1>1 DEF AllocStack, Runs
<1>3. t \in Tcb /\ tcb[t] \in TcbRecords
  BY <1>2 DEF Made, Blank, At, Typing
<1>4. CASE Fits(heap, StackSize) = {}
  <2>1. tcb_used' = [tcb_used EXCEPT ![t] = FALSE] /\ NoThread(m) /\ UNCHANGED tcb
    BY <1>4 DEF AllocStack
  <2>2. TcbUsed(t, FALSE)
    <3> HIDE DEF t
    <3>. QED BY <1>3, <2>1, TcbUsedSets DEF Typing
  <2>. QED BY <1>2, <2>1, <2>2, QuitByNoThread DEF At
<1>5. CASE Fits(heap, StackSize) # {}
  <2> DEFINE at == MallocAt(heap, StackSize)
             new == [tcb[t] EXCEPT !.stack = at]
  <2>1. /\ heap' = Malloc(heap, StackSize) /\ tcb' = [tcb EXCEPT ![t] = new]
        /\ Goes(m, "fill") /\ UNCHANGED <<tcb_used, pcb_used, pcb, args>>
    BY <1>5 DEF AllocStack
  <2>2. at \in Nat
    BY <1>5, MallocWorks, TasksAssumption DEF Heaped
  <2>3. Went(m, "stack", "fill")
    BY <1>1, <1>2, <2>1, WentByGoes
  <2> HIDE DEF at, t
  <2>4. new \in TcbRecords /\ new.stack = at /\ new.pid = tcb[t].pid /\ new.arg = tcb[t].arg /\ new.state = tcb[t].state
    BY <1>3, <2>2 DEF TcbRecords
  <2> HIDE DEF new
  <2>5. TcbStep(t) /\ tcb'[t] = new
    BY <1>3, <2>1, <2>4, TcbSets DEF Typing
  <2>. QED BY <1>2, <1>5, <2>1, <2>3, <2>4, <2>5 DEF StackGot, t, at
<1>. QED BY <1>4, <1>5

\* A process never lists more threads than there are TCBs: the one being made
\* is not listed yet.
LEMMA Room ==
  ASSUME Typing, Turns, Found, Made, SlotsAt, Agree, NEW m \in Maker, At(m, "fill"), Runs(m)
  PROVE  op[m].proc \in Pcb /\ pcb[op[m].proc].count + 1 \in 1..MAX_THREADS
<1> DEFINE t == op[m].tcb
           p == op[m].proc
           count == pcb[p].count
<1>1. MAX_THREADS \in Nat \ {0}
  BY TasksAssumption
<1>2. p \in Pcb /\ pcb_used[p] /\ (m # app => count = 0)
  BY DEF Found, FoundAt, At, Making
<1>3. t \in Tcb /\ tcb[t].pid = 0
  BY DEF Made, Blank, At
<1>4. pcb[p] \in PcbRecords /\ count \in 0..MAX_THREADS
  BY <1>2 DEF Typing, PcbRecords
<1>5. pcb[p].pid \in Pid /\ pcb[p].pid # 0
  BY <1>2, Names DEF SlotsAt
<1>6. Reach(p) = count
  <2>1. \A b \in Actor : b # m => At(b, "idle")
    BY RunsAlone DEF At
  <2>2. ~Compacted(p)
    BY <2>1, Names DEF Compacted, At
  <2>. QED BY <2>2 DEF Reach
<1> DEFINE f == [i \in 1..count |-> pcb[p].threads[i]]
<1>7. \A i \in 1..count : pcb[p].threads[i] \in Tcb \ {t}
  <2>1. \A i \in 1..count : pcb[p].threads[i] \in Tcb /\ tcb[pcb[p].threads[i]].pid = pcb[p].pid
    BY <1>2, <1>6 DEF Agree, Has
  <2>. QED BY <1>3, <1>5, <2>1
<1>8. \A i, j \in 1..count : pcb[p].threads[i] = pcb[p].threads[j] => i = j
  BY <1>2, <1>6 DEF Agree
<1> HIDE DEF t, p, count
<1>9. f \in Injection(1..count, Tcb \ {t})
  BY <1>7, <1>8 DEF Injection, IsInjective
<1>10. IsFiniteSet(Tcb) /\ Cardinality(Tcb) = MAX_THREADS
  <2>1. /\ IsFiniteSet(0..MAX_THREADS-1)
        /\ Cardinality(0..MAX_THREADS-1) = IF 0 > MAX_THREADS - 1 THEN 0 ELSE (MAX_THREADS - 1) - 0 + 1
    BY <1>1, FS_Interval
  <2>. QED BY <1>1, <2>1 DEF Tcb
<1>11. IsFiniteSet(Tcb \ {t}) /\ Cardinality(Tcb \ {t}) = MAX_THREADS - 1
  BY <1>3, <1>10, FS_RemoveElement
<1>12. Cardinality(1..count) <= Cardinality(Tcb \ {t})
  <2> HIDE DEF f
  <2>. QED BY <1>9, <1>11, FS_Injection
<1>13. Cardinality(1..count) = count
  <2>1. count \in Int /\ count >= 0
    BY <1>1, <1>4
  <2>2. Cardinality(1..count) = IF 1 > count THEN 0 ELSE count - 1 + 1
    BY <2>1, FS_Interval
  <2>. QED BY <2>1, <2>2
<1>14. count + 1 \in 1..MAX_THREADS
  BY <1>1, <1>4, <1>11, <1>12, <1>13
<1>. QED BY <1>2, <1>14 DEF p, count

\* The thread is its process's, and runs.
Published(m) ==
  LET t == op[m].tcb
      p == op[m].proc
      count == pcb[p].count
  IN  /\ At(m, "fill") /\ At(reaper, "idle") /\ OpStep(m) /\ op'[m] = NoOp
      /\ TcbStep(t) /\ tcb'[t].pid = pcb[p].pid /\ tcb'[t].state = "ready"
      /\ tcb'[t].arg = op[m].arg /\ tcb'[t].stack = tcb[t].stack
      /\ PcbStep(p) /\ pcb'[p].pid = pcb[p].pid /\ pcb'[p].count = count + 1
      /\ \A i \in 1..MAX_THREADS : pcb'[p].threads[i] = IF i = count + 1 THEN t ELSE pcb[p].threads[i]
      /\ UNCHANGED <<tcb_used, pcb_used, next_pid, heap, args>>

LEMMA PublishEffect ==
  ASSUME Typing, Turns, Found, Made, SlotsAt, Agree, NEW m \in Maker, Runs(m), Publish(m)
  PROVE  Published(m)
<1> DEFINE t == op[m].tcb
           p == op[m].proc
           newt == [tcb[t] EXCEPT !.pid = pcb[p].pid, !.state = "ready", !.arg = op[m].arg]
           threads == [pcb[p].threads EXCEPT ![pcb[p].count + 1] = t]
           newp == [pcb[p] EXCEPT !.count = pcb[p].count + 1, !.threads = threads]
<1>1. m \in Actor /\ m # reaper /\ op \in [Actor -> OpRecords] /\ op[m] \in OpRecords
  BY Names DEF Typing
<1>2. At(m, "fill") /\ Runs(m) /\ At(reaper, "idle") /\ Done(m) /\ UNCHANGED <<tcb_used, pcb_used, next_pid, heap, args>>
  BY <1>1 DEF Publish, Runs
<1>3. tcb' = [tcb EXCEPT ![t] = newt] /\ pcb' = [pcb EXCEPT ![p] = newp]
  BY DEF Publish
<1>4. t \in Tcb /\ tcb[t] \in TcbRecords
  BY <1>2 DEF Made, Blank, At, Typing
<1>5. p \in Pcb /\ pcb[p].count + 1 \in 1..MAX_THREADS
  BY <1>2, Room
<1>6. pcb[p] \in PcbRecords /\ pcb[p].pid \in Pid \union {0} /\ pcb[p].count \in 0..MAX_THREADS
      /\ pcb[p].threads \in [1..MAX_THREADS -> Tcb \union {None}]
  BY <1>5 DEF Typing, PcbRecords
<1>7. op[m].arg \in Nat \union {None}
  BY <1>1 DEF OpRecords
<1> HIDE DEF t, p
<1>8. /\ newt \in TcbRecords /\ newt.pid = pcb[p].pid /\ newt.state = "ready" /\ newt.arg = op[m].arg
      /\ newt.stack = tcb[t].stack
  BY <1>4, <1>6, <1>7 DEF TcbRecords, States
<1>9. /\ threads \in [1..MAX_THREADS -> Tcb \union {None}]
      /\ \A i \in 1..MAX_THREADS : threads[i] = IF i = pcb[p].count + 1 THEN t ELSE pcb[p].threads[i]
  BY <1>4, <1>5, <1>6
<1> HIDE DEF threads
<1>10. newp \in PcbRecords /\ newp.pid = pcb[p].pid /\ newp.count = pcb[p].count + 1 /\ newp.threads = threads
  <2>1. pcb[p].count + 1 \in 0..MAX_THREADS
    BY <1>5
  <2>. QED BY <1>6, <1>9, <2>1 DEF PcbRecords
<1> HIDE DEF newt, newp
<1>11. TcbStep(t) /\ tcb'[t] = newt /\ PcbStep(p) /\ pcb'[p] = newp
  BY <1>3, <1>4, <1>5, <1>8, <1>10, TcbSets, PcbSets DEF Typing
<1>12. OpStep(m) /\ op'[m] = NoOp
  BY <1>1, <1>2, DoneSets DEF OpStep
<1>. QED BY <1>2, <1>8, <1>9, <1>10, <1>11, <1>12 DEF Published, t, p

\* A thread of an app begins to make another.
Asked(c) ==
  /\ Busy = {} /\ tcb_used[c] /\ tcb[c].state = "ready"
  /\ OpStep(app) /\ op'[app].at = "scan" /\ op'[app].by = c /\ op'[app].arg = None
  /\ op'[app].proc \in Pcb /\ pcb_used[op'[app].proc] /\ pcb[op'[app].proc].pid = tcb[c].pid
  /\ UNCHANGED <<tcb_used, tcb, pcb_used, pcb, next_pid, heap, args>>

LEMMA ThreadCreateEffect ==
  ASSUME Busy = {}, Typing, NEW c \in Tcb, ThreadCreate(c)
  PROVE  Asked(c)
<1>1. app \in Actor /\ op \in [Actor -> OpRecords]
  BY DEF Actor, Typing
<1>2. Busy = {} /\ tcb_used[c] /\ tcb[c].state = "ready" /\ UNCHANGED <<pools, next_pid, heap, args>>
  BY DEF ThreadCreate
<1>3. PICK p \in task_find_process(tcb[c].pid) :
        op' = [op EXCEPT ![app] = [NoOp EXCEPT !.at = "scan", !.proc = p, !.by = c]]
  BY DEF ThreadCreate
<1>4. p \in Pcb /\ pcb_used[p] /\ pcb[p].pid = tcb[c].pid
  BY DEF task_find_process
<1> DEFINE new == [NoOp EXCEPT !.at = "scan", !.proc = p, !.by = c]
<1>5. new \in OpRecords /\ new.at = "scan" /\ new.proc = p /\ new.by = c /\ new.arg = None
  BY <1>4, NoOpTyped DEF OpRecords, NoOp, Places, Creating, Making
<1> HIDE DEF new
<1>6. OpStep(app) /\ op'[app] = new
  <2>1. op' = [op EXCEPT ![app] = new]
    BY <1>3 DEF new
  <2>. QED BY <1>1, <1>5, <2>1, OpSets
<1>. QED BY <1>2, <1>4, <1>5, <1>6 DEF Asked, pools

\* kill and killproc begin.
KillBegun ==
  /\ Busy = {} /\ OpStep(shell) /\ op'[shell].at \in {"mark", "snapshot"} /\ op'[shell].arg = None
  /\ op'[shell].at = "mark" => op'[shell].list # <<>>
  /\ op'[shell].at = "snapshot" => op'[shell].proc \in Pcb
  /\ UNCHANGED <<tcb_used, tcb, pcb_used, pcb, next_pid, heap, args>>

LEMMA KillBegins ==
  ASSUME Busy = {}, Typing, cmd_kill \/ cmd_killproc
  PROVE  KillBegun
<1>1. shell \in Actor /\ op \in [Actor -> OpRecords]
  BY Names DEF Typing
<1>2. CASE cmd_kill
  <2>1. PICK t \in Tcb : /\ UNCHANGED <<pools, next_pid, heap, args>>
                         /\ op' = [op EXCEPT ![shell] = [NoOp EXCEPT !.at = "mark", !.list = <<t>>]]
    BY <1>2 DEF cmd_kill
  <2> DEFINE new == [NoOp EXCEPT !.at = "mark", !.list = <<t>>]
  <2>2. <<t>> \in Seq(Tcb) /\ <<t>> # <<>>
    OBVIOUS
  <2>3. new \in OpRecords /\ new.at = "mark" /\ new.list # <<>> /\ new.arg = None
    BY <2>2, NoOpTyped DEF OpRecords, NoOp, Places
  <2>4. op' = [op EXCEPT ![shell] = new]
    BY <2>1
  <2> HIDE DEF new
  <2>5. OpStep(shell) /\ op'[shell] = new
    BY <1>1, <2>3, <2>4, OpSets
  <2>. QED BY <2>1, <2>3, <2>5 DEF KillBegun, pools
<1>3. CASE cmd_killproc
  <2>1. PICK p \in Pcb : /\ UNCHANGED <<pools, next_pid, heap, args>>
                         /\ op' = [op EXCEPT ![shell] = [NoOp EXCEPT !.at = "snapshot", !.proc = p]]
    BY <1>3 DEF cmd_killproc
  <2> DEFINE new == [NoOp EXCEPT !.at = "snapshot", !.proc = p]
  <2>3. new \in OpRecords /\ new.at = "snapshot" /\ new.proc = p /\ new.arg = None
    BY NoOpTyped DEF OpRecords, NoOp, Places
  <2>4. op' = [op EXCEPT ![shell] = new]
    BY <2>1
  <2> HIDE DEF new
  <2>5. OpStep(shell) /\ op'[shell] = new
    BY <1>1, <2>3, <2>4, OpSets
  <2>. QED BY <2>1, <2>3, <2>5 DEF KillBegun, pools
<1>. QED BY <1>2, <1>3

\* pcb changes only in what processes say of being alive.
AliveOnly ==
  /\ pcb' \in [Pcb -> PcbRecords]
  /\ \A p \in Pcb : /\ pcb'[p].pid = pcb[p].pid /\ pcb'[p].count = pcb[p].count
                    /\ pcb'[p].threads = pcb[p].threads
                    /\ ~pcb_used[p] => pcb'[p] = pcb[p]

LEMMA SameProcess ==
  ASSUME NEW x \in PcbRecords, NEW y \in PcbRecords,
         x.pid = y.pid, x.alive = y.alive, x.count = y.count, x.threads = y.threads
  PROVE  x = y
BY DEF PcbRecords

LEMMA AliveSets ==
  ASSUME Typing, SlotsAt, NEW p \in Pcb, pcb' = [pcb EXCEPT ![p].alive = FALSE]
  PROVE  AliveOnly
<1> DEFINE new == [pcb[p] EXCEPT !.alive = FALSE]
<1>1. pcb \in [Pcb -> PcbRecords] /\ pcb[p] \in PcbRecords
  BY DEF Typing
<1>2. new \in PcbRecords /\ new.pid = pcb[p].pid /\ new.count = pcb[p].count /\ new.threads = pcb[p].threads
  BY <1>1 DEF PcbRecords
<1>3. ~pcb_used[p] => new = pcb[p]
  <2> SUFFICES ASSUME ~pcb_used[p] PROVE new = pcb[p]
    OBVIOUS
  <2>1. pcb[p] = ZeroedProcess
    BY DEF SlotsAt
  <2>2. pcb[p].alive = FALSE
    BY <2>1 DEF ZeroedProcess
  <2>3. new.alive = pcb[p].alive
    BY <1>1, <2>2 DEF PcbRecords
  <2> HIDE DEF new
  <2>. QED BY <1>1, <1>2, <2>3, SameProcess
<1>4. pcb' = [pcb EXCEPT ![p] = new]
  OBVIOUS
<1> HIDE DEF new
<1>5. PcbStep(p) /\ pcb'[p] = new
  BY <1>1, <1>2, <1>4, PcbSets
<1>. QED BY <1>2, <1>3, <1>5 DEF AliveOnly, PcbStep

\* killproc marks the process, and has the list of its threads.
Snapped ==
  /\ At(shell, "snapshot") /\ At(reaper, "idle")
  /\ OpStep(shell) /\ op'[shell].at \in {"idle", "mark"} /\ op'[shell].arg = None
  /\ op'[shell].at = "mark" => op'[shell].list # <<>>
  /\ AliveOnly
  /\ UNCHANGED <<tcb_used, tcb, pcb_used, next_pid, heap, args>>

LEMMA SnapshotEffect ==
  ASSUME Typing, Turns, SlotsAt, Agree, Runs(shell), Snapshot(shell)
  PROVE  Snapped
<1> DEFINE p == op[shell].proc
           list == SubSeq(pcb[p].threads, 1, pcb[p].count)
<1>1. shell \in Actor /\ shell \in Maker /\ op \in [Actor -> OpRecords] /\ shell # reaper
  BY Names DEF Typing
<1>2. /\ At(shell, "snapshot") /\ Runs(shell) /\ pcb' = [pcb EXCEPT ![p].alive = FALSE]
      /\ IF list = <<>> THEN Done(shell)
         ELSE op' = [op EXCEPT ![shell] = [NoOp EXCEPT !.at = "mark", !.list = list]]
      /\ UNCHANGED <<tcb_used, tcb, pcb_used, next_pid, heap, args>>
  BY DEF Snapshot
<1>3. p \in Pcb
  BY <1>2 DEF Turns
<1>4. pcb[p] \in PcbRecords /\ pcb[p].count \in Nat
  <2>1. pcb[p] \in PcbRecords
    BY <1>3 DEF Typing
  <2>. QED BY <2>1, TasksAssumption DEF PcbRecords
<1>5. \A i \in 1..pcb[p].count : pcb[p].threads[i] \in Tcb
  <2>1. \A b \in Actor : b # shell => At(b, "idle")
    BY <1>1, <1>2, RunsAlone DEF At
  <2>2. ~Compacted(p)
    BY <1>2, <2>1, Names DEF Compacted, At, Freer
  <2>3. CASE pcb_used[p]
    BY <1>3, <2>2, <2>3 DEF Agree, Reach
  <2>4. CASE ~pcb_used[p]
    <3>1. pcb[p].count = 0
      BY <1>3, <2>4, ZeroedTyped DEF SlotsAt
    <3>. QED BY <3>1
  <2>. QED BY <2>3, <2>4
<1>6. list \in Seq(Tcb)
  BY <1>4, <1>5, SubSeqProperties
<1>7. AliveOnly
  <2> HIDE DEF p
  <2>. QED BY <1>2, <1>3, AliveSets
<1>8. At(reaper, "idle")
  BY <1>1, <1>2 DEF Runs
<1> HIDE DEF list
<1>9. CASE list = <<>>
  <2>1. OpStep(shell) /\ op'[shell] = NoOp
    BY <1>1, <1>2, <1>9, DoneSets DEF OpStep
  <2>. QED BY <1>2, <1>7, <1>8, <2>1, NoOpTyped DEF Snapped
<1>10. CASE list # <<>>
  <2> DEFINE new == [NoOp EXCEPT !.at = "mark", !.list = list]
  <2>1. new \in OpRecords /\ new.at = "mark" /\ new.list = list /\ new.arg = None
    BY <1>6, NoOpTyped DEF OpRecords, NoOp, Places
  <2>2. op' = [op EXCEPT ![shell] = new]
    BY <1>2, <1>10
  <2> HIDE DEF new
  <2>3. OpStep(shell) /\ op'[shell] = new
    BY <1>1, <2>1, <2>2, OpSets
  <2>. QED BY <1>2, <1>7, <1>8, <1>10, <2>1, <2>3 DEF Snapped
<1>. QED BY <1>9, <1>10

\* Only the state of thread t changes.
StateOnly(t, state) ==
  /\ TcbStep(t) /\ tcb'[t].state = state
  /\ tcb'[t].pid = tcb[t].pid /\ tcb'[t].stack = tcb[t].stack /\ tcb'[t].arg = tcb[t].arg

LEMMA StateSets ==
  ASSUME Typing, NEW t \in Tcb, NEW state \in States, tcb' = [tcb EXCEPT ![t].state = state]
  PROVE  StateOnly(t, state) /\ tcb'[t] = [tcb[t] EXCEPT !.state = state]
<1> DEFINE new == [tcb[t] EXCEPT !.state = state]
<1>1. tcb \in [Tcb -> TcbRecords] /\ tcb[t] \in TcbRecords
  BY DEF Typing
<1>2. /\ new \in TcbRecords /\ new.state = state
      /\ new.pid = tcb[t].pid /\ new.stack = tcb[t].stack /\ new.arg = tcb[t].arg
  BY <1>1 DEF TcbRecords
<1>3. tcb' = [tcb EXCEPT ![t] = new]
  OBVIOUS
<1>4. TcbStep(t) /\ tcb'[t] = new
  <2> HIDE DEF new
  <2>. QED BY <1>1, <1>2, <1>3, TcbSets
<1>. QED BY <1>2, <1>4 DEF StateOnly

\* sched_kill() marks the next of the list: it is freed, or its waker frees it,
\* or somebody does already.
MarkedZombie(t) ==
  /\ tcb[t].state \in {"new", "ready"} /\ StateOnly(t, "zombie")
  /\ tcb'[t] = [tcb[t] EXCEPT !.state = "zombie"]
  /\ op'[shell].at = "unlink" /\ op'[shell].tcb = t /\ op'[shell].arg = op[shell].arg
MarkedDying(t) ==
  /\ tcb[t].state = "blocked" /\ StateOnly(t, "dying")
  /\ op'[shell].at \in {"idle", "mark"} /\ op'[shell].arg = None
  /\ op'[shell].at = "mark" => op'[shell].list # <<>>
MarkedNothing ==
  /\ UNCHANGED tcb
  /\ op'[shell].at \in {"idle", "mark"} /\ op'[shell].arg = None
  /\ op'[shell].at = "mark" => op'[shell].list # <<>>
Marked ==
  /\ At(shell, "mark") /\ At(reaper, "idle") /\ OpStep(shell)
  /\ MarkedNothing \/ \E t \in Tcb : MarkedZombie(t) \/ MarkedDying(t)
  /\ UNCHANGED <<tcb_used, pcb_used, pcb, next_pid, heap, args>>

LEMMA MarkEffect ==
  ASSUME Typing, Turns, Runs(shell), Mark(shell)
  PROVE  Marked
<1> DEFINE t == Head(op[shell].list)
<1>1. shell \in Actor /\ op \in [Actor -> OpRecords] /\ op[shell] \in OpRecords /\ shell # reaper
  BY Names DEF Typing
<1>2. At(shell, "mark") /\ At(reaper, "idle") /\ UNCHANGED <<tcb_used, pcb_used, pcb, next_pid, heap, args>>
  BY <1>1 DEF Mark, Runs
<1>3. t \in Tcb
  <2>1. op[shell].list \in Seq(Tcb) /\ op[shell].list # <<>>
    BY <1>1, <1>2 DEF Turns, OpRecords
  <2>. QED BY <2>1, HeadTailProperties
<1>4. \/ /\ tcb[t].state \in {"new", "ready"} /\ tcb' = [tcb EXCEPT ![t].state = "zombie"]
         /\ op' = [op EXCEPT ![shell].at = "unlink", ![shell].tcb = t,
                             ![app] = IF ~At(app, "idle") /\ @.by = t THEN NoOp ELSE @]
      \/ tcb[t].state = "blocked" /\ tcb' = [tcb EXCEPT ![t].state = "dying"] /\ GoesOn(shell)
      \/ GoesOn(shell) /\ UNCHANGED tcb
  BY Zenon DEF Mark
<1>0. app \in Actor /\ app # shell /\ At(app, "idle")
  <2>1. app \in Actor /\ app # shell
    BY Names DEF Actor
  <2>. QED BY <1>1, <1>2, <2>1, RunsAlone, Names DEF At
<1>5. "zombie" \in States /\ "dying" \in States
  BY DEF States
<1>6. GoesOn(shell) => /\ OpStep(shell) /\ op'[shell].at \in {"idle", "mark"} /\ op'[shell].arg = None
                       /\ op'[shell].at = "mark" => op'[shell].list # <<>>
  BY <1>1, GoesOnSets DEF OpStep
<1> HIDE DEF t
<1>7. CASE /\ tcb[t].state \in {"new", "ready"} /\ tcb' = [tcb EXCEPT ![t].state = "zombie"]
           /\ op' = [op EXCEPT ![shell].at = "unlink", ![shell].tcb = t,
                               ![app] = IF ~At(app, "idle") /\ @.by = t THEN NoOp ELSE @]
  <2> DEFINE new == [op[shell] EXCEPT !.at = "unlink", !.tcb = t]
  <2>1. new \in OpRecords /\ new.at = "unlink" /\ new.tcb = t /\ new.arg = op[shell].arg
    BY <1>1, <1>3 DEF OpRecords, Places, Freeing
  <2>2. op' = [op EXCEPT ![shell] = new]
    BY <1>0, <1>1, <1>7
  <2> HIDE DEF new
  <2>3. OpStep(shell) /\ op'[shell] = new
    BY <1>1, <2>1, <2>2, OpSets
  <2>4. StateOnly(t, "zombie") /\ tcb'[t] = [tcb[t] EXCEPT !.state = "zombie"]
    BY <1>3, <1>5, <1>7, StateSets
  <2>. QED BY <1>2, <1>3, <1>7, <2>1, <2>3, <2>4 DEF Marked, MarkedZombie
<1>8. CASE tcb[t].state = "blocked" /\ tcb' = [tcb EXCEPT ![t].state = "dying"] /\ GoesOn(shell)
  <2>1. StateOnly(t, "dying")
    BY <1>3, <1>5, <1>8, StateSets
  <2>. QED BY <1>2, <1>3, <1>6, <1>8, <2>1 DEF Marked, MarkedDying
<1>9. CASE GoesOn(shell) /\ UNCHANGED tcb
  BY <1>2, <1>6, <1>9 DEF Marked, MarkedNothing
<1>. QED BY <1>4, <1>7, <1>8, <1>9

\* task_free_thread(): nobody else compacts threads[] meanwhile, and a killer
\* is alone.
AloneFrees(a) ==
  /\ \A b \in Freer : b # a => ~At(b, "shift")
  /\ a = shell => At(reaper, "idle") /\ \A b \in Actor : b # a => At(b, "idle")

LEMMA FreersApart ==
  ASSUME Turns, NEW a \in Freer, ~At(a, "idle"), Runs(a)
  PROVE  AloneFrees(a)
<1>1. CASE a = shell
  <2>1. At(reaper, "idle") /\ \A b \in Actor : b # a => At(b, "idle")
    BY <1>1, Names, RunsAlone
  <2>. QED BY <1>1, <2>1, Names DEF AloneFrees, At, Freer
<1>2. CASE a = reaper
  BY <1>2, Names DEF AloneFrees, Turns, Freer
<1>. QED BY <1>1, <1>2 DEF Freer

\* The thread has no process,
Orphaned(a) ==
  /\ Went(a, "unlink", "unuse") /\ AloneFrees(a)
  /\ \A p \in Pcb : pcb_used[p] => pcb[p].pid # tcb[op[a].tcb].pid
  /\ UNCHANGED <<tcb_used, tcb, pcb_used, pcb, next_pid, heap, args>>
\* or is about to be taken out of its threads[].
Unlinked(a) ==
  LET t == op[a].tcb
      p == op'[a].proc
  IN  /\ At(a, "unlink") /\ AloneFrees(a) /\ OpStep(a) /\ op'[a].at = "shift"
      /\ op'[a].tcb = t /\ op'[a].arg = op[a].arg /\ op'[a].list = op[a].list
      /\ p \in Pcb /\ pcb_used[p] /\ tcb_used[t] /\ tcb[t].pid = pcb[p].pid
      /\ op'[a].slot \in 1..pcb[p].count /\ pcb[p].threads[op'[a].slot] = t
      /\ PcbStep(p) /\ pcb'[p].pid = pcb[p].pid /\ pcb'[p].count = pcb[p].count - 1
      /\ pcb'[p].threads = pcb[p].threads
      /\ UNCHANGED <<tcb_used, tcb, pcb_used, next_pid, heap, args>>

LEMMA UnlinkEffect ==
  ASSUME Typing, Turns, Freed, Apart, SlotsAt, Agree, NEW a \in Freer, Runs(a), Unlink(a)
  PROVE  Orphaned(a) \/ Unlinked(a)
<1> DEFINE t == op[a].tcb
           owner == task_find_process(tcb[t].pid)
           p == CHOOSE q \in owner : TRUE
<1>1. a \in Actor /\ op \in [Actor -> OpRecords] /\ op[a] \in OpRecords /\ "unuse" \in Places
  BY Names DEF Typing, Places, Freeing
<1>2. At(a, "unlink") /\ Runs(a) /\ UNCHANGED <<tcb_used, tcb, pcb_used, next_pid, heap, args>>
  BY DEF Unlink
<1>3. AloneFrees(a)
  BY <1>2, FreersApart DEF At
<1>4. t \in Tcb /\ ((tcb_used[t] /\ tcb[t].pid # 0) \/ Again(t))
  BY <1>2 DEF Freed, FreedAt, Freeing, At
<1>5. CASE owner = {}
  <2>1. Goes(a, "unuse") /\ UNCHANGED pcb
    BY <1>5 DEF Unlink
  <2>2. Went(a, "unlink", "unuse")
    BY <1>1, <1>2, <2>1, WentByGoes
  <2>3. \A q \in Pcb : pcb_used[q] => pcb[q].pid # tcb[t].pid
    BY <1>5 DEF task_find_process
  <2>. QED BY <1>2, <1>3, <2>1, <2>2, <2>3 DEF Orphaned
<1>6. CASE owner # {}
  <2>1. p \in Pcb /\ pcb_used[p] /\ pcb[p].pid = tcb[t].pid
    <3>1. p \in owner
      BY <1>6
    <3> HIDE DEF p
    <3>. QED BY <3>1 DEF task_find_process
  <2>2. tcb_used[t]
    <3>1. pcb[p].pid # 0
      BY <2>1, Names DEF SlotsAt
    <3>2. Again(t) => tcb[t].pid = 0
      BY DEF Again, Zeroed
    <3>. QED BY <1>4, <2>1, <3>1, <3>2
  <2>3. ~Compacted(p)
    BY <1>2, <1>3 DEF Compacted, AloneFrees, At
  <2>4. ~Out(t)
    <3> SUFFICES ASSUME NEW b \in Freer, At(b, "unuse"), op[b].tcb = t PROVE FALSE
      BY DEF Out
    <3>. QED BY <1>2 DEF At, Apart, Freer, Freeing
  <2> HIDE DEF p, t
  <2>5. PICK i \in 1..pcb[p].count : pcb[p].threads[i] = t
    BY <1>4, <2>1, <2>2, <2>3, <2>4 DEF Agree, Has, Reach
  <2> DEFINE slot == CHOOSE j \in 1..pcb[p].count : pcb[p].threads[j] = t
             newo == [op[a] EXCEPT !.at = "shift", !.proc = p, !.slot = slot]
             newp == [pcb[p] EXCEPT !.count = pcb[p].count - 1]
  <2>6. slot \in 1..pcb[p].count /\ pcb[p].threads[slot] = t
    BY <2>5
  <2>7. op' = [op EXCEPT ![a] = newo] /\ pcb' = [pcb EXCEPT ![p] = newp]
    BY <1>6, <2>5 DEF Unlink, Threads, p, t
  <2> HIDE DEF slot
  <2>8. pcb[p] \in PcbRecords /\ pcb \in [Pcb -> PcbRecords]
    BY <2>1 DEF Typing
  <2>9. pcb[p].count \in 0..MAX_THREADS /\ MAX_THREADS \in Nat /\ slot \in Nat
    BY <2>6, <2>8, TasksAssumption DEF PcbRecords
  <2>10. pcb[p].count - 1 \in 0..MAX_THREADS
    BY <2>6, <2>9
  <2>11. newp \in PcbRecords /\ newp.pid = pcb[p].pid /\ newp.count = pcb[p].count - 1 /\ newp.threads = pcb[p].threads
    BY <2>8, <2>10 DEF PcbRecords
  <2>12. /\ newo \in OpRecords /\ newo.at = "shift" /\ newo.proc = p /\ newo.slot = slot
         /\ newo.tcb = op[a].tcb /\ newo.arg = op[a].arg /\ newo.list = op[a].list
    BY <1>1, <2>1, <2>9 DEF OpRecords, Places, Freeing
  <2> HIDE DEF newo, newp
  <2>13. OpStep(a) /\ op'[a] = newo /\ PcbStep(p) /\ pcb'[p] = newp
    BY <1>1, <2>1, <2>7, <2>8, <2>11, <2>12, OpSets, PcbSets
  <2>14. op'[a].tcb = t /\ tcb[t].pid = pcb[p].pid
    BY <2>1, <2>12, <2>13 DEF t
  <2>. QED BY <1>2, <1>3, <2>1, <2>2, <2>6, <2>11, <2>12, <2>13, <2>14 DEF Unlinked, t
<1>. QED BY <1>5, <1>6

\* threads[] is closed up.
Shifted(a) ==
  LET p == op[a].proc
  IN  /\ Went(a, "shift", "unuse") /\ AloneFrees(a)
      /\ PcbStep(p) /\ pcb'[p].pid = pcb[p].pid /\ pcb'[p].count = pcb[p].count
      /\ \A i \in 1..pcb[p].count :
           pcb'[p].threads[i] = IF i >= op[a].slot THEN pcb[p].threads[i + 1] ELSE pcb[p].threads[i]
      /\ UNCHANGED <<tcb_used, tcb, pcb_used, next_pid, heap, args>>

LEMMA ShiftEffect ==
  ASSUME Typing, Turns, Freed, NEW a \in Freer, Runs(a), Shift(a)
  PROVE  Shifted(a)
<1> DEFINE p == op[a].proc
           count == pcb[p].count
           slot == op[a].slot
           threads == [i \in 1..MAX_THREADS |->
              IF i = count + 1 THEN None ELSE IF i \in slot..count THEN pcb[p].threads[i + 1] ELSE pcb[p].threads[i]]
           new == [pcb[p] EXCEPT !.threads = threads]
<1>1. a \in Actor /\ op \in [Actor -> OpRecords] /\ "unuse" \in Places
  BY Names DEF Typing, Places, Freeing
<1>2. /\ At(a, "shift") /\ Runs(a) /\ Goes(a, "unuse") /\ pcb' = [pcb EXCEPT ![p] = new]
      /\ UNCHANGED <<tcb_used, tcb, pcb_used, next_pid, heap, args>>
  BY DEF Shift
<1>3. AloneFrees(a)
  BY <1>2, FreersApart DEF At
<1>4. Went(a, "shift", "unuse")
  BY <1>1, <1>2, WentByGoes
<1>5. p \in Pcb /\ count < MAX_THREADS /\ slot \in 1..count + 1
  BY <1>2 DEF Freed, FreedAt
<1>6. pcb[p] \in PcbRecords /\ pcb \in [Pcb -> PcbRecords]
  BY <1>5 DEF Typing
<1>7. count \in Nat /\ MAX_THREADS \in Nat /\ pcb[p].threads \in [1..MAX_THREADS -> Tcb \union {None}]
  BY <1>6, TasksAssumption DEF PcbRecords
<1> HIDE DEF p, count, slot
<1>8. slot \in Nat
  BY <1>5, <1>7
<1>9. \A i \in 1..count : i \in 1..MAX_THREADS /\ i + 1 \in 1..MAX_THREADS /\ i # count + 1
  BY <1>5, <1>7
<1>10. \A i \in slot..count : i \in 1..count
  BY <1>5, <1>7
<1>11. threads \in [1..MAX_THREADS -> Tcb \union {None}]
  BY <1>7, <1>9, <1>10
<1>12. \A i \in 1..count : threads[i] = IF i >= slot THEN pcb[p].threads[i + 1] ELSE pcb[p].threads[i]
  BY <1>7, <1>8, <1>9
<1> HIDE DEF threads
<1>13. new \in PcbRecords /\ new.pid = pcb[p].pid /\ new.count = pcb[p].count /\ new.threads = threads
  BY <1>6, <1>11 DEF PcbRecords
<1> HIDE DEF new
<1>14. PcbStep(p) /\ pcb'[p] = new
  BY <1>2, <1>5, <1>6, <1>13, PcbSets
<1>. QED BY <1>2, <1>3, <1>4, <1>12, <1>13, <1>14 DEF Shifted, p, count, slot

\* The slot is free, but not yet zeroed,
Unused(a) ==
  LET t == op[a].tcb
  IN  /\ At(a, "unuse") /\ AloneFrees(a) /\ OpStep(a) /\ op'[a].at = "wipe"
      /\ op'[a].proc = op[a].proc /\ op'[a].tcb = t /\ op'[a].arg = op[a].arg /\ op'[a].list = op[a].list
      /\ op'[a].stack = tcb[t].stack
      /\ TcbUsed(t, FALSE)
      /\ UNCHANGED <<tcb, pcb_used, pcb, next_pid, heap, args>>

LEMMA UnuseEffect ==
  ASSUME Typing, Turns, Freed, NEW a \in Freer, Runs(a), Unuse(a)
  PROVE  Unused(a)
<1> DEFINE t == op[a].tcb
           new == [op[a] EXCEPT !.at = "wipe", !.stack = tcb[t].stack]
<1>1. a \in Actor /\ op \in [Actor -> OpRecords] /\ op[a] \in OpRecords
  BY Names DEF Typing
<1>2. /\ At(a, "unuse") /\ Runs(a) /\ op' = [op EXCEPT ![a] = new] /\ tcb_used' = [tcb_used EXCEPT ![t] = FALSE]
      /\ UNCHANGED <<tcb, pcb_used, pcb, next_pid, heap, args>>
  BY DEF Unuse
<1>3. AloneFrees(a)
  BY <1>2, FreersApart DEF At
<1>4. t \in Tcb
  BY <1>2 DEF Freed, FreedAt, At, Freeing
<1> HIDE DEF t
<1>5. tcb[t].stack \in Nat \union {None}
  BY <1>4 DEF Typing, TcbRecords
<1>6. /\ new \in OpRecords /\ new.at = "wipe" /\ new.stack = tcb[t].stack /\ new.proc = op[a].proc
      /\ new.tcb = op[a].tcb /\ new.arg = op[a].arg /\ new.list = op[a].list
  <2>1. "wipe" \in Places
    BY DEF Places, Freeing
  <2>2. new \in OpRecords
    BY <1>1, <1>5, <2>1 DEF OpRecords
  <2>3. /\ new.at = "wipe" /\ new.stack = tcb[t].stack /\ new.proc = op[a].proc
        /\ new.tcb = op[a].tcb /\ new.arg = op[a].arg /\ new.list = op[a].list
    BY <1>1 DEF OpRecords
  <2>. QED BY <2>2, <2>3
<1> HIDE DEF new
<1>7. OpStep(a) /\ op'[a] = new
  BY <1>1, <1>2, <1>6, OpSets
<1>8. TcbUsed(t, FALSE)
  BY <1>2, <1>4, TcbUsedSets DEF Typing
<1>. QED BY <1>2, <1>3, <1>6, <1>7, <1>8 DEF Unused, t

\* and then it is, and the stack freed.
Wiped(a) ==
  LET t == op[a].tcb
      stack == op[a].stack
  IN  /\ Went(a, "wipe", "process?") /\ AloneFrees(a)
      /\ TcbStep(t) /\ tcb'[t] = Zeroed
      /\ heap' = IF stack = None THEN heap ELSE Free(heap, stack)
      /\ UNCHANGED <<tcb_used, pcb_used, pcb, next_pid, args>>

LEMMA WipeEffect ==
  ASSUME Typing, Turns, Freed, NEW a \in Freer, Runs(a), Wipe(a)
  PROVE  Wiped(a)
<1> DEFINE t == op[a].tcb
<1>1. a \in Actor /\ op \in [Actor -> OpRecords] /\ "process?" \in Places
  BY Names DEF Typing, Places, Freeing
<1>2. /\ At(a, "wipe") /\ Runs(a) /\ Goes(a, "process?") /\ tcb' = [tcb EXCEPT ![t] = Zeroed]
      /\ heap' = IF op[a].stack = None THEN heap ELSE Free(heap, op[a].stack)
      /\ UNCHANGED <<tcb_used, pcb_used, pcb, next_pid, args>>
  BY DEF Wipe
<1>3. AloneFrees(a)
  BY <1>2, FreersApart DEF At
<1>4. t \in Tcb
  BY <1>2 DEF Freed, FreedAt, At, Freeing
<1>5. Went(a, "wipe", "process?")
  BY <1>1, <1>2, WentByGoes
<1>6. TcbStep(t) /\ tcb'[t] = Zeroed
  <2> HIDE DEF t
  <2>. QED BY <1>2, <1>4, ZeroedTyped, TcbSets DEF Typing
<1>. QED BY <1>2, <1>3, <1>5, <1>6 DEF Wiped

\* The process goes with its last thread, and a killer on to the next.
ProcessFreed(a) ==
  LET p == op[a].proc
  IN  /\ At(a, "process?") /\ AloneFrees(a) /\ OpStep(a) /\ op'[a].at \in {"idle", "mark"}
      /\ op'[a].arg = None /\ op'[a].proc = None
      /\ a = reaper => op'[a] = NoOp
      /\ op'[a].at = "mark" => op'[a].list # <<>>
      /\ \/ /\ p \in Pcb /\ pcb[p].count = 0
            /\ PcbUsed(p, FALSE) /\ PcbStep(p) /\ pcb'[p] = ZeroedProcess
         \/ (p \in Pcb => pcb[p].count # 0) /\ UNCHANGED <<pcb_used, pcb>>
      /\ UNCHANGED <<tcb_used, tcb, next_pid, heap, args>>

LEMMA FreeProcessEffect ==
  ASSUME Typing, Turns, NEW a \in Freer, Runs(a), FreeProcess(a)
  PROVE  ProcessFreed(a)
<1> DEFINE p == op[a].proc
<1>1. a \in Actor /\ op \in [Actor -> OpRecords] /\ op[a] \in OpRecords
  BY Names DEF Typing
<1>2. /\ At(a, "process?") /\ Runs(a) /\ GoesOn(a) /\ UNCHANGED <<tcb_used, tcb, next_pid, heap, args>>
  BY DEF FreeProcess
<1>3. AloneFrees(a)
  BY <1>2, FreersApart DEF At
<1>4. /\ OpStep(a) /\ op'[a].at \in {"idle", "mark"} /\ op'[a].arg = None /\ op'[a].proc = None
      /\ op'[a].at = "mark" => op'[a].list # <<>>
  BY <1>1, <1>2, GoesOnSets DEF OpStep
<1>5. a = reaper => op'[a] = NoOp
  <2> SUFFICES ASSUME a = reaper PROVE op'[a] = NoOp
    OBVIOUS
  <2>1. op[a].list = <<>>
    BY DEF Turns
  <2>2. ~(Len(op[a].list) > 1)
    BY <2>1, EmptySeq
  <2>. QED BY <1>1, <1>2, <2>2 DEF GoesOn
<1>6. p \in Pcb \union {None}
  BY <1>1 DEF OpRecords
<1>7. CASE p # None /\ pcb[p].count = 0
  <2>1. pcb_used' = [pcb_used EXCEPT ![p] = FALSE] /\ pcb' = [pcb EXCEPT ![p] = ZeroedProcess]
    BY <1>7 DEF FreeProcess
  <2>2. p \in Pcb
    BY <1>6, <1>7
  <2>3. PcbUsed(p, FALSE) /\ PcbStep(p) /\ pcb'[p] = ZeroedProcess
    <3> HIDE DEF p
    <3>. QED BY <2>1, <2>2, ZeroedTyped, PcbUsedSets, PcbSets DEF Typing
  <2>. QED BY <1>2, <1>3, <1>4, <1>5, <1>7, <2>2, <2>3 DEF ProcessFreed
<1>8. CASE ~(p # None /\ pcb[p].count = 0)
  <2>1. UNCHANGED <<pcb_used, pcb>>
    BY <1>8 DEF FreeProcess
  <2>2. p \in Pcb => pcb[p].count # 0
    BY <1>8, Names
  <2>. QED BY <1>2, <1>3, <1>4, <1>5, <2>1, <2>2 DEF ProcessFreed
<1>. QED BY <1>7, <1>8

\* A thread of an app takes its argument;
ArgTaken(t) ==
  /\ tcb_used[t] /\ tcb[t].state = "ready" /\ tcb[t].arg # None
  /\ TcbStep(t) /\ tcb'[t].arg = None
  /\ tcb'[t].pid = tcb[t].pid /\ tcb'[t].stack = tcb[t].stack /\ tcb'[t].state = tcb[t].state
  /\ heap' = Free(heap, tcb[t].arg) /\ args' = args \ {tcb[t].arg}
  /\ UNCHANGED <<tcb_used, pcb_used, pcb, next_pid, op>>

LEMMA TakesArgEffect ==
  ASSUME Typing, NEW t \in Tcb, TakesArg(t)
  PROVE  ArgTaken(t)
<1> DEFINE new == [tcb[t] EXCEPT !.arg = None]
<1>1. /\ tcb_used[t] /\ tcb[t].state = "ready" /\ tcb[t].arg # None
      /\ heap' = Free(heap, tcb[t].arg) /\ args' = args \ {tcb[t].arg} /\ tcb' = [tcb EXCEPT ![t] = new]
      /\ UNCHANGED <<tcb_used, pcb_used, pcb, next_pid, op>>
  BY DEF TakesArg, Live
<1>2. tcb \in [Tcb -> TcbRecords] /\ tcb[t] \in TcbRecords
  BY DEF Typing
<1>3. /\ new \in TcbRecords /\ new.arg = None
      /\ new.pid = tcb[t].pid /\ new.stack = tcb[t].stack /\ new.state = tcb[t].state
  BY <1>2 DEF TcbRecords
<1> HIDE DEF new
<1>4. TcbStep(t) /\ tcb'[t] = new
  BY <1>1, <1>2, <1>3, TcbSets
<1>. QED BY <1>1, <1>3, <1>4 DEF ArgTaken

\* PendSV is about to free it.
Reaped(t) ==
  /\ At(reaper, "idle") /\ OpStep(reaper)
  /\ op'[reaper].at = "unlink" /\ op'[reaper].tcb = t
  /\ op'[reaper].proc = None /\ op'[reaper].arg = None /\ op'[reaper].list = <<>>

LEMMA ReapsEffect ==
  ASSUME Typing, NEW t \in Tcb, At(reaper, "idle"), Reaps(t)
  PROVE  Reaped(t)
<1> DEFINE new == [NoOp EXCEPT !.at = "unlink", !.tcb = t]
<1>1. reaper \in Actor /\ op \in [Actor -> OpRecords]
  BY Names DEF Typing
<1>2. new \in OpRecords /\ new.at = "unlink" /\ new.tcb = t /\ new.proc = None /\ new.arg = None /\ new.list = <<>>
  BY NoOpTyped DEF OpRecords, NoOp, Places, Freeing
<1>3. op' = [op EXCEPT ![reaper] = new]
  BY DEF Reaps
<1> HIDE DEF new
<1>4. OpStep(reaper) /\ op'[reaper] = new
  BY <1>1, <1>2, <1>3, OpSets
<1>. QED BY <1>2, <1>4 DEF Reaped

\* it ends;
Exited(t) ==
  /\ AppsRun /\ tcb_used[t] /\ tcb[t].state = "ready" /\ tcb[t].arg = None /\ op[app].by # t
  /\ StateOnly(t, "zombie") /\ AliveOnly /\ Reaped(t)
  /\ UNCHANGED <<tcb_used, pcb_used, next_pid, heap, args>>

LEMMA ExitsEffect ==
  ASSUME AppsRun, Typing, SlotsAt, NEW t \in Tcb, Exits(t)
  PROVE  Exited(t)
<1>1. /\ AppsRun /\ tcb_used[t] /\ tcb[t].state = "ready" /\ tcb[t].arg = None /\ op[app].by # t
      /\ tcb' = [tcb EXCEPT ![t].state = "zombie"] /\ Reaps(t)
      /\ UNCHANGED <<tcb_used, pcb_used, next_pid, heap, args>>
  BY DEF Exits, Live
<1>2. UNCHANGED pcb \/ \E p \in Pcb : pcb' = [pcb EXCEPT ![p].alive = FALSE]
  BY DEF Exits, task_find_process
<1>3. AliveOnly
  <2>1. CASE UNCHANGED pcb
    BY <2>1 DEF AliveOnly, Typing
  <2>2. CASE \E p \in Pcb : pcb' = [pcb EXCEPT ![p].alive = FALSE]
    BY <2>2, AliveSets
  <2>. QED BY <1>2, <2>1, <2>2
<1>4. StateOnly(t, "zombie")
  <2>1. "zombie" \in States
    BY DEF States
  <2>. QED BY <1>1, <2>1, StateSets
<1>5. Reaped(t)
  BY <1>1, ReapsEffect DEF AppsRun
<1>. QED BY <1>1, <1>3, <1>4, <1>5 DEF Exited

\* it waits;
Waited(t) ==
  /\ AppsRun /\ tcb_used[t] /\ tcb[t].state = "ready" /\ op[app].by # t /\ StateOnly(t, "blocked")
  /\ UNCHANGED <<tcb_used, pcb_used, pcb, next_pid, heap, args, op>>

LEMMA WaitsEffect ==
  ASSUME AppsRun, Typing, NEW t \in Tcb, Waits(t)
  PROVE  Waited(t)
<1>1. "blocked" \in States
  BY DEF States
<1>2. StateOnly(t, "blocked")
  BY <1>1, StateSets DEF Waits
<1>. QED BY <1>2 DEF Waits, Waited, Live

\* and is woken.
WokenUp(t) ==
  /\ AppsRun /\ tcb[t].state = "blocked" /\ StateOnly(t, "ready")
  /\ UNCHANGED <<tcb_used, pcb_used, pcb, next_pid, heap, args, op>>
WokenToDie(t) ==
  /\ AppsRun /\ tcb[t].state = "dying" /\ StateOnly(t, "zombie") /\ Reaped(t)
  /\ UNCHANGED <<tcb_used, pcb_used, pcb, next_pid, heap, args>>

LEMMA WokenEffect ==
  ASSUME AppsRun, Typing, NEW t \in Tcb, Woken(t)
  PROVE  WokenUp(t) \/ WokenToDie(t)
<1>1. "ready" \in States /\ "zombie" \in States
  BY DEF States
<1>2. AppsRun /\ UNCHANGED <<tcb_used, pcb_used, pcb, next_pid, heap, args>>
  BY DEF Woken
<1>3. CASE tcb[t].state = "blocked" /\ tcb' = [tcb EXCEPT ![t].state = "ready"] /\ UNCHANGED op
  <2>1. StateOnly(t, "ready")
    BY <1>1, <1>3, StateSets
  <2>. QED BY <1>2, <1>3, <2>1 DEF WokenUp
<1>4. CASE tcb[t].state = "dying" /\ tcb' = [tcb EXCEPT ![t].state = "zombie"] /\ Reaps(t)
  <2>1. StateOnly(t, "zombie")
    BY <1>1, <1>4, StateSets
  <2>2. Reaped(t)
    BY <1>2, <1>4, ReapsEffect DEF AppsRun
  <2>. QED BY <1>2, <1>4, <2>1, <2>2 DEF WokenToDie
<1>. QED BY <1>3, <1>4 DEF Woken

-----------------------------------------------------------------------------
(* Steps while nothing is being freed: whoever takes the step is alone.    *)

TurnAt(m) ==
  /\ m = app => op[m].at \in {"idle"} \union Making
  /\ m \in Manager /\ m # shell => op[m].at \in {"idle"} \union Creating
  /\ op[m].arg # None => op[m].at \in Creating /\ m # app
  /\ m = shell /\ At(m, "mark") => op[m].list # <<>>
  /\ m = shell /\ At(m, "snapshot") => op[m].proc \in Pcb
  /\ ~At(m, "boot")

AloneSteps(m) ==
  /\ op[m].at \notin Freeing /\ op'[m].at \notin Freeing /\ OpStep(m)
  /\ \A b \in Actor : b # m => At(b, "idle")

\* The invariant while m may be under way, and nothing is being freed.
RestSlots(m) ==
  /\ \A t \in Tcb : ~tcb_used[t] => tcb[t] = Zeroed
  /\ \A t \in Tcb : tcb_used[t] /\ (tcb[t].pid = 0 \/ tcb[t].state = "new") =>
       op[m].tcb = t /\ op[m].at \in {"stack", "fill"}
  /\ \A p \in Pcb : IF pcb_used[p] THEN pcb[p].pid \in Pid ELSE pcb[p] = ZeroedProcess
RestAgree ==
  \A p \in Pcb : pcb_used[p] =>
    /\ \A i \in 1..pcb[p].count : /\ pcb[p].threads[i] \in Tcb /\ tcb_used[pcb[p].threads[i]]
                                  /\ tcb[pcb[p].threads[i]].pid = pcb[p].pid
    /\ \A t \in Tcb : tcb_used[t] /\ tcb[t].pid = pcb[p].pid => \E i \in 1..pcb[p].count : pcb[p].threads[i] = t
    /\ \A i, j \in 1..pcb[p].count : pcb[p].threads[i] = pcb[p].threads[j] => i = j
RestPeopled(m) ==
  \A p \in Pcb : pcb_used[p] /\ pcb[p].count = 0 => op[m].proc = p /\ op[m].at \in Making /\ m # app
RestHoused ==
  \A t \in Tcb : tcb_used[t] /\ tcb[t].pid # 0 => \E p \in Pcb : pcb_used[p] /\ pcb[p].pid = tcb[t].pid

LEMMA NotFreeing ==
  /\ "idle" \notin Freeing /\ "boot" \notin Freeing /\ "mark" \notin Freeing /\ "snapshot" \notin Freeing
  /\ \A where \in Creating : where \notin Freeing
  /\ Making \subseteq Creating /\ Creating \subseteq Places /\ Freeing \subseteq Places /\ "idle" \notin Creating
BY DEF Freeing, Creating, Making, Places

LEMMA AtRest ==
  ASSUME Turns, SlotsAt, Agree, Peopled, Housed, NEW m \in Maker, AloneSteps(m)
  PROVE  /\ RestSlots(m) /\ RestAgree /\ RestPeopled(m) /\ RestHoused
         /\ \A a \in Freer : op[a].at \notin Freeing /\ op'[a].at \notin Freeing
<1>1. \A b \in Actor : b # m => At(b, "idle") /\ op'[b] = op[b]
  BY DEF AloneSteps, OpStep, Others
<1>2. \A a \in Freer : op[a].at \notin Freeing /\ op'[a].at \notin Freeing
  BY <1>1, Names, NotFreeing DEF AloneSteps, At
<1>3. \A t \in Tcb : ~Out(t)
  BY <1>2 DEF Out, At, Freeing
<1>4. \A p \in Pcb : ~Compacted(p) /\ Reach(p) = pcb[p].count
  <2>1. \A p \in Pcb : ~Compacted(p)
    BY <1>2 DEF Compacted, At, Freeing
  <2>. QED BY <2>1 DEF Reach
<1>5. RestSlots(m)
  <2>1. \A t \in Tcb : ~tcb_used[t] => tcb[t] = Zeroed
    BY <1>2 DEF SlotsAt, At, Freeing
  <2>2. \A t \in Tcb : tcb_used[t] /\ (tcb[t].pid = 0 \/ tcb[t].state = "new") =>
          op[m].tcb = t /\ op[m].at \in {"stack", "fill"}
    <3> SUFFICES ASSUME NEW t \in Tcb, tcb_used[t] /\ (tcb[t].pid = 0 \/ tcb[t].state = "new")
                 PROVE  op[m].tcb = t /\ op[m].at \in {"stack", "fill"}
      OBVIOUS
    <3>1. PICK b \in Maker : op[b].tcb = t /\ op[b].at \in {"stack", "fill"}
      BY DEF SlotsAt
    <3>2. b = m
      BY <1>1, <3>1, Names DEF At
    <3>. QED BY <3>1, <3>2
  <2>. QED BY <2>1, <2>2 DEF RestSlots, SlotsAt
<1>6. RestAgree
  BY <1>3, <1>4 DEF RestAgree, Agree, Has
<1>7. RestPeopled(m)
  <2> SUFFICES ASSUME NEW p \in Pcb, pcb_used[p], pcb[p].count = 0
               PROVE  op[m].proc = p /\ op[m].at \in Making /\ m # app
    BY DEF RestPeopled
  <2>1. PICK a \in Actor : op[a].proc = p /\ (op[a].at \in Freeing \ {"unlink"} \/ (op[a].at \in Making /\ a # app))
    BY DEF Peopled
  <2>2. a = m
    BY <1>1, <2>1, NotFreeing DEF At
  <2>. QED BY <2>1, <2>2 DEF AloneSteps
<1>8. RestHoused
  BY <1>2, <1>3 DEF RestHoused, Housed, At, Freeing
<1>. QED BY <1>2, <1>5, <1>6, <1>7, <1>8

LEMMA RestKeeps ==
  ASSUME Turns, NEW m \in Maker, AloneSteps(m),
         \A a \in Freer : op'[a].at \notin Freeing,
         RestSlots(m)', RestAgree', RestPeopled(m)', RestHoused'
  PROVE  Freed' /\ Apart' /\ SlotsAt' /\ Agree' /\ Peopled' /\ Housed'
<1>1. \A t \in Tcb : ~Out(t)'
  BY DEF Out, At, Freeing
<1>2. \A p \in Pcb : Reach(p)' = pcb'[p].count
  <2>1. \A p \in Pcb : ~Compacted(p)'
    BY DEF Compacted, At, Freeing
  <2>. QED BY <2>1 DEF Reach
<1>3. Freed'
  BY NotFreeing DEF Freed, FreedAt, At, Freeing
<1>4. Apart'
  BY DEF Apart, Freer
<1>5. SlotsAt'
  BY DEF SlotsAt, RestSlots
<1>6. Agree'
  BY <1>1, <1>2 DEF Agree, RestAgree, Has
<1>7. Peopled'
  BY Names DEF Peopled, RestPeopled
<1>8. Housed'
  BY DEF Housed, RestHoused
<1>. QED BY <1>3, <1>4, <1>5, <1>6, <1>7, <1>8

LEMMA MakerKeeps ==
  ASSUME TasksInv, NEW m \in Maker, AloneSteps(m), Typing', TurnAt(m)', FoundAt(m)',
         op'[m].at \in {"claim", "stack", "fill"} => Blank(m)',
         RestSlots(m)', RestAgree', RestPeopled(m)', RestHoused',
         PidsUnique', Owned', Heaped'
  PROVE  TasksInv'
<1>1. Turns /\ SlotsAt /\ Agree /\ Peopled /\ Housed
  BY DEF TasksInv
<1>2. \A b \in Actor : b # m => At(b, "idle") /\ op'[b] = op[b]
  BY DEF AloneSteps, OpStep, Others
<1>3. \A a \in Freer : op'[a].at \notin Freeing
  BY <1>1, AtRest
<1>4. Freed' /\ Apart' /\ SlotsAt' /\ Agree' /\ Peopled' /\ Housed'
  BY <1>1, <1>3, RestKeeps
<1>5. Turns'
  <2>1. \A a, b \in Maker : op'[a].at # "idle" /\ op'[b].at # "idle" => a = b
    BY <1>2, Names DEF At
  <2>2. op'[reaper] = op[reaper] /\ op[reaper].at = "idle" /\ op'[shell].at # "shift"
    BY <1>2, <1>3, Names DEF At, Freeing, Freer
  <2>3. op'[app].at \in {"idle"} \union Making
    <3>1. app = m \/ op'[app].at = "idle"
      BY <1>2, Names DEF Maker, At
    <3>. QED BY <3>1 DEF TurnAt
  <2>4. \A b \in Manager : b # shell => op'[b].at \in {"idle"} \union Creating
    <3>1. \A b \in Manager : b = m \/ op'[b].at = "idle"
      BY <1>2, Names DEF At
    <3>. QED BY <3>1 DEF TurnAt
  <2>5. \A b \in Actor : op'[b].arg # None => op'[b].at \in Creating /\ b # app
    <3>1. \A b \in Actor : b # m => op'[b].arg = None
      BY <1>1, <1>2, NotFreeing DEF Turns, At
    <3>. QED BY <3>1 DEF TurnAt
  <2>6. /\ op'[shell].at = "mark" => op'[shell].list # <<>>
        /\ op'[shell].at = "snapshot" => op'[shell].proc \in Pcb
    <3>1. shell = m \/ op'[shell].at = "idle"
      BY <1>2, Names DEF At
    <3>. QED BY <3>1 DEF TurnAt, At
  <2>7. op'[reaper].list = <<>>
    BY <1>1, <2>2 DEF Turns
  <2>. QED BY <2>1, <2>2, <2>3, <2>4, <2>5, <2>6, <2>7 DEF Turns, At
<1>6. Found'
  <2>1. \A b \in Maker : b # m => FoundAt(b)'
    BY <1>2, Names DEF FoundAt, At, Making
  <2>. QED BY <2>1 DEF Found
<1>7. Made'
  BY <1>2, Names DEF Made, At
<1>8. Booting'
  <2>1. op'[shell].at # "boot"
    BY <1>2, Names DEF At, TurnAt
  <2>. QED BY <2>1 DEF Booting, At
<1>. QED BY <1>4, <1>5, <1>6, <1>7, <1>8 DEF TasksInv

\* The step changes op only, and of the processes only whether they are alive.
OpOnly == AliveOnly /\ UNCHANGED <<tcb_used, tcb, pcb_used, heap, args>>

LEMMA OpOnlyKeeps ==
  ASSUME TasksInv, NEW m \in Maker, AloneSteps(m), OpOnly,
         next_pid' \in [PidRange -> Nat], \A r \in PidRange : next_pid'[r] \in PidsOf(r),
         TurnAt(m)', FoundAt(m)', op'[m].at \in {"claim", "stack", "fill"} => Blank(m)',
         op[m].at \notin {"stack", "fill"},
         op[m].at \in Making /\ m # app => op'[m].at \in Making /\ op'[m].proc = op[m].proc,
         op'[m].arg \in {None, op[m].arg}
  PROVE  TasksInv'
<1>1. Turns /\ SlotsAt /\ Agree /\ Peopled /\ Housed /\ Typing
  BY DEF TasksInv
<1>2. RestSlots(m) /\ RestAgree /\ RestPeopled(m) /\ RestHoused
  BY <1>1, AtRest
<1>3. /\ \A p \in Pcb : /\ pcb'[p].pid = pcb[p].pid /\ pcb'[p].count = pcb[p].count
                        /\ pcb'[p].threads = pcb[p].threads
                        /\ ~pcb_used[p] => pcb'[p] = pcb[p]
      /\ UNCHANGED <<tcb_used, tcb, pcb_used, heap, args>>
  BY DEF OpOnly, AliveOnly
<1>4. Typing'
  BY <1>1 DEF Typing, OpOnly, AliveOnly, AloneSteps, OpStep
<1>5. RestSlots(m)'
  BY <1>2, <1>3 DEF RestSlots
<1>6. RestAgree'
  BY <1>2, <1>3 DEF RestAgree
<1>7. RestPeopled(m)'
  BY <1>2, <1>3 DEF RestPeopled
<1>8. RestHoused'
  BY <1>2, <1>3 DEF RestHoused
<1>9. PidsUnique'
  <2>1. PidsUnique
    BY DEF TasksInv
  <2>. QED BY <1>3, <2>1 DEF PidsUnique
<1>10. Owned'
  <2>1. Owned
    BY DEF TasksInv
  <2>2. \A b \in Maker : op'[b].arg \in {None, op[b].arg}
    BY Names DEF AloneSteps, OpStep, Others
  <2>. QED BY <1>3, <2>1, <2>2 DEF Owned
<1>11. Heaped'
  <2>1. Heaped
    BY DEF TasksInv
  <2>. QED BY <1>3, <2>1 DEF Heaped, Stacks
<1>. QED BY <1>4, <1>5, <1>6, <1>7, <1>8, <1>9, <1>10, <1>11, MakerKeeps

LEMMA SamePcbs ==
  ASSUME Typing, UNCHANGED pcb
  PROVE  AliveOnly
BY DEF AliveOnly, Typing

\* The steps that only look for something, or begin or end an operation.
LEMMA StartKeeps ==
  ASSUME TasksInv, NEW m \in Manager, NEW r \in PidRange, Starts(m, r)
  PROVE  TasksInv'
<1>1. Typing /\ Turns /\ Booting
  BY DEF TasksInv
<1>2. Started(m, r)
  BY <1>1, StartedByStarts
<1>3. m \in Maker /\ m # app
  BY Names
<1>4. (At(m, "idle") \/ At(m, "boot")) /\ \A b \in Actor : b # m => At(b, "idle")
  <2>1. CASE m = shell /\ At(shell, "boot")
    <3>1. At(reaper, "idle") /\ ~At(m, "idle")
      BY <1>1, <2>1 DEF Booting, At
    <3>. QED BY <1>1, <1>3, <2>1, <3>1, Alone
  <2>2. CASE Busy = {}
    BY <2>2, <1>3, NobodyBusy, Names
  <2>. QED BY <2>1, <2>2 DEF Starts
<1>5. /\ OpStep(m) /\ op'[m].at = "pid" /\ op'[m].range = r /\ op'[m].pid \in PidsOf(r) \union {0} /\ op'[m].arg = None
      /\ UNCHANGED <<tcb_used, tcb, pcb_used, pcb, next_pid, heap, args>>
  BY <1>2 DEF Started
<1>6. AloneSteps(m)
  BY <1>4, <1>5, NotFreeing DEF AloneSteps, At, Freeing
<1>7. OpOnly
  BY <1>1, <1>5, SamePcbs DEF OpOnly
<1>8. TurnAt(m)' /\ FoundAt(m)'
  BY <1>3, <1>5 DEF TurnAt, FoundAt, At, Creating, Making
<1>9. op[m].at \notin Making /\ op[m].at \notin {"stack", "fill"} /\ op'[m].at \notin {"claim", "stack", "fill"}
  BY <1>4, <1>5 DEF At, Making
<1>10. next_pid' \in [PidRange -> Nat] /\ \A q \in PidRange : next_pid'[q] \in PidsOf(q)
  BY <1>1, <1>5 DEF Typing
<1>. QED BY <1>3, <1>5, <1>6, <1>7, <1>8, <1>9, <1>10, OpOnlyKeeps

LEMMA StartsNothingKeeps ==
  ASSUME TasksInv, StartsNothing
  PROVE  TasksInv'
<1>1. Typing /\ Turns /\ Booting
  BY DEF TasksInv
<1>2. At(shell, "boot") /\ Done(shell) /\ UNCHANGED <<tcb_used, tcb, pcb_used, pcb, next_pid, heap, args>>
  BY DEF StartsNothing, pools
<1>3. shell \in Maker /\ shell # app /\ shell \in Actor
  BY Names
<1>4. \A b \in Actor : b # shell => At(b, "idle")
  <2>1. At(reaper, "idle") /\ ~At(shell, "idle")
    BY <1>1, <1>2 DEF Booting, At
  <2>. QED BY <1>1, <1>3, <2>1, Alone
<1>5. OpStep(shell) /\ op'[shell] = NoOp
  BY <1>1, <1>2, <1>3, DoneSets DEF OpStep, Typing
<1>6. op'[shell].at = "idle" /\ op'[shell].arg = None
  BY <1>5, NoOpTyped
<1>7. AloneSteps(shell)
  BY <1>2, <1>4, <1>5, <1>6 DEF AloneSteps, At, Freeing
<1>8. OpOnly
  BY <1>1, <1>2, SamePcbs DEF OpOnly
<1>9. TurnAt(shell)' /\ FoundAt(shell)'
  BY <1>3, <1>6 DEF TurnAt, FoundAt, At, Making
<1>10. op[shell].at \notin Making /\ op[shell].at \notin {"stack", "fill"} /\ op'[shell].at \notin {"claim", "stack", "fill"}
  BY <1>2, <1>6 DEF At, Making
<1>11. next_pid' \in [PidRange -> Nat] /\ \A q \in PidRange : next_pid'[q] \in PidsOf(q)
  BY <1>1, <1>2 DEF Typing
<1>. QED BY <1>3, <1>6, <1>7, <1>8, <1>9, <1>10, <1>11, OpOnlyKeeps

\* A maker that may take its next step is alone.
LEMMA MakerAlone ==
  ASSUME Turns, NEW m \in Maker, ~At(m, "idle"), At(reaper, "idle"),
         op[m].at \notin Freeing, op'[m].at \notin Freeing, OpStep(m)
  PROVE  AloneSteps(m)
BY Alone DEF AloneSteps

LEMMA TakePidKeeps ==
  ASSUME TasksInv, NEW m \in Manager, Runs(m), TakePid(m)
  PROVE  TasksInv'
<1>1. Typing /\ Turns /\ Found
  BY DEF TasksInv
<1>2. m \in Maker /\ m # app /\ m # reaper /\ m \in Actor
  BY Names
<1>3. /\ Went(m, "pid", "arg")
      /\ next_pid' \in [PidRange -> Nat] /\ \A r \in PidRange : next_pid'[r] \in PidsOf(r)
      /\ UNCHANGED <<tcb_used, tcb, pcb_used, pcb, heap, args>>
  BY <1>1, TakePidDoes
<1>4. op[m].at = "pid" /\ OpStep(m) /\ Same(m) /\ op'[m].at = "arg"
  BY <1>3 DEF Went
<1>5. At(reaper, "idle")
  BY <1>2 DEF TakePid, Runs
<1>6. AloneSteps(m)
  BY <1>1, <1>2, <1>4, <1>5, MakerAlone DEF At, Freeing
<1>7. OpOnly
  BY <1>1, <1>3, SamePcbs DEF OpOnly
<1>8. TurnAt(m)'
  BY <1>2, <1>4 DEF TurnAt, At, Creating
<1>9. FoundAt(m)'
  <2>1. FoundAt(m)
    BY <1>1, <1>2 DEF Found
  <2>. QED BY <1>4, <2>1 DEF FoundAt, At, Making, Same
<1>10. op[m].at \notin Making /\ op[m].at \notin {"stack", "fill"} /\ op'[m].at \notin {"claim", "stack", "fill"}
  BY <1>4 DEF Making
<1>. QED BY <1>2, <1>3, <1>4, <1>6, <1>7, <1>8, <1>9, <1>10, OpOnlyKeeps DEF Same

LEMMA CheckedKeeps ==
  ASSUME TasksInv, NEW m \in Manager, Checked(m)
  PROVE  TasksInv'
<1>1. Typing /\ Turns
  BY DEF TasksInv
<1>2. m \in Maker /\ m # app
  BY Names
<1>3. /\ op[m].at = "check" /\ OpStep(m) /\ Same(m) /\ op'[m].at = "pool" /\ At(reaper, "idle") /\ op[m].pid \in Pid
      /\ \A p \in Pcb : pcb_used[p] => pcb[p].pid # op[m].pid
      /\ UNCHANGED <<tcb_used, tcb, pcb_used, pcb, next_pid, heap, args>>
  BY DEF Checked, Went
<1>4. AloneSteps(m)
  BY <1>1, <1>2, <1>3, MakerAlone DEF At, Freeing
<1>5. OpOnly
  BY <1>1, <1>3, SamePcbs DEF OpOnly
<1>6. TurnAt(m)' /\ FoundAt(m)'
  BY <1>2, <1>3 DEF TurnAt, FoundAt, At, Creating, Making, Same
<1>7. op[m].at \notin Making /\ op[m].at \notin {"stack", "fill"} /\ op'[m].at \notin {"claim", "stack", "fill"}
  BY <1>3 DEF Making
<1>8. next_pid' \in [PidRange -> Nat] /\ \A q \in PidRange : next_pid'[q] \in PidsOf(q)
  BY <1>1, <1>3 DEF Typing
<1>. QED BY <1>2, <1>3, <1>4, <1>5, <1>6, <1>7, <1>8, OpOnlyKeeps DEF Same

LEMMA ProcessFoundKeeps ==
  ASSUME TasksInv, NEW m \in Manager, ProcessFound(m)
  PROVE  TasksInv'
<1>1. Typing /\ Turns /\ Found
  BY DEF TasksInv
<1>2. m \in Maker /\ m # app
  BY Names
<1>3. /\ op[m].at = "pool" /\ At(reaper, "idle") /\ OpStep(m) /\ op'[m].at = "process"
      /\ op'[m].pid = op[m].pid /\ op'[m].arg = op[m].arg
      /\ op'[m].proc \in Pcb /\ ~pcb_used[op'[m].proc]
      /\ UNCHANGED <<tcb_used, tcb, pcb_used, pcb, next_pid, heap, args>>
  BY DEF ProcessFound, At
<1>4. AloneSteps(m)
  BY <1>1, <1>2, <1>3, MakerAlone DEF At, Freeing
<1>5. OpOnly
  BY <1>1, <1>3, SamePcbs DEF OpOnly
<1>6. TurnAt(m)'
  BY <1>2, <1>3 DEF TurnAt, At, Creating, Making
<1>7. FoundAt(m)'
  <2>1. FoundAt(m)
    BY <1>1, <1>2 DEF Found
  <2>. QED BY <1>3, <2>1 DEF FoundAt, At, Making
<1>8. op[m].at \notin Making /\ op[m].at \notin {"stack", "fill"} /\ op'[m].at \notin {"claim", "stack", "fill"}
  BY <1>3 DEF Making
<1>9. next_pid' \in [PidRange -> Nat] /\ \A q \in PidRange : next_pid'[q] \in PidsOf(q)
  BY <1>1, <1>3 DEF Typing
<1>. QED BY <1>2, <1>3, <1>4, <1>5, <1>6, <1>7, <1>8, <1>9, OpOnlyKeeps

LEMMA ThreadFoundKeeps ==
  ASSUME TasksInv, NEW m \in Maker, ThreadFound(m)
  PROVE  TasksInv'
<1>1. Typing /\ Turns /\ Found /\ SlotsAt /\ Agree /\ Peopled /\ Housed
  BY DEF TasksInv
<1>2. /\ op[m].at = "scan" /\ At(reaper, "idle") /\ OpStep(m) /\ op'[m].at = "claim"
      /\ op'[m].proc = op[m].proc /\ op'[m].arg = op[m].arg /\ op'[m].by = op[m].by
      /\ op'[m].tcb \in Tcb /\ ~tcb_used[op'[m].tcb]
      /\ UNCHANGED <<tcb_used, tcb, pcb_used, pcb, next_pid, heap, args>>
  BY DEF ThreadFound, At
<1>3. AloneSteps(m)
  BY <1>1, <1>2, MakerAlone DEF At, Freeing
<1>4. OpOnly
  BY <1>1, <1>2, SamePcbs DEF OpOnly
<1>5. TurnAt(m)'
  <2>1. op[m].arg # None => m # app
    BY <1>1, Names DEF Turns
  <2>. QED BY <1>2, <2>1 DEF TurnAt, At, Creating, Making
<1>6. FoundAt(m)'
  <2>1. FoundAt(m)
    BY <1>1 DEF Found
  <2>. QED BY <1>2, <2>1 DEF FoundAt, At, Making
<1>7. Blank(m)'
  <2>1. tcb[op'[m].tcb] = Zeroed
    BY <1>1, <1>2, <1>3, AtRest DEF RestSlots
  <2>. QED BY <1>2, <2>1, ZeroedTyped DEF Blank, At
<1>8. op'[m].at \in Making /\ op[m].at \notin {"stack", "fill"}
  BY <1>2 DEF Making
<1>9. next_pid' \in [PidRange -> Nat] /\ \A q \in PidRange : next_pid'[q] \in PidsOf(q)
  BY <1>1, <1>2 DEF Typing
<1>. QED BY <1>2, <1>3, <1>4, <1>5, <1>6, <1>7, <1>8, <1>9, OpOnlyKeeps

LEMMA AskedKeeps ==
  ASSUME TasksInv, NEW c \in Tcb, Asked(c)
  PROVE  TasksInv'
<1>1. Typing /\ Turns
  BY DEF TasksInv
<1>2. app \in Maker /\ app # shell /\ app \notin Manager
  BY Names DEF Maker
<1>3. /\ Busy = {} /\ tcb_used[c] /\ tcb[c].state = "ready"
      /\ OpStep(app) /\ op'[app].at = "scan" /\ op'[app].by = c /\ op'[app].arg = None
      /\ op'[app].proc \in Pcb /\ pcb_used[op'[app].proc] /\ pcb[op'[app].proc].pid = tcb[c].pid
      /\ UNCHANGED <<tcb_used, tcb, pcb_used, pcb, next_pid, heap, args>>
  BY DEF Asked
<1>4. At(app, "idle") /\ AloneSteps(app)
  <2>1. \A b \in Actor : At(b, "idle")
    BY <1>3, NobodyBusy
  <2>. QED BY <1>2, <1>3, <2>1, Names DEF AloneSteps, At, Freeing
<1>5. OpOnly
  BY <1>1, <1>3, SamePcbs DEF OpOnly
<1>6. TurnAt(app)' /\ FoundAt(app)'
  BY <1>2, <1>3 DEF TurnAt, FoundAt, At, Making
<1>7. op[app].at \notin {"stack", "fill"} /\ op'[app].at \notin {"claim", "stack", "fill"}
  BY <1>3, <1>4 DEF At
<1>8. next_pid' \in [PidRange -> Nat] /\ \A q \in PidRange : next_pid'[q] \in PidsOf(q)
  BY <1>1, <1>3 DEF Typing
<1>. QED BY <1>2, <1>3, <1>4, <1>5, <1>6, <1>7, <1>8, OpOnlyKeeps

\* A killer's steps that free nothing.
LEMMA KillerKeeps ==
  ASSUME TasksInv, Busy = {} \/ (At(reaper, "idle") /\ op[shell].at \in {"mark", "snapshot"}),
         OpStep(shell), op'[shell].at \in {"idle", "mark", "snapshot"}, op'[shell].arg = None,
         op'[shell].at = "mark" => op'[shell].list # <<>>,
         op'[shell].at = "snapshot" => op'[shell].proc \in Pcb,
         OpOnly, UNCHANGED next_pid
  PROVE  TasksInv'
<1>1. Typing /\ Turns
  BY DEF TasksInv
<1>2. shell \in Maker /\ shell # app /\ shell \in Manager
  BY Names
<1>3. op[shell].at \in {"idle", "mark", "snapshot"} /\ AloneSteps(shell)
  <2>1. CASE Busy = {}
    BY <1>2, <2>1, NobodyBusy, Names DEF AloneSteps, At, Freeing
  <2>2. CASE At(reaper, "idle") /\ op[shell].at \in {"mark", "snapshot"}
    BY <1>1, <1>2, <2>2, MakerAlone DEF At, Freeing
  <2>. QED BY <2>1, <2>2
<1>4. TurnAt(shell)' /\ FoundAt(shell)'
  BY <1>2 DEF TurnAt, FoundAt, At, Making
<1>5. op[shell].at \notin Making /\ op[shell].at \notin {"stack", "fill"} /\ op'[shell].at \notin {"claim", "stack", "fill"}
  BY <1>3 DEF Making
<1>6. next_pid' \in [PidRange -> Nat] /\ \A q \in PidRange : next_pid'[q] \in PidsOf(q)
  BY <1>1 DEF Typing
<1>. QED BY <1>2, <1>3, <1>4, <1>5, <1>6, OpOnlyKeeps

LEMMA KillBegunKeeps ==
  ASSUME TasksInv, KillBegun
  PROVE  TasksInv'
<1>1. OpOnly
  BY SamePcbs DEF OpOnly, KillBegun, TasksInv
<1>. QED BY <1>1, KillerKeeps DEF KillBegun

LEMMA SnappedKeeps ==
  ASSUME TasksInv, Snapped
  PROVE  TasksInv'
<1>1. OpOnly
  BY DEF OpOnly, Snapped
<1>. QED BY <1>1, KillerKeeps DEF Snapped, At

LEMMA MarkedNothingKeeps ==
  ASSUME TasksInv, Marked, MarkedNothing
  PROVE  TasksInv'
<1>1. OpOnly
  BY SamePcbs DEF OpOnly, Marked, MarkedNothing, TasksInv
<1>. QED BY <1>1, KillerKeeps DEF Marked, MarkedNothing, At

\* The steps that claim, fill or give back something.
LEMMA CopyArgKeeps ==
  ASSUME TasksInv, NEW m \in Manager, Runs(m), CopyArg(m)
  PROVE  TasksInv'
<1>1. Typing /\ Turns /\ Found /\ SlotsAt /\ Agree /\ Peopled /\ Housed /\ Owned /\ Heaped /\ PidsUnique
  BY DEF TasksInv
<1>2. m \in Maker /\ m # app
  BY Names
<1>3. CopyArgDoes(m) /\ args' \in SUBSET Nat
  BY <1>1, CopyArgEffect
<1>4. /\ op[m].at = "arg" /\ At(reaper, "idle") /\ OpStep(m) /\ op'[m].at = "check"
      /\ op'[m].range = op[m].range /\ op'[m].pid = op[m].pid
      /\ UNCHANGED <<tcb_used, tcb, pcb_used, pcb, next_pid>>
  BY <1>3 DEF CopyArgDoes, At
<1>5. AloneSteps(m)
  BY <1>1, <1>2, <1>4, MakerAlone DEF At, Freeing
<1>6. RestSlots(m) /\ RestAgree /\ RestPeopled(m) /\ RestHoused
  BY <1>1, <1>2, <1>5, AtRest
<1>7. RestSlots(m)' /\ RestAgree' /\ RestPeopled(m)' /\ RestHoused' /\ PidsUnique'
  <2>1. RestSlots(m)'
    BY <1>4, <1>6 DEF RestSlots
  <2>2. RestAgree'
    BY <1>4, <1>6 DEF RestAgree
  <2>3. RestPeopled(m)'
    BY <1>4, <1>6 DEF RestPeopled, Making
  <2>4. RestHoused'
    BY <1>4, <1>6 DEF RestHoused
  <2>5. PidsUnique'
    BY <1>1, <1>4 DEF PidsUnique
  <2>. QED BY <2>1, <2>2, <2>3, <2>4, <2>5
<1>8. Typing'
  BY <1>1, <1>3, <1>4 DEF Typing, OpStep
<1>9. TurnAt(m)' /\ op'[m].at \notin {"claim", "stack", "fill"}
  BY <1>2, <1>4 DEF TurnAt, At, Creating
<1>10. FoundAt(m)'
  <2>1. FoundAt(m)
    BY <1>1, <1>2 DEF Found
  <2>. QED BY <1>4, <2>1 DEF FoundAt, At, Making
<1>11. \A b \in Maker : b # m => op'[b].arg = None
  BY <1>1, <1>4, <1>5, Names, NotFreeing DEF Turns, At, AloneSteps, OpStep, Others
<1>12. CASE op'[m].arg = op[m].arg /\ UNCHANGED <<heap, args>>
  <2>1. Owned'
    BY <1>1, <1>2, <1>4, <1>11, <1>12 DEF Owned
  <2>2. Heaped'
    BY <1>1, <1>4, <1>12 DEF Heaped, Stacks
  <2>. QED BY <1>2, <1>5, <1>7, <1>8, <1>9, <1>10, <2>1, <2>2, MakerKeeps
<1>13. CASE /\ Fits(heap, ArgSize) # {} /\ op'[m].arg = MallocAt(heap, ArgSize)
            /\ heap' = Malloc(heap, ArgSize) /\ args' = args \union {MallocAt(heap, ArgSize)}
  <2> DEFINE at == MallocAt(heap, ArgSize)
  <2>1. /\ Whole(heap') /\ at \in Nat /\ at \notin UsedBlocks(heap)
        /\ UsedBlocks(heap') = UsedBlocks(heap) \union {at}
    BY <1>1, <1>13, MallocWorks, TasksAssumption DEF Heaped
  <2>2. op'[m].arg = at /\ args' = args \union {at} /\ UsedBlocks(heap) = Stacks \union args
    BY <1>1, <1>13 DEF Heaped
  <2> HIDE DEF at
  <2>3. \A t \in Tcb : tcb[t].stack # at /\ tcb[t].arg # at
    BY <1>1, <2>1, <2>2, Names DEF Owned, Stacks
  <2>4. Owned'
    <3>1. \A t \in Tcb : tcb'[t].stack # None => tcb'[t].stack \notin args'
      BY <1>1, <1>4, <2>2, <2>3 DEF Owned
    <3>2. \A t \in Tcb : tcb'[t].arg # None => tcb'[t].arg \in args'
      BY <1>1, <1>4, <2>2 DEF Owned
    <3>3. \A b \in Maker : op'[b].arg # None => op'[b].arg \in args' /\ \A t \in Tcb : tcb'[t].arg # op'[b].arg
      BY <1>4, <1>11, <2>2, <2>3
    <3>. QED BY <1>1, <1>4, <3>1, <3>2, <3>3 DEF Owned
  <2>5. Heaped'
    BY <1>4, <2>1, <2>2 DEF Heaped, Stacks
  <2>. QED BY <1>2, <1>5, <1>7, <1>8, <1>9, <1>10, <2>4, <2>5, MakerKeeps
<1>. QED BY <1>3, <1>12, <1>13 DEF CopyArgDoes

LEMMA ProcessClaimedKeeps ==
  ASSUME TasksInv, NEW m \in Manager, ProcessClaimed(m)
  PROVE  TasksInv'
<1> DEFINE p == op[m].proc
<1>1. Typing /\ Turns /\ Found /\ SlotsAt /\ Agree /\ Peopled /\ Housed /\ Owned /\ Heaped /\ PidsUnique
  BY DEF TasksInv
<1>2. m \in Maker /\ m # app
  BY Names
<1>3. /\ op[m].at = "process" /\ OpStep(m) /\ Same(m) /\ op'[m].at = "scan" /\ At(reaper, "idle")
      /\ PcbUsed(p, TRUE) /\ PcbStep(p) /\ pcb'[p].pid = op[m].pid /\ pcb'[p].count = 0
      /\ UNCHANGED <<tcb_used, tcb, next_pid, heap, args>>
  BY DEF ProcessClaimed, Went
<1>4. AloneSteps(m)
  BY <1>1, <1>2, <1>3, MakerAlone DEF At, Freeing
<1>5. RestSlots(m) /\ RestAgree /\ RestPeopled(m) /\ RestHoused
  BY <1>1, <1>2, <1>4, AtRest
<1>6. p \in Pcb /\ ~pcb_used[p] /\ op[m].pid \in Pid /\ \A q \in Pcb : pcb_used[q] => pcb[q].pid # op[m].pid
  <2>1. FoundAt(m)
    BY <1>1, <1>2 DEF Found
  <2>. QED BY <1>3, <2>1 DEF FoundAt, At
<1>7. op'[m].proc = p /\ op'[m].arg = op[m].arg
  BY <1>3 DEF Same
<1> HIDE DEF p
<1>8. /\ pcb_used'[p] /\ \A q \in Pcb : q # p => pcb_used'[q] = pcb_used[q] /\ pcb'[q] = pcb[q]
      /\ pcb'[p].pid = op[m].pid /\ pcb'[p].count = 0
  BY <1>3 DEF PcbUsed, PcbStep
<1>9. \A t \in Tcb : tcb_used[t] => tcb[t].pid # op[m].pid
  <2>1. op[m].pid # 0
    BY <1>6, Names
  <2>. QED BY <1>5, <1>6, <2>1 DEF RestHoused
<1>10. RestSlots(m)'
  <2>1. \A q \in Pcb : IF pcb_used'[q] THEN pcb'[q].pid \in Pid ELSE pcb'[q] = ZeroedProcess
    BY <1>5, <1>6, <1>8 DEF RestSlots
  <2>. QED BY <1>3, <1>5, <2>1 DEF RestSlots
<1>11. RestAgree'
  <2> SUFFICES ASSUME NEW q \in Pcb, pcb_used'[q]
               PROVE  /\ \A i \in 1..pcb'[q].count : /\ pcb'[q].threads[i] \in Tcb /\ tcb_used'[pcb'[q].threads[i]]
                                                     /\ tcb'[pcb'[q].threads[i]].pid = pcb'[q].pid
                      /\ \A t \in Tcb : tcb_used'[t] /\ tcb'[t].pid = pcb'[q].pid
                                          => \E i \in 1..pcb'[q].count : pcb'[q].threads[i] = t
                      /\ \A i, j \in 1..pcb'[q].count : pcb'[q].threads[i] = pcb'[q].threads[j] => i = j
    BY DEF RestAgree
  <2>1. CASE q = p
    <3>1. 1..pcb'[q].count = {}
      BY <1>8, <2>1
    <3>. QED BY <1>3, <1>8, <1>9, <2>1, <3>1
  <2>2. CASE q # p
    BY <1>3, <1>5, <1>8, <2>2 DEF RestAgree
  <2>. QED BY <2>1, <2>2
<1>12. RestPeopled(m)'
  BY <1>2, <1>3, <1>5, <1>7, <1>8 DEF RestPeopled, Making
<1>13. RestHoused'
  <2> SUFFICES ASSUME NEW t \in Tcb, tcb_used'[t], tcb'[t].pid # 0
               PROVE  \E q \in Pcb : pcb_used'[q] /\ pcb'[q].pid = tcb'[t].pid
    BY DEF RestHoused
  <2>1. PICK q \in Pcb : pcb_used[q] /\ pcb[q].pid = tcb[t].pid
    BY <1>3, <1>5 DEF RestHoused
  <2>. QED BY <1>3, <1>6, <1>8, <2>1
<1>14. PidsUnique'
  BY <1>1, <1>6, <1>8 DEF PidsUnique
<1>15. Typing'
  BY <1>1, <1>3 DEF Typing, OpStep, PcbStep, PcbUsed
<1>16. TurnAt(m)' /\ op'[m].at \notin {"claim", "stack", "fill"}
  BY <1>2, <1>3 DEF TurnAt, At, Creating, Making
<1>17. FoundAt(m)'
  BY <1>2, <1>3, <1>6, <1>7, <1>8 DEF FoundAt, At, Making
<1>18. Owned'
  <2>1. \A b \in Maker : op'[b].arg = op[b].arg
    BY <1>2, <1>3, <1>7, Names DEF OpStep, Others
  <2>. QED BY <1>1, <1>3, <2>1 DEF Owned
<1>19. Heaped'
  BY <1>1, <1>3 DEF Heaped, Stacks
<1>. QED BY <1>2, <1>4, <1>10, <1>11, <1>12, <1>13, <1>14, <1>15, <1>16, <1>17, <1>18, <1>19, MakerKeeps

LEMMA ThreadClaimedKeeps ==
  ASSUME TasksInv, NEW m \in Maker, ThreadClaimed(m)
  PROVE  TasksInv'
<1> DEFINE t == op[m].tcb
<1>1. Typing /\ Turns /\ Found /\ Made /\ SlotsAt /\ Agree /\ Peopled /\ Housed /\ Owned /\ Heaped /\ PidsUnique
  BY DEF TasksInv
<1>2. /\ op[m].at = "claim" /\ OpStep(m) /\ Same(m) /\ op'[m].at = "stack" /\ At(reaper, "idle") /\ TcbUsed(t, TRUE)
      /\ UNCHANGED <<tcb, pcb_used, pcb, next_pid, heap, args>>
  BY DEF ThreadClaimed, Went
<1>3. AloneSteps(m)
  BY <1>1, <1>2, MakerAlone DEF At, Freeing
<1>4. RestSlots(m) /\ RestAgree /\ RestPeopled(m) /\ RestHoused
  BY <1>1, <1>3, AtRest
<1>5. /\ t \in Tcb /\ ~tcb_used[t] /\ tcb[t].pid = 0 /\ tcb[t].state = "new" /\ tcb[t].arg = None
      /\ tcb[t].stack = None
  BY <1>1, <1>2 DEF Made, Blank, At
<1>6. op'[m].tcb = t /\ op'[m].arg = op[m].arg /\ op'[m].proc = op[m].proc /\ op'[m].by = op[m].by
  BY <1>2 DEF Same
<1> HIDE DEF t
<1>7. tcb_used' \in [Tcb -> BOOLEAN] /\ tcb_used'[t] /\ \A u \in Tcb : u # t => tcb_used'[u] = tcb_used[u]
  BY <1>2 DEF TcbUsed
<1>8. RestSlots(m)'
  <2>1. \A u \in Tcb : ~tcb_used'[u] => tcb'[u] = Zeroed
    BY <1>2, <1>4, <1>7 DEF RestSlots
  <2>2. \A u \in Tcb : tcb_used'[u] /\ (tcb'[u].pid = 0 \/ tcb'[u].state = "new") =>
          op'[m].tcb = u /\ op'[m].at \in {"stack", "fill"}
    BY <1>2, <1>4, <1>6, <1>7 DEF RestSlots
  <2>. QED BY <1>2, <1>4, <2>1, <2>2 DEF RestSlots
<1>9. RestAgree'
  <2> SUFFICES ASSUME NEW q \in Pcb, pcb_used'[q]
               PROVE  /\ \A i \in 1..pcb'[q].count : /\ pcb'[q].threads[i] \in Tcb /\ tcb_used'[pcb'[q].threads[i]]
                                                     /\ tcb'[pcb'[q].threads[i]].pid = pcb'[q].pid
                      /\ \A u \in Tcb : tcb_used'[u] /\ tcb'[u].pid = pcb'[q].pid
                                          => \E i \in 1..pcb'[q].count : pcb'[q].threads[i] = u
                      /\ \A i, j \in 1..pcb'[q].count : pcb'[q].threads[i] = pcb'[q].threads[j] => i = j
    BY DEF RestAgree
  <2>1. pcb[q].pid # 0 /\ pcb_used[q] /\ pcb' = pcb /\ tcb' = tcb
    BY <1>2, <1>4, Names DEF RestSlots
  <2>. QED BY <1>4, <1>5, <1>7, <2>1 DEF RestAgree
<1>10. RestPeopled(m)'
  BY <1>2, <1>4, <1>6 DEF RestPeopled, Making
<1>11. RestHoused'
  BY <1>2, <1>4, <1>5, <1>7 DEF RestHoused
<1>12. PidsUnique'
  BY <1>1, <1>2 DEF PidsUnique
<1>13. Typing'
  BY <1>1, <1>2, <1>7 DEF Typing, OpStep
<1>14. TurnAt(m)'
  <2>1. op[m].arg # None => m # app
    BY <1>1, Names DEF Turns
  <2>. QED BY <1>2, <1>6, <2>1 DEF TurnAt, At, Creating, Making
<1>15. FoundAt(m)'
  <2>1. FoundAt(m)
    BY <1>1 DEF Found
  <2>. QED BY <1>2, <1>6, <1>7, <2>1 DEF FoundAt, At, Making
<1>16. Blank(m)'
  BY <1>2, <1>5, <1>6, <1>7 DEF Blank, At
<1>17. Owned'
  <2>1. \A b \in Maker : op'[b].arg = op[b].arg
    BY <1>2, <1>6, Names DEF OpStep, Others
  <2>. QED BY <1>1, <1>2, <2>1 DEF Owned
<1>18. Heaped'
  BY <1>1, <1>2 DEF Heaped, Stacks
<1>. QED BY <1>3, <1>8, <1>9, <1>10, <1>11, <1>12, <1>13, <1>14, <1>15, <1>16, <1>17, <1>18, MakerKeeps

LEMMA StackGotKeeps ==
  ASSUME TasksInv, NEW m \in Maker, StackGot(m)
  PROVE  TasksInv'
<1> DEFINE t == op[m].tcb
           at == MallocAt(heap, StackSize)
<1>1. Typing /\ Turns /\ Found /\ Made /\ SlotsAt /\ Agree /\ Peopled /\ Housed /\ Owned /\ Heaped /\ PidsUnique
  BY DEF TasksInv
<1>2. /\ op[m].at = "stack" /\ OpStep(m) /\ Same(m) /\ op'[m].at = "fill" /\ At(reaper, "idle")
      /\ Fits(heap, StackSize) # {} /\ heap' = Malloc(heap, StackSize)
      /\ TcbStep(t) /\ tcb'[t].stack = at
      /\ tcb'[t].pid = tcb[t].pid /\ tcb'[t].arg = tcb[t].arg /\ tcb'[t].state = tcb[t].state
      /\ UNCHANGED <<tcb_used, pcb_used, pcb, next_pid, args>>
  BY DEF StackGot, Went
<1>3. AloneSteps(m)
  BY <1>1, <1>2, MakerAlone DEF At, Freeing
<1>4. RestSlots(m) /\ RestAgree /\ RestPeopled(m) /\ RestHoused
  BY <1>1, <1>3, AtRest
<1>5. /\ t \in Tcb /\ tcb_used[t] /\ tcb[t].pid = 0 /\ tcb[t].state = "new" /\ tcb[t].arg = None
      /\ tcb[t].stack = None
  BY <1>1, <1>2 DEF Made, Blank, At
<1>6. op'[m].tcb = t /\ op'[m].arg = op[m].arg /\ op'[m].proc = op[m].proc /\ op'[m].by = op[m].by
  BY <1>2 DEF Same
<1>7. /\ Whole(heap') /\ at \in Nat /\ at \notin UsedBlocks(heap)
      /\ UsedBlocks(heap') = UsedBlocks(heap) \union {at}
  BY <1>1, <1>2, MallocWorks, TasksAssumption DEF Heaped
<1> HIDE DEF t, at
<1>8. /\ \A u \in Tcb : u # t => tcb'[u] = tcb[u]
      /\ \A u \in Tcb : tcb'[u].pid = tcb[u].pid /\ tcb'[u].arg = tcb[u].arg /\ tcb'[u].state = tcb[u].state
  BY <1>2 DEF TcbStep
<1>9. RestSlots(m)'
  <2>1. \A u \in Tcb : ~tcb_used'[u] => tcb'[u] = Zeroed
    BY <1>2, <1>4, <1>5, <1>8 DEF RestSlots
  <2>2. \A u \in Tcb : tcb_used'[u] /\ (tcb'[u].pid = 0 \/ tcb'[u].state = "new") =>
          op'[m].tcb = u /\ op'[m].at \in {"stack", "fill"}
    BY <1>2, <1>4, <1>6, <1>8 DEF RestSlots, t
  <2>. QED BY <1>2, <1>4, <2>1, <2>2 DEF RestSlots
<1>10. RestAgree'
  BY <1>2, <1>4, <1>8 DEF RestAgree
<1>11. RestPeopled(m)'
  BY <1>2, <1>4, <1>6 DEF RestPeopled, Making
<1>12. RestHoused'
  BY <1>2, <1>4, <1>8 DEF RestHoused
<1>13. PidsUnique'
  BY <1>1, <1>2 DEF PidsUnique
<1>14. Typing'
  BY <1>1, <1>2 DEF Typing, OpStep, TcbStep
<1>15. TurnAt(m)'
  <2>1. op[m].arg # None => m # app
    BY <1>1, Names DEF Turns
  <2>. QED BY <1>2, <1>6, <2>1 DEF TurnAt, At, Creating, Making
<1>16. FoundAt(m)'
  <2>1. FoundAt(m)
    BY <1>1 DEF Found
  <2>. QED BY <1>2, <1>6, <1>8, <2>1 DEF FoundAt, At, Making
<1>17. Blank(m)'
  <2>1. at # None
    BY <1>7, Names
  <2>. QED BY <1>2, <1>5, <1>6, <1>8, <2>1 DEF Blank, At
<1>18. \A u \in Tcb : tcb[u].stack # at /\ at \notin args
  BY <1>1, <1>7, Names DEF Heaped, Stacks
<1>19. Owned'
  <2>1. \A b \in Maker : op'[b].arg = op[b].arg
    BY <1>2, <1>6, Names DEF OpStep, Others
  <2>2. \A u \in Tcb : tcb'[u].stack # None => tcb'[u].stack \notin args'
    BY <1>1, <1>2, <1>8, <1>18 DEF Owned
  <2>3. \A u, v \in Tcb : tcb'[u].stack # None /\ tcb'[u].stack = tcb'[v].stack => u = v
    BY <1>1, <1>2, <1>8, <1>18 DEF Owned
  <2>. QED BY <1>1, <1>2, <1>8, <2>1, <2>2, <2>3 DEF Owned
<1>20. Heaped'
  <2>1. Stacks' = Stacks \union {at}
    <3>1. at # None
      BY <1>7, Names
    <3>. QED BY <1>2, <1>5, <1>8, <3>1 DEF Stacks
  <2>. QED BY <1>1, <1>2, <1>7, <2>1 DEF Heaped
<1>. QED BY <1>3, <1>9, <1>10, <1>11, <1>12, <1>13, <1>14, <1>15, <1>16, <1>17, <1>19, <1>20, MakerKeeps

LEMMA PublishedKeeps ==
  ASSUME TasksInv, NEW m \in Maker, Published(m), pcb[op[m].proc].count + 1 \in 1..MAX_THREADS
  PROVE  TasksInv'
<1> DEFINE t == op[m].tcb
           p == op[m].proc
           count == pcb[p].count
<1>1. Typing /\ Turns /\ Found /\ Made /\ SlotsAt /\ Agree /\ Peopled /\ Housed /\ Owned /\ Heaped /\ PidsUnique
  BY DEF TasksInv
<1>2. /\ op[m].at = "fill" /\ At(reaper, "idle") /\ OpStep(m) /\ op'[m] = NoOp
      /\ TcbStep(t) /\ tcb'[t].pid = pcb[p].pid /\ tcb'[t].state = "ready"
      /\ tcb'[t].arg = op[m].arg /\ tcb'[t].stack = tcb[t].stack
      /\ PcbStep(p) /\ pcb'[p].pid = pcb[p].pid /\ pcb'[p].count = count + 1
      /\ \A i \in 1..MAX_THREADS : pcb'[p].threads[i] = IF i = count + 1 THEN t ELSE pcb[p].threads[i]
      /\ UNCHANGED <<tcb_used, pcb_used, next_pid, heap, args>>
  BY DEF Published, At
<1>3. op'[m].at = "idle" /\ op'[m].arg = None
  BY <1>2, NoOpTyped
<1>4. AloneSteps(m)
  BY <1>1, <1>2, <1>3, MakerAlone DEF At, Freeing
<1>5. RestSlots(m) /\ RestAgree /\ RestPeopled(m) /\ RestHoused
  BY <1>1, <1>4, AtRest
<1>6. t \in Tcb /\ tcb_used[t] /\ tcb[t].pid = 0 /\ tcb[t].state = "new" /\ tcb[t].arg = None
  BY <1>1, <1>2 DEF Made, Blank, At
<1>7. p \in Pcb /\ pcb_used[p] /\ (m # app => count = 0)
  <2>1. FoundAt(m)
    BY <1>1 DEF Found
  <2>. QED BY <1>2, <2>1 DEF FoundAt, Making
<1>8. pcb[p].pid \in Pid /\ pcb[p].pid # 0
  BY <1>5, <1>7, Names DEF RestSlots
<1>9. count \in Nat /\ MAX_THREADS \in Nat /\ \A i \in 1..count + 1 : i \in 1..MAX_THREADS
  <2>1. pcb[p] \in PcbRecords /\ MAX_THREADS \in Nat
    BY <1>1, <1>7, TasksAssumption DEF Typing
  <2>2. count \in Nat
    BY <2>1 DEF PcbRecords
  <2>3. count + 1 \in 1..MAX_THREADS
    OBVIOUS
  <2> HIDE DEF count
  <2>. QED BY <2>1, <2>2, <2>3
<1>10. op[m].arg # None => op[m].arg \in args /\ \A u \in Tcb : tcb[u].arg # op[m].arg
  BY <1>1 DEF Owned
<1> HIDE DEF t, p, count
<1>11. /\ \A u \in Tcb : u # t => tcb'[u] = tcb[u]
       /\ \A q \in Pcb : q # p => pcb'[q] = pcb[q]
       /\ \A u \in Tcb : tcb'[u].stack = tcb[u].stack
       /\ \A q \in Pcb : pcb'[q].pid = pcb[q].pid
  BY <1>2 DEF TcbStep, PcbStep
<1>12. /\ \A i \in 1..count : pcb'[p].threads[i] = pcb[p].threads[i] /\ i \in 1..count + 1
       /\ pcb'[p].threads[count + 1] = t /\ count + 1 \in 1..count + 1
       /\ \A i \in 1..count + 1 : i \in 1..count \/ i = count + 1
  <2>1. \A i \in 1..count : i # count + 1 /\ i \in 1..count + 1
    BY <1>9
  <2>2. count + 1 \in 1..count + 1
    BY <1>9
  <2>3. \A i \in 1..count + 1 : i \in 1..count \/ i = count + 1
    BY <1>9
  <2>. QED BY <1>2, <1>9, <2>1, <2>2, <2>3
<1>13. RestSlots(m)'
  <2>1. \A u \in Tcb : ~tcb_used'[u] => tcb'[u] = Zeroed
    BY <1>2, <1>5, <1>6, <1>11 DEF RestSlots
  <2>2. \A u \in Tcb : tcb_used'[u] => ~(tcb'[u].pid = 0 \/ tcb'[u].state = "new")
    BY <1>2, <1>5, <1>8, <1>11 DEF RestSlots, t
  <2>3. \A q \in Pcb : IF pcb_used'[q] THEN pcb'[q].pid \in Pid ELSE pcb'[q] = ZeroedProcess
    BY <1>2, <1>5, <1>7, <1>11 DEF RestSlots
  <2>. QED BY <2>1, <2>2, <2>3 DEF RestSlots
<1>14. RestAgree'
  <2> SUFFICES ASSUME NEW q \in Pcb, pcb_used'[q]
               PROVE  /\ \A i \in 1..pcb'[q].count : /\ pcb'[q].threads[i] \in Tcb /\ tcb_used'[pcb'[q].threads[i]]
                                                     /\ tcb'[pcb'[q].threads[i]].pid = pcb'[q].pid
                      /\ \A u \in Tcb : tcb_used'[u] /\ tcb'[u].pid = pcb'[q].pid
                                          => \E i \in 1..pcb'[q].count : pcb'[q].threads[i] = u
                      /\ \A i, j \in 1..pcb'[q].count : pcb'[q].threads[i] = pcb'[q].threads[j] => i = j
    BY DEF RestAgree
  <2>1. pcb_used[q] /\ pcb[q].pid # 0
    BY <1>2, <1>5, Names DEF RestSlots
  <2>2. /\ \A i \in 1..pcb[q].count : /\ pcb[q].threads[i] \in Tcb /\ tcb_used[pcb[q].threads[i]]
                                      /\ tcb[pcb[q].threads[i]].pid = pcb[q].pid /\ pcb[q].threads[i] # t
        /\ \A u \in Tcb : tcb_used[u] /\ tcb[u].pid = pcb[q].pid => \E i \in 1..pcb[q].count : pcb[q].threads[i] = u
        /\ \A i, j \in 1..pcb[q].count : pcb[q].threads[i] = pcb[q].threads[j] => i = j
    BY <1>5, <1>6, <2>1 DEF RestAgree
  <2>3. CASE q # p
    <3>1. pcb'[q] = pcb[q] /\ pcb[q].pid # pcb[p].pid
      BY <1>1, <1>7, <1>11, <2>1, <2>3 DEF PidsUnique
    <3>. QED BY <1>2, <1>11, <2>2, <3>1
  <2>4. CASE q = p
    <3>1. /\ \A i \in 1..count : /\ pcb[p].threads[i] \in Tcb /\ tcb_used[pcb[p].threads[i]]
                                 /\ tcb[pcb[p].threads[i]].pid = pcb[p].pid /\ pcb[p].threads[i] # t
          /\ \A u \in Tcb : tcb_used[u] /\ tcb[u].pid = pcb[p].pid => \E i \in 1..count : pcb[p].threads[i] = u
          /\ \A i, j \in 1..count : pcb[p].threads[i] = pcb[p].threads[j] => i = j
      BY <2>2, <2>4 DEF count
    <3>2. pcb'[p].count = count + 1
      BY <1>2
    <3>3. \A i \in 1..count + 1 : /\ pcb'[p].threads[i] \in Tcb /\ tcb_used'[pcb'[p].threads[i]]
                                  /\ tcb'[pcb'[p].threads[i]].pid = pcb'[p].pid
      BY <1>2, <1>6, <1>11, <1>12, <3>1
    <3>4. \A u \in Tcb : tcb_used'[u] /\ tcb'[u].pid = pcb'[p].pid => \E i \in 1..count + 1 : pcb'[p].threads[i] = u
      <4> SUFFICES ASSUME NEW u \in Tcb, tcb_used'[u], tcb'[u].pid = pcb'[p].pid
                   PROVE  \E i \in 1..count + 1 : pcb'[p].threads[i] = u
        OBVIOUS
      <4>1. CASE u = t
        BY <1>12, <4>1
      <4>2. CASE u # t
        <5>1. tcb_used[u] /\ tcb[u].pid = pcb[p].pid
          BY <1>2, <1>11, <4>2
        <5>2. PICK i \in 1..count : pcb[p].threads[i] = u
          BY <3>1, <5>1
        <5>. QED BY <1>12, <5>2
      <4>. QED BY <4>1, <4>2
    <3>5. \A i, j \in 1..count + 1 : pcb'[p].threads[i] = pcb'[p].threads[j] => i = j
      BY <1>12, <3>1
    <3>. QED BY <2>4, <3>2, <3>3, <3>4, <3>5
  <2>. QED BY <2>3, <2>4
<1>15. RestPeopled(m)'
  <2> SUFFICES ASSUME NEW q \in Pcb, pcb_used'[q], pcb'[q].count = 0 PROVE FALSE
    BY DEF RestPeopled
  <2>1. q # p
    <3>1. count + 1 # 0
      BY <1>9
    <3>. QED BY <1>2, <3>1
  <2>2. pcb_used[q] /\ pcb[q].count = 0
    BY <1>2, <1>11, <2>1
  <2>. QED BY <1>5, <2>1, <2>2 DEF RestPeopled, p
<1>16. RestHoused'
  <2> SUFFICES ASSUME NEW u \in Tcb, tcb_used'[u], tcb'[u].pid # 0
               PROVE  \E q \in Pcb : pcb_used'[q] /\ pcb'[q].pid = tcb'[u].pid
    BY DEF RestHoused
  <2>1. CASE u = t
    BY <1>2, <1>7, <1>11, <2>1
  <2>2. CASE u # t
    BY <1>2, <1>5, <1>11, <2>2 DEF RestHoused
  <2>. QED BY <2>1, <2>2
<1>17. PidsUnique'
  BY <1>1, <1>2, <1>11 DEF PidsUnique
<1>18. Typing'
  BY <1>1, <1>2 DEF Typing, OpStep, TcbStep, PcbStep
<1>19. TurnAt(m)' /\ FoundAt(m)' /\ op'[m].at \notin {"claim", "stack", "fill"}
  BY <1>3 DEF TurnAt, FoundAt, At, Making
<1>20. Owned'
  <2>1. \A b \in Maker : op'[b].arg = None
    BY <1>1, <1>3, <1>4, Names, NotFreeing DEF Turns, At, AloneSteps, OpStep, Others
  <2>2. \A u \in Tcb : tcb'[u].arg # None => tcb'[u].arg \in args'
    BY <1>1, <1>2, <1>10, <1>11 DEF Owned
  <2>3. \A u, v \in Tcb : tcb'[u].arg # None /\ tcb'[u].arg = tcb'[v].arg => u = v
    BY <1>1, <1>2, <1>10, <1>11 DEF Owned
  <2>4. \A u, v \in Tcb : tcb'[u].stack # None /\ tcb'[u].stack = tcb'[v].stack => u = v
    BY <1>1, <1>11 DEF Owned
  <2>5. \A u \in Tcb : tcb'[u].stack # None => tcb'[u].stack \notin args'
    BY <1>1, <1>2, <1>11 DEF Owned
  <2>. QED BY <2>1, <2>2, <2>3, <2>4, <2>5 DEF Owned
<1>21. Heaped'
  <2>1. Stacks' = Stacks
    BY <1>11 DEF Stacks
  <2>. QED BY <1>1, <1>2, <2>1 DEF Heaped
<1>. QED BY <1>4, <1>13, <1>14, <1>15, <1>16, <1>17, <1>18, <1>19, <1>20, <1>21, MakerKeeps

LEMMA SameThread ==
  ASSUME NEW x \in TcbRecords, NEW y \in TcbRecords,
         x.pid = y.pid, x.stack = y.stack, x.arg = y.arg, x.state = y.state
  PROVE  x = y
BY DEF TcbRecords

LEMMA QuitKeeps ==
  ASSUME TasksInv, NEW m \in Maker, Quit(m)
  PROVE  TasksInv'
<1> DEFINE t == op[m].tcb
           p == op[m].proc
           arg == op[m].arg
<1>1. Typing /\ Turns /\ Found /\ Made /\ SlotsAt /\ Agree /\ Peopled /\ Housed /\ Owned /\ Heaped /\ PidsUnique
  BY DEF TasksInv
<1>2. /\ op[m].at \in {"check", "pool", "scan", "stack"} /\ At(reaper, "idle")
      /\ OpStep(m) /\ op'[m] = NoOp
      /\ IF At(m, "stack") THEN TcbUsed(t, FALSE) ELSE UNCHANGED tcb_used
      /\ IF op[m].at \in Making /\ m # app
         THEN PcbUsed(p, FALSE) /\ PcbStep(p) /\ pcb'[p] = ZeroedProcess
         ELSE UNCHANGED <<pcb_used, pcb>>
      /\ IF arg = None THEN UNCHANGED <<heap, args>>
         ELSE heap' = Free(heap, arg) /\ args' = args \ {arg}
      /\ UNCHANGED <<tcb, next_pid>>
  BY DEF Quit
<1>3. op'[m].at = "idle" /\ op'[m].arg = None
  BY <1>2, NoOpTyped
<1>4. AloneSteps(m)
  BY <1>1, <1>2, <1>3, MakerAlone DEF At, Freeing
<1>5. RestSlots(m) /\ RestAgree /\ RestPeopled(m) /\ RestHoused
  BY <1>1, <1>4, AtRest
<1>6. At(m, "stack") => /\ t \in Tcb /\ tcb_used[t] /\ tcb[t].pid = 0 /\ tcb[t].state = "new" /\ tcb[t].arg = None
                        /\ tcb[t].stack = None
  BY <1>1 DEF Made, Blank, At
<1>7. op[m].at \in Making => p \in Pcb /\ pcb_used[p] /\ (m # app => pcb[p].count = 0)
  <2>1. FoundAt(m)
    BY <1>1 DEF Found
  <2>. QED BY <2>1 DEF FoundAt
\* What becomes of the thread's slot,
<1>8. /\ tcb_used' \in [Tcb -> BOOLEAN] /\ tcb' = tcb
      /\ \A u \in Tcb : tcb_used'[u] <=> tcb_used[u] /\ ~(At(m, "stack") /\ u = t)
  <2>1. CASE At(m, "stack")
    BY <1>2, <2>1 DEF TcbUsed
  <2>2. CASE ~At(m, "stack")
    BY <1>1, <1>2, <2>2 DEF Typing
  <2>. QED BY <2>1, <2>2
\* and of the process's.
<1> DEFINE gone == op[m].at \in Making /\ m # app
<1>9. /\ pcb_used' \in [Pcb -> BOOLEAN] /\ pcb' \in [Pcb -> PcbRecords]
      /\ \A q \in Pcb : pcb_used'[q] <=> pcb_used[q] /\ ~(gone /\ q = p)
      /\ \A q \in Pcb : pcb'[q] = IF gone /\ q = p THEN ZeroedProcess ELSE pcb[q]
  <2>1. CASE gone
    BY <1>2, <1>7, <2>1 DEF PcbUsed, PcbStep
  <2>2. CASE ~gone
    BY <1>1, <1>2, <2>2 DEF Typing
  <2>. QED BY <2>1, <2>2
<1>10. gone => p \in Pcb /\ pcb_used[p] /\ pcb[p].count = 0
  BY <1>7
<1> HIDE DEF gone
<1>11. arg # None => arg \in args
  BY <1>1 DEF Owned
<1>12. args' = args \ {arg}
  <2>1. CASE arg = None
    <3>1. None \notin args
      BY <1>1, Names DEF Typing
    <3>. QED BY <1>2, <2>1, <3>1
  <2>2. CASE arg # None
    BY <1>2, <2>2
  <2>. QED BY <2>1, <2>2
<1>13. RestSlots(m)'
  <2>1. \A u \in Tcb : ~tcb_used'[u] => tcb'[u] = Zeroed
    <3> SUFFICES ASSUME NEW u \in Tcb, ~tcb_used'[u] PROVE tcb[u] = Zeroed
      BY <1>8
    <3>1. CASE At(m, "stack") /\ u = t
      <4>1. tcb[u] \in TcbRecords
        BY <1>1 DEF Typing
      <4>. QED BY <1>6, <3>1, <4>1, ZeroedTyped, SameThread
    <3>2. CASE ~(At(m, "stack") /\ u = t)
      BY <1>5, <1>8, <3>2 DEF RestSlots
    <3>. QED BY <3>1, <3>2
  <2>2. \A u \in Tcb : tcb_used'[u] => ~(tcb'[u].pid = 0 \/ tcb'[u].state = "new")
    BY <1>2, <1>5, <1>8 DEF RestSlots, At
  <2>3. \A q \in Pcb : IF pcb_used'[q] THEN pcb'[q].pid \in Pid ELSE pcb'[q] = ZeroedProcess
    BY <1>5, <1>9 DEF RestSlots
  <2>. QED BY <2>1, <2>2, <2>3 DEF RestSlots
<1>14. RestAgree'
  <2> SUFFICES ASSUME NEW q \in Pcb, pcb_used'[q]
               PROVE  /\ \A i \in 1..pcb'[q].count : /\ pcb'[q].threads[i] \in Tcb /\ tcb_used'[pcb'[q].threads[i]]
                                                     /\ tcb'[pcb'[q].threads[i]].pid = pcb'[q].pid
                      /\ \A u \in Tcb : tcb_used'[u] /\ tcb'[u].pid = pcb'[q].pid
                                          => \E i \in 1..pcb'[q].count : pcb'[q].threads[i] = u
                      /\ \A i, j \in 1..pcb'[q].count : pcb'[q].threads[i] = pcb'[q].threads[j] => i = j
    BY DEF RestAgree
  <2>1. pcb_used[q] /\ pcb'[q] = pcb[q] /\ pcb[q].pid # 0
    BY <1>5, <1>9, Names DEF RestSlots
  <2>2. \A u \in Tcb : tcb[u].pid = pcb[q].pid => (tcb_used'[u] <=> tcb_used[u])
    BY <1>6, <1>8, <2>1
  <2>. QED BY <1>5, <1>8, <2>1, <2>2 DEF RestAgree
<1>15. RestPeopled(m)'
  <2> SUFFICES ASSUME NEW q \in Pcb, pcb_used'[q], pcb'[q].count = 0 PROVE FALSE
    BY DEF RestPeopled
  <2>1. pcb_used[q] /\ ~(gone /\ q = p) /\ pcb[q].count = 0
    BY <1>9
  <2>. QED BY <1>5, <2>1 DEF RestPeopled, gone
<1>16. RestHoused'
  <2> SUFFICES ASSUME NEW u \in Tcb, tcb_used'[u], tcb'[u].pid # 0
               PROVE  \E q \in Pcb : pcb_used'[q] /\ pcb'[q].pid = tcb'[u].pid
    BY DEF RestHoused
  <2>1. PICK q \in Pcb : pcb_used[q] /\ pcb[q].pid = tcb[u].pid
    BY <1>5, <1>8 DEF RestHoused
  <2>2. PICK i \in 1..pcb[q].count : pcb[q].threads[i] = u
    BY <1>5, <1>8, <2>1 DEF RestAgree
  <2>3. pcb[q].count # 0
    BY <2>2
  <2>4. ~(gone /\ q = p)
    BY <1>10, <2>3
  <2>. QED BY <1>8, <1>9, <2>1, <2>4
<1>17. PidsUnique'
  BY <1>1, <1>9 DEF PidsUnique
<1>18. Typing'
  BY <1>1, <1>2, <1>8, <1>9, <1>12 DEF Typing, OpStep
<1>19. TurnAt(m)' /\ FoundAt(m)' /\ op'[m].at \notin {"claim", "stack", "fill"}
  BY <1>3 DEF TurnAt, FoundAt, At, Making
<1>20. Owned'
  <2>1. \A b \in Maker : op'[b].arg = None
    BY <1>1, <1>3, <1>4, Names, NotFreeing DEF Turns, At, AloneSteps, OpStep, Others
  <2>2. \A u \in Tcb : tcb'[u].arg # None => tcb'[u].arg \in args'
    BY <1>1, <1>8, <1>12 DEF Owned
  <2>3. \A u \in Tcb : tcb'[u].stack # None => tcb'[u].stack \notin args'
    BY <1>1, <1>8, <1>12 DEF Owned
  <2>. QED BY <1>1, <1>8, <2>1, <2>2, <2>3 DEF Owned
<1>21. Heaped'
  <2>1. Stacks' = Stacks
    BY <1>8 DEF Stacks
  <2>2. CASE arg = None
    BY <1>1, <1>2, <2>1, <2>2 DEF Heaped
  <2>3. CASE arg # None
    <3>1. arg \in UsedBlocks(heap) /\ arg \notin Stacks
      BY <1>1, <1>11, <2>3 DEF Heaped, Owned, Stacks
    <3>2. Whole(heap') /\ UsedBlocks(heap') = UsedBlocks(heap) \ {arg}
      <4>1. Whole(heap) /\ heap' = Free(heap, arg)
        BY <1>1, <1>2, <2>3 DEF Heaped
      <4> HIDE DEF arg
      <4>. QED BY <3>1, <4>1, FreeWorks
    <3>3. UsedBlocks(heap) = Stacks \union args
      BY <1>1 DEF Heaped
    <3>. QED BY <1>12, <2>1, <3>1, <3>2, <3>3 DEF Heaped
  <2>. QED BY <2>2, <2>3
<1>. QED BY <1>4, <1>13, <1>14, <1>15, <1>16, <1>17, <1>18, <1>19, <1>20, <1>21, MakerKeeps

-----------------------------------------------------------------------------
(* Steps of threads, and of a killer that marks one.                       *)

\* A thread that is neither new nor a zombie has a slot and a process.
LEMMA LiveThread ==
  ASSUME TasksInv, NEW t \in Tcb, tcb[t].state \notin {"new", "zombie"}
  PROVE  tcb_used[t] /\ tcb[t].pid # 0
<1>1. SlotsAt /\ Freed /\ Made
  BY DEF TasksInv
<1>2. tcb_used[t]
  <2> SUFFICES ASSUME ~tcb_used[t] PROVE FALSE
    OBVIOUS
  <2>1. tcb[t] # Zeroed
    BY ZeroedTyped
  <2>2. PICK a \in Freer : op[a].tcb = t /\ (At(a, "wipe") \/ op[a].at \in {"unlink", "unuse"})
    BY <1>1, <2>1 DEF SlotsAt
  <2>3. op[a].at \in Freeing \ {"process?"}
    BY <2>2 DEF At, Freeing
  <2>. QED BY <1>1, <2>2, <2>3 DEF Freed, FreedAt
<1>3. tcb[t].pid # 0
  <2> SUFFICES ASSUME tcb[t].pid = 0 PROVE FALSE
    OBVIOUS
  <2>1. PICK m \in Maker : op[m].tcb = t /\ op[m].at \in {"stack", "fill"}
    BY <1>1, <1>2 DEF SlotsAt
  <2>. QED BY <1>1, <2>1 DEF Made, Blank
<1>. QED BY <1>2, <1>3

\* The step changes the state of such a thread, and a frees it or not.
LEMMA StateKeeps ==
  ASSUME TasksInv, NEW t \in Tcb, NEW state \in States, state # "new",
         tcb[t].state \notin {"new", "zombie"}, StateOnly(t, state), AliveOnly,
         UNCHANGED <<tcb_used, pcb_used, next_pid, heap, args>>,
         NEW a \in Freer, OpStep(a), op[a].at \in {"idle", "mark"}, op'[a].at \in {"idle", "mark", "unlink"},
         op'[a].arg = None,
         op'[a].at = "unlink" => op'[a].tcb = t /\ state = "zombie" /\ (a = reaper => op'[a].proc = None),
         op[app].at \in Making => op[app].by # t \/ state = "ready",
         Turns'
  PROVE  TasksInv'
<1>1. /\ Typing /\ Turns /\ Booting /\ Found /\ Made /\ Freed /\ Apart /\ SlotsAt
      /\ PidsUnique /\ Agree /\ Peopled /\ Housed /\ Owned /\ Heaped
  BY DEF TasksInv
<1>2. tcb_used[t] /\ tcb[t].pid # 0
  BY LiveThread
<1>3. /\ \A u \in Tcb : u # t => tcb'[u] = tcb[u]
      /\ \A u \in Tcb : tcb'[u].pid = tcb[u].pid /\ tcb'[u].stack = tcb[u].stack /\ tcb'[u].arg = tcb[u].arg
      /\ tcb'[t].state = state
  BY DEF StateOnly, TcbStep
<1>4. /\ \A p \in Pcb : /\ pcb'[p].pid = pcb[p].pid /\ pcb'[p].count = pcb[p].count
                        /\ pcb'[p].threads = pcb[p].threads
                        /\ ~pcb_used[p] => pcb'[p] = pcb[p]
      /\ UNCHANGED <<tcb_used, pcb_used, next_pid, heap, args>>
  BY DEF AliveOnly
<1>5. a \in Actor /\ \A b \in Actor : b # a => op'[b] = op[b]
  BY Names DEF OpStep, Others
<1>6. Typing'
  BY <1>1, <1>4 DEF Typing, AliveOnly, StateOnly, TcbStep, OpStep
<1>7. Booting'
  <2> SUFFICES ASSUME op'[shell].at = "boot" PROVE FALSE
    BY DEF Booting, At
  <2>1. op[shell].at = "boot"
    BY <1>5, Names
  <2>. QED BY <1>1, <2>1 DEF Booting, At
<1>8. Found'
  <2> SUFFICES ASSUME NEW m \in Maker PROVE FoundAt(m)'
    BY DEF Found
  <2>1. CASE m = a
    BY <2>1 DEF FoundAt, At, Making
  <2>2. CASE m # a
    <3>1. FoundAt(m) /\ op'[m] = op[m]
      BY <1>1, <1>5, <2>2, Names DEF Found
    <3>2. m = app /\ op[m].at \in Making => tcb'[op[m].by].state = "ready"
      BY <1>3, <3>1 DEF FoundAt
    <3>. QED BY <1>3, <1>4, <3>1, <3>2 DEF FoundAt, At
  <2>. QED BY <2>1, <2>2
<1>9. Made'
  <2> SUFFICES ASSUME NEW m \in Maker, op'[m].at \in {"claim", "stack", "fill"} PROVE Blank(m)'
    BY DEF Made
  <2>1. op'[m] = op[m]
    BY <1>5, Names
  <2>2. Blank(m)
    BY <1>1, <2>1 DEF Made
  <2>3. op[m].tcb # t
    BY <2>2 DEF Blank
  <2>. QED BY <1>3, <1>4, <2>1, <2>2, <2>3 DEF Blank, At
<1>10. \A b \in Freer : b # a /\ op[b].at \in Freeing \ {"process?"} => op[b].tcb # t
  BY <1>1 DEF Freed, FreedAt
<1>11. Freed'
  <2> SUFFICES ASSUME NEW b \in Freer PROVE FreedAt(b)'
    BY DEF Freed
  <2>1. CASE b = a
    BY <1>2, <1>3, <1>4, <2>1 DEF FreedAt, At, Freeing
  <2>2. CASE b # a
    <3>1. FreedAt(b) /\ op'[b] = op[b]
      BY <1>1, <1>5, <2>2, Names DEF Freed
    <3>2. op[b].at \in Freeing \ {"process?"} => tcb'[op[b].tcb] = tcb[op[b].tcb]
      BY <1>3, <1>10, <2>2, <3>1 DEF FreedAt
    <3>3. op[b].at \in {"unlink", "unuse"} => ((tcb_used'[op[b].tcb] /\ tcb'[op[b].tcb].pid # 0) \/ Again(op[b].tcb)')
      BY <1>4, <3>1, <3>2 DEF FreedAt, Freeing, Again
    <3>. QED BY <1>4, <3>1, <3>2, <3>3 DEF FreedAt, At, Freeing
  <2>. QED BY <2>1, <2>2
<1>12. Apart'
  <2>1. op'[shell].at \in Freeing \ {"process?"} /\ op'[reaper].at \in Freeing \ {"process?"}
          => op'[shell].tcb # op'[reaper].tcb
    <3>1. shell \in Freer /\ reaper \in Freer /\ shell # reaper /\ (a = shell \/ a = reaper)
      BY Names DEF Freer
    <3>2. CASE a = shell
      <4>1. op'[reaper] = op[reaper]
        BY <1>5, <3>1, <3>2, Names
      <4>. QED BY <1>10, <3>1, <3>2, <4>1 DEF Freeing
    <3>3. CASE a = reaper
      <4>1. op'[shell] = op[shell]
        BY <1>5, <3>1, <3>3, Names
      <4>. QED BY <1>10, <3>1, <3>3, <4>1 DEF Freeing
    <3>. QED BY <3>1, <3>2, <3>3
  <2>2. \A m \in Manager : op'[m].at \in Making /\ op'[reaper].at \in Freeing => op'[reaper].proc # op'[m].proc
    <3> SUFFICES ASSUME NEW m \in Manager, op'[m].at \in Making, op'[reaper].at \in Freeing
                 PROVE  op'[reaper].proc # op'[m].proc
      OBVIOUS
    <3>1. m # a
      BY DEF Making
    <3>2. op'[m] = op[m] /\ op[m].proc \in Pcb
      <4>1. op'[m] = op[m] /\ m \in Maker
        BY <1>5, <3>1, Names
      <4>. QED BY <1>1, <4>1 DEF Found, FoundAt
    <3>3. CASE a = reaper
      <4>1. op'[reaper].proc = None
        BY <3>3 DEF Freeing
      <4>. QED BY <3>2, <4>1, Names
    <3>4. CASE a # reaper
      BY <1>1, <1>5, <3>2, <3>4, Names DEF Apart
    <3>. QED BY <3>3, <3>4
  <2>. QED BY <2>1, <2>2 DEF Apart
<1>13. SlotsAt'
  <2>1. \A u \in Tcb : ~tcb_used'[u] =>
          \/ tcb'[u] = Zeroed
          \/ \E b \in Freer : op'[b].tcb = u /\ (At(b, "wipe")' \/ (op'[b].at \in {"unlink", "unuse"} /\ Again(u)'))
    <3> SUFFICES ASSUME NEW u \in Tcb, ~tcb_used'[u], tcb'[u] # Zeroed
                 PROVE  \E b \in Freer : op'[b].tcb = u /\ (At(b, "wipe")' \/ (op'[b].at \in {"unlink", "unuse"} /\ Again(u)'))
      OBVIOUS
    <3>1. u # t /\ tcb'[u] = tcb[u] /\ ~tcb_used[u]
      BY <1>2, <1>3, <1>4
    <3>2. PICK b \in Freer : op[b].tcb = u /\ (At(b, "wipe") \/ (op[b].at \in {"unlink", "unuse"} /\ Again(u)))
      BY <1>1, <3>1 DEF SlotsAt
    <3>3. op'[b] = op[b]
      BY <1>5, <3>2, Names DEF At
    <3>. QED BY <1>4, <3>1, <3>2, <3>3 DEF At, Again
  <2>2. \A u \in Tcb : tcb_used'[u] /\ (tcb'[u].pid = 0 \/ tcb'[u].state = "new") =>
          \E m \in Maker : op'[m].tcb = u /\ op'[m].at \in {"stack", "fill"}
    <3> SUFFICES ASSUME NEW u \in Tcb, tcb_used'[u], tcb'[u].pid = 0 \/ tcb'[u].state = "new"
                 PROVE  \E m \in Maker : op'[m].tcb = u /\ op'[m].at \in {"stack", "fill"}
      OBVIOUS
    <3>1. u # t
      BY <1>2, <1>3
    <3>2. PICK m \in Maker : op[m].tcb = u /\ op[m].at \in {"stack", "fill"}
      BY <1>1, <1>3, <1>4, <3>1 DEF SlotsAt
    <3>3. op'[m] = op[m]
      BY <1>5, <3>2, Names
    <3>. QED BY <3>2, <3>3
  <2>3. \A p \in Pcb : IF pcb_used'[p] THEN pcb'[p].pid \in Pid ELSE pcb'[p] = ZeroedProcess
    BY <1>1, <1>4 DEF SlotsAt
  <2>. QED BY <2>1, <2>2, <2>3 DEF SlotsAt
<1>14. (\A u \in Tcb : Out(u)' <=> Out(u)) /\ \A p \in Pcb : Reach(p)' = Reach(p)
  <2>1. \A b \in Freer : /\ op'[b].at = "unuse" => op'[b] = op[b]
                         /\ op'[b].at = "shift" => op'[b] = op[b]
                         /\ op[b].at = "unuse" => op'[b] = op[b]
                         /\ op[b].at = "shift" => op'[b] = op[b]
    BY <1>5, Names
  <2>2. \A u \in Tcb : Out(u)' <=> Out(u)
    BY <2>1 DEF Out, At
  <2>3. \A p \in Pcb : Compacted(p)' <=> Compacted(p)
    BY <2>1 DEF Compacted, At
  <2>. QED BY <1>4, <2>2, <2>3 DEF Reach
<1>15. PidsUnique'
  BY <1>1, <1>4 DEF PidsUnique
<1>16. Agree'
  <2>1. \A p \in Pcb, u \in Tcb : Has(p, u)' <=> Has(p, u)
    BY <1>3, <1>4, <1>14 DEF Has
  <2>. QED BY <1>1, <1>4, <1>14, <2>1 DEF Agree
<1>17. Peopled'
  <2> SUFFICES ASSUME NEW p \in Pcb, pcb_used'[p], pcb'[p].count = 0
               PROVE  \E b \in Actor : op'[b].proc = p /\ (op'[b].at \in Freeing \ {"unlink"} \/ (op'[b].at \in Making /\ b # app))
    BY DEF Peopled
  <2>1. PICK b \in Actor : op[b].proc = p /\ (op[b].at \in Freeing \ {"unlink"} \/ (op[b].at \in Making /\ b # app))
    BY <1>1, <1>4 DEF Peopled
  <2>2. b # a
    BY <2>1 DEF Freeing, Making
  <2>. QED BY <1>5, <2>1, <2>2
<1>18. Housed'
  <2> SUFFICES ASSUME NEW u \in Tcb, tcb_used'[u], tcb'[u].pid # 0
               PROVE  \/ Out(u)' \/ \E b \in Freer : At(b, "shift")' /\ op'[b].tcb = u
                      \/ \E p \in Pcb : pcb_used'[p] /\ pcb'[p].pid = tcb'[u].pid
    BY DEF Housed
  <2>1. \/ Out(u) \/ \E b \in Freer : At(b, "shift") /\ op[b].tcb = u
        \/ \E p \in Pcb : pcb_used[p] /\ pcb[p].pid = tcb[u].pid
    BY <1>1, <1>3, <1>4 DEF Housed
  <2>2. \A b \in Freer : At(b, "shift") => op'[b] = op[b]
    BY <1>5, Names DEF At
  <2>. QED BY <1>3, <1>4, <1>14, <2>1, <2>2 DEF At
<1>19. Owned'
  <2>1. \A b \in Maker : op'[b].arg # None => op'[b].arg = op[b].arg
    BY <1>5, Names
  <2>. QED BY <1>1, <1>3, <1>4, <2>1 DEF Owned
<1>20. Heaped'
  <2>1. Stacks' = Stacks
    BY <1>3 DEF Stacks
  <2>. QED BY <1>1, <1>4, <2>1 DEF Heaped
<1>. QED BY <1>6, <1>7, <1>8, <1>9, <1>11, <1>12, <1>13, <1>15, <1>16, <1>17, <1>18, <1>19, <1>20 DEF TasksInv

LEMMA ReapTurns ==
  ASSUME Turns, NEW t \in Tcb, Reaped(t), AppsRun
  PROVE  Turns'
<1>1. \A b \in Actor : b # reaper => op'[b] = op[b]
  BY DEF Reaped, OpStep, Others
<1>2. op'[reaper].at = "unlink" /\ op'[reaper].arg = None /\ op'[reaper].list = <<>> /\ op[shell].at # "shift"
  BY Names DEF Reaped, AppsRun, At
<1>3. \A m \in Maker : op'[m] = op[m]
  BY <1>1, Names
<1>4. \A a, b \in Maker : op'[a].at # "idle" /\ op'[b].at # "idle" => a = b
  BY <1>3 DEF Turns, At
<1>5. \A a \in Actor : op'[a].arg # None => op'[a].at \in Creating /\ a # app
  BY <1>1, <1>2 DEF Turns
<1>6. shell \in Maker /\ app \in Maker /\ Manager \subseteq Maker
  BY Names DEF Maker
<1>. QED BY <1>2, <1>3, <1>4, <1>5, <1>6 DEF Turns, At, Freeing

LEMMA KillerTurns ==
  ASSUME Turns, At(shell, "mark"), At(reaper, "idle"), OpStep(shell),
         op'[shell].at \in {"idle", "mark", "unlink"}, op'[shell].arg = None,
         op'[shell].at = "mark" => op'[shell].list # <<>>
  PROVE  Turns'
<1>1. \A b \in Actor : b # shell => op'[b] = op[b] /\ op[b].at = "idle"
  BY Names, Alone DEF OpStep, Others, At
<1>2. shell \in Actor /\ shell # app /\ shell # reaper /\ shell \in Maker /\ app \in Actor /\ reaper \in Actor
  BY Names DEF Maker
<1>3. \A a, b \in Maker : op'[a].at # "idle" /\ op'[b].at # "idle" => a = b
  BY <1>1, Names
<1>4. \A a \in Actor : op'[a].arg # None => op'[a].at \in Creating /\ a # app
  BY <1>1 DEF Turns
<1>5. \A m \in Manager : m # shell => op'[m].at = "idle"
  BY <1>1, Names
<1>6. op'[reaper] = op[reaper] /\ op'[reaper].at = "idle" /\ op'[app].at = "idle"
  BY <1>1, <1>2
<1>. QED BY <1>3, <1>4, <1>5, <1>6 DEF Turns, At

\* What follows for the steps.
LEMMA IdleNoArg ==
  ASSUME Turns, NEW a \in Actor, op[a].at \in {"idle", "mark"}
  PROVE  op[a].arg = None
BY NotFreeing DEF Turns, Creating, Making

LEMMA MarkedDyingKeeps ==
  ASSUME TasksInv, Marked, NEW t \in Tcb, MarkedDying(t)
  PROVE  TasksInv'
<1>1. Typing /\ Turns
  BY DEF TasksInv
<1>2. /\ At(shell, "mark") /\ At(reaper, "idle") /\ OpStep(shell)
      /\ op'[shell].at \in {"idle", "mark"} /\ op'[shell].arg = None
      /\ op'[shell].at = "mark" => op'[shell].list # <<>>
      /\ tcb[t].state = "blocked" /\ StateOnly(t, "dying")
      /\ UNCHANGED <<tcb_used, pcb_used, pcb, next_pid, heap, args>>
  BY DEF Marked, MarkedDying
<1>3. Turns'
  BY <1>1, <1>2, KillerTurns
<1>4. AliveOnly
  BY <1>1, <1>2, SamePcbs
<1>5. op[app].at \notin Making
  <2>1. At(app, "idle")
    BY <1>1, <1>2, Alone, Names DEF At, Maker
  <2>. QED BY <2>1 DEF At, Making
<1>6. shell \in Freer /\ "dying" \in States
  BY DEF Freer, States
<1>. QED BY <1>2, <1>3, <1>4, <1>5, <1>6, StateKeeps DEF At

LEMMA MarkedZombieKeeps ==
  ASSUME TasksInv, Marked, NEW t \in Tcb, MarkedZombie(t), tcb[t].state = "ready"
  PROVE  TasksInv'
<1>1. Typing /\ Turns
  BY DEF TasksInv
<1>2. /\ At(shell, "mark") /\ At(reaper, "idle") /\ OpStep(shell)
      /\ op'[shell].at = "unlink" /\ op'[shell].tcb = t /\ op'[shell].arg = op[shell].arg
      /\ StateOnly(t, "zombie")
      /\ UNCHANGED <<tcb_used, pcb_used, pcb, next_pid, heap, args>>
  BY DEF Marked, MarkedZombie
<1>3. op'[shell].arg = None
  BY <1>1, <1>2, IdleNoArg, Names DEF At
<1>4. Turns'
  BY <1>1, <1>2, <1>3, KillerTurns
<1>5. AliveOnly
  BY <1>1, <1>2, SamePcbs
<1>6. op[app].at \notin Making
  <2>1. At(app, "idle")
    BY <1>1, <1>2, Alone, Names DEF At, Maker
  <2>. QED BY <2>1 DEF At, Making
<1>7. shell \in Freer /\ "zombie" \in States /\ shell # reaper
  BY Names DEF Freer, States
<1>. QED BY <1>2, <1>3, <1>4, <1>5, <1>6, <1>7, StateKeeps DEF At

LEMMA ExitedKeeps ==
  ASSUME TasksInv, NEW t \in Tcb, Exited(t)
  PROVE  TasksInv'
<1>1. Turns
  BY DEF TasksInv
<1>2. Turns'
  BY <1>1, ReapTurns DEF Exited
<1>3. reaper \in Freer /\ "zombie" \in States
  BY DEF Freer, States
<1>. QED BY <1>2, <1>3, StateKeeps DEF Exited, Reaped, At

LEMMA WokenToDieKeeps ==
  ASSUME TasksInv, NEW t \in Tcb, WokenToDie(t)
  PROVE  TasksInv'
<1>1. Turns /\ Typing /\ Found
  BY DEF TasksInv
<1>2. Turns'
  BY <1>1, ReapTurns DEF WokenToDie
<1>3. reaper \in Freer /\ "zombie" \in States
  BY DEF Freer, States
<1>4. AliveOnly
  BY <1>1, SamePcbs DEF WokenToDie
<1>5. op[app].at \in Making => op[app].by # t
  <2>1. FoundAt(app)
    BY <1>1 DEF Found, Maker
  <2>. QED BY <2>1 DEF FoundAt, WokenToDie
<1>. QED BY <1>2, <1>3, <1>4, <1>5, StateKeeps DEF WokenToDie, Reaped, At

LEMMA WaitedKeeps ==
  ASSUME TasksInv, NEW t \in Tcb, Waited(t) \/ WokenUp(t)
  PROVE  TasksInv'
<1>1. Turns /\ Typing
  BY DEF TasksInv
<1>2. reaper \in Freer /\ reaper \in Actor /\ "blocked" \in States /\ "ready" \in States
  BY Names DEF Freer, States
<1>3. UNCHANGED op /\ At(reaper, "idle") /\ UNCHANGED <<tcb_used, pcb_used, pcb, next_pid, heap, args>>
  BY DEF Waited, WokenUp, AppsRun
<1>4. Turns'
  BY <1>1, <1>3 DEF Turns, At
<1>5. OpStep(reaper)
  BY <1>1, <1>3 DEF OpStep, Others, Typing
<1>6. op[reaper].at = "idle" /\ op'[reaper].at = "idle" /\ op'[reaper].arg = None
  BY <1>1, <1>2, <1>3, IdleNoArg DEF At
<1>7. AliveOnly
  BY <1>1, <1>3, SamePcbs
<1>8. CASE Waited(t)
  <2>1. tcb[t].state = "ready" /\ StateOnly(t, "blocked") /\ op[app].by # t
    BY <1>8 DEF Waited
  <2>. QED BY <1>2, <1>3, <1>4, <1>5, <1>6, <1>7, <2>1, StateKeeps
<1>9. CASE WokenUp(t)
  <2>1. tcb[t].state = "blocked" /\ StateOnly(t, "ready")
    BY <1>9 DEF WokenUp
  <2>. QED BY <1>2, <1>3, <1>4, <1>5, <1>6, <1>7, <2>1, StateKeeps
<1>. QED BY <1>8, <1>9

LEMMA ArgTakenKeeps ==
  ASSUME TasksInv, NEW t \in Tcb, ArgTaken(t)
  PROVE  TasksInv'
<1> DEFINE arg == tcb[t].arg
<1>1. /\ Typing /\ Turns /\ Booting /\ Found /\ Made /\ Freed /\ Apart /\ SlotsAt
      /\ PidsUnique /\ Agree /\ Peopled /\ Housed /\ Owned /\ Heaped
  BY DEF TasksInv
<1>2. /\ tcb_used[t] /\ tcb[t].state = "ready" /\ arg # None
      /\ TcbStep(t) /\ tcb'[t].arg = None
      /\ heap' = Free(heap, arg) /\ args' = args \ {arg}
      /\ UNCHANGED <<tcb_used, pcb_used, pcb, next_pid, op>>
  BY DEF ArgTaken
<1>3. /\ \A u \in Tcb : u # t => tcb'[u] = tcb[u]
      /\ \A u \in Tcb : tcb'[u].pid = tcb[u].pid /\ tcb'[u].stack = tcb[u].stack /\ tcb'[u].state = tcb[u].state
  BY DEF ArgTaken, TcbStep
<1> HIDE DEF arg
<1>4. Typing'
  BY <1>1, <1>2 DEF Typing, TcbStep
<1>5. Turns' /\ Booting'
  <2>1. Turns'
    BY <1>1, <1>2 DEF Turns, At
  <2>2. Booting'
    BY <1>1, <1>2, <1>3 DEF Booting, At
  <2>. QED BY <2>1, <2>2
<1>6. Found'
  <2> SUFFICES ASSUME NEW m \in Maker PROVE FoundAt(m)'
    BY DEF Found
  <2>1. FoundAt(m)
    BY <1>1 DEF Found
  <2>. QED BY <1>2, <1>3, <2>1 DEF FoundAt, At
<1>7. Made'
  <2> SUFFICES ASSUME NEW m \in Maker, op[m].at \in {"claim", "stack", "fill"} PROVE Blank(m)'
    BY <1>2 DEF Made
  <2>1. Blank(m)
    BY <1>1 DEF Made
  <2>2. op[m].tcb # t
    BY <1>2, <2>1 DEF Blank
  <2>. QED BY <1>2, <1>3, <2>1, <2>2 DEF Blank, At
<1>8. \A u \in Tcb : Again(u) => Again(u)'
  BY <1>2, <1>3 DEF Again
<1>9. Freed'
  <2> SUFFICES ASSUME NEW a \in Freer PROVE FreedAt(a)'
    BY DEF Freed
  <2>1. FreedAt(a)
    BY <1>1 DEF Freed
  <2>. QED BY <1>2, <1>3, <1>8, <2>1 DEF FreedAt, At, Freeing
<1>10. Apart'
  BY <1>1, <1>2 DEF Apart
<1>11. SlotsAt'
  <2>1. \A u \in Tcb : ~tcb_used'[u] =>
          \/ tcb'[u] = Zeroed
          \/ \E b \in Freer : op'[b].tcb = u /\ (At(b, "wipe")' \/ (op'[b].at \in {"unlink", "unuse"} /\ Again(u)'))
    <3> SUFFICES ASSUME NEW u \in Tcb, ~tcb_used'[u], tcb'[u] # Zeroed
                 PROVE  \E b \in Freer : op'[b].tcb = u /\ (At(b, "wipe")' \/ (op'[b].at \in {"unlink", "unuse"} /\ Again(u)'))
      OBVIOUS
    <3>1. tcb[u] # Zeroed /\ ~tcb_used[u]
      BY <1>2, <1>3
    <3>2. PICK b \in Freer : op[b].tcb = u /\ (At(b, "wipe") \/ (op[b].at \in {"unlink", "unuse"} /\ Again(u)))
      BY <1>1, <3>1 DEF SlotsAt
    <3>. QED BY <1>2, <1>8, <3>2 DEF At
  <2>2. \A u \in Tcb : tcb_used'[u] /\ (tcb'[u].pid = 0 \/ tcb'[u].state = "new") =>
          \E m \in Maker : op'[m].tcb = u /\ op'[m].at \in {"stack", "fill"}
    BY <1>1, <1>2, <1>3 DEF SlotsAt
  <2>. QED BY <1>1, <1>2, <2>1, <2>2 DEF SlotsAt
<1>12. PidsUnique'
  BY <1>1, <1>2 DEF PidsUnique
<1>13. (\A u \in Tcb : Out(u)' <=> Out(u)) /\ \A p \in Pcb : Reach(p)' = Reach(p)
  BY <1>2 DEF Out, Reach, Compacted, At
<1>14. Agree'
  <2>1. \A p \in Pcb, u \in Tcb : Has(p, u)' <=> Has(p, u)
    BY <1>2, <1>3, <1>13 DEF Has
  <2>. QED BY <1>1, <1>2, <1>13, <2>1 DEF Agree
<1>15. Peopled'
  BY <1>1, <1>2 DEF Peopled
<1>16. Housed'
  BY <1>1, <1>2, <1>3, <1>13 DEF Housed, At
<1>17. arg \in args /\ \A u \in Tcb : u # t => tcb[u].arg # arg
  BY <1>1, <1>2 DEF Owned, arg
<1>18. Owned'
  <2>1. \A u \in Tcb : tcb'[u].arg # None => u # t /\ tcb'[u].arg = tcb[u].arg
    BY <1>2, <1>3
  <2>2. \A u \in Tcb : tcb'[u].arg # None => tcb'[u].arg \in args'
    BY <1>1, <1>2, <1>17, <2>1 DEF Owned
  <2>3. \A m \in Maker : op'[m].arg # None => op'[m].arg \in args' /\ \A u \in Tcb : tcb'[u].arg # op'[m].arg
    <3> SUFFICES ASSUME NEW m \in Maker, op[m].arg # None
                 PROVE  op[m].arg \in args' /\ \A u \in Tcb : tcb'[u].arg # op[m].arg
      BY <1>2
    <3>1. op[m].arg \in args /\ \A u \in Tcb : tcb[u].arg # op[m].arg
      BY <1>1 DEF Owned
    <3>. QED BY <1>2, <2>1, <3>1 DEF arg
  <2>4. \A u \in Tcb : tcb'[u].stack # None => tcb'[u].stack \notin args'
    BY <1>1, <1>2, <1>3 DEF Owned
  <2>. QED BY <1>1, <1>3, <2>1, <2>2, <2>3, <2>4 DEF Owned
<1>19. Heaped'
  <2>1. Stacks' = Stacks
    BY <1>3 DEF Stacks
  <2>2. arg \in UsedBlocks(heap) /\ arg \notin Stacks
    BY <1>1, <1>17 DEF Heaped, Owned, Stacks
  <2>3. Whole(heap') /\ UsedBlocks(heap') = UsedBlocks(heap) \ {arg}
    <3>1. Whole(heap)
      BY <1>1 DEF Heaped
    <3>. QED BY <1>2, <2>2, <3>1, FreeWorks
  <2>4. UsedBlocks(heap) = Stacks \union args
    BY <1>1 DEF Heaped
  <2>. QED BY <1>2, <2>1, <2>2, <2>3, <2>4 DEF Heaped
<1>. QED BY <1>4, <1>5, <1>6, <1>7, <1>9, <1>10, <1>11, <1>12, <1>14, <1>15, <1>16, <1>18, <1>19 DEF TasksInv

\* A slot in the killer's list that has been freed since is marked all the same.
LEMMA MarkedAgainKeeps ==
  ASSUME TasksInv, Marked, NEW t \in Tcb, MarkedZombie(t), tcb[t].state = "new"
  PROVE  TasksInv'
<1>1. /\ Typing /\ Turns /\ Booting /\ Found /\ Made /\ Freed /\ Apart /\ SlotsAt
      /\ PidsUnique /\ Agree /\ Peopled /\ Housed /\ Owned /\ Heaped
  BY DEF TasksInv
<1>2. /\ op[shell].at = "mark" /\ At(shell, "mark") /\ At(reaper, "idle") /\ OpStep(shell)
      /\ op'[shell].at = "unlink" /\ op'[shell].tcb = t /\ op'[shell].arg = op[shell].arg
      /\ StateOnly(t, "zombie") /\ tcb'[t] = [tcb[t] EXCEPT !.state = "zombie"]
      /\ UNCHANGED <<tcb_used, pcb_used, pcb, next_pid, heap, args>>
  BY DEF Marked, MarkedZombie, At
<1>3. shell \in Maker /\ shell \in Freer /\ shell \in Actor /\ shell # reaper /\ shell # app
  BY Names DEF Freer
<1>4. \A b \in Actor : b # shell => op'[b] = op[b] /\ op[b].at = "idle"
  BY <1>1, <1>2, <1>3, Alone DEF OpStep, Others, At
<1>5. op'[shell].arg = None
  BY <1>1, <1>2, <1>3, IdleNoArg
<1>6. Turns'
  BY <1>1, <1>2, <1>5, KillerTurns
<1>7. Booting' /\ Found' /\ Made' /\ Apart'
  <2>1. Booting'
    BY <1>2 DEF Booting, At
  <2>2. Found'
    <3>1. \A m \in Maker : op'[m].at \in {"idle", "unlink"}
      BY <1>2, <1>4, Names
    <3>. QED BY <3>1 DEF Found, FoundAt, At, Making
  <2>3. Made'
    BY <1>2, <1>4, Names DEF Made
  <2>4. Apart'
    <3>1. op'[reaper].at = "idle"
      BY <1>3, <1>4, Names
    <3>. QED BY <3>1, NotFreeing DEF Apart
  <2>. QED BY <2>1, <2>2, <2>3, <2>4
<1>8. ~tcb_used[t] /\ tcb[t] = Zeroed
  <2>1. ~tcb_used[t]
    <3> SUFFICES ASSUME tcb_used[t] PROVE FALSE
      OBVIOUS
    <3>1. PICK m \in Maker : op[m].at \in {"stack", "fill"}
      BY <1>1 DEF SlotsAt
    <3>. QED BY <1>2, <1>4, <3>1, Names
  <2>2. \A a \in Freer : op[a].at \in {"idle", "mark"}
    BY <1>2, <1>4, Names
  <2>. QED BY <1>1, <2>1, <2>2 DEF SlotsAt, At
<1>9. Again(t)'
  BY <1>2, <1>8 DEF Again
<1>10. /\ \A u \in Tcb : u # t => tcb'[u] = tcb[u]
       /\ \A u \in Tcb : tcb'[u].pid = tcb[u].pid /\ tcb'[u].stack = tcb[u].stack /\ tcb'[u].arg = tcb[u].arg
       /\ tcb'[t].state = "zombie"
  BY <1>2 DEF StateOnly, TcbStep
<1>11. Typing'
  BY <1>1, <1>2 DEF Typing, StateOnly, TcbStep, OpStep
<1>12. Freed'
  <2> SUFFICES ASSUME NEW a \in Freer PROVE FreedAt(a)'
    BY DEF Freed
  <2>1. CASE a = shell
    BY <1>2, <1>9, <1>10, <2>1 DEF FreedAt, At, Freeing
  <2>2. CASE a # shell
    <3>1. op'[a].at = "idle"
      BY <1>4, <2>2, Names
    <3>. QED BY <3>1 DEF FreedAt, At, Freeing
  <2>. QED BY <2>1, <2>2
<1>13. SlotsAt'
  <2>1. \A a \in Freer : op[a].at \in {"idle", "mark"}
    BY <1>2, <1>4, Names
  <2>2. \A u \in Tcb : ~tcb_used'[u] =>
          \/ tcb'[u] = Zeroed
          \/ \E b \in Freer : op'[b].tcb = u /\ (At(b, "wipe")' \/ (op'[b].at \in {"unlink", "unuse"} /\ Again(u)'))
    <3> SUFFICES ASSUME NEW u \in Tcb, ~tcb_used'[u], u # t PROVE tcb'[u] = Zeroed
      BY <1>2, <1>3, <1>9
    <3>. QED BY <1>1, <1>2, <1>10, <2>1 DEF SlotsAt, At
  <2>3. \A u \in Tcb : tcb_used'[u] => ~(tcb'[u].pid = 0 \/ tcb'[u].state = "new")
    <3>1. \A m \in Maker : op[m].at \notin {"stack", "fill"}
      BY <1>2, <1>4, Names
    <3>. QED BY <1>1, <1>2, <1>8, <1>10, <3>1 DEF SlotsAt
  <2>4. \A p \in Pcb : IF pcb_used'[p] THEN pcb'[p].pid \in Pid ELSE pcb'[p] = ZeroedProcess
    BY <1>1, <1>2 DEF SlotsAt
  <2>. QED BY <2>2, <2>3, <2>4 DEF SlotsAt
<1>14. PidsUnique'
  BY <1>1, <1>2 DEF PidsUnique
<1>15. /\ \A u \in Tcb : ~Out(u) /\ ~Out(u)'
       /\ \A p \in Pcb : Reach(p)' = Reach(p)
  <2>1. \A a \in Freer : op[a].at \in {"idle", "mark"} /\ op'[a].at \in {"idle", "unlink"}
    BY <1>2, <1>4, Names
  <2>2. \A p \in Pcb : ~Compacted(p) /\ ~Compacted(p)'
    BY <2>1 DEF Compacted, At
  <2>. QED BY <1>2, <2>1, <2>2 DEF Out, Reach, At
<1>16. Agree'
  <2>1. \A p \in Pcb, u \in Tcb : Has(p, u)' <=> Has(p, u)
    BY <1>2, <1>10, <1>15 DEF Has
  <2>. QED BY <1>1, <1>2, <1>15, <2>1 DEF Agree
<1>17. Peopled'
  <2>1. \A p \in Pcb : pcb_used[p] => pcb[p].count # 0
    <3>1. \A a \in Actor : op[a].at \in {"idle", "mark"}
      BY <1>2, <1>4
    <3>. QED BY <1>1, <3>1 DEF Peopled, Freeing, Making
  <2>. QED BY <1>2, <2>1 DEF Peopled
<1>18. Housed'
  <2> SUFFICES ASSUME NEW u \in Tcb, tcb_used'[u], tcb'[u].pid # 0
               PROVE  \E p \in Pcb : pcb_used'[p] /\ pcb'[p].pid = tcb'[u].pid
    BY DEF Housed
  <2>1. \A a \in Freer : op[a].at \in {"idle", "mark"}
    BY <1>2, <1>4, Names
  <2>. QED BY <1>1, <1>2, <1>10, <1>15, <2>1 DEF Housed, At
<1>19. Owned'
  <2>1. \A m \in Maker : op'[m].arg = op[m].arg
    BY <1>2, <1>4, Names
  <2>. QED BY <1>1, <1>2, <1>10, <2>1 DEF Owned
<1>20. Heaped'
  <2>1. Stacks' = Stacks
    BY <1>10 DEF Stacks
  <2>. QED BY <1>1, <1>2, <2>1 DEF Heaped
<1>. QED BY <1>6, <1>7, <1>11, <1>12, <1>13, <1>14, <1>16, <1>17, <1>18, <1>19, <1>20 DEF TasksInv

-----------------------------------------------------------------------------
(* Steps that free a thread, while a maker or a killer may be under way.   *)

FreeSteps(a) ==
  /\ op[a].at \in Freeing /\ AloneFrees(a) /\ OpStep(a)
  /\ op'[a].at \in Freeing \union {"idle", "mark"} /\ op'[a].arg = None
  /\ op'[a].at = "mark" => a = shell /\ op'[a].list # <<>>
  /\ a = reaper => op'[a].list = <<>>

LEMMA FreerTurns ==
  ASSUME Turns, Booting, NEW a \in Freer, FreeSteps(a)
  PROVE  /\ Turns' /\ Booting'
         /\ a \in Actor /\ \A b \in Actor : b # a => op'[b] = op[b]
         /\ \A m \in Maker : op'[m].at \in Creating => m # a /\ op'[m] = op[m]
         /\ \A m \in Maker : op'[m].arg # None => m # a /\ op'[m] = op[m]
<1>1. a \in Actor /\ \A b \in Actor : b # a => op'[b] = op[b]
  BY Names DEF FreeSteps, OpStep, Others
<1>2. op'[a].at \notin Creating /\ op'[a].at # "boot" /\ op'[a].at # "snapshot"
  BY NotFreeing DEF FreeSteps, Creating, Making, Freeing
<1>3. /\ \A m \in Maker : op'[m].at \in Creating => m # a /\ op'[m] = op[m]
      /\ \A m \in Maker : op'[m].arg # None => m # a /\ op'[m] = op[m]
  BY <1>1, <1>2, Names DEF FreeSteps
<1>4. shell \in Actor /\ reaper \in Actor /\ app \in Actor /\ shell # reaper /\ app # shell /\ app # reaper /\ reaper \notin Maker
  BY Names DEF Actor
<1>5. CASE a = shell
  <2>1. \A b \in Actor : b # shell => op'[b] = op[b] /\ op'[b].at = "idle"
    BY <1>1, <1>5 DEF FreeSteps, AloneFrees, At
  <2>2. Booting'
    BY <1>2, <1>5 DEF Booting, At
  <2>3. \A b, c \in Maker : op'[b].at # "idle" /\ op'[c].at # "idle" => b = c
    BY <2>1, Names
  <2>4. \A b \in Actor : op'[b].arg # None => op'[b].at \in Creating /\ b # app
    BY <1>5, <2>1 DEF Turns, FreeSteps
  <2>5. \A m \in Manager : m # shell => op'[m].at = "idle"
    BY <2>1, Names
  <2>6. /\ op'[shell].at = "mark" => op'[shell].list # <<>>
        /\ op'[shell].at # "snapshot"
    BY <1>2, <1>5 DEF FreeSteps
  <2>7. op'[reaper] = op[reaper] /\ op'[reaper].at = "idle" /\ op'[app].at = "idle"
    BY <1>4, <2>1
  <2>8. Turns'
    BY <2>3, <2>4, <2>5, <2>6, <2>7 DEF Turns, At
  <2>. QED BY <1>1, <1>3, <2>2, <2>8
<1>6. CASE a = reaper
  <2>1. \A m \in Maker : op'[m] = op[m]
    BY <1>1, <1>4, <1>6, Names
  <2>2. op[reaper].at # "idle" /\ op[shell].at # "shift" /\ op[shell].at # "boot"
    BY <1>6, NotFreeing DEF FreeSteps, Turns, Booting, At
  <2>3. Booting'
    BY <2>1, <2>2, Names DEF Booting, At
  <2>4. \A b \in Actor : op'[b].arg # None => op'[b].at \in Creating /\ b # app
    BY <1>1, <1>6 DEF Turns, FreeSteps
  <2>5. shell \in Maker /\ app \in Maker /\ Manager \subseteq Maker
    BY Names DEF Maker
  <2>6. op'[reaper].at \in {"idle"} \union Freeing /\ op'[reaper].list = <<>>
    BY <1>4, <1>6 DEF FreeSteps
  <2>7. \A b, c \in Maker : op'[b].at # "idle" /\ op'[c].at # "idle" => b = c
    BY <2>1 DEF Turns, At
  <2>8. Turns'
    BY <2>1, <2>2, <2>4, <2>5, <2>6, <2>7 DEF Turns, At
  <2>. QED BY <1>1, <1>3, <2>3, <2>8
<1>. QED BY <1>5, <1>6 DEF Freer

\* Who makes something has not found what is freed.
LEMMA FreerFound ==
  ASSUME Found, NEW a \in Freer,
         \A m \in Maker : op'[m].at \in Creating => op'[m] = op[m],
         \A p \in Pcb : pcb_used'[p] => pcb_used[p] /\ pcb'[p].pid = pcb[p].pid,
         \A m \in Maker : op[m].at \in Making /\ op'[m] = op[m] =>
           /\ pcb_used'[op[m].proc] /\ (pcb'[op[m].proc].count = 0 \/ m = app)
           /\ m = app => pcb_used'[op[m].proc] /\ pcb'[op[m].proc].pid = pcb[op[m].proc].pid,
         \A u \in Tcb : tcb_used[u] /\ tcb[u].state = "ready" => tcb_used'[u] /\ tcb'[u] = tcb[u]
  PROVE  Found'
<1> SUFFICES ASSUME NEW m \in Maker PROVE FoundAt(m)'
  BY DEF Found
<1>1. FoundAt(m)
  BY DEF Found
<1>2. CASE op'[m].at \in Creating
  <2>1. op'[m] = op[m]
    BY <1>2
  <2>. QED BY <1>1, <2>1 DEF FoundAt, At
<1>3. CASE op'[m].at \notin Creating
  BY <1>3 DEF FoundAt, At, Creating
<1>. QED BY <1>2, <1>3

LEMMA FreerMade ==
  ASSUME Made,
         \A m \in Maker : op'[m].at \in Creating => op'[m] = op[m],
         \A u \in Tcb : tcb[u].state = "new" => tcb'[u] = tcb[u] /\ tcb_used'[u] = tcb_used[u]
  PROVE  Made'
<1> SUFFICES ASSUME NEW m \in Maker, op'[m].at \in {"claim", "stack", "fill"} PROVE Blank(m)'
  BY DEF Made
<1>1. op'[m] = op[m]
  BY DEF Creating, Making
<1>2. Blank(m)
  BY <1>1 DEF Made
<1>. QED BY <1>1, <1>2 DEF Blank, At

LEMMA OrphanedKeeps ==
  ASSUME TasksInv, NEW a \in Freer, Orphaned(a)
  PROVE  TasksInv'
<1> DEFINE t == op[a].tcb
<1>1. /\ Typing /\ Turns /\ Booting /\ Found /\ Made /\ Freed /\ Apart /\ SlotsAt
      /\ PidsUnique /\ Agree /\ Peopled /\ Housed /\ Owned /\ Heaped
  BY DEF TasksInv
<1>2. /\ op[a].at = "unlink" /\ op'[a].at = "unuse" /\ AloneFrees(a) /\ OpStep(a) /\ Same(a)
      /\ \A p \in Pcb : pcb_used[p] => pcb[p].pid # tcb[t].pid
      /\ UNCHANGED <<tcb_used, tcb, pcb_used, pcb, next_pid, heap, args>>
  BY DEF Orphaned, Went
<1>3. op'[a].tcb = t /\ op'[a].proc = op[a].proc /\ op'[a].arg = op[a].arg /\ op'[a].list = op[a].list
  BY <1>2 DEF Same
<1> HIDE DEF t
<1>4. FreeSteps(a)
  <2>1. a \in Actor /\ op[a].arg = None
    BY <1>1, <1>2, Names DEF Turns, Creating, Making
  <2>. QED BY <1>1, <1>2, <1>3, <2>1 DEF FreeSteps, Freeing, Turns
<1>5. /\ Turns' /\ Booting' /\ a \in Actor /\ \A b \in Actor : b # a => op'[b] = op[b]
      /\ \A m \in Maker : op'[m].at \in Creating => m # a /\ op'[m] = op[m]
      /\ \A m \in Maker : op'[m].arg # None => m # a /\ op'[m] = op[m]
  BY <1>1, <1>4, FreerTurns
<1>6. Typing'
  BY <1>1, <1>2 DEF Typing, OpStep
<1>7. Found'
  <2>1. \A m \in Maker : op[m].at \in Making /\ op'[m] = op[m] =>
          /\ pcb_used'[op[m].proc] /\ (pcb'[op[m].proc].count = 0 \/ m = app)
          /\ m = app => pcb_used'[op[m].proc] /\ pcb'[op[m].proc].pid = pcb[op[m].proc].pid
    BY <1>1, <1>2 DEF Found, FoundAt
  <2>. QED BY <1>1, <1>2, <1>5, <2>1, FreerFound
<1>8. Made'
  BY <1>1, <1>2, <1>5, FreerMade
<1>9. \A u \in Tcb : Again(u)' <=> Again(u)
  BY <1>2 DEF Again
<1>10. Freed'
  <2> SUFFICES ASSUME NEW b \in Freer PROVE FreedAt(b)'
    BY DEF Freed
  <2>1. FreedAt(b)
    BY <1>1 DEF Freed
  <2>2. CASE b = a
    BY <1>2, <1>3, <1>9, <2>1, <2>2 DEF FreedAt, At, Freeing, t
  <2>3. CASE b # a
    <3>1. op'[b] = op[b]
      BY <1>5, <2>3, Names
    <3>. QED BY <1>2, <1>9, <2>1, <3>1 DEF FreedAt, At, Freeing
  <2>. QED BY <2>2, <2>3
<1>11. Apart'
  <2>1. /\ \A b \in Freer : op'[b].at \in Freeing \ {"process?"} =>
             op[b].at \in Freeing \ {"process?"} /\ op'[b].tcb = op[b].tcb
        /\ op'[reaper].at \in Freeing => op[reaper].at \in Freeing
        /\ op'[reaper].proc = op[reaper].proc
        /\ \A m \in Manager : op'[m].at \in Making => op'[m] = op[m]
    BY <1>2, <1>3, <1>5, Names, NotFreeing DEF Freeing, Freer, t
  <2>. QED BY <1>1, <2>1 DEF Apart, Freer
<1>12. SlotsAt'
  <2>1. \A u \in Tcb : ~tcb_used'[u] =>
          \/ tcb'[u] = Zeroed
          \/ \E b \in Freer : op'[b].tcb = u /\ (At(b, "wipe")' \/ (op'[b].at \in {"unlink", "unuse"} /\ Again(u)'))
    <3> SUFFICES ASSUME NEW u \in Tcb, ~tcb_used'[u], tcb'[u] # Zeroed
                 PROVE  \E b \in Freer : op'[b].tcb = u /\ (At(b, "wipe")' \/ (op'[b].at \in {"unlink", "unuse"} /\ Again(u)'))
      OBVIOUS
    <3>1. PICK b \in Freer : op[b].tcb = u /\ (At(b, "wipe") \/ (op[b].at \in {"unlink", "unuse"} /\ Again(u)))
      BY <1>1, <1>2 DEF SlotsAt
    <3>2. b = a \/ op'[b] = op[b]
      BY <1>5, Names
    <3>. QED BY <1>2, <1>3, <1>9, <3>1, <3>2 DEF At, t
  <2>2. \A u \in Tcb : tcb_used'[u] /\ (tcb'[u].pid = 0 \/ tcb'[u].state = "new") =>
          \E m \in Maker : op'[m].tcb = u /\ op'[m].at \in {"stack", "fill"}
    <3>1. \A m \in Maker : op[m].at \in {"stack", "fill"} => op'[m] = op[m]
      BY <1>2, <1>5, Names
    <3>. QED BY <1>1, <1>2, <3>1 DEF SlotsAt
  <2>. QED BY <1>1, <1>2, <2>1, <2>2 DEF SlotsAt
<1>13. PidsUnique'
  BY <1>1, <1>2 DEF PidsUnique
<1>14. (\A u \in Tcb : u # t => (Out(u)' <=> Out(u))) /\ \A p \in Pcb : Reach(p)' = Reach(p)
  <2>1. \A u \in Tcb : u # t => (Out(u)' <=> Out(u))
    BY <1>2, <1>3, <1>5, Names DEF Out, At, t
  <2>2. \A p \in Pcb : Compacted(p)' <=> Compacted(p)
    BY <1>2, <1>5, Names DEF Compacted, At
  <2>. QED BY <1>2, <2>1, <2>2 DEF Reach
<1>15. Agree'
  <2>1. \A p \in Pcb, u \in Tcb : pcb_used[p] => (Has(p, u)' <=> Has(p, u))
    BY <1>2, <1>14 DEF Has
  <2>. QED BY <1>1, <1>2, <1>14, <2>1 DEF Agree
<1>16. Peopled'
  <2> SUFFICES ASSUME NEW p \in Pcb, pcb_used'[p], pcb'[p].count = 0
               PROVE  \E b \in Actor : op'[b].proc = p /\ (op'[b].at \in Freeing \ {"unlink"} \/ (op'[b].at \in Making /\ b # app))
    BY DEF Peopled
  <2>1. PICK b \in Actor : op[b].proc = p /\ (op[b].at \in Freeing \ {"unlink"} \/ (op[b].at \in Making /\ b # app))
    BY <1>1, <1>2 DEF Peopled
  <2>2. b # a
    BY <1>2, <2>1 DEF Making
  <2>. QED BY <1>5, <2>1, <2>2
<1>17. Housed'
  <2> SUFFICES ASSUME NEW u \in Tcb, tcb_used'[u], tcb'[u].pid # 0
               PROVE  \/ Out(u)' \/ \E b \in Freer : At(b, "shift")' /\ op'[b].tcb = u
                      \/ \E p \in Pcb : pcb_used'[p] /\ pcb'[p].pid = tcb'[u].pid
    BY DEF Housed
  <2>1. CASE u = t
    BY <1>2, <1>3, <2>1 DEF Out, At
  <2>2. CASE u # t
    <3>1. \A b \in Freer : op[b].at = "shift" => op'[b] = op[b]
      BY <1>2, <1>5, Names
    <3>. QED BY <1>1, <1>2, <1>14, <2>2, <3>1 DEF Housed, At
  <2>. QED BY <2>1, <2>2
<1>18. Owned'
  BY <1>1, <1>2, <1>5 DEF Owned
<1>19. Heaped'
  BY <1>1, <1>2 DEF Heaped, Stacks
<1>. QED BY <1>5, <1>6, <1>7, <1>8, <1>10, <1>11, <1>12, <1>13, <1>15, <1>16, <1>17, <1>18, <1>19 DEF TasksInv

LEMMA UnlinkedKeeps ==
  ASSUME TasksInv, NEW a \in Freer, Unlinked(a)
  PROVE  TasksInv'
<1> DEFINE t == op[a].tcb
           p == op'[a].proc
<1>1. /\ Typing /\ Turns /\ Booting /\ Found /\ Made /\ Freed /\ Apart /\ SlotsAt
      /\ PidsUnique /\ Agree /\ Peopled /\ Housed /\ Owned /\ Heaped
  BY DEF TasksInv
<1>2. /\ op[a].at = "unlink" /\ op'[a].at = "shift" /\ AloneFrees(a) /\ OpStep(a)
      /\ op'[a].tcb = t /\ op'[a].arg = op[a].arg /\ op'[a].list = op[a].list
      /\ p \in Pcb /\ pcb_used[p] /\ tcb_used[t] /\ tcb[t].pid = pcb[p].pid
      /\ op'[a].slot \in 1..pcb[p].count /\ pcb[p].threads[op'[a].slot] = t
      /\ PcbStep(p) /\ pcb'[p].pid = pcb[p].pid /\ pcb'[p].count = pcb[p].count - 1
      /\ pcb'[p].threads = pcb[p].threads
      /\ UNCHANGED <<tcb_used, tcb, pcb_used, next_pid, heap, args>>
  BY DEF Unlinked, At
<1> HIDE DEF t, p
<1>3. /\ pcb[p].count \in 1..MAX_THREADS /\ MAX_THREADS \in Nat /\ pcb[p].count # 0
      /\ pcb[p].count - 1 < MAX_THREADS /\ (pcb[p].count - 1) + 1 = pcb[p].count
  <2>1. pcb[p].count \in 0..MAX_THREADS /\ MAX_THREADS \in Nat
    BY <1>1, <1>2, TasksAssumption DEF Typing, PcbRecords
  <2>. QED BY <1>2, <2>1
<1>4. FreeSteps(a)
  <2>1. a \in Actor /\ op[a].arg = None
    BY <1>1, <1>2, Names DEF Turns, Creating, Making
  <2>. QED BY <1>1, <1>2, <2>1 DEF FreeSteps, Freeing, Turns
<1>5. /\ Turns' /\ Booting' /\ a \in Actor /\ \A b \in Actor : b # a => op'[b] = op[b]
      /\ \A m \in Maker : op'[m].at \in Creating => m # a /\ op'[m] = op[m]
      /\ \A m \in Maker : op'[m].arg # None => m # a /\ op'[m] = op[m]
  BY <1>1, <1>4, FreerTurns
<1>6. Typing'
  BY <1>1, <1>2 DEF Typing, OpStep, PcbStep
<1>7. /\ \A q \in Pcb : q # p => pcb'[q] = pcb[q]
      /\ \A q \in Pcb : pcb'[q].pid = pcb[q].pid /\ pcb'[q].threads = pcb[q].threads
  BY <1>2 DEF PcbStep
<1>8. Found'
  <2>1. \A m \in Maker : op[m].at \in Making /\ op'[m] = op[m] =>
          /\ pcb_used'[op[m].proc] /\ (pcb'[op[m].proc].count = 0 \/ m = app)
          /\ m = app => pcb_used'[op[m].proc] /\ pcb'[op[m].proc].pid = pcb[op[m].proc].pid
    <3> SUFFICES ASSUME NEW m \in Maker, op[m].at \in Making
                 PROVE  /\ pcb_used'[op[m].proc] /\ (pcb'[op[m].proc].count = 0 \/ m = app)
                        /\ m = app => pcb_used'[op[m].proc] /\ pcb'[op[m].proc].pid = pcb[op[m].proc].pid
      OBVIOUS
    <3>1. op[m].proc \in Pcb /\ pcb_used[op[m].proc] /\ (m # app => pcb[op[m].proc].count = 0)
      BY <1>1 DEF Found, FoundAt
    <3>. QED BY <1>2, <1>3, <1>7, <3>1
  <2>. QED BY <1>1, <1>2, <1>5, <1>7, <2>1, FreerFound
<1>9. Made'
  BY <1>1, <1>2, <1>5, FreerMade
<1>10. \A u \in Tcb : Again(u)' <=> Again(u)
  BY <1>2 DEF Again
<1>11. Freed'
  <2> SUFFICES ASSUME NEW b \in Freer PROVE FreedAt(b)'
    BY DEF Freed
  <2>1. FreedAt(b)
    BY <1>1 DEF Freed
  <2>2. CASE b = a
    <3>1. t \in Tcb /\ tcb[t].state = "zombie"
      BY <1>2, <2>1, <2>2 DEF FreedAt, Freeing, t
    <3>2. op'[a].proc = p
      BY DEF p
    <3>3. op'[a].slot \in 1..pcb'[p].count + 1
      BY <1>2, <1>3
    <3>. QED BY <1>2, <1>3, <2>2, <3>1, <3>2, <3>3 DEF FreedAt, At
  <2>3. CASE b # a
    <3>1. op'[b] = op[b] /\ op[b].at # "shift"
      BY <1>2, <1>5, <2>3, Names DEF AloneFrees, At
    <3>. QED BY <1>2, <1>10, <2>1, <3>1 DEF FreedAt, At, Freeing
  <2>. QED BY <2>2, <2>3
<1>12. Apart'
  <2>1. \A b \in Freer : op'[b].at \in Freeing \ {"process?"} =>
             op[b].at \in Freeing \ {"process?"} /\ op'[b].tcb = op[b].tcb
    BY <1>2, <1>5, Names DEF Freeing, t
  <2>2. \A m \in Manager : op'[m].at \in Making /\ op'[reaper].at \in Freeing => op'[reaper].proc # op'[m].proc
    <3> SUFFICES ASSUME NEW m \in Manager, op'[m].at \in Making, op'[reaper].at \in Freeing
                 PROVE  op'[reaper].proc # op'[m].proc
      OBVIOUS
    <3>1. op'[m] = op[m] /\ m \in Maker /\ m # app
      BY <1>5, Names, NotFreeing
    <3>2. pcb[op[m].proc].count = 0
      BY <1>1, <3>1 DEF Found, FoundAt
    <3>3. CASE a = reaper
      BY <1>3, <3>1, <3>2, <3>3 DEF p
    <3>4. CASE a # reaper
      BY <1>1, <1>5, <3>1, <3>4, Names DEF Apart
    <3>. QED BY <3>3, <3>4
  <2>. QED BY <1>1, <2>1, <2>2 DEF Apart, Freer
<1>13. SlotsAt'
  <2>1. \A u \in Tcb : ~tcb_used'[u] =>
          \/ tcb'[u] = Zeroed
          \/ \E b \in Freer : op'[b].tcb = u /\ (At(b, "wipe")' \/ (op'[b].at \in {"unlink", "unuse"} /\ Again(u)'))
    <3> SUFFICES ASSUME NEW u \in Tcb, ~tcb_used'[u], tcb'[u] # Zeroed
                 PROVE  \E b \in Freer : op'[b].tcb = u /\ (At(b, "wipe")' \/ (op'[b].at \in {"unlink", "unuse"} /\ Again(u)'))
      OBVIOUS
    <3>1. PICK b \in Freer : op[b].tcb = u /\ (At(b, "wipe") \/ (op[b].at \in {"unlink", "unuse"} /\ Again(u)))
      BY <1>1, <1>2 DEF SlotsAt
    <3>2. b # a
      BY <1>2, <3>1 DEF t
    <3>3. op'[b] = op[b]
      BY <1>5, <3>2, Names
    <3>. QED BY <1>10, <3>1, <3>3 DEF At
  <2>2. \A u \in Tcb : tcb_used'[u] /\ (tcb'[u].pid = 0 \/ tcb'[u].state = "new") =>
          \E m \in Maker : op'[m].tcb = u /\ op'[m].at \in {"stack", "fill"}
    <3>1. \A m \in Maker : op[m].at \in {"stack", "fill"} => op'[m] = op[m]
      BY <1>2, <1>5, Names
    <3>. QED BY <1>1, <1>2, <3>1 DEF SlotsAt
  <2>3. \A q \in Pcb : IF pcb_used'[q] THEN pcb'[q].pid \in Pid ELSE pcb'[q] = ZeroedProcess
    BY <1>1, <1>2, <1>7 DEF SlotsAt
  <2>. QED BY <2>1, <2>2, <2>3 DEF SlotsAt
<1>14. PidsUnique'
  BY <1>1, <1>2, <1>7 DEF PidsUnique
<1>15. (\A u \in Tcb : Out(u)' <=> Out(u)) /\ \A q \in Pcb : Reach(q)' = Reach(q)
  <2>1. \A u \in Tcb : Out(u)' <=> Out(u)
    BY <1>2, <1>5, Names DEF Out, At
  <2>2. \A q \in Pcb : ~Compacted(q) /\ (Compacted(q)' <=> q = p)
    BY <1>2, <1>5, Names DEF Compacted, AloneFrees, At, p
  <2>. QED BY <1>2, <1>3, <1>7, <2>1, <2>2 DEF Reach
<1>16. Agree'
  <2>1. \A q \in Pcb, u \in Tcb : Has(q, u)' <=> Has(q, u)
    BY <1>2, <1>7, <1>15 DEF Has
  <2>. QED BY <1>1, <1>2, <1>7, <1>15, <2>1 DEF Agree
<1>17. Peopled'
  <2> SUFFICES ASSUME NEW q \in Pcb, pcb_used'[q], pcb'[q].count = 0
               PROVE  \E b \in Actor : op'[b].proc = q /\ (op'[b].at \in Freeing \ {"unlink"} \/ (op'[b].at \in Making /\ b # app))
    BY DEF Peopled
  <2>1. CASE q = p
    BY <1>2, <1>5, <2>1 DEF Freeing, p
  <2>2. CASE q # p
    <3>1. PICK b \in Actor : op[b].proc = q /\ (op[b].at \in Freeing \ {"unlink"} \/ (op[b].at \in Making /\ b # app))
      BY <1>1, <1>2, <1>7, <2>2 DEF Peopled
    <3>2. b # a
      BY <1>2, <3>1 DEF Making
    <3>. QED BY <1>5, <3>1, <3>2
  <2>. QED BY <2>1, <2>2
<1>18. Housed'
  <2>1. \A b \in Freer : op[b].at # "shift"
    BY <1>2 DEF AloneFrees, At
  <2>. QED BY <1>1, <1>2, <1>7, <1>15, <2>1 DEF Housed, At
<1>19. Owned'
  BY <1>1, <1>2, <1>5 DEF Owned
<1>20. Heaped'
  BY <1>1, <1>2 DEF Heaped, Stacks
<1>. QED BY <1>5, <1>6, <1>8, <1>9, <1>11, <1>12, <1>13, <1>14, <1>16, <1>17, <1>18, <1>19, <1>20 DEF TasksInv

\* Closing a list up over its entry s takes nothing but that entry from it.
Closing(n, s, f, g) ==
  /\ \A i, j \in 1..n + 1 : f[i] = f[j] => i = j
  /\ \A i \in 1..n : g[i] = IF i >= s THEN f[i + 1] ELSE f[i]
Without(n, f, g, x) ==
  /\ \A i \in 1..n : g[i] # x /\ \E j \in 1..n + 1 : g[i] = f[j]
  /\ \A j \in 1..n + 1 : f[j] # x => \E i \in 1..n : g[i] = f[j]
  /\ \A i, j \in 1..n : g[i] = g[j] => i = j
LEMMA ClosedUp ==
  ASSUME NEW n \in Nat, NEW s \in 1..n + 1, NEW f, NEW g, Closing(n, s, f, g)
  PROVE  Without(n, f, g, f[s])
<1> DEFINE up(i) == IF i >= s THEN i + 1 ELSE i
<1>1. \A i \in 1..n : up(i) \in 1..n + 1 /\ up(i) # s /\ g[i] = f[up(i)]
  BY DEF Closing
<1>2. \A i, j \in 1..n : up(i) = up(j) => i = j
  OBVIOUS
<1>3. \A j \in 1..n + 1 : j # s => \E i \in 1..n : up(i) = j
  <2> SUFFICES ASSUME NEW j \in 1..n + 1, j # s PROVE \E i \in 1..n : up(i) = j
    OBVIOUS
  <2>1. CASE j < s
    BY <2>1
  <2>2. CASE j > s
    <3>1. j - 1 \in 1..n /\ j - 1 >= s /\ (j - 1) + 1 = j
      BY <2>2
    <3>. QED BY <3>1
  <2>. QED BY <2>1, <2>2
<1> HIDE DEF up
<1>. QED BY <1>1, <1>2, <1>3 DEF Closing, Without

LEMMA ShiftedKeeps ==
  ASSUME TasksInv, NEW a \in Freer, At(a, "shift"), Shifted(a)
  PROVE  TasksInv'
<1>t. PICK t : t = op[a].tcb
  OBVIOUS
<1>p. PICK p : p = op[a].proc
  OBVIOUS
<1>s. PICK s : s = op[a].slot
  OBVIOUS
<1>c. PICK count : count = pcb[p].count
  OBVIOUS
<1>1. /\ Typing /\ Turns /\ Booting /\ Found /\ Made /\ Freed /\ Apart /\ SlotsAt
      /\ PidsUnique /\ Agree /\ Peopled /\ Housed /\ Owned /\ Heaped
  BY DEF TasksInv
<1>2. /\ op[a].at = "shift" /\ op'[a].at = "unuse" /\ AloneFrees(a) /\ OpStep(a) /\ Same(a)
      /\ PcbStep(p) /\ pcb'[p].pid = pcb[p].pid /\ pcb'[p].count = count
      /\ \A i \in 1..count : pcb'[p].threads[i] = IF i >= s THEN pcb[p].threads[i + 1] ELSE pcb[p].threads[i]
      /\ UNCHANGED <<tcb_used, tcb, pcb_used, next_pid, heap, args>>
  BY <1>t, <1>p, <1>s, <1>c DEF Shifted, Went
<1>3. op'[a].tcb = t /\ op'[a].proc = p /\ op'[a].arg = op[a].arg /\ op'[a].list = op[a].list
  BY <1>2, <1>t, <1>p DEF Same
<1>4. /\ t \in Tcb /\ tcb[t].state = "zombie" /\ p \in Pcb /\ pcb_used[p]
      /\ tcb_used[t] /\ tcb[t].pid = pcb[p].pid /\ s \in 1..count + 1 /\ pcb[p].threads[s] = t
  BY <1>1, <1>2, <1>t, <1>p, <1>s, <1>c DEF Freed, FreedAt, At, Freeing
<1>5. count \in Nat
  BY <1>1, <1>4, <1>c, TasksAssumption DEF Typing, PcbRecords
<1>6. FreeSteps(a)
  <2>1. a \in Actor /\ op[a].arg = None
    BY <1>1, <1>2, Names DEF Turns, Creating, Making
  <2>. QED BY <1>1, <1>2, <1>3, <2>1 DEF FreeSteps, Freeing, Turns
<1>7. /\ Turns' /\ Booting' /\ a \in Actor /\ \A b \in Actor : b # a => op'[b] = op[b]
      /\ \A m \in Maker : op'[m].at \in Creating => m # a /\ op'[m] = op[m]
      /\ \A m \in Maker : op'[m].arg # None => m # a /\ op'[m] = op[m]
  BY <1>1, <1>6, FreerTurns
<1>8. Typing'
  BY <1>1, <1>2 DEF Typing, OpStep, PcbStep
<1>9. /\ \A q \in Pcb : q # p => pcb'[q] = pcb[q]
      /\ \A q \in Pcb : pcb'[q].pid = pcb[q].pid /\ pcb'[q].count = pcb[q].count
  BY <1>2, <1>c DEF PcbStep
<1>10. Found'
  <2>1. \A m \in Maker : op[m].at \in Making /\ op'[m] = op[m] =>
          /\ pcb_used'[op[m].proc] /\ (pcb'[op[m].proc].count = 0 \/ m = app)
          /\ m = app => pcb_used'[op[m].proc] /\ pcb'[op[m].proc].pid = pcb[op[m].proc].pid
    BY <1>1, <1>2, <1>9 DEF Found, FoundAt
  <2>. QED BY <1>1, <1>2, <1>7, <1>9, <2>1, FreerFound
<1>11. Made'
  BY <1>1, <1>2, <1>7, FreerMade
<1>12. \A u \in Tcb : Again(u)' <=> Again(u)
  BY <1>2 DEF Again
<1>13. Freed'
  <2> SUFFICES ASSUME NEW b \in Freer PROVE FreedAt(b)'
    BY DEF Freed
  <2>1. FreedAt(b)
    BY <1>1 DEF Freed
  <2>2. CASE b = a
    <3>1. tcb[t].pid # 0
      BY <1>1, <1>4, Names DEF SlotsAt
    <3>. QED BY <1>2, <1>3, <1>4, <2>2, <3>1 DEF FreedAt, At
  <2>3. CASE b # a
    <3>1. op'[b] = op[b] /\ op[b].at # "shift"
      BY <1>2, <1>7, <2>3, Names DEF AloneFrees, At
    <3>. QED BY <1>2, <1>12, <2>1, <3>1 DEF FreedAt, At, Freeing
  <2>. QED BY <2>2, <2>3
<1>14. Apart'
  <2>1. /\ \A b \in Freer : op'[b].at \in Freeing \ {"process?"} =>
             op[b].at \in Freeing \ {"process?"} /\ op'[b].tcb = op[b].tcb
        /\ op'[reaper].at \in Freeing => op[reaper].at \in Freeing
        /\ op'[reaper].proc = op[reaper].proc
        /\ \A m \in Manager : op'[m].at \in Making => op'[m] = op[m]
    BY <1>2, <1>3, <1>7, Names, NotFreeing, <1>t, <1>p DEF Freeing, Freer
  <2>. QED BY <1>1, <2>1 DEF Apart, Freer
<1>15. SlotsAt'
  <2>1. \A u \in Tcb : ~tcb_used'[u] =>
          \/ tcb'[u] = Zeroed
          \/ \E b \in Freer : op'[b].tcb = u /\ (At(b, "wipe")' \/ (op'[b].at \in {"unlink", "unuse"} /\ Again(u)'))
    <3> SUFFICES ASSUME NEW u \in Tcb, ~tcb_used'[u], tcb'[u] # Zeroed
                 PROVE  \E b \in Freer : op'[b].tcb = u /\ (At(b, "wipe")' \/ (op'[b].at \in {"unlink", "unuse"} /\ Again(u)'))
      OBVIOUS
    <3>1. PICK b \in Freer : op[b].tcb = u /\ (At(b, "wipe") \/ (op[b].at \in {"unlink", "unuse"} /\ Again(u)))
      BY <1>1, <1>2 DEF SlotsAt
    <3>2. b # a
      BY <1>2, <3>1 DEF At
    <3>3. op'[b] = op[b]
      BY <1>7, <3>2, Names
    <3>. QED BY <1>12, <3>1, <3>3 DEF At
  <2>2. \A u \in Tcb : tcb_used'[u] /\ (tcb'[u].pid = 0 \/ tcb'[u].state = "new") =>
          \E m \in Maker : op'[m].tcb = u /\ op'[m].at \in {"stack", "fill"}
    <3>1. \A m \in Maker : op[m].at \in {"stack", "fill"} => op'[m] = op[m]
      BY <1>2, <1>7, Names
    <3>. QED BY <1>1, <1>2, <3>1 DEF SlotsAt
  <2>3. \A q \in Pcb : IF pcb_used'[q] THEN pcb'[q].pid \in Pid ELSE pcb'[q] = ZeroedProcess
    BY <1>1, <1>2, <1>4, <1>9 DEF SlotsAt
  <2>. QED BY <2>1, <2>2, <2>3 DEF SlotsAt
<1>16. PidsUnique'
  BY <1>1, <1>2, <1>9 DEF PidsUnique
<1>17. /\ \A u \in Tcb : u # t => (Out(u)' <=> Out(u))
       /\ Out(t)' /\ ~Out(t)
       /\ \A q \in Pcb : q # p => Reach(q)' = Reach(q)
       /\ Reach(p) = count + 1 /\ \A q \in Pcb : q = p => Reach(q)' = count
  <2>1. \A u \in Tcb : u # t => (Out(u)' <=> Out(u))
    BY <1>2, <1>3, <1>7, Names, <1>t DEF Out, At
  <2>2. Out(t)'
    BY <1>2, <1>3 DEF Out, At
  <2>3. ~Out(t)
    <3> SUFFICES ASSUME NEW b \in Freer, op[b].at = "unuse", op[b].tcb = t PROVE FALSE
      BY DEF Out, At
    <3>. QED BY <1>1, <1>2, <1>t DEF Apart, Freer, Freeing
  <2>4. \A q \in Pcb : ~Compacted(q)' /\ (Compacted(q) <=> q = p)
    <3>1. \A b \in Freer : op'[b].at # "shift"
      BY <1>2, <1>7, Names DEF AloneFrees, At
    <3>2. \A b \in Freer : op[b].at = "shift" <=> b = a
      BY <1>2 DEF AloneFrees, At
    <3>. QED BY <3>1, <3>2, <1>p DEF Compacted, At
  <2>5. /\ \A q \in Pcb : q # p => Reach(q)' = Reach(q)
        /\ \A q \in Pcb : q = p => Reach(q)' = count
    BY <1>4, <1>9, <1>c, <2>4 DEF Reach
  <2>6. Reach(p) = count + 1
    BY <1>4, <1>c, <2>4 DEF Reach
  <2>. QED BY <1>4, <2>1, <2>2, <2>3, <2>5, <2>6
<1>18. Agree'
  <2> SUFFICES ASSUME NEW q \in Pcb, pcb_used'[q]
               PROVE  /\ \A i \in 1..Reach(q)' : \E u \in Tcb : u = pcb'[q].threads[i] /\ Has(q, u)'
                      /\ \A u \in Tcb : Has(q, u)' => \E i \in 1..Reach(q)' : pcb'[q].threads[i] = u
                      /\ \A i, j \in 1..Reach(q)' : pcb'[q].threads[i] = pcb'[q].threads[j] => i = j
    BY DEF Agree, Has, Out
  <2>1. \A u \in Tcb : Has(q, u)' <=> Has(q, u) /\ u # t
    BY <1>2, <1>9, <1>17 DEF Has
  <2>2. CASE q # p
    <3>1. ~Has(q, t)
      BY <1>1, <1>2, <1>4, <2>2 DEF Has, PidsUnique
    <3>2. \A u \in Tcb : Has(q, u)' <=> Has(q, u)
      BY <2>1, <3>1
    <3>3. pcb'[q] = pcb[q] /\ Reach(q)' = Reach(q)
      BY <1>9, <1>17, <2>2
    <3>4. /\ \A i \in 1..Reach(q) : pcb[q].threads[i] \in Tcb /\ Has(q, pcb[q].threads[i])
          /\ \A u \in Tcb : Has(q, u) => \E i \in 1..Reach(q) : pcb[q].threads[i] = u
          /\ \A i, j \in 1..Reach(q) : pcb[q].threads[i] = pcb[q].threads[j] => i = j
      BY <1>1, <1>2 DEF Agree
    <3>5. \A i \in 1..Reach(q) : \E u \in Tcb : u = pcb[q].threads[i] /\ Has(q, u)
      BY <3>4
    <3>. QED BY <3>2, <3>3, <3>4, <3>5
  <2>3. CASE q = p
    <3>1. /\ \A i \in 1..count + 1 : pcb[p].threads[i] \in Tcb /\ Has(p, pcb[p].threads[i])
          /\ \A u \in Tcb : Has(p, u) => \E i \in 1..count + 1 : pcb[p].threads[i] = u
          /\ \A i, j \in 1..count + 1 : pcb[p].threads[i] = pcb[p].threads[j] => i = j
      BY <1>1, <1>4, <1>17 DEF Agree
    <3> DEFINE f == pcb[p].threads
               g == pcb'[p].threads
    <3>2. \A i \in 1..count : g[i] = IF i >= s THEN f[i + 1] ELSE f[i]
      BY <1>2
    <3>3. f[s] = t /\ \A i, j \in 1..count + 1 : f[i] = f[j] => i = j
      BY <1>4, <3>1
    <3> HIDE DEF f, g
    <3>7. Closing(count, s, f, g)
      BY <3>2, <3>3 DEF Closing
    <3>8. Without(count, f, g, f[s])
      BY <1>4, <1>5, <3>7, ClosedUp
    <3>4. /\ \A i \in 1..count : g[i] # t /\ \E j \in 1..count + 1 : g[i] = f[j]
          /\ \A j \in 1..count + 1 : f[j] # t => \E i \in 1..count : g[i] = f[j]
          /\ \A i, j \in 1..count : g[i] = g[j] => i = j
      BY <3>3, <3>8 DEF Without
    <3>5. \A i \in 1..count : g[i] \in Tcb /\ Has(p, g[i]) /\ g[i] # t
      BY <3>1, <3>4 DEF f
    <3>6. \A u \in Tcb : Has(p, u) /\ u # t => \E i \in 1..count : g[i] = u
      BY <3>1, <3>4 DEF f
    <3>9. Reach(q)' = count /\ pcb'[q].threads = g
      BY <1>17, <2>3 DEF g
    <3>10. \A i \in 1..count : \E u \in Tcb : u = g[i] /\ Has(p, u) /\ u # t
      BY <3>5
    <3>. QED BY <2>1, <2>3, <3>4, <3>6, <3>9, <3>10
  <2>. QED BY <2>2, <2>3
<1>19. Peopled'
  <2> SUFFICES ASSUME NEW q \in Pcb, pcb_used'[q], pcb'[q].count = 0
               PROVE  \E b \in Actor : op'[b].proc = q /\ (op'[b].at \in Freeing \ {"unlink"} \/ (op'[b].at \in Making /\ b # app))
    BY DEF Peopled
  <2>1. PICK b \in Actor : op[b].proc = q /\ (op[b].at \in Freeing \ {"unlink"} \/ (op[b].at \in Making /\ b # app))
    BY <1>1, <1>2, <1>9 DEF Peopled
  <2>2. CASE b = a
    BY <1>2, <1>3, <2>1, <2>2, <1>p DEF Freeing
  <2>3. CASE b # a
    BY <1>7, <2>1, <2>3
  <2>. QED BY <2>2, <2>3
<1>20. Housed'
  <2> SUFFICES ASSUME NEW u \in Tcb, tcb_used'[u], tcb'[u].pid # 0, ~Out(u)'
               PROVE  \E q \in Pcb : pcb_used'[q] /\ pcb'[q].pid = tcb'[u].pid
    BY DEF Housed
  <2>1. u # t /\ ~Out(u)
    BY <1>17
  <2>2. \A b \in Freer : op[b].at = "shift" => op[b].tcb = t
    BY <1>2, <1>t DEF AloneFrees, At
  <2>. QED BY <1>1, <1>2, <1>9, <2>1, <2>2 DEF Housed, At
<1>21. Owned'
  BY <1>1, <1>2, <1>7 DEF Owned
<1>22. Heaped'
  BY <1>1, <1>2 DEF Heaped, Stacks
<1>. QED BY <1>7, <1>8, <1>10, <1>11, <1>13, <1>14, <1>15, <1>16, <1>18, <1>19, <1>20, <1>21, <1>22 DEF TasksInv

LEMMA UnusedKeeps ==
  ASSUME TasksInv, NEW a \in Freer, Unused(a)
  PROVE  TasksInv'
<1> DEFINE t == op[a].tcb
<1>1. /\ Typing /\ Turns /\ Booting /\ Found /\ Made /\ Freed /\ Apart /\ SlotsAt
      /\ PidsUnique /\ Agree /\ Peopled /\ Housed /\ Owned /\ Heaped
  BY DEF TasksInv
<1>2. /\ op[a].at = "unuse" /\ op'[a].at = "wipe" /\ AloneFrees(a) /\ OpStep(a)
      /\ op'[a].proc = op[a].proc /\ op'[a].tcb = t /\ op'[a].arg = op[a].arg /\ op'[a].list = op[a].list
      /\ op'[a].stack = tcb[t].stack
      /\ TcbUsed(t, FALSE)
      /\ UNCHANGED <<tcb, pcb_used, pcb, next_pid, heap, args>>
  BY DEF Unused, At
<1>3. t \in Tcb /\ tcb[t].state = "zombie"
  BY <1>1, <1>2 DEF Freed, FreedAt, Freeing
<1>4. \A b \in Freer : b # a /\ op[b].at \in Freeing \ {"process?"} => op[b].tcb # t
  BY <1>1, <1>2 DEF Apart, Freer, Freeing
<1>5. \A b \in Freer : b = a <=> op[b].at \in Freeing \ {"process?"} /\ op[b].tcb = t
  BY <1>2, <1>4 DEF Freeing
<1> HIDE DEF t
<1>6. FreeSteps(a)
  <2>1. a \in Actor /\ op[a].arg = None
    BY <1>1, <1>2, Names DEF Turns, Creating, Making
  <2>. QED BY <1>1, <1>2, <2>1 DEF FreeSteps, Freeing, Turns
<1>7. /\ Turns' /\ Booting' /\ a \in Actor /\ \A b \in Actor : b # a => op'[b] = op[b]
      /\ \A m \in Maker : op'[m].at \in Creating => m # a /\ op'[m] = op[m]
      /\ \A m \in Maker : op'[m].arg # None => m # a /\ op'[m] = op[m]
  BY <1>1, <1>6, FreerTurns
<1>8. tcb_used' \in [Tcb -> BOOLEAN] /\ ~tcb_used'[t] /\ \A u \in Tcb : u # t => tcb_used'[u] = tcb_used[u]
  BY <1>2 DEF TcbUsed
<1>9. Typing'
  BY <1>1, <1>2, <1>8 DEF Typing, OpStep
<1>10. Found'
  <2>1. \A m \in Maker : op[m].at \in Making /\ op'[m] = op[m] =>
          /\ pcb_used'[op[m].proc] /\ (pcb'[op[m].proc].count = 0 \/ m = app)
          /\ m = app => pcb_used'[op[m].proc] /\ pcb'[op[m].proc].pid = pcb[op[m].proc].pid
    BY <1>1, <1>2 DEF Found, FoundAt
  <2>2. \A u \in Tcb : tcb_used[u] /\ tcb[u].state = "ready" => tcb_used'[u] /\ tcb'[u] = tcb[u]
    BY <1>2, <1>3, <1>8
  <2>. QED BY <1>1, <1>2, <1>7, <2>1, <2>2, FreerFound
<1>11. Made'
  BY <1>1, <1>2, <1>3, <1>7, <1>8, FreerMade
<1>12. \A u \in Tcb : Again(u) => Again(u)'
  BY <1>2, <1>8 DEF Again
<1>13. Freed'
  <2> SUFFICES ASSUME NEW b \in Freer PROVE FreedAt(b)'
    BY DEF Freed
  <2>1. FreedAt(b)
    BY <1>1 DEF Freed
  <2>2. CASE b = a
    BY <1>2, <1>3, <1>8, <2>2 DEF FreedAt, At
  <2>3. CASE b # a
    <3>1. op'[b] = op[b] /\ op[b].at # "shift"
      BY <1>2, <1>7, <2>3, Names DEF AloneFrees, At
    <3>2. op[b].at \in Freeing \ {"process?"} => op[b].tcb # t /\ op[b].tcb \in Tcb
      BY <1>4, <2>1, <2>3 DEF FreedAt
    <3>. QED BY <1>2, <1>8, <1>12, <2>1, <3>1, <3>2 DEF FreedAt, At, Freeing
  <2>. QED BY <2>2, <2>3
<1>14. Apart'
  <2>1. /\ \A b \in Freer : op'[b].at \in Freeing \ {"process?"} =>
             op[b].at \in Freeing \ {"process?"} /\ op'[b].tcb = op[b].tcb
        /\ op'[reaper].at \in Freeing => op[reaper].at \in Freeing
        /\ op'[reaper].proc = op[reaper].proc
        /\ \A m \in Manager : op'[m].at \in Making => op'[m] = op[m]
    BY <1>2, <1>7, Names, NotFreeing DEF Freeing, Freer, t
  <2>. QED BY <1>1, <2>1 DEF Apart, Freer
<1>15. SlotsAt'
  <2>1. \A u \in Tcb : ~tcb_used'[u] =>
          \/ tcb'[u] = Zeroed
          \/ \E b \in Freer : op'[b].tcb = u /\ (At(b, "wipe")' \/ (op'[b].at \in {"unlink", "unuse"} /\ Again(u)'))
    <3> SUFFICES ASSUME NEW u \in Tcb, ~tcb_used'[u], tcb'[u] # Zeroed
                 PROVE  \E b \in Freer : op'[b].tcb = u /\ (At(b, "wipe")' \/ (op'[b].at \in {"unlink", "unuse"} /\ Again(u)'))
      OBVIOUS
    <3>1. CASE u = t
      BY <1>2, <3>1 DEF At
    <3>2. CASE u # t
      <4>1. PICK b \in Freer : op[b].tcb = u /\ (At(b, "wipe") \/ (op[b].at \in {"unlink", "unuse"} /\ Again(u)))
        BY <1>1, <1>2, <1>8, <3>2 DEF SlotsAt
      <4>2. b # a
        BY <3>2, <4>1 DEF t
      <4>3. op'[b] = op[b]
        BY <1>7, <4>2, Names
      <4>. QED BY <1>12, <4>1, <4>3 DEF At
    <3>. QED BY <3>1, <3>2
  <2>2. \A u \in Tcb : tcb_used'[u] /\ (tcb'[u].pid = 0 \/ tcb'[u].state = "new") =>
          \E m \in Maker : op'[m].tcb = u /\ op'[m].at \in {"stack", "fill"}
    <3>1. \A m \in Maker : op[m].at \in {"stack", "fill"} => op'[m] = op[m]
      BY <1>2, <1>7, Names
    <3>2. \A u \in Tcb : tcb_used'[u] => tcb_used[u]
      BY <1>8
    <3>. QED BY <1>1, <1>2, <3>1, <3>2 DEF SlotsAt
  <2>. QED BY <1>1, <1>2, <2>1, <2>2 DEF SlotsAt
<1>16. PidsUnique'
  BY <1>1, <1>2 DEF PidsUnique
<1>17. /\ \A u \in Tcb : u # t => (Out(u)' <=> Out(u))
       /\ Out(t)
       /\ \A q \in Pcb : Reach(q)' = Reach(q)
  <2>1. \A u \in Tcb : u # t => (Out(u)' <=> Out(u))
    BY <1>2, <1>7, Names DEF Out, At, t
  <2>2. Out(t)
    BY <1>2 DEF Out, At, t
  <2>3. \A q \in Pcb : Compacted(q)' <=> Compacted(q)
    BY <1>2, <1>7, Names DEF Compacted, At
  <2>. QED BY <1>2, <2>1, <2>2, <2>3 DEF Reach
<1>18. Agree'
  <2>1. \A q \in Pcb, u \in Tcb : Has(q, u)' <=> Has(q, u)
    BY <1>2, <1>8, <1>17 DEF Has
  <2>. QED BY <1>1, <1>2, <1>17, <2>1 DEF Agree
<1>19. Peopled'
  <2> SUFFICES ASSUME NEW q \in Pcb, pcb_used'[q], pcb'[q].count = 0
               PROVE  \E b \in Actor : op'[b].proc = q /\ (op'[b].at \in Freeing \ {"unlink"} \/ (op'[b].at \in Making /\ b # app))
    BY DEF Peopled
  <2>1. PICK b \in Actor : op[b].proc = q /\ (op[b].at \in Freeing \ {"unlink"} \/ (op[b].at \in Making /\ b # app))
    BY <1>1, <1>2 DEF Peopled
  <2>2. CASE b = a
    BY <1>2, <2>1, <2>2 DEF Freeing
  <2>3. CASE b # a
    BY <1>7, <2>1, <2>3
  <2>. QED BY <2>2, <2>3
<1>20. Housed'
  <2> SUFFICES ASSUME NEW u \in Tcb, tcb_used'[u], tcb'[u].pid # 0
               PROVE  \/ Out(u)' \/ \E b \in Freer : At(b, "shift")' /\ op'[b].tcb = u
                      \/ \E q \in Pcb : pcb_used'[q] /\ pcb'[q].pid = tcb'[u].pid
    BY DEF Housed
  <2>1. u # t /\ tcb_used[u]
    BY <1>8
  <2>2. \A b \in Freer : op[b].at # "shift"
    BY <1>2 DEF AloneFrees, At
  <2>. QED BY <1>1, <1>2, <1>17, <2>1, <2>2 DEF Housed, At
<1>21. Owned'
  BY <1>1, <1>2, <1>7 DEF Owned
<1>22. Heaped'
  BY <1>1, <1>2 DEF Heaped, Stacks
<1>. QED BY <1>7, <1>9, <1>10, <1>11, <1>13, <1>14, <1>15, <1>16, <1>18, <1>19, <1>20, <1>21, <1>22 DEF TasksInv

LEMMA WipedKeeps ==
  ASSUME TasksInv, NEW a \in Freer, Wiped(a)
  PROVE  TasksInv'
<1>t. PICK t : t = op[a].tcb
  OBVIOUS
<1>s. PICK stack : stack = op[a].stack
  OBVIOUS
<1>1. /\ Typing /\ Turns /\ Booting /\ Found /\ Made /\ Freed /\ Apart /\ SlotsAt
      /\ PidsUnique /\ Agree /\ Peopled /\ Housed /\ Owned /\ Heaped
  BY DEF TasksInv
<1>2. /\ op[a].at = "wipe" /\ op'[a].at = "process?" /\ AloneFrees(a) /\ OpStep(a) /\ Same(a)
      /\ TcbStep(t) /\ tcb'[t] = Zeroed
      /\ heap' = IF stack = None THEN heap ELSE Free(heap, stack)
      /\ UNCHANGED <<tcb_used, pcb_used, pcb, next_pid, args>>
  BY <1>t, <1>s DEF Wiped, Went
<1>3. op'[a].tcb = t /\ op'[a].proc = op[a].proc /\ op'[a].arg = op[a].arg /\ op'[a].list = op[a].list
  BY <1>2, <1>t DEF Same
<1>4. t \in Tcb /\ ~tcb_used[t] /\ tcb[t].state = "zombie" /\ tcb[t].stack = stack
  BY <1>1, <1>2, <1>t, <1>s DEF Freed, FreedAt, At, Freeing
<1>5. \A b \in Freer : b # a /\ op[b].at \in Freeing \ {"process?"} => op[b].tcb # t
  BY <1>1, <1>2, <1>t DEF Apart, Freer, Freeing
<1>6. FreeSteps(a)
  <2>1. a \in Actor /\ op[a].arg = None
    BY <1>1, <1>2, Names DEF Turns, Creating, Making
  <2>. QED BY <1>1, <1>2, <1>3, <2>1 DEF FreeSteps, Freeing, Turns
<1>7. /\ Turns' /\ Booting' /\ a \in Actor /\ \A b \in Actor : b # a => op'[b] = op[b]
      /\ \A m \in Maker : op'[m].at \in Creating => m # a /\ op'[m] = op[m]
      /\ \A m \in Maker : op'[m].arg # None => m # a /\ op'[m] = op[m]
  BY <1>1, <1>6, FreerTurns
<1>8. /\ \A u \in Tcb : u # t => tcb'[u] = tcb[u]
      /\ tcb'[t].pid = 0 /\ tcb'[t].stack = None /\ tcb'[t].arg = None
  BY <1>2 DEF TcbStep, Zeroed
<1>9. Typing'
  BY <1>1, <1>2 DEF Typing, OpStep, TcbStep
<1>10. Found'
  <2>1. \A m \in Maker : op[m].at \in Making /\ op'[m] = op[m] =>
          /\ pcb_used'[op[m].proc] /\ (pcb'[op[m].proc].count = 0 \/ m = app)
          /\ m = app => pcb_used'[op[m].proc] /\ pcb'[op[m].proc].pid = pcb[op[m].proc].pid
    BY <1>1, <1>2 DEF Found, FoundAt
  <2>2. \A u \in Tcb : tcb_used[u] /\ tcb[u].state = "ready" => tcb_used'[u] /\ tcb'[u] = tcb[u]
    BY <1>2, <1>4, <1>8
  <2>. QED BY <1>1, <1>2, <1>7, <2>1, <2>2, FreerFound
<1>11. Made'
  <2>1. \A u \in Tcb : tcb[u].state = "new" => tcb'[u] = tcb[u] /\ tcb_used'[u] = tcb_used[u]
    BY <1>2, <1>4, <1>8
  <2>. QED BY <1>1, <1>7, <2>1, FreerMade
<1>12. \A u \in Tcb : u # t /\ Again(u) => Again(u)'
  BY <1>2, <1>8 DEF Again
<1>13. Freed'
  <2> SUFFICES ASSUME NEW b \in Freer PROVE FreedAt(b)'
    BY DEF Freed
  <2>1. FreedAt(b)
    BY <1>1 DEF Freed
  <2>2. CASE b = a
    BY <1>2, <1>3, <1>4, <2>2 DEF FreedAt, At
  <2>3. CASE b # a
    <3>1. op'[b] = op[b] /\ op[b].at # "shift"
      BY <1>2, <1>7, <2>3, Names DEF AloneFrees, At
    <3>2. op[b].at \in Freeing \ {"process?"} => op[b].tcb # t /\ op[b].tcb \in Tcb
      BY <1>5, <2>1, <2>3 DEF FreedAt
    <3>. QED BY <1>2, <1>8, <1>12, <2>1, <3>1, <3>2 DEF FreedAt, At, Freeing
  <2>. QED BY <2>2, <2>3
<1>14. Apart'
  <2>1. /\ \A b \in Freer : op'[b].at \in Freeing \ {"process?"} =>
             op[b].at \in Freeing \ {"process?"} /\ op'[b].tcb = op[b].tcb
        /\ op'[reaper].at \in Freeing => op[reaper].at \in Freeing
        /\ op'[reaper].proc = op[reaper].proc
        /\ \A m \in Manager : op'[m].at \in Making => op'[m] = op[m]
    BY <1>2, <1>3, <1>7, <1>t, Names, NotFreeing DEF Freeing, Freer
  <2>. QED BY <1>1, <2>1 DEF Apart, Freer
<1>15. SlotsAt'
  <2>1. \A u \in Tcb : ~tcb_used'[u] =>
          \/ tcb'[u] = Zeroed
          \/ \E b \in Freer : op'[b].tcb = u /\ (At(b, "wipe")' \/ (op'[b].at \in {"unlink", "unuse"} /\ Again(u)'))
    <3> SUFFICES ASSUME NEW u \in Tcb, ~tcb_used'[u], tcb'[u] # Zeroed
                 PROVE  \E b \in Freer : op'[b].tcb = u /\ (At(b, "wipe")' \/ (op'[b].at \in {"unlink", "unuse"} /\ Again(u)'))
      OBVIOUS
    <3>1. u # t
      BY <1>2
    <3>2. PICK b \in Freer : op[b].tcb = u /\ (At(b, "wipe") \/ (op[b].at \in {"unlink", "unuse"} /\ Again(u)))
      BY <1>1, <1>2, <1>8, <3>1 DEF SlotsAt
    <3>3. b # a
      BY <3>1, <3>2, <1>t
    <3>4. op'[b] = op[b]
      BY <1>7, <3>3, Names
    <3>. QED BY <1>12, <3>1, <3>2, <3>4 DEF At
  <2>2. \A u \in Tcb : tcb_used'[u] /\ (tcb'[u].pid = 0 \/ tcb'[u].state = "new") =>
          \E m \in Maker : op'[m].tcb = u /\ op'[m].at \in {"stack", "fill"}
    <3>1. \A m \in Maker : op[m].at \in {"stack", "fill"} => op'[m] = op[m]
      BY <1>2, <1>7, Names
    <3>2. \A u \in Tcb : tcb_used'[u] => tcb_used[u] /\ tcb'[u] = tcb[u]
      BY <1>2, <1>4, <1>8
    <3>. QED BY <1>1, <3>1, <3>2 DEF SlotsAt
  <2>. QED BY <1>1, <1>2, <2>1, <2>2 DEF SlotsAt
<1>16. PidsUnique'
  BY <1>1, <1>2 DEF PidsUnique
<1>17. (\A u \in Tcb : Out(u)' <=> Out(u)) /\ \A q \in Pcb : Reach(q)' = Reach(q)
  <2>1. \A u \in Tcb : Out(u)' <=> Out(u)
    BY <1>2, <1>7, Names DEF Out, At
  <2>2. \A q \in Pcb : Compacted(q)' <=> Compacted(q)
    BY <1>2, <1>7, Names DEF Compacted, At
  <2>. QED BY <1>2, <2>1, <2>2 DEF Reach
<1>18. Agree'
  <2>1. \A q \in Pcb, u \in Tcb : Has(q, u)' <=> Has(q, u)
    BY <1>2, <1>4, <1>8, <1>17 DEF Has
  <2>. QED BY <1>1, <1>2, <1>17, <2>1 DEF Agree
<1>19. Peopled'
  <2> SUFFICES ASSUME NEW q \in Pcb, pcb_used'[q], pcb'[q].count = 0
               PROVE  \E b \in Actor : op'[b].proc = q /\ (op'[b].at \in Freeing \ {"unlink"} \/ (op'[b].at \in Making /\ b # app))
    BY DEF Peopled
  <2>1. PICK b \in Actor : op[b].proc = q /\ (op[b].at \in Freeing \ {"unlink"} \/ (op[b].at \in Making /\ b # app))
    BY <1>1, <1>2 DEF Peopled
  <2>2. CASE b = a
    BY <1>2, <1>3, <2>1, <2>2 DEF Freeing
  <2>3. CASE b # a
    BY <1>7, <2>1, <2>3
  <2>. QED BY <2>2, <2>3
<1>20. Housed'
  <2> SUFFICES ASSUME NEW u \in Tcb, tcb_used'[u], tcb'[u].pid # 0
               PROVE  \/ Out(u)' \/ \E b \in Freer : At(b, "shift")' /\ op'[b].tcb = u
                      \/ \E q \in Pcb : pcb_used'[q] /\ pcb'[q].pid = tcb'[u].pid
    BY DEF Housed
  <2>1. u # t /\ tcb_used[u] /\ tcb'[u] = tcb[u]
    BY <1>2, <1>4, <1>8
  <2>2. \A b \in Freer : op[b].at # "shift"
    BY <1>2 DEF AloneFrees, At
  <2>. QED BY <1>1, <1>2, <1>17, <2>1, <2>2 DEF Housed, At
<1>21. Owned'
  <2>1. \A u \in Tcb : /\ tcb'[u].stack # None => tcb'[u].stack = tcb[u].stack
                       /\ tcb'[u].arg # None => tcb'[u].arg = tcb[u].arg
    BY <1>8
  <2>2. \A m \in Maker : op'[m].arg # None => \A u \in Tcb : tcb'[u].arg # op'[m].arg
    BY <1>1, <1>7, <1>8, <2>1 DEF Owned
  <2>. QED BY <1>1, <1>2, <1>7, <2>1, <2>2 DEF Owned
<1>22. Heaped'
  <2>1. CASE stack = None
    <3>1. Stacks' = Stacks
      <4>1. \A u \in Tcb : tcb'[u].stack = tcb[u].stack
        BY <1>4, <1>8, <2>1
      <4>. QED BY <4>1 DEF Stacks
    <3>. QED BY <1>1, <1>2, <2>1, <3>1 DEF Heaped
  <2>2. CASE stack # None
    <3>1. stack \in Stacks /\ stack \notin args
      BY <1>1, <1>4, <2>2 DEF Stacks, Owned
    <3>2. Stacks' = Stacks \ {stack}
      <4>1. \A u \in Tcb : u # t /\ tcb[u].stack # None => tcb[u].stack # stack
        BY <1>1, <1>4 DEF Owned
      <4>2. \A u \in Tcb : tcb'[u].stack # None <=> tcb[u].stack # None /\ u # t
        BY <1>8
      <4>. QED BY <1>4, <1>8, <4>1, <4>2 DEF Stacks
    <3>3. Whole(heap) /\ UsedBlocks(heap) = Stacks \union args /\ stack \in UsedBlocks(heap)
      BY <1>1, <3>1 DEF Heaped
    <3>4. Whole(Free(heap, stack)) /\ UsedBlocks(Free(heap, stack)) = UsedBlocks(heap) \ {stack}
      BY <3>3, FreeWorks
    <3>5. Whole(heap') /\ UsedBlocks(heap') = Stacks' \union args'
      BY <1>2, <2>2, <3>1, <3>2, <3>3, <3>4
    <3>. QED BY <3>5 DEF Heaped, Whole, UsedBlocks, Tiles, Coalesced
  <2>. QED BY <2>1, <2>2
<1>. QED BY <1>7, <1>9, <1>10, <1>11, <1>13, <1>14, <1>15, <1>16, <1>18, <1>19, <1>20, <1>21, <1>22 DEF TasksInv

LEMMA ProcessFreedKeeps ==
  ASSUME TasksInv, NEW a \in Freer, ProcessFreed(a)
  PROVE  TasksInv'
<1>p. PICK p : p = op[a].proc
  OBVIOUS
<1>1. /\ Typing /\ Turns /\ Booting /\ Found /\ Made /\ Freed /\ Apart /\ SlotsAt
      /\ PidsUnique /\ Agree /\ Peopled /\ Housed /\ Owned /\ Heaped
  BY DEF TasksInv
<1>2. /\ op[a].at = "process?" /\ AloneFrees(a) /\ OpStep(a) /\ op'[a].at \in {"idle", "mark"}
      /\ op'[a].arg = None
      /\ a = reaper => op'[a] = NoOp
      /\ op'[a].at = "mark" => op'[a].list # <<>>
      /\ UNCHANGED <<tcb_used, tcb, next_pid, heap, args>>
  BY DEF ProcessFreed, At
<1>3. /\ pcb_used' \in [Pcb -> BOOLEAN] /\ pcb' \in [Pcb -> PcbRecords]
      /\ \A q \in Pcb : q # p => pcb_used'[q] = pcb_used[q] /\ pcb'[q] = pcb[q]
      /\ \A q \in Pcb : q = p /\ pcb[q].count = 0 => ~pcb_used'[q] /\ pcb'[q] = ZeroedProcess
      /\ \A q \in Pcb : pcb[q].count # 0 => pcb_used'[q] = pcb_used[q] /\ pcb'[q] = pcb[q]
  <2>1. CASE p \in Pcb /\ pcb[p].count = 0 /\ PcbUsed(p, FALSE) /\ PcbStep(p) /\ pcb'[p] = ZeroedProcess
    BY <2>1 DEF PcbUsed, PcbStep
  <2>2. CASE (p \in Pcb => pcb[p].count # 0) /\ UNCHANGED <<pcb_used, pcb>>
    BY <1>1, <2>2 DEF Typing
  <2>. QED BY <1>p, <2>1, <2>2 DEF ProcessFreed
<1>4. \A q \in Pcb : pcb_used'[q] => pcb_used[q] /\ pcb'[q] = pcb[q] /\ ~(q = p /\ pcb[q].count = 0)
  BY <1>3
<1>5. \A b \in Freer : op[b].at # "shift"
  BY <1>2 DEF AloneFrees, At
<1>6. FreeSteps(a)
  <2>1. a \in Actor /\ NoOp.at = "idle" /\ NoOp.list = <<>>
    BY Names, NoOpTyped
  <2>. QED BY <1>2, <2>1 DEF FreeSteps, Freeing, Freer
<1>7. /\ Turns' /\ Booting' /\ a \in Actor /\ \A b \in Actor : b # a => op'[b] = op[b]
      /\ \A m \in Maker : op'[m].at \in Creating => m # a /\ op'[m] = op[m]
      /\ \A m \in Maker : op'[m].arg # None => m # a /\ op'[m] = op[m]
  BY <1>1, <1>6, FreerTurns
<1>8. Typing'
  BY <1>1, <1>2, <1>3 DEF Typing, OpStep
\* Nothing is left of a process that is freed.
<1>9. \A q \in Pcb, u \in Tcb : pcb_used[q] /\ pcb[q].count = 0 => ~Has(q, u)
  <2> SUFFICES ASSUME NEW q \in Pcb, NEW u \in Tcb, pcb_used[q], pcb[q].count = 0, Has(q, u)
               PROVE  FALSE
    OBVIOUS
  <2>1. Reach(q) = 0
    BY <1>5 DEF Reach, Compacted, At
  <2>2. PICK i \in 1..Reach(q) : pcb[q].threads[i] = u
    BY <1>1 DEF Agree
  <2>. QED BY <2>1, <2>2
<1>10. Found'
  <2>1. \A m \in Maker : op[m].at \in Making /\ op'[m] = op[m] => pcb_used'[op[m].proc] /\ pcb'[op[m].proc] = pcb[op[m].proc]
    <3> SUFFICES ASSUME NEW m \in Maker, op[m].at \in Making, op'[m] = op[m]
                 PROVE  pcb_used'[op[m].proc] /\ pcb'[op[m].proc] = pcb[op[m].proc]
      OBVIOUS
    <3>1. m # a /\ m \in Actor
      BY <1>2, Names DEF Making
    <3>2. a = reaper
      <4>1. a # shell
        BY <1>2, <3>1 DEF AloneFrees, At, Making
      <4>. QED BY <4>1 DEF Freer
    <3>3. op[m].proc \in Pcb /\ pcb_used[op[m].proc]
      BY <1>1 DEF Found, FoundAt
    <3>4. CASE m = app
      <4>1. /\ op[m].by \in Tcb /\ tcb_used[op[m].by]
            /\ tcb[op[m].by].state = "ready" /\ tcb[op[m].by].pid = pcb[op[m].proc].pid
        BY <1>1, <3>4 DEF Found, FoundAt
      <4>2. ~Out(op[m].by)
        <5> SUFFICES ASSUME NEW b \in Freer, op[b].at = "unuse", op[b].tcb = op[m].by PROVE FALSE
          BY DEF Out, At
        <5>. QED BY <1>1, <4>1 DEF Freed, FreedAt, Freeing
      <4>3. Has(op[m].proc, op[m].by)
        BY <4>1, <4>2 DEF Has
      <4>4. pcb[op[m].proc].count # 0
        BY <1>9, <3>3, <4>1, <4>3
      <4>. QED BY <1>3, <3>3, <4>4
    <3>5. CASE m # app
      <4>1. m \in Manager
        BY <3>5 DEF Maker
      <4>2. op[m].proc # p
        BY <1>1, <1>2, <1>p, <3>2, <4>1 DEF Apart, Freeing
      <4>. QED BY <1>3, <3>3, <4>2
    <3>. QED BY <3>4, <3>5
  <2>2. \A m \in Maker : op[m].at \in Making /\ op'[m] = op[m] =>
          /\ pcb_used'[op[m].proc] /\ (pcb'[op[m].proc].count = 0 \/ m = app)
          /\ m = app => pcb_used'[op[m].proc] /\ pcb'[op[m].proc].pid = pcb[op[m].proc].pid
    BY <1>1, <2>1 DEF Found, FoundAt
  <2>3. \A u \in Tcb : tcb_used[u] /\ tcb[u].state = "ready" => tcb_used'[u] /\ tcb'[u] = tcb[u]
    BY <1>2
  <2>4. \A q \in Pcb : pcb_used'[q] => pcb_used[q] /\ pcb'[q].pid = pcb[q].pid
    BY <1>4
  <2>. QED BY <1>1, <1>7, <2>2, <2>3, <2>4, FreerFound
<1>11. Made'
  <2>1. \A u \in Tcb : tcb[u].state = "new" => tcb'[u] = tcb[u] /\ tcb_used'[u] = tcb_used[u]
    BY <1>2
  <2>. QED BY <1>1, <1>7, <2>1, FreerMade
<1>12. \A u \in Tcb : Again(u)' <=> Again(u)
  BY <1>2 DEF Again
<1>13. Freed'
  <2> SUFFICES ASSUME NEW b \in Freer PROVE FreedAt(b)'
    BY DEF Freed
  <2>1. FreedAt(b)
    BY <1>1 DEF Freed
  <2>2. CASE b = a
    BY <1>2, <2>2, NotFreeing DEF FreedAt, At, Freeing
  <2>3. CASE b # a
    <3>1. op'[b] = op[b] /\ op[b].at # "shift"
      BY <1>5, <1>7, <2>3, Names
    <3>. QED BY <1>2, <1>12, <2>1, <3>1 DEF FreedAt, At, Freeing
  <2>. QED BY <2>2, <2>3
<1>14. Apart'
  <2>1. /\ \A b \in Freer : op'[b].at \in Freeing => b # a /\ op'[b] = op[b]
        /\ \A m \in Manager : op'[m].at \in Making => op'[m] = op[m]
    BY <1>2, <1>7, Names, NotFreeing DEF Freeing, Creating
  <2>. QED BY <1>1, <2>1 DEF Apart, Freer
<1>15. SlotsAt'
  <2>1. \A u \in Tcb : ~tcb_used'[u] =>
          \/ tcb'[u] = Zeroed
          \/ \E b \in Freer : op'[b].tcb = u /\ (At(b, "wipe")' \/ (op'[b].at \in {"unlink", "unuse"} /\ Again(u)'))
    <3> SUFFICES ASSUME NEW u \in Tcb, ~tcb_used'[u], tcb'[u] # Zeroed
                 PROVE  \E b \in Freer : op'[b].tcb = u /\ (At(b, "wipe")' \/ (op'[b].at \in {"unlink", "unuse"} /\ Again(u)'))
      OBVIOUS
    <3>1. PICK b \in Freer : op[b].tcb = u /\ (At(b, "wipe") \/ (op[b].at \in {"unlink", "unuse"} /\ Again(u)))
      BY <1>1, <1>2 DEF SlotsAt
    <3>2. b # a
      BY <1>2, <3>1 DEF At
    <3>3. op'[b] = op[b]
      BY <1>7, <3>2, Names
    <3>. QED BY <1>12, <3>1, <3>3 DEF At
  <2>2. \A u \in Tcb : tcb_used'[u] /\ (tcb'[u].pid = 0 \/ tcb'[u].state = "new") =>
          \E m \in Maker : op'[m].tcb = u /\ op'[m].at \in {"stack", "fill"}
    <3>1. \A m \in Maker : op[m].at \in {"stack", "fill"} => op'[m] = op[m]
      BY <1>2, <1>7, Names
    <3>. QED BY <1>1, <1>2, <3>1 DEF SlotsAt
  <2>3. \A q \in Pcb : IF pcb_used'[q] THEN pcb'[q].pid \in Pid ELSE pcb'[q] = ZeroedProcess
    BY <1>1, <1>3 DEF SlotsAt
  <2>. QED BY <2>1, <2>2, <2>3 DEF SlotsAt
<1>16. PidsUnique'
  BY <1>1, <1>4 DEF PidsUnique
<1>17. (\A u \in Tcb : Out(u)' <=> Out(u)) /\ \A q \in Pcb : pcb_used'[q] => Reach(q)' = Reach(q)
  <2>1. \A u \in Tcb : Out(u)' <=> Out(u)
    BY <1>2, <1>7, Names DEF Out, At
  <2>2. \A q \in Pcb : ~Compacted(q)' /\ ~Compacted(q)
    BY <1>2, <1>5, <1>7, Names DEF Compacted, At
  <2>. QED BY <1>4, <2>1, <2>2 DEF Reach
<1>18. Agree'
  <2>1. \A q \in Pcb, u \in Tcb : pcb_used'[q] => (Has(q, u)' <=> Has(q, u))
    BY <1>2, <1>4, <1>17 DEF Has
  <2>. QED BY <1>1, <1>4, <1>17, <2>1 DEF Agree
<1>19. Peopled'
  <2> SUFFICES ASSUME NEW q \in Pcb, pcb_used'[q], pcb'[q].count = 0
               PROVE  \E b \in Actor : op'[b].proc = q /\ (op'[b].at \in Freeing \ {"unlink"} \/ (op'[b].at \in Making /\ b # app))
    BY DEF Peopled
  <2>1. PICK b \in Actor : op[b].proc = q /\ (op[b].at \in Freeing \ {"unlink"} \/ (op[b].at \in Making /\ b # app))
    BY <1>1, <1>4 DEF Peopled
  <2>2. b # a
    BY <1>4, <1>p, <2>1
  <2>. QED BY <1>7, <2>1, <2>2
<1>20. Housed'
  <2> SUFFICES ASSUME NEW u \in Tcb, tcb_used'[u], tcb'[u].pid # 0, ~Out(u)'
               PROVE  \E q \in Pcb : pcb_used'[q] /\ pcb'[q].pid = tcb'[u].pid
    BY DEF Housed
  <2>1. ~Out(u) /\ tcb_used[u] /\ tcb'[u] = tcb[u]
    BY <1>2, <1>17
  <2>2. PICK q \in Pcb : pcb_used[q] /\ pcb[q].pid = tcb[u].pid
    BY <1>1, <1>2, <1>5, <2>1 DEF Housed, At
  <2>3. pcb[q].count # 0
    BY <1>9, <2>1, <2>2 DEF Has
  <2>. QED BY <1>3, <2>1, <2>2, <2>3
<1>21. Owned'
  BY <1>1, <1>2, <1>7 DEF Owned
<1>22. Heaped'
  BY <1>1, <1>2 DEF Heaped, Stacks
<1>. QED BY <1>7, <1>8, <1>10, <1>11, <1>13, <1>14, <1>15, <1>16, <1>18, <1>19, <1>20, <1>21, <1>22 DEF TasksInv

-----------------------------------------------------------------------------
(* The invariant.                                                          *)

LEMMA TasksBegin == TasksInit => TasksInv
<1> SUFFICES ASSUME TasksInit PROVE TasksInv
  OBVIOUS
<1>1. /\ tcb_used = [t \in Tcb |-> FALSE] /\ tcb = [t \in Tcb |-> Zeroed]
      /\ pcb_used = [p \in Pcb |-> FALSE] /\ pcb = [p \in Pcb |-> ZeroedProcess]
      /\ next_pid = [r \in PidRange |-> Limits[r][1]]
      /\ heap = kmem_init /\ args = {}
      /\ op = [a \in Actor |-> IF a = shell THEN [NoOp EXCEPT !.at = "boot"] ELSE NoOp]
  BY DEF TasksInit
<1>2. op \in [Actor -> OpRecords] /\ \A a \in Actor : op[a].at = (IF a = shell THEN "boot" ELSE "idle") /\ op[a].arg = None
                                                      /\ op[a].list = <<>>
  <2>1. NoOp \in OpRecords /\ NoOp.at = "idle" /\ NoOp.arg = None /\ NoOp.list = <<>>
    BY NoOpTyped
  <2>2. "boot" \in Places
    BY DEF Places
  <2>3. [NoOp EXCEPT !.at = "boot"] \in OpRecords
    BY <2>1, <2>2 DEF OpRecords
  <2>4. [NoOp EXCEPT !.at = "boot"].at = "boot" /\ [NoOp EXCEPT !.at = "boot"].arg = None /\ [NoOp EXCEPT !.at = "boot"].list = <<>>
    BY <2>1 DEF NoOp
  <2> DEFINE booting == [NoOp EXCEPT !.at = "boot"]
  <2>5. booting \in OpRecords /\ booting.at = "boot" /\ booting.arg = None /\ booting.list = <<>>
    BY <2>3, <2>4
  <2>6. op = [a \in Actor |-> IF a = shell THEN booting ELSE NoOp]
    BY <1>1
  <2> HIDE DEF booting
  <2>. QED BY <2>1, <2>5, <2>6
<1>3. /\ shell \in Manager /\ reaper \notin Manager /\ app # reaper /\ app \notin Manager
      /\ Maker \subseteq Actor /\ Freer \subseteq Actor /\ reaper \in Actor /\ app \in Maker /\ Manager \subseteq Maker
      /\ reaper \notin Maker
  BY Names DEF Actor, Maker
<1>4. /\ Zeroed \in TcbRecords /\ Zeroed.pid = 0 /\ Zeroed.stack = None /\ Zeroed.arg = None /\ Zeroed.state = "new"
      /\ ZeroedProcess \in PcbRecords
  BY ZeroedTyped
<1>5. /\ \A t \in Tcb : ~tcb_used[t] /\ tcb[t] = Zeroed
      /\ \A p \in Pcb : ~pcb_used[p] /\ pcb[p] = ZeroedProcess
      /\ tcb \in [Tcb -> TcbRecords] /\ pcb \in [Pcb -> PcbRecords]
      /\ tcb_used \in [Tcb -> BOOLEAN] /\ pcb_used \in [Pcb -> BOOLEAN]
  BY <1>1, <1>4
<1>6. Typing
  <2>1. \A r \in PidRange : Limits[r][1] \in PidsOf(r) /\ Limits[r][1] \in Nat
    BY Names, TasksAssumption
  <2>2. next_pid \in [PidRange -> Nat] /\ \A r \in PidRange : next_pid[r] \in PidsOf(r)
    BY <1>1, <2>1
  <2>. QED BY <1>1, <1>2, <1>5, <2>2 DEF Typing
<1>7. /\ \A a \in Actor : op[a].at \notin Making \union Creating \union Freeing \union {"mark", "snapshot"}
  BY <1>2 DEF Making, Creating, Freeing
<1>8. Turns
  BY <1>2, <1>3 DEF Turns, At, Maker
<1>9. Booting
  BY <1>2, <1>3, <1>4, <1>5 DEF Booting, At
<1>10. Found
  BY <1>3, <1>7 DEF Found, FoundAt, At, Creating, Making
<1>11. Made
  BY <1>3, <1>7 DEF Made, Making
<1>12. Freed /\ Apart
  BY <1>3, <1>7 DEF Freed, FreedAt, At, Apart, Freer, Freeing
<1>13. SlotsAt /\ PidsUnique /\ Agree /\ Peopled /\ Housed
  BY <1>5 DEF SlotsAt, PidsUnique, Agree, Peopled, Housed
<1>14. Owned
  BY <1>2, <1>3, <1>4, <1>5 DEF Owned
<1>15. Heaped
  <2>1. Stacks = {}
    BY <1>4, <1>5 DEF Stacks
  <2>. QED BY <1>1, <2>1, HeapBegins DEF Heaped
<1>. QED BY <1>6, <1>8, <1>9, <1>10, <1>11, <1>12, <1>13, <1>14, <1>15 DEF TasksInv

LEMMA TasksStays == ASSUME TasksInv, UNCHANGED tvars PROVE TasksInv'
<1>1. UNCHANGED <<tcb_used, tcb, pcb_used, pcb, next_pid, heap, args, op>>
  BY DEF tvars, pools
<1>2. (\A t \in Tcb : Again(t)' <=> Again(t)) /\ \A m \in Maker : Blank(m)' <=> Blank(m)
  BY <1>1 DEF Again, Blank, At
<1>3. Typing' /\ Turns' /\ Booting' /\ Apart' /\ PidsUnique' /\ Peopled' /\ Owned'
  BY <1>1 DEF TasksInv, Typing, Turns, Booting, Apart, PidsUnique, Peopled, Owned, At
<1>4. Found'
  BY <1>1 DEF TasksInv, Found, FoundAt, At
<1>5. Made'
  BY <1>1, <1>2 DEF TasksInv, Made
<1>6. Freed'
  BY <1>1 DEF TasksInv, Freed, FreedAt, Again, At
<1>7. SlotsAt'
  BY <1>1, <1>2 DEF TasksInv, SlotsAt, At
<1>8. (\A t \in Tcb : Out(t)' <=> Out(t)) /\ \A p \in Pcb : Reach(p)' = Reach(p)
  BY <1>1 DEF Out, Reach, Compacted, At
<1>9. Agree'
  <2>1. \A p \in Pcb, t \in Tcb : Has(p, t)' <=> Has(p, t)
    BY <1>1, <1>8 DEF Has
  <2>. QED BY <1>1, <1>8, <2>1 DEF TasksInv, Agree
<1>10. Housed'
  BY <1>1, <1>8 DEF TasksInv, Housed, At
<1>11. Heaped'
  BY <1>1 DEF TasksInv, Heaped, Stacks
<1>. QED BY <1>3, <1>4, <1>5, <1>6, <1>7, <1>9, <1>10, <1>11 DEF TasksInv

LEMMA TasksKeeps ==
  ASSUME TasksInv, SerialNext
  PROVE  TasksInv'
<1>1. /\ Typing /\ Turns /\ Found /\ Made /\ Freed /\ Apart /\ SlotsAt /\ Agree /\ Heaped
  BY DEF TasksInv
<1>2. ASSUME NEW m \in Manager, NEW r \in PidRange, Starts(m, r) PROVE TasksInv'
  BY <1>2, StartKeeps
<1>3. CASE StartsNothing
  BY <1>3, StartsNothingKeeps
<1>4. ASSUME NEW m \in Manager, Runs(m), TakePid(m) \/ CopyArg(m) \/ CheckPid(m) \/ ScanProcesses(m) \/ ClaimProcess(m)
      PROVE  TasksInv'
  <2>0. m \in Maker
    BY Names
  <2>1. CASE TakePid(m)
    BY <1>4, <2>1, TakePidKeeps
  <2>2. CASE CopyArg(m)
    BY <1>4, <2>2, CopyArgKeeps
  <2>3. CASE CheckPid(m)
    BY <1>1, <1>4, <2>0, <2>3, CheckPidEffect, QuitKeeps, CheckedKeeps
  <2>4. CASE ScanProcesses(m)
    BY <1>1, <1>4, <2>0, <2>4, ScanProcessesEffect, QuitKeeps, ProcessFoundKeeps
  <2>5. CASE ClaimProcess(m)
    BY <1>1, <1>4, <2>5, ClaimProcessEffect, ProcessClaimedKeeps
  <2>. QED BY <1>4, <2>1, <2>2, <2>3, <2>4, <2>5
<1>5. ASSUME NEW m \in Maker, Runs(m), ScanThreads(m) \/ ClaimThread(m) \/ AllocStack(m) \/ Publish(m)
      PROVE  TasksInv'
  <2>1. CASE ScanThreads(m)
    BY <1>1, <1>5, <2>1, ScanThreadsEffect, QuitKeeps, ThreadFoundKeeps
  <2>2. CASE ClaimThread(m)
    BY <1>1, <1>5, <2>2, ClaimThreadEffect, ThreadClaimedKeeps
  <2>3. CASE AllocStack(m)
    BY <1>1, <1>5, <2>3, AllocStackEffect, QuitKeeps, StackGotKeeps
  <2>4. CASE Publish(m)
    <3>1. At(m, "fill")
      BY <2>4 DEF Publish
    <3>2. pcb[op[m].proc].count + 1 \in 1..MAX_THREADS
      BY <1>1, <1>5, <3>1, Room
    <3>3. Published(m)
      BY <1>1, <1>5, <2>4, PublishEffect
    <3>. QED BY <3>2, <3>3, PublishedKeeps
  <2>. QED BY <1>5, <2>1, <2>2, <2>3, <2>4
<1>6. ASSUME NEW c \in Tcb, Busy = {}, ThreadCreate(c) PROVE TasksInv'
  BY <1>1, <1>6, ThreadCreateEffect, AskedKeeps
<1>7. CASE Busy = {} /\ (cmd_kill \/ cmd_killproc)
  BY <1>1, <1>7, KillBegins, KillBegunKeeps
<1>8. CASE Runs(shell) /\ Snapshot(shell)
  BY <1>1, <1>8, SnapshotEffect, SnappedKeeps
<1>9. CASE Runs(shell) /\ Mark(shell)
  <2>1. Marked
    BY <1>1, <1>9, MarkEffect
  <2>2. CASE MarkedNothing
    BY <2>1, <2>2, MarkedNothingKeeps
  <2>3. ASSUME NEW t \in Tcb, MarkedZombie(t) \/ MarkedDying(t) PROVE TasksInv'
    <3>1. CASE MarkedDying(t)
      BY <2>1, <3>1, MarkedDyingKeeps
    <3>2. CASE MarkedZombie(t)
      <4>1. tcb[t].state \in {"new", "ready"}
        BY <3>2 DEF MarkedZombie
      <4>. QED BY <2>1, <3>2, <4>1, MarkedZombieKeeps, MarkedAgainKeeps
    <3>. QED BY <2>3, <3>1, <3>2
  <2>. QED BY <2>1, <2>2, <2>3 DEF Marked
<1>10. ASSUME NEW a \in Freer, Runs(a), Unlink(a) \/ Shift(a) \/ Unuse(a) \/ Wipe(a) \/ FreeProcess(a)
       PROVE  TasksInv'
  <2>1. CASE Unlink(a)
    BY <1>1, <1>10, <2>1, UnlinkEffect, OrphanedKeeps, UnlinkedKeeps
  <2>2. CASE Shift(a)
    <3>1. At(a, "shift")
      BY <2>2 DEF Shift
    <3>. QED BY <1>1, <1>10, <2>2, <3>1, ShiftEffect, ShiftedKeeps
  <2>3. CASE Unuse(a)
    BY <1>1, <1>10, <2>3, UnuseEffect, UnusedKeeps
  <2>4. CASE Wipe(a)
    BY <1>1, <1>10, <2>4, WipeEffect, WipedKeeps
  <2>5. CASE FreeProcess(a)
    BY <1>1, <1>10, <2>5, FreeProcessEffect, ProcessFreedKeeps
  <2>. QED BY <1>10, <2>1, <2>2, <2>3, <2>4, <2>5
<1>11. ASSUME NEW t \in Tcb, AppsRun, TakesArg(t) \/ Exits(t) \/ Waits(t) \/ Woken(t) PROVE TasksInv'
  <2>1. CASE TakesArg(t)
    BY <1>1, <2>1, TakesArgEffect, ArgTakenKeeps
  <2>2. CASE Exits(t)
    BY <1>1, <1>11, <2>2, ExitsEffect, ExitedKeeps
  <2>3. CASE Waits(t)
    BY <1>1, <1>11, <2>3, WaitsEffect, WaitedKeeps
  <2>4. CASE Woken(t)
    BY <1>1, <1>11, <2>4, WokenEffect, WaitedKeeps, WokenToDieKeeps
  <2>. QED BY <1>11, <2>1, <2>2, <2>3, <2>4
<1>12. DOMAIN op = Actor
  BY <1>1 DEF Typing
<1>. QED BY <1>1, <1>2, <1>3, <1>4, <1>5, <1>6, <1>7, <1>8, <1>9, <1>10, <1>11, <1>12, TasksSteps

\* TasksInv holds while operations are kept apart: what the other theorems rest
\* on.
THEOREM ProcessesStand == SerialSpec => []TasksInv
<1>1. TasksInit => TasksInv
  BY TasksBegin
<1>2. TasksInv /\ [SerialNext]_tvars => TasksInv'
  BY TasksKeeps, TasksStays
<1>. QED BY <1>1, <1>2, PTL DEF SerialSpec

-----------------------------------------------------------------------------
(* What it says of the pools and the heap.                                 *)

\* The size of an image, by a function that is perhaps not injective.
LEMMA ImageSize ==
  ASSUME NEW S, IsFiniteSet(S), NEW g
  PROVE  /\ IsFiniteSet({g[x] : x \in S})
         /\ (\A x, y \in S : g[x] = g[y] => x = y) => Cardinality({g[x] : x \in S}) = Cardinality(S)
<1> DEFINE T == {g[x] : x \in S}
           f == [x \in S |-> g[x]]
<1>1. f \in [S -> T] /\ \A y \in T : \E x \in S : f[x] = y
  OBVIOUS
<1>2. (\A x, y \in S : g[x] = g[y] => x = y) => IsInjective(f)
  BY DEF IsInjective
<1> HIDE DEF T, f
<1>3. f \in Surjection(S, T)
  BY <1>1 DEF Surjection
<1>4. (\A x, y \in S : g[x] = g[y] => x = y) => f \in Injection(S, T)
  BY <1>1, <1>2 DEF Injection
<1>5. IsFiniteSet(T) /\ (Cardinality(T) = Cardinality(S) <=> f \in Injection(S, T))
  BY <1>3, FS_Surjection
<1>. QED BY <1>4, <1>5 DEF T

LEMMA HeapAdds == TasksInv => HeapAccounted
<1> SUFFICES ASSUME TasksInv PROVE HeapAccounted
  OBVIOUS
<1> DEFINE Stacked == {t \in Tcb : tcb[t].stack # None}
<1>1. Whole(heap) /\ UsedBlocks(heap) = Stacks \union args /\ Owned
  BY DEF TasksInv, Heaped
<1>2. Stacks = {tcb[t].stack : t \in Stacked}
  BY DEF Stacks
<1>3. IsFiniteSet(Stacked)
  <2>1. IsFiniteSet(Tcb)
    <3>1. 0 \in Int /\ MAX_THREADS - 1 \in Int
      BY TasksAssumption
    <3>2. IsFiniteSet(0..MAX_THREADS - 1)
      BY <3>1, FS_Interval
    <3>. QED BY <3>2 DEF Tcb
  <2>2. Stacked \in SUBSET Tcb
    OBVIOUS
  <2>. QED BY <2>1, <2>2, FS_Subset
<1>4. IsFiniteSet(Stacks) /\ Cardinality(Stacks) = Cardinality(Stacked)
  <2> DEFINE g == [t \in Stacked |-> tcb[t].stack]
  <2>1. Stacks = {g[t] : t \in Stacked}
    BY <1>2
  <2>2. \A t, u \in Stacked : g[t] = g[u] => t = u
    BY <1>1 DEF Owned
  <2> HIDE DEF g, Stacked
  <2>3. /\ IsFiniteSet({g[t] : t \in Stacked})
        /\ (\A t, u \in Stacked : g[t] = g[u] => t = u) => Cardinality({g[t] : t \in Stacked}) = Cardinality(Stacked)
    BY <1>3, ImageSize
  <2>. QED BY <2>1, <2>2, <2>3
<1>5. IsFiniteSet(args)
  <2> DEFINE Used == {k \in DOMAIN heap : ~heap[k].free}
             g == [k \in Used |-> heap[k].at]
  <2>1. DOMAIN heap = 1..Len(heap) /\ Len(heap) \in Nat
    BY <1>1 DEF Whole
  <2>2. IsFiniteSet(1..Len(heap))
    BY <2>1, FS_Interval
  <2>3. Used \in SUBSET (1..Len(heap))
    BY <2>1
  <2>4. IsFiniteSet(Used)
    BY <2>2, <2>3, FS_Subset
  <2>5. UsedBlocks(heap) = {g[k] : k \in Used}
    BY DEF UsedBlocks
  <2> HIDE DEF g, Used
  <2>6. IsFiniteSet({g[k] : k \in Used})
    BY <2>4, ImageSize
  <2>7. args \in SUBSET UsedBlocks(heap)
    BY <1>1
  <2>. QED BY <2>5, <2>6, <2>7, FS_Subset
<1>6. Stacks \intersect args = {}
  BY <1>1 DEF Owned, Stacks
<1>7. Cardinality(Stacks \union args) = Cardinality(Stacked) + Cardinality(args)
  <2>1. Cardinality(Stacks \union args) = Cardinality(Stacks) + Cardinality(args) - Cardinality(Stacks \intersect args)
    BY <1>4, <1>5, FS_Union
  <2>2. Cardinality(Stacks \intersect args) = 0
    BY <1>6, FS_EmptySet
  <2>3. Cardinality(Stacks) \in Nat /\ Cardinality(args) \in Nat
    BY <1>4, <1>5, FS_CardinalityType
  <2>. QED BY <1>4, <2>1, <2>2, <2>3
<1>. QED BY <1>1, <1>2, <1>7 DEF HeapAccounted, Whole

LEMMA PoolsMatch == TasksInv => PoolsAgree
<1> SUFFICES ASSUME TasksInv, Busy = {} PROVE PoolsAgree
  BY DEF PoolsAgree
<1>1. Typing /\ SlotsAt /\ Agree /\ Peopled /\ Housed
  BY DEF TasksInv
<1>2. \A a \in Actor : op[a].at = "idle"
  BY DEF Busy, At
<1>3. Maker \subseteq Actor /\ Freer \subseteq Actor
  BY Names
<1>4. (\A t \in Tcb : ~Out(t)) /\ \A p \in Pcb : Reach(p) = pcb[p].count
  BY <1>2, <1>3 DEF Out, Reach, Compacted, At
<1>5. ASSUME NEW p \in Pcb, pcb_used[p]
      PROVE  /\ pcb[p].count > 0
             /\ Threads(p) = {t \in Tcb : tcb_used[t] /\ tcb[t].pid = pcb[p].pid}
             /\ Cardinality(Threads(p)) = pcb[p].count
  <2>1. pcb[p].count \in Nat
    BY <1>1, TasksAssumption DEF Typing, PcbRecords
  <2>2. pcb[p].count # 0
    BY <1>1, <1>2, <1>5, NotFreeing DEF Peopled, Freeing, Making
  <2>3. /\ \A i \in 1..pcb[p].count : pcb[p].threads[i] \in Tcb /\ Has(p, pcb[p].threads[i])
        /\ \A t \in Tcb : Has(p, t) => \E i \in 1..pcb[p].count : pcb[p].threads[i] = t
        /\ \A i, j \in 1..pcb[p].count : pcb[p].threads[i] = pcb[p].threads[j] => i = j
    BY <1>1, <1>4, <1>5 DEF Agree
  <2>4. Threads(p) = {t \in Tcb : tcb_used[t] /\ tcb[t].pid = pcb[p].pid}
    BY <1>4, <2>3 DEF Threads, Has
  <2>5. PICK n \in Nat \ {0} : n = pcb[p].count
    BY <2>1, <2>2
  <2>9. IsFiniteSet(1..n) /\ Cardinality(1..n) = n
    BY FS_Interval
  <2> DEFINE g == pcb[p].threads
             S == 1..n
  <2>6. Threads(p) = {g[i] : i \in S} /\ \A i, j \in S : g[i] = g[j] => i = j
    BY <2>3, <2>5 DEF Threads
  <2>7. IsFiniteSet(S) /\ Cardinality(S) = n
    BY <2>9
  <2> HIDE DEF g, S
  <2>8. (\A i, j \in S : g[i] = g[j] => i = j) => Cardinality({g[i] : i \in S}) = Cardinality(S)
    BY <2>7, ImageSize
  <2>10. Cardinality(Threads(p)) = n
    BY <2>6, <2>7, <2>8
  <2>11. pcb[p].count > 0
    BY <2>5
  <2>. QED BY <2>4, <2>5, <2>10, <2>11
<1>6. ASSUME NEW t \in Tcb, tcb_used[t] PROVE task_find_process(tcb[t].pid) # {}
  <2>1. tcb[t].pid # 0
    BY <1>1, <1>2, <1>3, <1>6 DEF SlotsAt
  <2>2. PICK q \in Pcb : pcb_used[q] /\ pcb[q].pid = tcb[t].pid
    BY <1>1, <1>2, <1>3, <1>4, <1>6, <2>1 DEF Housed, At
  <2>. QED BY <2>2 DEF task_find_process
<1>. QED BY <1>5, <1>6 DEF PoolsAgree

LEMMA PoolsTyped == TasksInv => TasksTypeOK
<1> SUFFICES ASSUME Typing PROVE TasksTypeOK
  BY DEF TasksInv
<1>1. \A t \in Tcb : tcb[t] \in TcbRecords
  BY DEF Typing
<1>2. \A p \in Pcb : pcb[p] \in PcbRecords
  BY DEF Typing
<1>. QED BY <1>1, <1>2 DEF Typing, TasksTypeOK, TcbRecords, PcbRecords, States

\* Every slot, list and range index of the pools stays in its bounds while no
\* two of run, SYS_SPAWN, thread creation, kill and killproc overlap.
THEOREM TasksTypes == SerialSpec => []TasksTypeOK
BY ProcessesStand, PoolsTyped, PTL

\* Whenever no operation is under way, threads[] and thread_count of every
\* process name just its threads, and every thread has its process, however
\* exits, kills and PendSV's reaping came between the steps of the operations;
\* while operations are kept apart (SerialSpec).
THEOREM PoolsDoAgree == SerialSpec => []PoolsAgree
BY ProcessesStand, PoolsMatch, PTL

\* At every moment the heap is whole and merged, and each of its blocks is the
\* stack of one thread or one argument: kmalloc() and kfree() from every path
\* that makes or frees a thread, the failing ones and a second free of a slot
\* included; while operations are kept apart (SerialSpec).
THEOREM HeapIsAccounted == SerialSpec => []HeapAccounted
BY ProcessesStand, HeapAdds, PTL

-----------------------------------------------------------------------------
(* PIDs, with operations, exits, kills and reaping in any order: TasksNext. *)

\* The places of a search for a PID; in the last two it has been found free.
Seeking == {"pid", "arg", "check", "pool", "process"}
Settled == {"pool", "process"}

\* Who takes PIDs from which range.
Takes(m, r) ==
  \/ m = shell /\ r \in {"run", "autorun"}
  \/ m = button /\ r = "button"
  \/ m \in Spawner /\ r = "spawn"
PidOfRange(m) == op[m].pid = 0 \/ \E r \in PidRange : Takes(m, r) /\ op[m].pid \in PidsOf(r)
Unclaimed(m) == op[m].pid # 0 /\ \A p \in Pcb : pcb_used[p] => pcb[p].pid # op[m].pid

IsOp(x) == {"at", "pid"} \subseteq DOMAIN x
IsPcb(x) == "pid" \in DOMAIN x
OpShapes == DOMAIN op = Actor /\ \A a \in Actor : IsOp(op[a])
PcbShapes == DOMAIN pcb = Pcb /\ DOMAIN pcb_used = Pcb /\ \A p \in Pcb : IsPcb(pcb[p])

PidsInv ==
  /\ OpShapes /\ PcbShapes /\ PidsUnique
  /\ \A m \in Manager : op[m].at \in Seeking => PidOfRange(m)
  /\ \A m \in Manager : op[m].at \in Settled => Unclaimed(m)

\* Of the pools: no process is added, and none changes its PID.
NoneAdded ==
  PcbShapes' /\ \A p \in Pcb : pcb_used'[p] => pcb_used[p] /\ pcb'[p].pid = pcb[p].pid
\* Of the operations: no search begins, and none has found its PID free.
NoneSettles ==
  /\ OpShapes'
  /\ \A m \in Manager : op'[m].at \in Seeking =>
       op[m].at \in Seeking /\ op'[m].pid = op[m].pid /\ (op'[m].at \in Settled => op[m].at \in Settled)

LEMMA QuietKeeps == ASSUME PidsInv, NoneAdded, NoneSettles PROVE PidsInv'
<1>1. OpShapes' /\ PcbShapes'
  BY DEF NoneAdded, NoneSettles
<1>2. PidsUnique'
  BY DEF PidsInv, NoneAdded, PidsUnique
<1>3. ASSUME NEW m \in Manager, op'[m].at \in Seeking PROVE PidOfRange(m)'
  <2>1. op[m].at \in Seeking /\ op'[m].pid = op[m].pid
    BY <1>3 DEF NoneSettles
  <2>. QED BY <2>1 DEF PidsInv, PidOfRange
<1>4. ASSUME NEW m \in Manager, op'[m].at \in Settled PROVE Unclaimed(m)'
  <2>1. op[m].at \in Settled /\ op'[m].pid = op[m].pid
    BY <1>4 DEF NoneSettles, Seeking, Settled
  <2>. QED BY <2>1 DEF PidsInv, Unclaimed, NoneAdded
<1>. QED BY <1>1, <1>2, <1>3, <1>4 DEF PidsInv

LEMMA NoOpShape == IsOp(NoOp) /\ NoOp.at = "idle"
BY DEF IsOp, NoOp

\* The record of one actor is replaced.
LEMMA OneOp ==
  ASSUME OpShapes, NEW a \in Actor, NEW new, IsOp(new), op' = [op EXCEPT ![a] = new]
  PROVE  OpShapes' /\ op'[a] = new /\ Others(a)
BY DEF OpShapes, Others

LEMMA OneGoes ==
  ASSUME OpShapes, NEW a \in Actor, NEW where, Goes(a, where)
  PROVE  OpShapes' /\ op'[a].at = where /\ op'[a].pid = op[a].pid /\ Others(a)
<1> DEFINE new == [op[a] EXCEPT !.at = where]
<1>1. IsOp(op[a])
  BY DEF OpShapes
<1>2. IsOp(new) /\ new.at = where /\ new.pid = op[a].pid
  BY <1>1 DEF IsOp
<1>3. op' = [op EXCEPT ![a] = new]
  BY DEF Goes
<1> HIDE DEF new
<1>. QED BY <1>2, <1>3, OneOp

\* An actor ends, or goes on somewhere else than to a search ...
LEMMA Leaves ==
  ASSUME OpShapes, NEW a \in Actor, NEW new, IsOp(new), new.at \notin Seeking, op' = [op EXCEPT ![a] = new]
  PROVE  NoneSettles
<1>1. OpShapes' /\ op'[a] = new /\ Others(a)
  BY OneOp
<1>2. Manager \subseteq Actor
  BY Names
<1>. QED BY <1>1, <1>2 DEF NoneSettles, Others, Seeking, Settled

LEMMA DoneLeaves == ASSUME OpShapes, NEW a \in Actor, Done(a) PROVE NoneSettles
BY NoOpShape, Leaves DEF Done, Seeking

\* ... or searches on.
LEMMA GoesQuietly ==
  ASSUME OpShapes, NEW a \in Actor, NEW where, Goes(a, where),
         where \in Seeking => op[a].at \in Seeking, where \in Settled => op[a].at \in Settled
  PROVE  NoneSettles
<1>1. OpShapes' /\ op'[a].at = where /\ op'[a].pid = op[a].pid /\ Others(a)
  BY OneGoes
<1>2. Manager \subseteq Actor
  BY Names
<1>. QED BY <1>1, <1>2 DEF NoneSettles, Others, Seeking, Settled

LEMMA SameOps == ASSUME OpShapes, UNCHANGED op PROVE NoneSettles
BY DEF OpShapes, NoneSettles

LEMMA SameProcesses == ASSUME PcbShapes, UNCHANGED <<pcb_used, pcb>> PROVE NoneAdded
BY DEF PcbShapes, NoneAdded

\* A process is freed, or something of it but its PID changes.
LEMMA ProcessGoes ==
  ASSUME PcbShapes, NEW p, pcb_used' = [pcb_used EXCEPT ![p] = FALSE], pcb' = [pcb EXCEPT ![p] = ZeroedProcess]
  PROVE  NoneAdded
<1>1. IsPcb(ZeroedProcess)
  BY DEF IsPcb, ZeroedProcess
<1>. QED BY <1>1 DEF PcbShapes, NoneAdded

LEMMA ProcessChanges ==
  ASSUME PcbShapes, UNCHANGED pcb_used, NEW p, NEW new, p \in Pcb => IsPcb(new) /\ new.pid = pcb[p].pid,
         pcb' = [pcb EXCEPT ![p] = new]
  PROVE  NoneAdded
BY DEF PcbShapes, NoneAdded

\* run, SYS_SPAWN, a button and the shell's start look for a PID.
LEMMA FindPidKeeps ==
  ASSUME PidsInv, NEW m \in Manager, NEW r \in PidRange, Takes(m, r), FindPid(m, r)
  PROVE  PidsInv'
<1> DEFINE new == [NoOp EXCEPT !.at = "pid", !.range = r, !.pid = NextFree(r)]
<1>1. m \in Actor /\ Manager \subseteq Actor
  BY Names
<1>2. NextFree(r) \in PidsOf(r) \union {0}
  BY NextFreeTyped
<1>3. IsOp(new) /\ new.at = "pid" /\ new.pid = NextFree(r)
  BY DEF IsOp, NoOp
<1>4. op' = [op EXCEPT ![m] = new] /\ UNCHANGED <<pcb_used, pcb>>
  BY DEF FindPid, pools
<1> HIDE DEF new
<1>5. OpShapes' /\ op'[m] = new /\ Others(m)
  BY <1>1, <1>3, <1>4, OneOp DEF PidsInv
<1>6. PcbShapes' /\ PidsUnique'
  BY <1>4 DEF PidsInv, PcbShapes, PidsUnique
<1>7. ASSUME NEW n \in Manager, op'[n].at \in Seeking PROVE PidOfRange(n)'
  <2>1. CASE n = m
    BY <1>2, <1>3, <1>5, <2>1 DEF PidOfRange
  <2>2. CASE n # m
    <3>1. op'[n] = op[n]
      BY <1>1, <1>5, <2>2 DEF Others
    <3>. QED BY <1>7, <3>1 DEF PidsInv, PidOfRange
  <2>. QED BY <2>1, <2>2
<1>8. ASSUME NEW n \in Manager, op'[n].at \in Settled PROVE Unclaimed(n)'
  <2>1. n # m
    BY <1>3, <1>5, <1>8 DEF Settled
  <2>2. op'[n] = op[n]
    BY <1>1, <1>5, <2>1 DEF Others
  <2>. QED BY <1>4, <1>8, <2>2 DEF PidsInv, Unclaimed
<1>. QED BY <1>5, <1>6, <1>7, <1>8 DEF PidsInv

\* GivesUp ends an operation.
LEMMA GivesUpLeaves == ASSUME OpShapes, NEW a \in Actor, GivesUp(a) PROVE NoneSettles
BY DoneLeaves DEF GivesUp

LEMMA TakePidKeepsPids ==
  ASSUME PidsInv, NEW m \in Manager, TakePid(m) \/ CopyArg(m) \/ ScanProcesses(m) PROVE PidsInv'
<1>1. m \in Actor /\ OpShapes /\ PcbShapes /\ IsOp(op[m])
  BY Names DEF PidsInv, OpShapes
<1>2. NoneAdded
  BY <1>1, SameProcesses DEF TakePid, CopyArg, ScanProcesses, pools
<1>3. CASE TakePid(m)
  <2>1. NoneSettles
    BY <1>1, <1>3, GoesQuietly DEF TakePid, At, Seeking, Settled
  <2>. QED BY <1>2, <2>1, QuietKeeps
<1>4. CASE CopyArg(m)
  <2>1. CASE Goes(m, "check")
    <3>1. NoneSettles
      BY <1>1, <1>4, <2>1, GoesQuietly DEF CopyArg, At, Seeking, Settled
    <3>. QED BY <1>2, <3>1, QuietKeeps
  <2>2. CASE op' = [op EXCEPT ![m].at = "check", ![m].arg = MallocAt(heap, ArgSize)]
    <3> DEFINE new == [op[m] EXCEPT !.at = "check", !.arg = MallocAt(heap, ArgSize)]
    <3>1. IsOp(new) /\ new.at = "check" /\ new.pid = op[m].pid
      BY <1>1 DEF IsOp
    <3>2. op' = [op EXCEPT ![m] = new]
      BY <2>2
    <3> HIDE DEF new
    <3>3. OpShapes' /\ op'[m] = new /\ Others(m)
      BY <1>1, <3>1, <3>2, OneOp
    <3>4. NoneSettles
      BY <1>4, <3>1, <3>3, Names DEF NoneSettles, Others, CopyArg, At, Seeking, Settled
    <3>. QED BY <1>2, <3>4, QuietKeeps
  <2>. QED BY <1>4, <2>1, <2>2 DEF CopyArg
<1>5. CASE ScanProcesses(m)
  <2>1. CASE GivesUp(m)
    BY <1>1, <1>2, <2>1, GivesUpLeaves, QuietKeeps
  <2>2. CASE op' = [op EXCEPT ![m].at = "process", ![m].proc = Min(FreePcbs)]
    <3> DEFINE new == [op[m] EXCEPT !.at = "process", !.proc = Min(FreePcbs)]
    <3>1. IsOp(new) /\ new.at = "process" /\ new.pid = op[m].pid
      BY <1>1 DEF IsOp
    <3>2. op' = [op EXCEPT ![m] = new]
      BY <2>2
    <3> HIDE DEF new
    <3>3. OpShapes' /\ op'[m] = new /\ Others(m)
      BY <1>1, <3>1, <3>2, OneOp
    <3>4. NoneSettles
      BY <1>5, <3>1, <3>3, Names DEF NoneSettles, Others, ScanProcesses, At, Seeking, Settled
    <3>. QED BY <1>2, <3>4, QuietKeeps
  <2>. QED BY <1>5, <2>1, <2>2 DEF ScanProcesses
<1>. QED BY <1>3, <1>4, <1>5

\* task_create_process() finds the PID free ...
LEMMA CheckPidKeepsPids ==
  ASSUME PidsInv, NEW m \in Manager, CheckPid(m) PROVE PidsInv'
<1>1. m \in Actor /\ Manager \subseteq Actor /\ OpShapes /\ PcbShapes /\ At(m, "check")
  BY Names DEF PidsInv, CheckPid
<1>2. UNCHANGED <<pcb_used, pcb>>
  BY DEF CheckPid, pools
<1>3. CASE GivesUp(m)
  BY <1>1, <1>2, <1>3, GivesUpLeaves, SameProcesses, QuietKeeps
<1>4. CASE ~(op[m].pid = 0 \/ task_find_process(op[m].pid) # {}) /\ Goes(m, "pool")
  <2>1. OpShapes' /\ op'[m].at = "pool" /\ op'[m].pid = op[m].pid /\ Others(m)
    BY <1>1, <1>4, OneGoes
  <2>2. Unclaimed(m)
    BY <1>4 DEF Unclaimed, task_find_process
  <2>3. ASSUME NEW n \in Manager, op'[n].at \in Seeking PROVE PidOfRange(n)'
    <3>1. op[n].at \in Seeking /\ op'[n].pid = op[n].pid
      BY <1>1, <2>1, <2>3 DEF Others, Seeking, At
    <3>. QED BY <3>1 DEF PidsInv, PidOfRange
  <2>4. ASSUME NEW n \in Manager, op'[n].at \in Settled PROVE Unclaimed(n)'
    <3>1. Unclaimed(n) /\ op'[n].pid = op[n].pid
      BY <1>1, <2>1, <2>2, <2>4 DEF Others, PidsInv
    <3>. QED BY <1>2, <3>1 DEF Unclaimed
  <2>5. PcbShapes' /\ PidsUnique'
    BY <1>2 DEF PidsInv, PcbShapes, PidsUnique
  <2>. QED BY <2>1, <2>3, <2>4, <2>5 DEF PidsInv
<1>. QED BY <1>3, <1>4 DEF CheckPid

\* ... and claims a slot for it, which another may have claimed meanwhile.
LEMMA ClaimProcessKeepsPids ==
  ASSUME PidsInv, SpawnsApart, \A r, s \in PidRange : r # s => PidsOf(r) \intersect PidsOf(s) = {},
         NEW m \in Manager, ClaimProcess(m)
  PROVE  PidsInv'
<1> DEFINE p == op[m].proc
           new == [pid |-> op[m].pid, alive |-> TRUE, count |-> 0, threads |-> NoThreads]
<1>1. m \in Actor /\ Manager \subseteq Actor /\ OpShapes /\ PcbShapes
  BY Names DEF PidsInv
<1>2. /\ At(m, "process") /\ Goes(m, "scan")
      /\ pcb_used' = [pcb_used EXCEPT ![p] = TRUE] /\ pcb' = [pcb EXCEPT ![p] = new]
  BY DEF ClaimProcess
<1>3. OpShapes' /\ op'[m].at = "scan" /\ Others(m)
  BY <1>1, <1>2, OneGoes
<1>4. IsPcb(new) /\ new.pid = op[m].pid
  BY DEF IsPcb
<1>5. PidOfRange(m) /\ Unclaimed(m)
  BY <1>2 DEF PidsInv, At, Seeking, Settled
<1> HIDE DEF new, p
<1>6. PcbShapes'
  BY <1>1, <1>2, <1>4 DEF PcbShapes
<1>7. \A q \in Pcb : IF q = p THEN pcb_used'[q] /\ pcb'[q].pid = op[m].pid
                     ELSE pcb_used'[q] = pcb_used[q] /\ pcb'[q] = pcb[q]
  BY <1>1, <1>2, <1>4 DEF PcbShapes
<1>8. PidsUnique'
  BY <1>5, <1>7 DEF PidsUnique, PidsInv, Unclaimed
<1>9. ASSUME NEW n \in Manager, op'[n].at \in Seeking PROVE n # m /\ op'[n] = op[n] /\ PidOfRange(n)'
  <2>1. n # m /\ op'[n] = op[n]
    BY <1>1, <1>3, <1>9 DEF Others, Seeking
  <2>. QED BY <1>9, <2>1 DEF PidsInv, PidOfRange
<1>10. ASSUME NEW n \in Manager, op'[n].at \in Settled PROVE Unclaimed(n)'
  <2>1. n # m /\ op'[n] = op[n]
    BY <1>9, <1>10 DEF Seeking, Settled
  <2>2. Unclaimed(n) /\ PidOfRange(n)
    BY <1>10, <2>1 DEF PidsInv, Seeking, Settled
  <2>3. op[n].pid # op[m].pid
    <3>1. CASE n \in Spawner /\ m \in Spawner
      BY <1>2, <1>10, <2>1, <3>1 DEF SpawnsApart, At, Settled
    <3>2. CASE ~(n \in Spawner /\ m \in Spawner)
      <4>1. PICK r \in PidRange : Takes(m, r) /\ op[m].pid \in PidsOf(r)
        BY <1>5 DEF PidOfRange, Unclaimed
      <4>2. PICK s \in PidRange : Takes(n, s) /\ op[n].pid \in PidsOf(s)
        BY <2>2 DEF PidOfRange, Unclaimed
      <4>3. r # s
        BY <2>1, <3>2, <4>1, <4>2 DEF Takes
      <4>. QED BY <4>1, <4>2, <4>3
    <3>. QED BY <3>1, <3>2
  <2>. QED BY <1>7, <2>1, <2>2, <2>3 DEF Unclaimed
<1>. QED BY <1>3, <1>6, <1>8, <1>9, <1>10 DEF PidsInv

\* Making a thread: a process goes with it, or gains one.
LEMMA NoThreadQuiet ==
  ASSUME PidsInv, NEW m \in Actor, NoThread(m) PROVE NoneAdded /\ NoneSettles
<1>1. OpShapes /\ PcbShapes
  BY DEF PidsInv
<1>2. NoneSettles
  BY <1>1, GivesUpLeaves DEF NoThread
<1>3. NoneAdded
  BY <1>1, SameProcesses, ProcessGoes DEF NoThread
<1>. QED BY <1>2, <1>3

LEMMA MakesThreadKeepsPids ==
  ASSUME PidsInv, NEW m \in Actor, MakesThread(m) PROVE PidsInv'
<1>1. OpShapes /\ PcbShapes /\ IsOp(op[m])
  BY DEF PidsInv, OpShapes
<1>2. CASE ScanThreads(m)
  <2>1. CASE NoThread(m)
    BY <2>1, NoThreadQuiet, QuietKeeps
  <2>2. CASE op' = [op EXCEPT ![m].at = "claim", ![m].tcb = Min(FreeTcbs)] /\ UNCHANGED <<pcb_used, pcb>>
    <3> DEFINE new == [op[m] EXCEPT !.at = "claim", !.tcb = Min(FreeTcbs)]
    <3>1. IsOp(new) /\ new.at \notin Seeking
      BY <1>1 DEF IsOp, Seeking
    <3>2. op' = [op EXCEPT ![m] = new]
      BY <2>2
    <3> HIDE DEF new
    <3>3. NoneSettles
      BY <1>1, <3>1, <3>2, Leaves
    <3>. QED BY <1>1, <2>2, <3>3, SameProcesses, QuietKeeps
  <2>. QED BY <1>2, <2>1, <2>2 DEF ScanThreads
<1>3. CASE ClaimThread(m)
  <2>1. Goes(m, "stack") /\ UNCHANGED <<pcb_used, pcb>>
    BY <1>3 DEF ClaimThread
  <2>2. NoneSettles
    BY <1>1, <2>1, GoesQuietly DEF Seeking, Settled
  <2>. QED BY <1>1, <2>1, <2>2, SameProcesses, QuietKeeps
<1>4. CASE AllocStack(m)
  <2>1. CASE NoThread(m)
    BY <2>1, NoThreadQuiet, QuietKeeps
  <2>2. CASE Goes(m, "fill") /\ UNCHANGED <<pcb_used, pcb>>
    <3>1. NoneSettles
      BY <1>1, <2>2, GoesQuietly DEF Seeking, Settled
    <3>. QED BY <1>1, <2>2, <3>1, SameProcesses, QuietKeeps
  <2>. QED BY <1>4, <2>1, <2>2 DEF AllocStack
<1>5. CASE Publish(m)
  <2> DEFINE p == op[m].proc
             t == op[m].tcb
             new == [pcb[p] EXCEPT !.count = @ + 1, !.threads[pcb[p].count + 1] = t]
  <2>1. pcb' = [pcb EXCEPT ![p] = new] /\ Done(m) /\ UNCHANGED pcb_used
    BY <1>5 DEF Publish
  <2>2. p \in Pcb => IsPcb(new) /\ new.pid = pcb[p].pid
    BY <1>1 DEF PcbShapes, IsPcb
  <2> HIDE DEF new, p
  <2>3. NoneAdded
    BY <1>1, <2>1, <2>2, ProcessChanges
  <2>. QED BY <1>1, <2>1, <2>3, DoneLeaves, QuietKeeps
<1>. QED BY <1>2, <1>3, <1>4, <1>5 DEF MakesThread

LEMMA GoesOnLeaves ==
  ASSUME OpShapes, NEW a \in Actor, GoesOn(a) PROVE NoneSettles
<1> DEFINE list == op[a].list
           new == IF Len(list) > 1 THEN [NoOp EXCEPT !.at = "mark", !.list = Tail(list)] ELSE NoOp
<1>1. IsOp(new) /\ new.at \notin Seeking
  BY DEF IsOp, NoOp, Seeking
<1>2. op' = [op EXCEPT ![a] = new]
  BY DEF GoesOn
<1> HIDE DEF new
<1>. QED BY <1>1, <1>2, Leaves

LEMMA FreesThreadKeepsPids ==
  ASSUME PidsInv, NEW a \in Actor, FreesThread(a) PROVE PidsInv'
<1>1. OpShapes /\ PcbShapes /\ IsOp(op[a])
  BY DEF PidsInv, OpShapes
<1>2. ASSUME NEW where \in {"unuse", "process?"}, Goes(a, where) PROVE NoneSettles
  BY <1>1, <1>2, GoesQuietly DEF Seeking, Settled
<1>3. CASE Unlink(a)
  <2> DEFINE t == op[a].tcb
             p == CHOOSE q \in task_find_process(tcb[t].pid) : TRUE
  <2>0. UNCHANGED pcb_used
    BY <1>3 DEF Unlink
  <2>1. CASE Goes(a, "unuse") /\ UNCHANGED pcb
    BY <1>1, <1>2, <2>0, <2>1, SameProcesses, QuietKeeps
  <2>2. CASE op' = [op EXCEPT ![a].at = "unuse", ![a].proc = p] /\ UNCHANGED pcb
    <3> HIDE DEF p
    <3> DEFINE new == [op[a] EXCEPT !.at = "unuse", !.proc = p]
    <3>1. IsOp(new) /\ new.at \notin Seeking
      BY <1>1 DEF IsOp, Seeking
    <3>2. op' = [op EXCEPT ![a] = new]
      BY <2>2
    <3> HIDE DEF new
    <3>3. NoneSettles
      BY <1>1, <3>1, <3>2, Leaves
    <3>. QED BY <1>1, <2>0, <2>2, <3>3, SameProcesses, QuietKeeps
  <2>3. CASE /\ op' = [op EXCEPT ![a].at = "shift", ![a].proc = p,
                         ![a].slot = CHOOSE i \in 1..pcb[p].count : pcb[p].threads[i] = t]
             /\ pcb' = [pcb EXCEPT ![p].count = @ - 1]
    <3> DEFINE slot == CHOOSE i \in 1..pcb[p].count : pcb[p].threads[i] = t
               new == [op[a] EXCEPT !.at = "shift", !.proc = p, !.slot = slot]
               less == [pcb[p] EXCEPT !.count = @ - 1]
    <3>1. op' = [op EXCEPT ![a].at = "shift", ![a].proc = p, ![a].slot = slot]
      BY <2>3
    <3>2. pcb' = [pcb EXCEPT ![p].count = @ - 1]
      BY <2>3
    <3> HIDE DEF p, slot
    <3>3. op' = [op EXCEPT ![a] = new]
      BY <3>1
    <3>4. pcb' = [pcb EXCEPT ![p] = less]
      BY <3>2
    <3>5. IsOp(new) /\ new.at \notin Seeking
      BY <1>1 DEF IsOp, Seeking
    <3>6. p \in Pcb => IsPcb(less) /\ less.pid = pcb[p].pid
      BY <1>1 DEF PcbShapes, IsPcb
    <3> HIDE DEF new, less
    <3>7. NoneSettles
      BY <1>1, <3>5, <3>3, Leaves
    <3>8. NoneAdded
      BY <1>1, <2>0, <3>6, <3>4, ProcessChanges
    <3>. QED BY <3>7, <3>8, QuietKeeps
  <2>. QED BY <1>3, <2>1, <2>2, <2>3, Zenon DEF Unlink
<1>4. CASE Shift(a)
  <2> DEFINE p == op[a].proc
             count == pcb[p].count
             moved == [i \in 1..MAX_THREADS |->
                         IF i = count + 1 THEN None
                         ELSE IF i \in op[a].slot..count THEN pcb[p].threads[i + 1] ELSE pcb[p].threads[i]]
             new == [pcb[p] EXCEPT !.threads = moved]
  <2>1. pcb' = [pcb EXCEPT ![p] = new] /\ Goes(a, "unuse") /\ UNCHANGED pcb_used
    BY <1>4 DEF Shift
  <2> HIDE DEF p, count, moved
  <2>2. p \in Pcb => IsPcb(new) /\ new.pid = pcb[p].pid
    BY <1>1 DEF PcbShapes, IsPcb
  <2> HIDE DEF new
  <2>3. NoneAdded
    BY <1>1, <2>1, <2>2, ProcessChanges
  <2>. QED BY <1>2, <2>1, <2>3, QuietKeeps
<1>5. CASE Unuse(a)
  <2> DEFINE stack == tcb[op[a].tcb].stack
             new == [op[a] EXCEPT !.at = "wipe", !.stack = stack]
  <2>1. op' = [op EXCEPT ![a] = new] /\ UNCHANGED <<pcb_used, pcb>>
    BY <1>5 DEF Unuse
  <2> HIDE DEF stack
  <2>2. IsOp(new) /\ new.at \notin Seeking
    BY <1>1 DEF IsOp, Seeking
  <2> HIDE DEF new
  <2>3. NoneSettles
    BY <1>1, <2>1, <2>2, Leaves
  <2>. QED BY <1>1, <2>1, <2>3, SameProcesses, QuietKeeps
<1>6. CASE Wipe(a)
  <2>1. Goes(a, "process?") /\ UNCHANGED <<pcb_used, pcb>>
    BY <1>6 DEF Wipe
  <2>. QED BY <1>1, <1>2, <2>1, SameProcesses, QuietKeeps
<1>7. CASE FreeProcess(a)
  <2>1. GoesOn(a)
    BY <1>7 DEF FreeProcess
  <2>2. NoneAdded
    BY <1>1, <1>7, SameProcesses, ProcessGoes DEF FreeProcess
  <2>. QED BY <1>1, <2>1, <2>2, GoesOnLeaves, QuietKeeps
<1>. QED BY <1>3, <1>4, <1>5, <1>6, <1>7 DEF FreesThread

\* A process is no longer alive.
LEMMA DeadKeepsPid ==
  ASSUME PcbShapes, UNCHANGED pcb_used, NEW p, pcb' = [pcb EXCEPT ![p].alive = FALSE] PROVE NoneAdded
<1> DEFINE new == [pcb[p] EXCEPT !.alive = FALSE]
<1>1. p \in Pcb => IsPcb(new) /\ new.pid = pcb[p].pid
  BY DEF PcbShapes, IsPcb
<1>2. pcb' = [pcb EXCEPT ![p] = new]
  OBVIOUS
<1> HIDE DEF new
<1>. QED BY <1>1, <1>2, ProcessChanges

\* An operation other than a search begins.
LEMMA OthersBegin ==
  ASSUME PidsInv, (\E t \in Tcb : ThreadCreate(t)) \/ cmd_kill \/ cmd_killproc PROVE PidsInv'
<1>1. OpShapes /\ PcbShapes /\ shell \in Actor /\ app \in Actor
  BY Names DEF PidsInv, Actor
<1>2. UNCHANGED <<pcb_used, pcb>>
  BY DEF ThreadCreate, cmd_kill, cmd_killproc, pools
<1>3. ASSUME NEW p, NEW c, op' = [op EXCEPT ![app] = [NoOp EXCEPT !.at = "scan", !.proc = p, !.by = c]]
      PROVE  NoneSettles
  <2> DEFINE new == [NoOp EXCEPT !.at = "scan", !.proc = p, !.by = c]
  <2>1. IsOp(new) /\ new.at \notin Seeking /\ op' = [op EXCEPT ![app] = new]
    BY <1>3 DEF IsOp, NoOp, Seeking
  <2> HIDE DEF new
  <2>. QED BY <1>1, <2>1, Leaves
<1>4. ASSUME NEW l, op' = [op EXCEPT ![shell] = [NoOp EXCEPT !.at = "mark", !.list = l]]
      PROVE  NoneSettles
  <2> DEFINE new == [NoOp EXCEPT !.at = "mark", !.list = l]
  <2>1. IsOp(new) /\ new.at \notin Seeking /\ op' = [op EXCEPT ![shell] = new]
    BY <1>4 DEF IsOp, NoOp, Seeking
  <2> HIDE DEF new
  <2>. QED BY <1>1, <2>1, Leaves
<1>5. ASSUME NEW p, op' = [op EXCEPT ![shell] = [NoOp EXCEPT !.at = "snapshot", !.proc = p]]
      PROVE  NoneSettles
  <2> DEFINE new == [NoOp EXCEPT !.at = "snapshot", !.proc = p]
  <2>1. IsOp(new) /\ new.at \notin Seeking /\ op' = [op EXCEPT ![shell] = new]
    BY <1>5 DEF IsOp, NoOp, Seeking
  <2> HIDE DEF new
  <2>. QED BY <1>1, <2>1, Leaves
<1>6. NoneSettles
  <2>1. CASE \E t \in Tcb : ThreadCreate(t)
    <3>1. PICK t, p : op' = [op EXCEPT ![app] = [NoOp EXCEPT !.at = "scan", !.proc = p, !.by = t]]
      BY <2>1 DEF ThreadCreate
    <3>. QED BY <3>1, <1>3
  <2>2. CASE cmd_kill
    <3>1. PICK t : op' = [op EXCEPT ![shell] = [NoOp EXCEPT !.at = "mark", !.list = <<t>>]]
      BY <2>2 DEF cmd_kill
    <3>. QED BY <3>1, <1>4
  <2>3. CASE cmd_killproc
    <3>1. PICK p : op' = [op EXCEPT ![shell] = [NoOp EXCEPT !.at = "snapshot", !.proc = p]]
      BY <2>3 DEF cmd_killproc
    <3>. QED BY <3>1, <1>5
  <2>. QED BY <2>1, <2>2, <2>3
<1>. QED BY <1>1, <1>2, <1>6, SameProcesses, QuietKeeps

LEMMA SnapshotKeepsPids == ASSUME PidsInv, Snapshot(shell) PROVE PidsInv'
<1> DEFINE p == op[shell].proc
           list == SubSeq(pcb[p].threads, 1, pcb[p].count)
           new == [NoOp EXCEPT !.at = "mark", !.list = list]
<1>1. OpShapes /\ PcbShapes /\ shell \in Actor
  BY Names DEF PidsInv
<1>2. /\ pcb' = [pcb EXCEPT ![p].alive = FALSE] /\ UNCHANGED pcb_used
      /\ Done(shell) \/ op' = [op EXCEPT ![shell] = new]
  BY DEF Snapshot
<1> HIDE DEF list, p
<1>3. NoneAdded
  BY <1>1, <1>2, DeadKeepsPid
<1>4. IsOp(new) /\ new.at \notin Seeking
  BY DEF IsOp, NoOp, Seeking
<1> HIDE DEF new
<1>. QED BY <1>1, <1>2, <1>3, <1>4, Leaves, DoneLeaves, QuietKeeps

LEMMA MarkKeepsPids == ASSUME PidsInv, Mark(shell) PROVE PidsInv'
<1> DEFINE t == Head(op[shell].list)
<1>1. OpShapes /\ PcbShapes /\ shell \in Actor /\ app \in Actor /\ app \notin Manager /\ shell # app /\ IsOp(op[shell])
  BY Names DEF PidsInv, OpShapes, Actor
<1>2. UNCHANGED <<pcb_used, pcb>>
  BY DEF Mark
<1>3. CASE GoesOn(shell)
  BY <1>1, <1>2, <1>3, GoesOnLeaves, SameProcesses, QuietKeeps
<1>4. CASE op' = [op EXCEPT ![shell].at = "unlink", ![shell].tcb = t,
                            ![app] = IF ~At(app, "idle") /\ @.by = t THEN NoOp ELSE @]
  <2> DEFINE new == [op[shell] EXCEPT !.at = "unlink", !.tcb = t]
             rest == IF ~At(app, "idle") /\ op[app].by = t THEN NoOp ELSE op[app]
  <2>1. op' = [op EXCEPT ![shell] = new, ![app] = rest]
    BY <1>1, <1>4
  <2> HIDE DEF t
  <2>2. IsOp(new) /\ new.at \notin Seeking /\ IsOp(rest)
    BY <1>1, NoOpShape DEF IsOp, Seeking, OpShapes
  <2> HIDE DEF new, rest
  <2>3. DOMAIN op' = Actor /\ op'[shell] = new /\ op'[app] = rest
        /\ \A b \in Actor : b # shell /\ b # app => op'[b] = op[b]
    BY <1>1, <2>1 DEF OpShapes
  <2>4. OpShapes'
    BY <1>1, <2>2, <2>3 DEF OpShapes
  <2>5. NoneSettles
    BY <1>1, <2>2, <2>3, <2>4, Names DEF NoneSettles, Seeking, Settled
  <2>. QED BY <1>1, <1>2, <2>5, SameProcesses, QuietKeeps
<1>. QED BY <1>3, <1>4, Zenon DEF Mark

LEMMA ReapsLeaves == ASSUME OpShapes, NEW t, Reaps(t) PROVE NoneSettles
<1> DEFINE new == [NoOp EXCEPT !.at = "unlink", !.tcb = t]
<1>1. IsOp(new) /\ new.at \notin Seeking
  BY DEF IsOp, NoOp, Seeking
<1>2. op' = [op EXCEPT ![reaper] = new] /\ reaper \in Actor
  BY DEF Reaps, Actor
<1> HIDE DEF new
<1>. QED BY <1>1, <1>2, Leaves

LEMMA AppsKeepPids ==
  ASSUME PidsInv, NEW t \in Tcb, TakesArg(t) \/ Exits(t) \/ Waits(t) \/ Woken(t) PROVE PidsInv'
<1>1. OpShapes /\ PcbShapes
  BY DEF PidsInv
<1>2. NoneSettles
  <2>1. UNCHANGED op \/ Reaps(t)
    BY DEF TakesArg, Exits, Waits, Woken
  <2>. QED BY <1>1, <2>1, SameOps, ReapsLeaves
<1>3. NoneAdded
  <2>1. UNCHANGED pcb_used /\ (UNCHANGED pcb \/ \E p \in Pcb : pcb' = [pcb EXCEPT ![p].alive = FALSE])
    BY DEF TakesArg, Exits, Waits, Woken, task_find_process
  <2>. QED BY <1>1, <2>1, SameProcesses, DeadKeepsPid
<1>. QED BY <1>2, <1>3, QuietKeeps

LEMMA TasksKeepPids ==
  ASSUME PidsInv, SpawnsApart, \A r, s \in PidRange : r # s => PidsOf(r) \intersect PidsOf(s) = {}, TasksNext
  PROVE  PidsInv'
<1>1. OpShapes /\ PcbShapes /\ shell \in Manager /\ Manager \subseteq Actor /\ app \in Actor /\ reaper \in Actor
      /\ Spawner \subseteq Manager /\ button \in Manager
  BY Names DEF PidsInv, Actor, Manager
<1>2. ASSUME NEW m \in Manager, NEW r \in PidRange, Takes(m, r), FindPid(m, r) PROVE PidsInv'
  BY <1>2, FindPidKeeps
<1>3. CASE cmd_run \/ btn_monitor_thread \/ (\E m \in Spawner : SYS_SPAWN(m)) \/ shell_autorun_init
  <2>1. CASE shell_autorun_init /\ Done(shell) /\ UNCHANGED <<pools, next_pid, heap, args>>
    <3>1. UNCHANGED <<pcb_used, pcb>>
      BY <2>1 DEF pools
    <3>. QED BY <1>1, <2>1, <3>1, DoneLeaves, SameProcesses, QuietKeeps
  <2>2. CASE FindPid(shell, "run") \/ FindPid(shell, "autorun")
    BY <1>1, <1>2, <2>2 DEF Takes, PidRange
  <2>3. CASE FindPid(button, "button")
    BY <1>1, <1>2, <2>3 DEF Takes, PidRange
  <2>4. ASSUME NEW m \in Spawner, FindPid(m, "spawn") PROVE PidsInv'
    BY <1>1, <1>2, <2>4 DEF Takes, PidRange
  <2>. QED BY <1>3, <2>1, <2>2, <2>3, <2>4 DEF cmd_run, btn_monitor_thread, SYS_SPAWN, shell_autorun_init
<1>4. ASSUME NEW m \in Manager, MakesProcess(m) PROVE PidsInv'
  BY <1>4, TakePidKeepsPids, CheckPidKeepsPids, ClaimProcessKeepsPids DEF MakesProcess
<1>5. ASSUME NEW m \in Spawner, CutOff(m) PROVE PidsInv'
  <2>1. Done(m) /\ UNCHANGED <<pcb_used, pcb>>
    BY <1>5 DEF CutOff, pools
  <2>. QED BY <1>1, <2>1, DoneLeaves, SameProcesses, QuietKeeps
<1>6. CASE Operations
  BY <1>1, <1>3, <1>4, <1>6, MakesThreadKeepsPids, FreesThreadKeepsPids, OthersBegin,
     SnapshotKeepsPids, MarkKeepsPids DEF Operations
<1>. QED BY <1>1, <1>5, <1>6, AppsKeepPids, FreesThreadKeepsPids DEF TasksNext, AppThreads

\* Whatever comes between whatever steps of run, SYS_SPAWN, thread creation,
\* kill, killproc, exits and reaping, no two processes share a PID, dead ones
\* that wait for their last thread included: unless two callers of SYS_SPAWN
\* are past the test of task_create_process() for the same PID, which nothing
\* in task_alloc_pid() or task_create_process() excludes (SpawnsApart).
THEOREM PidsAreUnique ==
  ASSUME \A r, s \in PidRange : r # s => PidsOf(r) \intersect PidsOf(s) = {}
  PROVE  TasksSpec /\ []SpawnsApart => []PidsUnique
<1>1. TasksInit => PidsInv
  <2> SUFFICES ASSUME TasksInit PROVE PidsInv
    OBVIOUS
  <2>1. op = [a \in Actor |-> IF a = shell THEN [NoOp EXCEPT !.at = "boot"] ELSE NoOp]
        /\ pcb_used = [p \in Pcb |-> FALSE] /\ pcb = [p \in Pcb |-> ZeroedProcess]
    BY DEF TasksInit
  <2>2. IsOp([NoOp EXCEPT !.at = "boot"]) /\ IsOp(NoOp) /\ IsPcb(ZeroedProcess)
    BY DEF IsOp, NoOp, IsPcb, ZeroedProcess
  <2>3. OpShapes /\ PcbShapes
    BY <2>1, <2>2 DEF OpShapes, PcbShapes
  <2>4. \A m \in Manager : op[m].at \notin Seeking
    BY <2>1, Names DEF NoOp, Seeking
  <2>. QED BY <2>1, <2>3, <2>4 DEF PidsInv, PidsUnique, Seeking, Settled
<1>2. PidsInv /\ SpawnsApart /\ [TasksNext]_tvars => PidsInv'
  <2>1. ASSUME PidsInv, UNCHANGED tvars PROVE PidsInv'
    BY <2>1, SameOps, SameProcesses, QuietKeeps DEF PidsInv, tvars, pools
  <2>. QED BY <2>1, TasksKeepPids
<1>3. PidsInv => PidsUnique
  BY DEF PidsInv
<1>. QED BY <1>1, <1>2, <1>3, PTL DEF TasksSpec
=============================================================================
