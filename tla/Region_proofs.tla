---------------------------- MODULE Region_proofs ----------------------------
(***************************************************************************)
(* Module Region for every number of threads, regions and blocks, when the *)
(* reads of info see what was written before it (RelaxedInfo = FALSE; with *)
(* the relaxed reads the blocks are not exclusive, see Region_relaxed).    *)
(***************************************************************************)
EXTENDS Region, NaturalsInduction, WellFoundedInduction, FiniteSetTheorems, TLAPS

USE DEF Label, OwnLabel

-----------------------------------------------------------------------------
(* The inductive invariant *)

\* the threads that will take their increment back
Undoing == {t \in Thread : pc[t] = "undo"}

\* the count exceeds the array by the increments that will be taken back
CountExact ==
  /\ IsFiniteSet(Undoing)
  /\ \/ Undoing = {} /\ regions_count <= MaxRegions
     \/ regions_count = MaxRegions + Cardinality(Undoing)

\* thread u initialised region i and has not set info
Sharing(u, i) == pc[u] = "share" /\ al[u].r = i

\* A region is fresh (start is not set), shared (info is set), about to be
\* shared, or released: then all its blocks are in use.
RegionLife ==
  \A i \in RegionIdx :
    /\ ~start[i] => ~info[i] /\ in_use[i] = {} /\ memory[i] = "none"
    /\ start[i] => i < regions_count
    /\ info[i] => start[i] /\ memory[i] = "mapped"
    /\ start[i] /\ ~info[i] => in_use[i] = Bit \/ \E u \in Thread : Sharing(u, i)

\* What a thread that adds a region relies on: nobody else has its slot.
Adds(t) ==
  /\ pc[t] = "init" => al[t].r < regions_count /\ ~start[al[t].r]
  /\ pc[t] = "share" => ~info[al[t].r] /\ start[al[t].r] /\ memory[al[t].r] = "mapped"
  /\ pc[t] \in {"init", "share"} =>
       \A u \in Thread \ {t} : pc[u] \in {"init", "share"} => al[u].r # al[t].r

\* The bits that a thread is about to claim are free in the field it read.
Found(t) ==
  pc[t] = "cas" => al[t].at + Count(al[t]) <= Width /\ Blocks(al[t]) \cap map[t] = {}

\* What a thread that searches relies on: the region was shared once.
Searches(t) ==
  pc[t] \in {"find", "cas"} => start[al[t].r] /\ \A u \in Thread : ~Sharing(u, al[t].r)

\* What the collect relies on: nothing of the region is allocated.
Collects(t) ==
  /\ pc[t] \in {"collect", "release", "unmap"} => t = Main
  /\ pc[t] = "release" => info[al[t].r] /\ in_use[al[t].r] = Bit
  /\ pc[t] = "unmap" => ~info[al[t].r] /\ start[al[t].r] /\ in_use[al[t].r] = Bit
  /\ pc[t] \in {"release", "unmap"} =>
       /\ \A a \in held : a.r # al[t].r
       /\ \A u \in Thread : pc[u] \in OwnLabel => al[u].r # al[t].r

\* Allocations, returned or in the hands of a thread, are in shared regions.
Owns ==
  /\ \A a \in held : info[a.r]
  /\ \A t \in Thread : pc[t] \in OwnLabel \ {"share"} => info[al[t].r]

\* the invariant of the regions and their blocks
Lifecycle ==
  /\ RegionLife
  /\ \A t \in Thread : Adds(t) /\ Searches(t) /\ Collects(t)
  /\ Owns
  /\ BlocksExclusive
Structure == TypeOK /\ CountExact /\ (\A t \in Thread : Found(t)) /\ Lifecycle

\* The bits of region i are in use and belong to no allocation: the collect is
\* about to hide it, or has.
Gone(i) ==
  \/ start[i] /\ ~info[i] /\ \A u \in Thread : ~Sharing(u, i)
  \/ \E t \in Thread : pc[t] = "release" /\ al[t].r = i

\* block b of region i belongs to an allocation
Owned(i, b) ==
  \/ \E a \in held : a.r = i /\ b \in Blocks(a)
  \/ \E t \in Thread : pc[t] \in OwnLabel /\ al[t].r = i /\ b \in Blocks(al[t])

\* labels of an allocation before its memory is delivered
Allocating == {"scan", "find", "cas", "slot", "undo", "init", "share", "claimed", "unreset", "info"}

\* Where the OS may refuse to commit, all segments are of one block: the code
\* frees the blocks of a segment whose info it could not commit with the size
\* of one block (segment.c:633), and would leak the others.
FailuresSmall == \A o \in Options : o.commit_fails => \A q \in o.requests : q.len <= 2

\* No block leaks.  Where the OS refuses to commit, the requests are of one block.
NoLeak ==
  /\ \A i \in RegionIdx : (in_use[i] = Bit /\ Gone(i)) \/ \A b \in in_use[i] : Owned(i, b)
  /\ option.commit_fails => \A t \in Thread : pc[t] \in Allocating => al[t].len <= 2

\* The options for which *commit is right.  A process that decommits what it
\* resets commits its segments at once (with eager_commit off, region.c:337 clears
\* the reset bits of blocks that stay decommitted, and those that were
\* committed keep their commit bit); and where the OS may refuse to commit, memory
\* is not committed with the allocation (region.c:331 does not look at the result).
CommitOptions ==
  \A o \in Options :
    /\ o.reset_decommits => o.eager_commit
    /\ o.commit_fails => ~o.eager_commit

\* the halves of block b
HalvesOf(b) == {2 * b, 2 * b + 1}

\* an allocation that is made has no pages; what *commit says depends on the options
Making ==
  \A t \in Thread :
    /\ al[t].reset = {} /\ al[t].pages = {}
    /\ al[t].split => al[t].len = 2
    /\ pc[t] \in Allocating \ {"unreset", "info"} =>
         /\ al[t].commit => option.eager_commit
         /\ option.eager_commit => al[t].commit \/ al[t].split

\* the pages of a segment are in its memory, and those it takes for committed are
HeldBacked ==
  \A a \in held :
    /\ a.reset \subseteq a.pages /\ a.pages \subseteq SegmentHalves(a)
    /\ \A h \in a.pages : h \in backed[a.r] \/ (option.reset_decommits /\ h \in a.reset)

\* half h of block b is committed, or a reset of it is on record
BackedOrReset(i, b, h) ==
  \/ h \in backed[i]
  \/ option.reset_decommits /\ (b \in reset[i] \/ \E a \in held : a.r = i /\ h \in a.reset)

\* the commit bits tell the truth but for resets that are on record
CommitTrue ==
  \A i \in RegionIdx : memory[i] = "mapped" =>
    \A b \in commit[i] : \A h \in HalvesOf(b) : BackedOrReset(i, b, h)

\* what *commit says after the commit bits were read
Claimed ==
  \A t \in Thread : pc[t] = "unreset" =>
    /\ al[t].commit => Blocks(al[t]) \subseteq commit[al[t].r]
    /\ ~al[t].commit /\ option.reset_decommits => Blocks(al[t]) \cap commit[al[t].r] = {}

\* the dirty bits cover all blocks that were handed out
DirtyTrue ==
  /\ \A i \in RegionIdx : touched[i] \subseteq dirty[i]
  /\ \A t \in Thread : pc[t] \in {"unreset", "info"} =>
       /\ Blocks(al[t]) \subseteq dirty[al[t].r]
       /\ al[t].zero => Blocks(al[t]) \cap touched[al[t].r] = {}

CommitRecord == Making /\ HeldBacked /\ CommitTrue /\ Claimed

-----------------------------------------------------------------------------
(* The operators *)

\* A set of naturals that is not empty has a least element.
LEMMA LeastNatural ==
  ASSUME NEW S \in SUBSET Nat, S # {}
  PROVE  \E x \in S : \A y \in S : x <= y
<1> DEFINE R == {ss \in Nat \X Nat : ss[1] < ss[2]}
<1>1. R = OpToRel(<, Nat)
  BY Zenon DEF OpToRel
<1>2. IsWellFoundedOn(R, Nat)
  BY <1>1, NatLessThanWellFounded, Zenon
<1>3. PICK x \in S : \A y \in S : ~ (<<y, x>> \in R)
  <2> HIDE DEF R
  <2> QED BY <1>2, WFMin, Zenon
<1>4. \A y \in S : ~ (y < x)
  BY <1>3
<1> QED BY <1>4

\* An allocation has at least one block and at most MaxObj, its own bits.
LEMMA BlocksLemma ==
  ASSUME NEW a \in Allocation
  PROVE  /\ Count(a) \in 1 .. MaxObj
         /\ a.at \in Blocks(a)
         /\ a.at + Count(a) <= Width => Blocks(a) \subseteq Bit
<1>1. Count(a) \in 1 .. MaxObj
  BY SizeAssumption DEF Allocation, Count
<1>2. a.at \in Nat
  BY SizeAssumption DEF Allocation
<1> QED BY <1>1, <1>2, SizeAssumption DEF Blocks, Mask, Bit

\* Where the scan stops the bits fit in the field and are free.
LEMMA FitLemma ==
  ASSUME NEW m, NEW n \in 1 .. Width, NEW i \in Nat, Fits(m, n, i) # {}
  PROVE  /\ FirstFit(m, n, i) \in 0 .. Width
         /\ FirstFit(m, n, i) + n <= Width
         /\ Mask(n, FirstFit(m, n, i)) \cap m = {}
<1> DEFINE F == Fits(m, n, i)
<1>1. F \in SUBSET Nat
  BY SizeAssumption DEF Fits
<1>2. \E x \in F : \A y \in F : x <= y
  <2>1. F # {}
    OBVIOUS
  <2> HIDE DEF F
  <2> QED BY <1>1, <2>1, LeastNatural
<1>3. FirstFit(m, n, i) \in F
  BY <1>2 DEF FirstFit
<1> QED BY <1>3, SizeAssumption DEF Fits
-----------------------------------------------------------------------------
(* The types, and the count of the regions *)

\* The initial state is typed and the count is exact.
LEMMA InitCount == Init => TypeOK /\ CountExact
<1> SUFFICES ASSUME Init PROVE TypeOK /\ CountExact
  OBVIOUS
<1>1. NoAl \in Allocation
  BY SizeAssumption DEF NoAl, Allocation
<1>2. TypeOK
  BY <1>1, OptionAssumption DEF Init, TypeOK
<1>3. Undoing = {}
  BY DEF Init, Undoing
<1>4. CountExact
  BY <1>3, FS_EmptySet, SizeAssumption DEF Init, CountExact
<1> QED BY <1>2, <1>4

\* The count changes with the threads that undo their increment.
LEMMA CountStep ==
  ASSUME TypeOK, CountExact, [Next]_vars
  PROVE  CountExact' /\ regions_count' \in Nat
<1> USE SizeAssumption
<1>0. ASSUME NEW t \in Thread, NEW l, pc' = [pc EXCEPT ![t] = l], l # "undo", pc[t] # "undo",
             UNCHANGED regions_count
      PROVE  CountExact' /\ regions_count' \in Nat
  <2>1. Undoing' = Undoing
    BY <1>0 DEF TypeOK, Undoing
  <2> QED BY <2>1, <1>0 DEF CountExact, TypeOK
<1>1. CASE UNCHANGED vars \/ Use
  <2>1. UNCHANGED <<pc, regions_count>>
    BY <1>1 DEF vars, shared, Use
  <2> QED BY <2>1 DEF CountExact, Undoing, TypeOK
<1>2. ASSUME NEW t \in Thread, Slot(t)
      PROVE  CountExact' /\ regions_count' \in Nat
  <2>1. CASE regions_count >= MaxRegions
    <3>1. Undoing' = Undoing \cup {t} /\ t \notin Undoing
      BY <1>2, <2>1 DEF TypeOK, Slot, Goto, Undoing
    <3>2. IsFiniteSet(Undoing') /\ Cardinality(Undoing') = Cardinality(Undoing) + 1
      BY <3>1, FS_AddElement DEF CountExact
    <3>3. Undoing = {} => Cardinality(Undoing) = 0
      BY FS_EmptySet
    <3>4. regions_count' = regions_count + 1
      BY <1>2 DEF Slot
    <3>5. Cardinality(Undoing) \in Nat
      BY FS_CardinalityType DEF CountExact
    <3> QED BY <3>2, <3>3, <3>4, <3>5, <2>1 DEF CountExact, TypeOK
  <2>2. CASE ~(regions_count >= MaxRegions)
    <3>1. Undoing' = Undoing
      BY <1>2, <2>2 DEF TypeOK, Slot, Goto, Undoing
    <3>2. Cardinality(Undoing) \in Nat
      BY FS_CardinalityType DEF CountExact
    <3> QED BY <1>2, <2>2, <3>1, <3>2 DEF CountExact, TypeOK, Slot
  <2> QED BY <2>1, <2>2
<1>3. ASSUME NEW t \in Thread, SlotUndo(t)
      PROVE  CountExact' /\ regions_count' \in Nat
  <2>1. Undoing' = Undoing \ {t} /\ t \in Undoing
    BY <1>3 DEF TypeOK, SlotUndo, Return, Goto, Undoing
  <2>2. /\ IsFiniteSet(Undoing') /\ Cardinality(Undoing') = Cardinality(Undoing) - 1
        /\ Cardinality(Undoing') \in Nat
    BY <2>1, FS_RemoveElement, FS_CardinalityType DEF CountExact
  <2>3. regions_count' = regions_count - 1
    BY <1>3 DEF SlotUndo
  <2>4. Cardinality(Undoing) \in Nat
    BY FS_CardinalityType DEF CountExact
  <2> QED BY <2>1, <2>2, <2>3, <2>4 DEF CountExact, TypeOK
<1>4. ASSUME NEW t \in Thread, Step(t), ~Slot(t), ~SlotUndo(t)
      PROVE  CountExact' /\ regions_count' \in Nat
  <2>1. UNCHANGED regions_count
    BY <1>4, ZenonT(60) DEF Step, AllocStart, Scan, FindRead, FindCas, OsAlloc, RegionInit, RegionShare,
         CommitBlocks, Unreset, SegmentInfo, Free, InfoFailed, FreeMark, Unclaim, CollectStart,
         CollectClaim, CollectRelease, CollectUnmap, shared
  <2>2. pc[t] # "undo"
    BY <1>4, Zenon DEF Step, AllocStart, Scan, FindRead, FindCas, OsAlloc, RegionInit, RegionShare,
         CommitBlocks, Unreset, SegmentInfo, Free, InfoFailed, FreeMark, Unclaim, CollectStart,
         CollectClaim, CollectRelease, CollectUnmap
  <2>3. \E l : l # "undo" /\ pc' = [pc EXCEPT ![t] = l]
    <3>1. pc' = pc => pc' = [pc EXCEPT ![t] = pc[t]]
      BY Z3 DEF TypeOK
    <3>2. \E l \in Label \ {"undo"} : Goto(t, l) \/ UNCHANGED pc
      BY <1>4, Zenon DEF Step, AllocStart, Scan, NextRegion, FindRead, FindCas, OsAlloc, Return,
         RegionInit, RegionShare, CommitBlocks, Unreset, Deliver, SegmentInfo, Free, InfoFailed,
         FreeMark, Unclaim, CollectStart, CollectClaim, CollectRelease, CollectUnmap
    <3> QED BY <3>1, <3>2, <2>2 DEF Goto
  <2> QED BY <1>0, <2>1, <2>2, <2>3, Zenon
<1> QED
  <2>1. option.threads \subseteq Thread
    BY OptionAssumption DEF TypeOK, Option
  <2> QED BY <2>1, <1>1, <1>2, <1>3, <1>4 DEF Next
\* where the allocation a of a thread at label l lies
Lies(l, a) ==
  /\ l \in OwnLabel \cup {"find", "cas", "init", "release", "unmap"} => a.r \in RegionIdx
  /\ l \in OwnLabel => a.at + Count(a) <= Width

\* t goes to label l with allocation a
Moves(t, l, a) ==
  /\ pc' = [pc EXCEPT ![t] = l]
  /\ al' = [al EXCEPT ![t] = a]
  /\ l \in Label /\ a \in Allocation /\ Lies(l, a)

\* the types of the fields of the regions and of the memory
RegionType ==
  /\ option \in Options
  /\ regions_count \in Nat
  /\ info \in [RegionIdx -> BOOLEAN]
  /\ start \in [RegionIdx -> BOOLEAN]
  /\ in_use \in [RegionIdx -> SUBSET Bit]
  /\ dirty \in [RegionIdx -> SUBSET Bit]
  /\ commit \in [RegionIdx -> SUBSET Bit]
  /\ reset \in [RegionIdx -> SUBSET Bit]
  /\ memory \in [RegionIdx -> {"none", "mapped", "unmapped"}]
  /\ backed \in [RegionIdx -> SUBSET Half]
  /\ touched \in [RegionIdx -> SUBSET Bit]
HeldType == held \subseteq Allocation /\ \A a \in held : a.r \in RegionIdx /\ a.at + Count(a) <= Width
LocalType ==
  /\ map \in [Thread -> SUBSET Bit]
  /\ count \in [Thread -> Nat]
  /\ visited \in [Thread -> Nat]
  /\ region_idx \in [Thread -> Nat]

\* The parts of the type invariant.
LEMMA TypeParts ==
  TypeOK <=> /\ RegionType /\ HeldType /\ LocalType
             /\ pc \in [Thread -> Label] /\ al \in [Thread -> Allocation]
             /\ \A t \in Thread : Lies(pc[t], al[t])
  BY DEF TypeOK, RegionType, HeldType, LocalType, Lies

\* A thread that moves keeps the types.
LEMMA MoveType ==
  ASSUME TypeOK, NEW t \in Thread, NEW l, NEW a, Moves(t, l, a),
         RegionType', HeldType', LocalType'
  PROVE  TypeOK'
<1>1. pc' \in [Thread -> Label] /\ al' \in [Thread -> Allocation]
  BY DEF TypeOK, Moves
<1>2. ASSUME NEW u \in Thread PROVE Lies(pc'[u], al'[u])
  <2>1. u # t => pc'[u] = pc[u] /\ al'[u] = al[u]
    BY DEF Moves, TypeOK
  <2>2. pc'[t] = l /\ al'[t] = a
    BY DEF Moves, TypeOK
  <2> QED BY <2>1, <2>2, TypeParts DEF Moves
<1>3. (\A u \in Thread : Lies(pc[u], al[u]))'
  BY <1>2 DEF Lies, Count
<1> QED BY <1>1, <1>3 DEF TypeOK, RegionType, HeldType, LocalType, Lies

\* What the code does to an allocation keeps its type.
LEMMA AlType ==
  ASSUME NEW a \in Allocation
  PROVE  /\ NoAl \in Allocation
         /\ \A r \in Nat : [a EXCEPT !.r = r] \in Allocation
         /\ \A at \in 0 .. Width : [a EXCEPT !.at = at] \in Allocation
         /\ \A r \in Nat, at \in 0 .. Width : [a EXCEPT !.r = r, !.at = at] \in Allocation
         /\ \A z, c \in BOOLEAN : [a EXCEPT !.zero = z, !.commit = c] \in Allocation
         /\ \A p \in SUBSET Half : [a EXCEPT !.pages = p, !.commit = FALSE, !.zero = FALSE] \in Allocation
         /\ [a EXCEPT !.pages = {}, !.reset = {}, !.split = FALSE] \in Allocation
         /\ [a EXCEPT !.len = 2, !.zero = FALSE] \in Allocation
<1>1. NoAl \in Allocation
  BY SizeAssumption DEF Allocation, NoAl
<1>2. \A r \in Nat : [a EXCEPT !.r = r] \in Allocation
  BY DEF Allocation
<1>3. \A at \in 0 .. Width : [a EXCEPT !.at = at] \in Allocation
  BY DEF Allocation
<1>4. \A r \in Nat, at \in 0 .. Width : [a EXCEPT !.r = r, !.at = at] \in Allocation
  BY DEF Allocation
<1>5. \A z, c \in BOOLEAN : [a EXCEPT !.zero = z, !.commit = c] \in Allocation
  BY DEF Allocation
<1>6. \A p \in SUBSET Half : [a EXCEPT !.pages = p, !.commit = FALSE, !.zero = FALSE] \in Allocation
  BY DEF Allocation
<1>7. [a EXCEPT !.pages = {}, !.reset = {}, !.split = FALSE] \in Allocation
  BY DEF Allocation
<1>8. [a EXCEPT !.len = 2, !.zero = FALSE] \in Allocation
  <2>1. 2 \in 1 .. 2 * MaxObj
    BY SizeAssumption
  <2> QED BY <2>1 DEF Allocation
<1> QED BY <1>1, <1>2, <1>3, <1>4, <1>5, <1>6, <1>7, <1>8

\* Every step keeps the types: the slot a thread gets is in the array, and so
\* are the blocks it claims.
LEMMA TypeStep ==
  ASSUME TypeOK, CountExact, \A t \in Thread : Found(t), [Next]_vars
  PROVE  TypeOK'
<1> USE SizeAssumption DEF shared, os, bitmaps, scanned
<1>0. regions_count' \in Nat
  BY CountStep
<1>t. option.threads \subseteq Thread /\ option \in Option /\ option.requests \subseteq Request
  BY OptionAssumption DEF TypeOK, Option
<1>a. ASSUME NEW t \in Thread PROVE al[t] \in Allocation /\ Lies(pc[t], al[t])
  BY TypeParts
<1>b. ASSUME NEW a \in Allocation, NEW r \in Nat
      PROVE  [a EXCEPT !.r = r] \in Allocation /\ [a EXCEPT !.r = r].r = r
  BY DEF Allocation
<1>c. ASSUME NEW a \in Allocation, NEW at \in 0 .. Width
      PROVE  [a EXCEPT !.at = at] \in Allocation /\ [a EXCEPT !.at = at].r = a.r
  BY DEF Allocation
<1>n. ASSUME NEW t \in Thread, NEW i \in Nat, NextRegion(t, i)
      PROVE  Moves(t, "scan", [al[t] EXCEPT !.r = i + 1, !.at = 0])
  <2>1. [al[t] EXCEPT !.r = i + 1, !.at = 0] \in Allocation
    <3>1. i + 1 \in Nat /\ 0 \in 0 .. Width
      OBVIOUS
    <3> QED BY <3>1, <1>a DEF Allocation
  <2>2. al' = [al EXCEPT ![t] = [al[t] EXCEPT !.r = i + 1, !.at = 0]]
    BY <1>n DEF NextRegion, TypeOK
  <2> QED BY <1>n, <2>1, <2>2 DEF NextRegion, Goto, Moves, Lies
<1>1. ASSUME NEW t \in Thread, AllocStart(t) PROVE TypeOK'
  <2>1. PICK q \in option.requests, c \in BOOLEAN :
          al' = [al EXCEPT ![t] = [NoAl EXCEPT !.r = region_idx[t], !.len = q.len,
                                               !.split = q.split, !.commit = c]]
    BY <1>1 DEF AllocStart
  <2>2. q \in Request /\ region_idx[t] \in Nat
    BY <1>t DEF TypeOK
  <2>3. [NoAl EXCEPT !.r = region_idx[t], !.len = q.len, !.split = q.split, !.commit = c] \in Allocation
    <3>1. q.len \in 1 .. 2 * MaxObj /\ q.split \in BOOLEAN
      BY <2>2 DEF Request
    <3>2. NoAl \in Allocation
      BY <1>a, AlType, Zenon
    <3> QED BY <2>2, <3>1, <3>2, Zenon DEF Allocation
  <2>4. Moves(t, "scan", [NoAl EXCEPT !.r = region_idx[t], !.len = q.len,
                                      !.split = q.split, !.commit = c])
    BY <1>1, <2>1, <2>3 DEF Moves, Lies, AllocStart, Goto
  <2> QED BY <1>1, <2>4, MoveType DEF AllocStart, TypeOK, RegionType, HeldType, LocalType
<1>2. ASSUME NEW t \in Thread, Scan(t) PROVE TypeOK'
  <2> DEFINE i == IF al[t].r >= count[t] THEN 0 ELSE al[t].r
  <2>1. i \in Nat
    BY <1>a DEF Allocation
  <2>2. [al[t] EXCEPT !.r = i] \in Allocation /\ [al[t] EXCEPT !.r = i].r = i
    BY <2>1, <1>a, <1>b
  <2>3. \E l, a : Moves(t, l, a)
    <3>1. \/ i \in RegionIdx /\ al' = [al EXCEPT ![t].r = i] /\ Goto(t, "find")
          \/ NextRegion(t, i)
      BY <1>2 DEF Scan
    <3>2. CASE NextRegion(t, i)
      BY <2>1, <3>2, <1>n
    <3>3. CASE i \in RegionIdx /\ al' = [al EXCEPT ![t].r = i] /\ Goto(t, "find")
      <4>1. al' = [al EXCEPT ![t] = [al[t] EXCEPT !.r = i]]
        BY <3>3
      <4>2. Lies("find", [al[t] EXCEPT !.r = i])
        BY <2>2, <3>3 DEF Lies
      <4> HIDE DEF i
      <4> QED BY <2>2, <3>3, <4>1, <4>2 DEF Goto, Moves
    <3> QED BY <3>1, <3>2, <3>3
  <2> HIDE DEF i
  <2>4. LocalType' /\ RegionType' /\ HeldType'
    BY <1>2 DEF Scan, NextRegion, TypeOK, RegionType, HeldType, LocalType
  <2> QED BY <2>3, <2>4, MoveType
<1>3. ASSUME NEW t \in Thread, FindRead(t) PROVE TypeOK'
  <2> DEFINE m == in_use[al[t].r]
             n == Count(al[t])
  <2>1. n \in 1 .. Width /\ al[t].r \in RegionIdx /\ m \in SUBSET Bit /\ al[t].r \in Nat
    BY <1>a, <1>3, BlocksLemma DEF FindRead, Lies, TypeOK, RegionIdx
  <2>2. CASE Fits(m, n, 0) = {}
    <3>1. Moves(t, "scan", [al[t] EXCEPT !.r = al[t].r + 1, !.at = 0])
      BY <1>3, <2>1, <2>2, <1>n DEF FindRead
    <3>2. LocalType' /\ RegionType' /\ HeldType'
      BY <1>3, <2>2 DEF FindRead, NextRegion, TypeOK, RegionType, HeldType, LocalType
    <3> QED BY <3>1, <3>2, MoveType
  <2>3. CASE Fits(m, n, 0) # {}
    <3>0. FirstFit(m, n, 0) \in 0 .. Width
      BY <2>1, <2>3, FitLemma
    <3>1. Moves(t, "cas", [al[t] EXCEPT !.at = FirstFit(m, n, 0)])
      BY <1>3, <2>1, <2>3, <3>0, <1>a, <1>c DEF FindRead, Goto, Moves, Lies
    <3>2. LocalType' /\ RegionType' /\ HeldType'
      BY <1>3, <2>1, <2>3 DEF FindRead, TypeOK, RegionType, HeldType, LocalType
    <3> QED BY <3>1, <3>2, MoveType
  <2> QED BY <2>2, <2>3
<1>4. ASSUME NEW t \in Thread, FindCas(t) PROVE TypeOK'
  <2> DEFINE m == in_use[al[t].r]
             n == Count(al[t])
  <2>1. /\ n \in 1 .. Width /\ al[t].r \in RegionIdx /\ m \in SUBSET Bit
        /\ al[t].r \in Nat /\ al[t].at \in Nat
        /\ Blocks(al[t]) \subseteq Bit /\ al[t].at + n <= Width
    <3>1. pc[t] = "cas" /\ Found(t) /\ al[t] \in Allocation /\ al[t].r \in RegionIdx
      BY <1>a, <1>4 DEF FindCas, Lies
    <3>2. al[t].r \in Nat /\ al[t].at \in Nat
      BY <3>1 DEF Allocation
    <3>3. al[t].at + n <= Width
      BY <3>1 DEF Found
    <3> QED BY <3>1, <3>2, <3>3, BlocksLemma DEF TypeOK
  <2>2. CASE m = map[t]
    <3>1. Moves(t, "claimed", al[t])
      <4>1. UNCHANGED al => al' = [al EXCEPT ![t] = al[t]]
        BY DEF TypeOK
      <4> QED BY <1>4, <2>1, <2>2, <1>a, <4>1 DEF FindCas, Goto, Moves, Lies
    <3>2. LocalType' /\ RegionType' /\ HeldType'
      BY <1>4, <2>1, <2>2 DEF FindCas, TypeOK, RegionType, HeldType, LocalType
    <3> QED BY <3>1, <3>2, MoveType
  <2>3. CASE m # map[t] /\ Fits(m, n, al[t].at) = {}
    <3>1. Moves(t, "scan", [al[t] EXCEPT !.r = al[t].r + 1, !.at = 0])
      BY <1>4, <2>1, <2>3, <1>n DEF FindCas
    <3>2. LocalType' /\ RegionType' /\ HeldType'
      BY <1>4, <2>3 DEF FindCas, NextRegion, TypeOK, RegionType, HeldType, LocalType
    <3> QED BY <3>1, <3>2, MoveType
  <2>4. CASE m # map[t] /\ Fits(m, n, al[t].at) # {}
    <3>0. FirstFit(m, n, al[t].at) \in 0 .. Width
      BY <2>1, <2>4, FitLemma
    <3>1. UNCHANGED pc => pc' = [pc EXCEPT ![t] = pc[t]]
      BY DEF TypeOK
    <3>2. Moves(t, "cas", [al[t] EXCEPT !.at = FirstFit(m, n, al[t].at)])
      BY <1>4, <2>1, <2>4, <3>0, <3>1, <1>a, <1>c DEF FindCas, Moves, Lies
    <3>3. LocalType' /\ RegionType' /\ HeldType'
      BY <1>4, <2>1, <2>4, Z3 DEF FindCas, TypeOK, RegionType, HeldType, LocalType
    <3> QED BY <3>2, <3>3, MoveType
  <2> QED BY <2>2, <2>3, <2>4
<1>r. ASSUME NEW t \in Thread, Return(t), UNCHANGED <<held, region_idx>>, RegionType'
      PROVE  TypeOK'
  <2>1. Moves(t, "idle", NoAl)
    BY <1>r, <1>a, AlType, Zenon DEF Return, Goto, Moves, Lies
  <2>2. LocalType' /\ HeldType'
    BY <1>r DEF Return, TypeOK, HeldType, LocalType
  <2> QED BY <1>r, <2>1, <2>2, MoveType
<1>5. ASSUME NEW t \in Thread, OsAlloc(t) PROVE TypeOK'
  <2>0. RegionType' /\ HeldType'
    BY <1>5 DEF OsAlloc, TypeOK, RegionType, HeldType
  <2>1. CASE Return(t)
    BY <1>5, <2>0, <2>1, <1>r DEF OsAlloc
  <2>2. CASE ~Return(t)
    <3>1. UNCHANGED al => al' = [al EXCEPT ![t] = al[t]]
      BY DEF TypeOK
    <3>2. Moves(t, "slot", al[t])
      BY <1>5, <2>2, <1>a, <3>1 DEF OsAlloc, Goto, Moves, Lies
    <3>3. LocalType'
      BY <1>5, <2>2 DEF OsAlloc, TypeOK, LocalType
    <3> QED BY <2>0, <3>2, <3>3, MoveType
  <2> QED BY <2>1, <2>2
<1>6. ASSUME NEW t \in Thread, Slot(t) PROVE TypeOK'
  <2> DEFINE l == IF regions_count >= MaxRegions THEN "undo" ELSE "init"
  <2>1. Moves(t, l, [al[t] EXCEPT !.r = regions_count])
    <3>1. regions_count \in Nat
      BY DEF TypeOK
    <3> QED BY <1>6, <1>a, <1>b, <3>1 DEF Slot, Goto, Moves, Lies, RegionIdx
  <2>2. LocalType' /\ RegionType' /\ HeldType'
    BY <1>6, <1>0 DEF Slot, TypeOK, RegionType, HeldType, LocalType
  <2> QED BY <2>1, <2>2, MoveType
<1>7. ASSUME NEW t \in Thread, SlotUndo(t) PROVE TypeOK'
  <2>1. RegionType'
    BY <1>7, <1>0 DEF SlotUndo, TypeOK, RegionType
  <2> QED BY <1>7, <2>1, <1>r DEF SlotUndo
<1>8. ASSUME NEW t \in Thread, RegionInit(t) PROVE TypeOK'
  <2>1. Count(al[t]) \in 1 .. Width /\ al[t].r \in RegionIdx /\ 0 \in 0 .. Width
    BY <1>8, <1>a, BlocksLemma DEF RegionInit, Lies
  <2>2. Count([al[t] EXCEPT !.at = 0]) = Count(al[t])
    BY <1>a DEF Count, Allocation
  <2>3. Moves(t, "share", [al[t] EXCEPT !.at = 0])
    <3>1. [al[t] EXCEPT !.at = 0] \in Allocation
      BY <1>a, <2>1, AlType, Zenon
    <3>2. [al[t] EXCEPT !.at = 0].at = 0 /\ [al[t] EXCEPT !.at = 0].r = al[t].r
      BY <1>a DEF Allocation
    <3>3. al' = [al EXCEPT ![t] = [al[t] EXCEPT !.at = 0]] /\ pc' = [pc EXCEPT ![t] = "share"]
      BY <1>8 DEF RegionInit, Goto
    <3> QED BY <3>1, <3>2, <3>3, <2>1, <2>2, Z3 DEF Moves, Lies
  <2>4. RegionType'
    <3>1. Mask(Count(al[t]), 0) \subseteq Bit
      BY <2>1 DEF Mask, Bit
    <3> QED BY <1>8, <2>1, <3>1 DEF RegionInit, TypeOK, RegionType
  <2>5. HeldType' /\ LocalType'
    BY <1>8 DEF RegionInit, TypeOK, HeldType, LocalType
  <2> QED BY <2>3, <2>4, <2>5, MoveType
<1>9. ASSUME NEW t \in Thread, RegionShare(t) PROVE TypeOK'
  <2>1. UNCHANGED al => al' = [al EXCEPT ![t] = al[t]]
    BY DEF TypeOK
  <2>2. Moves(t, "claimed", al[t])
    BY <1>9, <1>a, <2>1 DEF RegionShare, Goto, Moves, Lies
  <2>3. LocalType' /\ RegionType' /\ HeldType'
    BY <1>9 DEF RegionShare, TypeOK, RegionType, HeldType, LocalType
  <2> QED BY <2>2, <2>3, MoveType
<1>h. ASSUME NEW a \in Allocation, a.at + Count(a) <= Width
      PROVE  BlockHalves(a) \subseteq Half /\ SegmentHalves(a) \subseteq BlockHalves(a)
  BY <1>h, BlocksLemma DEF BlockHalves, SegmentHalves, Mask, Half, Allocation, Count
<1>10. ASSUME NEW t \in Thread, CommitBlocks(t) PROVE TypeOK'
  <2> DEFINE a == al[t]
             z == Blocks(a) \cap dirty[a.r] = {}
             c == a.commit \/ Blocks(a) \subseteq commit[a.r]
             b == [a EXCEPT !.zero = z, !.commit = c]
  <2>1. a.r \in RegionIdx /\ a.at + Count(a) <= Width /\ Blocks(a) \subseteq Bit /\ BlockHalves(a) \subseteq Half
    BY <1>10, <1>a, <1>h, BlocksLemma DEF CommitBlocks, Lies
  <2>2. b \in Allocation /\ b.r = a.r /\ b.at = a.at /\ b.len = a.len
    BY <1>a DEF Allocation
  <2>3. Moves(t, "unreset", b)
    <3>1. al' = [al EXCEPT ![t] = b] /\ pc' = [pc EXCEPT ![t] = "unreset"]
      BY <1>10 DEF CommitBlocks, Goto
    <3>2. Count(b) = Count(a)
      BY <2>2 DEF Count
    <3> QED BY <3>1, <3>2, <2>1, <2>2 DEF Moves, Lies
  <2>4. RegionType'
    BY <1>10, <2>1 DEF CommitBlocks, OsCommit, TypeOK, RegionType
  <2>5. LocalType' /\ HeldType'
    BY <1>10 DEF CommitBlocks, TypeOK, HeldType, LocalType
  <2> QED BY <2>3, <2>4, <2>5, MoveType
<1>d. ASSUME NEW t \in Thread, NEW p \in SUBSET Half, pc[t] \in OwnLabel,
             Deliver(t, p), UNCHANGED region_idx,
             touched' \in [RegionIdx -> SUBSET Bit] => RegionType'
      PROVE  TypeOK'
  <2> DEFINE b == [al[t] EXCEPT !.pages = p, !.commit = FALSE, !.zero = FALSE]
  <2>1. b \in Allocation /\ b.r = al[t].r /\ b.at = al[t].at /\ b.len = al[t].len
    BY <1>a DEF Allocation
  <2>2. b.r \in RegionIdx /\ b.at + Count(b) <= Width
    BY <1>a, <1>d, <2>1 DEF Lies, Count
  <2>3. HeldType'
    <3>1. held' = held \cup {b}
      BY <1>d DEF Deliver
    <3> HIDE DEF b
    <3> QED BY <2>1, <2>2, <3>1 DEF TypeOK, HeldType
  <2>4. touched' \in [RegionIdx -> SUBSET Bit]
    BY <1>d, <1>a, BlocksLemma DEF Deliver, TypeOK, Lies
  <2>5. Moves(t, "idle", NoAl)
    BY <1>d, <1>a, AlType, Zenon DEF Deliver, Return, Goto, Moves, Lies
  <2>6. LocalType'
    BY <1>d DEF Deliver, Return, TypeOK, LocalType
  <2> QED BY <1>d, <2>3, <2>4, <2>5, <2>6, MoveType
<1>11. ASSUME NEW t \in Thread, Unreset(t) PROVE TypeOK'
  <2> DEFINE a == al[t]
  <2>1. /\ a.r \in RegionIdx /\ a.at + Count(a) <= Width /\ Blocks(a) \subseteq Bit
        /\ BlockHalves(a) \subseteq Half /\ SegmentHalves(a) \subseteq Half
    BY <1>11, <1>a, <1>h, BlocksLemma DEF Unreset, Lies
  <2>2. touched' \in [RegionIdx -> SUBSET Bit] => RegionType'
    <3>1. backed' \in [RegionIdx -> SUBSET Half]
      BY <1>11, <2>1 DEF Unreset, OsUnreset, OsCommit, TypeOK
    <3> QED BY <1>11, <2>1, <3>1 DEF Unreset, TypeOK, RegionType
  <2>3. CASE a.commit
    BY <1>11, <1>d, <2>1, <2>2, <2>3 DEF Unreset
  <2>4. CASE ~a.commit
    <3>1. UNCHANGED al => al' = [al EXCEPT ![t] = al[t]]
      BY DEF TypeOK
    <3>2. Moves(t, "info", al[t])
      BY <1>11, <1>a, <2>1, <2>4, <3>1 DEF Unreset, Goto, Moves, Lies
    <3>3. UNCHANGED <<held, map, count, visited, region_idx, touched>>
      BY <1>11, <2>4 DEF Unreset
    <3>4. LocalType' /\ RegionType' /\ HeldType'
      BY <3>3, <2>2 DEF TypeOK, HeldType, LocalType
    <3> QED BY <3>2, <3>4, MoveType
  <2> QED BY <2>3, <2>4
<1>12. ASSUME NEW t \in Thread, SegmentInfo(t) PROVE TypeOK'
  <2>1. touched' \in [RegionIdx -> SUBSET Bit] => RegionType'
    BY <1>12 DEF SegmentInfo, TypeOK, RegionType
  <2> QED BY <1>12, <1>d, <2>1 DEF SegmentInfo
<1>f. ASSUME NEW t \in Thread, NEW a \in Allocation, a.r \in RegionIdx, a.at + Count(a) <= Width,
             FreeMark(t, a), HeldType'
      PROVE  TypeOK'
  <2> DEFINE b == [a EXCEPT !.pages = {}, !.reset = {}, !.split = FALSE]
  <2>1. b \in Allocation /\ b.r = a.r /\ b.at = a.at /\ b.len = a.len
    BY <1>f DEF Allocation
  <2>2. Moves(t, "unclaim", b)
    <3>1. al' = [al EXCEPT ![t] = b] /\ pc' = [pc EXCEPT ![t] = "unclaim"]
      BY <1>f DEF FreeMark, Goto
    <3> QED BY <1>f, <2>1, <3>1 DEF Moves, Lies, Count
  <2>3. Blocks(a) \subseteq Bit /\ BlockHalves(a) \subseteq Half
    BY <1>f, <1>h, BlocksLemma
  <2>4. RegionType'
    BY <1>f, <2>3 DEF FreeMark, OsReset, TypeOK, RegionType
  <2>5. LocalType'
    BY <1>f DEF FreeMark, TypeOK, LocalType
  <2> QED BY <1>f, <2>2, <2>4, <2>5, MoveType
<1>13. ASSUME NEW t \in Thread, Free(t) PROVE TypeOK'
  <2>1. PICK a \in held : held' = held \ {a} /\ FreeMark(t, a)
    BY <1>13 DEF Free
  <2>2. HeldType'
    BY <2>1 DEF TypeOK, HeldType
  <2>3. a \in Allocation /\ a.r \in RegionIdx /\ a.at + Count(a) <= Width
    BY DEF TypeOK
  <2> QED BY <2>1, <2>2, <2>3, <1>f
<1>14. ASSUME NEW t \in Thread, InfoFailed(t) PROVE TypeOK'
  <2> DEFINE a == [al[t] EXCEPT !.len = 2, !.zero = FALSE]
  <2>1. a \in Allocation /\ a.r = al[t].r /\ a.at = al[t].at /\ a.len = 2
    BY <1>a, AlType, ZenonT(60) DEF Allocation
  <2>2. a.r \in RegionIdx /\ a.at + Count(a) <= Width
    <3>1. Count(al[t]) >= 1 /\ Count(a) = 1 /\ al[t].at \in Nat /\ Count(al[t]) \in Int
      BY <1>a, <2>1, BlocksLemma DEF Allocation, Count
    <3>2. al[t].r \in RegionIdx /\ al[t].at + Count(al[t]) <= Width
      BY <1>14, <1>a DEF InfoFailed, Lies
    <3> HIDE DEF a
    <3> QED BY <2>1, <3>1, <3>2
  <2>3. HeldType'
    BY <1>14 DEF InfoFailed, TypeOK, HeldType
  <2>4. FreeMark(t, a)
    BY <1>14 DEF InfoFailed
  <2> HIDE DEF a
  <2> QED BY <2>1, <2>2, <2>3, <2>4, <1>f
<1>15. ASSUME NEW t \in Thread, Unclaim(t) PROVE TypeOK'
  <2>1. RegionType'
    BY <1>15, <1>a DEF Unclaim, TypeOK, RegionType, Lies
  <2> QED BY <1>15, <2>1, <1>r DEF Unclaim
<1>16. ASSUME NEW t \in Thread, CollectStart(t) PROVE TypeOK'
  <2>1. UNCHANGED al => al' = [al EXCEPT ![t] = al[t]]
    BY DEF TypeOK
  <2>2. Moves(t, "collect", al[t])
    BY <1>16, <1>a, <2>1 DEF CollectStart, Goto, Moves, Lies
  <2>3. LocalType' /\ RegionType' /\ HeldType'
    BY <1>16 DEF CollectStart, TypeOK, RegionType, HeldType, LocalType
  <2> QED BY <2>2, <2>3, MoveType
<1>17. ASSUME NEW t \in Thread, CollectClaim(t) PROVE TypeOK'
  <2>0. UNCHANGED al => al' = [al EXCEPT ![t] = al[t]]
    BY DEF TypeOK
  <2>1. HeldType' /\ al[t].r \in Nat
    BY <1>17, <1>a DEF CollectClaim, TypeOK, HeldType, Allocation
  <2>2. CASE Return(t) /\ UNCHANGED in_use
    <3>1. RegionType'
      BY <1>17, <2>2 DEF CollectClaim, TypeOK, RegionType
    <3> QED BY <1>17, <2>2, <3>1, <1>r DEF CollectClaim
  <2>3. CASE /\ al[t].r \in RegionIdx /\ in_use' = [in_use EXCEPT ![al[t].r] = Bit]
             /\ Goto(t, "release") /\ UNCHANGED <<al, map, count, visited>>
    <3>1. Moves(t, "release", al[t])
      BY <1>a, <2>0, <2>3 DEF Goto, Moves, Lies
    <3>2. RegionType' /\ LocalType'
      BY <1>17, <2>3 DEF CollectClaim, TypeOK, RegionType, LocalType
    <3> QED BY <2>1, <3>1, <3>2, MoveType
  <2>4. CASE al' = [al EXCEPT ![t].r = al[t].r + 1] /\ UNCHANGED <<in_use, pc, map, count, visited>>
    <3>1. pc' = [pc EXCEPT ![t] = "collect"]
      BY <1>17, <2>4 DEF CollectClaim, TypeOK
    <3>2. Moves(t, "collect", [al[t] EXCEPT !.r = al[t].r + 1])
      <4>1. al[t].r + 1 \in Nat /\ al' = [al EXCEPT ![t] = [al[t] EXCEPT !.r = al[t].r + 1]]
        BY <2>1, <2>4
      <4> QED BY <1>a, <4>1, <3>1, <1>b DEF Moves, Lies
    <3>3. RegionType' /\ LocalType'
      BY <1>17, <2>4 DEF CollectClaim, TypeOK, RegionType, LocalType
    <3> QED BY <2>1, <3>2, <3>3, MoveType
  <2> QED BY <1>17, <2>2, <2>3, <2>4 DEF CollectClaim
<1>18. ASSUME NEW t \in Thread, CollectRelease(t) PROVE TypeOK'
  <2>1. UNCHANGED al => al' = [al EXCEPT ![t] = al[t]]
    BY DEF TypeOK
  <2>2. Moves(t, "unmap", al[t])
    BY <1>18, <1>a, <2>1 DEF CollectRelease, Goto, Moves, Lies
  <2>3. LocalType' /\ RegionType' /\ HeldType'
    BY <1>18 DEF CollectRelease, TypeOK, RegionType, HeldType, LocalType
  <2> QED BY <2>2, <2>3, MoveType
<1>19. ASSUME NEW t \in Thread, CollectUnmap(t) PROVE TypeOK'
  <2>1. al[t].r + 1 \in Nat
    BY <1>a DEF Allocation
  <2>2. Moves(t, "collect", [al[t] EXCEPT !.r = al[t].r + 1])
    BY <1>19, <1>a, <2>1, <1>b DEF CollectUnmap, Goto, Moves, Lies
  <2>3. LocalType' /\ RegionType' /\ HeldType'
    BY <1>19 DEF CollectUnmap, TypeOK, RegionType, HeldType, LocalType
  <2> QED BY <2>2, <2>3, MoveType
<1>20. CASE Use
  <2>0. PICK a \in held : PageCommit(a) \/ PageReset(a) \/ PageUnreset(a)
    BY <1>20 DEF Use
  <2>1. a \in Allocation /\ a.r \in RegionIdx /\ a.at + Count(a) <= Width
    BY DEF TypeOK
  <2>2. \A p \in SegmentPages(a) : p \subseteq Half
    BY <2>1, <1>h DEF SegmentPages
  <2>3. PICK b : held' = (held \ {a}) \cup {b} /\ \E p \in SUBSET Half :
          b \in {[a EXCEPT !.pages = p], [a EXCEPT !.reset = p]}
    <3>1. a.pages \subseteq Half /\ a.reset \subseteq Half
      BY <2>1 DEF Allocation
    <3> QED BY <2>0, <2>2, <3>1 DEF PageCommit, PageReset, PageUnreset, Replace
  <2>4. b \in Allocation /\ b.r = a.r /\ b.at = a.at /\ b.len = a.len
    BY <2>1, <2>3 DEF Allocation
  <2>5. HeldType'
    BY <2>1, <2>3, <2>4 DEF HeldType, TypeOK, Count
  <2>6. backed' \in [RegionIdx -> SUBSET Half]
    <3>1. PICK p \in SegmentPages(a) :
            \/ UNCHANGED backed
            \/ backed' = [backed EXCEPT ![a.r] = @ \cup p]
            \/ backed' = [backed EXCEPT ![a.r] = @ \ p]
      BY <2>0 DEF PageCommit, PageReset, PageUnreset, OsReset, OsUnreset, OsCommit
    <3> QED BY <2>1, <2>2, <3>1 DEF TypeOK
  <2> QED BY <1>20, <2>5, <2>6 DEF Use, TypeOK, HeldType
<1>21. CASE UNCHANGED vars
  BY <1>21 DEF TypeOK, vars
<1> QED
  BY <1>t, <1>1, <1>2, <1>3, <1>4, <1>5, <1>6, <1>7, <1>8, <1>9, <1>10, <1>11, <1>12, <1>13, <1>14, <1>15, <1>16, <1>17, <1>18, <1>19, <1>20, <1>21 DEF Next, Step

\* A step of t leaves the label and the locals of the others alone.
LEMMA OthersStep ==
  ASSUME TypeOK, NEW t \in Thread, Step(t), NEW u \in Thread, u # t
  PROVE  pc'[u] = pc[u] /\ al'[u] = al[u] /\ map'[u] = map[u]
<1>1. pc'[u] = pc[u]
  BY ZenonT(60) DEF TypeOK, Step, Goto, AllocStart, Scan, NextRegion, FindRead, FindCas, OsAlloc, Slot, SlotUndo, Return,
     RegionInit, RegionShare, CommitBlocks, Unreset, Deliver, SegmentInfo, Free, InfoFailed,
     FreeMark, Unclaim, CollectStart, CollectClaim, CollectRelease, CollectUnmap
<1>2. al'[u] = al[u]
  BY ZenonT(60) DEF TypeOK, Step, AllocStart, Scan, NextRegion, FindRead, FindCas, OsAlloc, Slot, SlotUndo, Return,
     RegionInit, RegionShare, CommitBlocks, Unreset, Deliver, SegmentInfo, Free, InfoFailed,
     FreeMark, Unclaim, CollectStart, CollectClaim, CollectRelease, CollectUnmap
<1>3. map'[u] = map[u]
  BY Zenon DEF TypeOK, Step, scanned, AllocStart, Scan, NextRegion, FindRead, FindCas, OsAlloc, Slot, SlotUndo, Return,
     RegionInit, RegionShare, CommitBlocks, Unreset, Deliver, SegmentInfo, Free, InfoFailed,
     FreeMark, Unclaim, CollectStart, CollectClaim, CollectRelease, CollectUnmap
<1> QED BY <1>1, <1>2, <1>3

\* A thread only gets to the compare-and-swap with bits that it found free.
LEMMA FoundStep ==
  ASSUME TypeOK, \A t \in Thread : Found(t), [Next]_vars
  PROVE  (\A t \in Thread : Found(t))'
<1> USE SizeAssumption
<1>1. CASE Use \/ UNCHANGED vars
  <2>1. UNCHANGED <<pc, al, map>>
    BY <1>1 DEF Use, vars, scanned
  <2> QED BY <2>1 DEF Found
<1>2. ASSUME NEW t \in option.threads, Step(t)
      PROVE  (\A u \in Thread : Found(u))'
  <2>0. t \in Thread
    BY OptionAssumption DEF TypeOK, Option
  <2>1. ASSUME NEW u \in Thread, u # t PROVE Found(u)'
    BY <2>0, <2>1, <1>2, OthersStep DEF Found
  <2>2. pc'[t] # "cas" \/ FindRead(t) \/ FindCas(t)
    BY <1>2, <2>0, ZenonT(60) DEF TypeOK, Step, Goto, AllocStart, Scan, NextRegion, FindRead, FindCas, OsAlloc, Slot, SlotUndo, Return,
     RegionInit, RegionShare, CommitBlocks, Unreset, Deliver, SegmentInfo, Free, InfoFailed,
     FreeMark, Unclaim, CollectStart, CollectClaim, CollectRelease, CollectUnmap
  <2> DEFINE n == Count(al[t])
  <2>4. n \in 1 .. Width /\ al[t].at \in Nat /\ 0 \in Nat
    BY <2>0, BlocksLemma DEF TypeOK, Allocation
  <2>3. ASSUME NEW i \in Nat, NEW m, Fits(m, n, i) # {},
               al' = [al EXCEPT ![t].at = FirstFit(m, n, i)], map' = [map EXCEPT ![t] = m]
        PROVE  Found(t)'
    <3>1. al[t] \in Allocation /\ al' = [al EXCEPT ![t] = [al[t] EXCEPT !.at = FirstFit(m, n, i)]]
      BY <2>0, <2>3 DEF TypeOK
    <3>2. al'[t].at = FirstFit(m, n, i) /\ al'[t].len = al[t].len /\ map'[t] = m
      BY <2>0, <2>3, <3>1 DEF TypeOK, Allocation
    <3>3. Count(al'[t]) = n
      BY <2>3, <3>2 DEF Count
    <3> QED BY <2>3, <2>4, <3>2, <3>3, FitLemma, ZenonT(60) DEF Found, Blocks
  <2>5. ASSUME FindRead(t) PROVE Found(t)'
    <3>1. CASE Fits(in_use[al[t].r], n, 0) = {}
      BY <2>0, <2>5, <3>1 DEF FindRead, NextRegion, Goto, TypeOK, Found
    <3>2. CASE Fits(in_use[al[t].r], n, 0) # {}
      <4> DEFINE m == in_use[al[t].r]
      <4>2. Fits(m, n, 0) # {}
        BY <3>2
      <4>1. al' = [al EXCEPT ![t].at = FirstFit(m, n, 0)] /\ map' = [map EXCEPT ![t] = m]
        BY <2>5, <3>2 DEF FindRead
      <4> HIDE DEF n, m
      <4> QED BY <2>3, <2>4, <4>1, <4>2
    <3> QED BY <3>1, <3>2
  <2>6. ASSUME FindCas(t) PROVE Found(t)'
    <3> DEFINE m == in_use[al[t].r]
    <3>1. CASE m # map[t] /\ Fits(m, n, al[t].at) # {}
      <4>1. al' = [al EXCEPT ![t].at = FirstFit(m, n, al[t].at)] /\ map' = [map EXCEPT ![t] = m]
        BY <2>0, <2>6, <3>1 DEF FindCas, TypeOK
      <4> HIDE DEF n, m
      <4> QED BY <2>3, <2>4, <3>1, <4>1
    <3>2. CASE ~(m # map[t] /\ Fits(m, n, al[t].at) # {})
      BY <2>0, <2>6, <3>2 DEF FindCas, NextRegion, Goto, TypeOK, Found
    <3> QED BY <3>1, <3>2
  <2>7. Found(t)'
    BY <2>0, <2>2, <2>5, <2>6 DEF Found
  <2> QED BY <2>1, <2>7
<1> QED BY <1>1, <1>2 DEF Next

\* Every variable of the regions and of the threads has its type, and every
\* index its range: the slot that mi_region_try_alloc_os gets from the count
\* is in the array, and the blocks that are claimed are in the field.
THEOREM RegionTypes == Spec => []TypeOK
<1>1. Init => TypeOK /\ CountExact /\ \A t \in Thread : Found(t)
  <2>1. Init => \A t \in Thread : Found(t)
    BY DEF Init, Found
  <2> QED BY <2>1, InitCount
<1>2. /\ TypeOK /\ CountExact /\ \A t \in Thread : Found(t)
      /\ [Next]_vars
      => (TypeOK /\ CountExact /\ \A t \in Thread : Found(t))'
  BY TypeStep, CountStep, FoundStep
<1> QED BY <1>1, <1>2, PTL DEF Spec

\* However many threads find the array of regions full at the same time, their
\* increments are taken back and the count settles (region.c:194).
THEOREM RegionCountSettles == Spec => []CountSettles
<1>1. Init => TypeOK /\ CountExact /\ \A t \in Thread : Found(t)
  <2>1. Init => \A t \in Thread : Found(t)
    BY DEF Init, Found
  <2> QED BY <2>1, InitCount
<1>2. /\ TypeOK /\ CountExact /\ \A t \in Thread : Found(t)
      /\ [Next]_vars
      => (TypeOK /\ CountExact /\ \A t \in Thread : Found(t))'
  BY TypeStep, CountStep, FoundStep
<1>3. CountExact => CountSettles
  <2>1. Undoing = {} => Cardinality(Undoing) = 0
    BY FS_EmptySet
  <2> QED BY <2>1, SizeAssumption DEF CountExact, CountSettles, Undoing
<1> QED BY <1>1, <1>2, <1>3, PTL DEF Spec
-----------------------------------------------------------------------------
(* The regions and their blocks, one lemma for every kind of step *)

\* t moves and nobody else does
OnlyMoves(t) == \A u \in Thread \ {t} : pc'[u] = pc[u] /\ al'[u] = al[u]

\* A step of a thread that owns no blocks, before and after, and changes
\* nothing that others see.
LEMMA QuietStep ==
  ASSUME Structure, NEW t \in Thread, OnlyMoves(t),
         UNCHANGED <<regions_count, info, start, in_use, memory, held>>,
         pc[t] \in {"idle", "scan", "find", "cas", "slot", "collect", "undo"},
         pc'[t] \in {"idle", "scan", "find", "cas", "slot", "collect"},
         pc'[t] \in {"find", "cas"} => start[al'[t].r] /\ \A u \in Thread : ~Sharing(u, al'[t].r),
         pc'[t] = "collect" => t = Main
  PROVE  Lifecycle'
<1> USE DEF Structure, Lifecycle, OnlyMoves
<1>1. ASSUME NEW u \in Thread, NEW r PROVE Sharing(u, r)' <=> Sharing(u, r)
  BY DEF Sharing
<1>2. RegionLife'
  BY <1>1 DEF RegionLife
<1>3. ASSUME NEW u \in Thread PROVE Adds(u)' /\ Searches(u)' /\ Collects(u)'
  <2>1. Adds(u)'
    BY DEF Adds
  <2>2. Searches(u)'
    BY <1>1 DEF Searches
  <2>3. Collects(u)'
    BY DEF Collects
  <2> QED BY <2>1, <2>2, <2>3
<1>4. Owns'
  BY DEF Owns
<1>5. BlocksExclusive'
  BY DEF BlocksExclusive
<1> QED BY <1>2, <1>3, <1>4, <1>5

\* A step that changes an allocation in the hands of t, but not its region, and
\* takes no blocks.
LEMMA KeepStep ==
  ASSUME Structure, NEW t \in Thread, OnlyMoves(t),
         UNCHANGED <<regions_count, info, start, in_use, memory, held>>,
         pc[t] \in OwnLabel \ {"share"}, pc'[t] \in OwnLabel \ {"share"},
         al'[t].r = al[t].r, Blocks(al'[t]) \subseteq Blocks(al[t])
  PROVE  Lifecycle'
<1> USE DEF Structure, Lifecycle, OnlyMoves
<1>1. ASSUME NEW u \in Thread, NEW r PROVE Sharing(u, r)' <=> Sharing(u, r)
  BY DEF Sharing
<1>2. RegionLife'
  BY <1>1 DEF RegionLife
<1>3. ASSUME NEW u \in Thread PROVE Adds(u)' /\ Searches(u)' /\ Collects(u)'
  <2>1. Adds(u)'
    BY DEF Adds
  <2>2. Searches(u)'
    BY <1>1 DEF Searches
  <2>3. Collects(u)'
    BY DEF Collects
  <2> QED BY <2>1, <2>2, <2>3
<1>4. Owns'
  BY DEF Owns
<1>5. BlocksExclusive'
  BY Z3 DEF BlocksExclusive
<1> QED BY <1>2, <1>3, <1>4, <1>5

\* The allocation b that t made is returned.
LEMMA DeliverStep ==
  ASSUME Structure, NEW t \in Thread, OnlyMoves(t), NEW b,
         UNCHANGED <<regions_count, info, start, in_use, memory>>,
         pc[t] \in OwnLabel \ {"share"}, pc'[t] = "idle",
         held' = held \cup {b}, b.r = al[t].r, Blocks(b) = Blocks(al[t])
  PROVE  Lifecycle'
<1> USE DEF Structure, Lifecycle, OnlyMoves
<1>1. ASSUME NEW u \in Thread, NEW r PROVE Sharing(u, r)' <=> Sharing(u, r)
  BY DEF Sharing
<1>2. RegionLife'
  BY <1>1 DEF RegionLife
<1>3. ASSUME NEW u \in Thread PROVE Adds(u)' /\ Searches(u)' /\ Collects(u)'
  <2>1. Adds(u)'
    BY DEF Adds
  <2>2. Searches(u)'
    BY <1>1 DEF Searches
  <2>3. Collects(u)'
    BY DEF Collects
  <2> QED BY <2>1, <2>2, <2>3
<1>4. Owns'
  BY DEF Owns
<1>5. BlocksExclusive'
  <2>1. \A a \in held' : Blocks(a) \subseteq in_use[a.r]
    BY DEF BlocksExclusive
  <2>2. ASSUME NEW a \in held, a.r = b.r PROVE Blocks(a) \cap Blocks(b) = {}
    BY <2>2 DEF BlocksExclusive
  <2>3. \A a, c \in held' : a # c /\ a.r = c.r => Blocks(a) \cap Blocks(c) = {}
    BY <2>2 DEF BlocksExclusive
  <2>4. ASSUME NEW u \in Thread, pc'[u] \in OwnLabel
        PROVE  /\ u # t /\ pc'[u] = pc[u] /\ al'[u] = al[u]
               /\ Blocks(al[u]) \subseteq in_use[al[u].r]
               /\ \A a \in held' : a.r = al[u].r => Blocks(a) \cap Blocks(al[u]) = {}
    BY <2>4 DEF BlocksExclusive
  <2>5. ASSUME NEW u \in Thread, pc'[u] \in OwnLabel, NEW v \in Thread \ {u},
               pc'[v] \in OwnLabel, al[v].r = al[u].r
        PROVE  Blocks(al[v]) \cap Blocks(al[u]) = {}
    BY <2>4, <2>5 DEF BlocksExclusive
  <2> QED BY <2>1, <2>3, <2>4, <2>5, Z3 DEF BlocksExclusive
<1> QED BY <1>2, <1>3, <1>4, <1>5

\* t takes the allocation a to free it.
LEMMA TakeStep ==
  ASSUME Structure, NEW t \in Thread, OnlyMoves(t), NEW a \in held,
         UNCHANGED <<regions_count, info, start, in_use, memory>>,
         pc[t] = "idle", pc'[t] = "unclaim",
         held' = held \ {a}, al'[t].r = a.r, Blocks(al'[t]) = Blocks(a)
  PROVE  Lifecycle'
<1> USE DEF Structure, Lifecycle, OnlyMoves
<1>1. ASSUME NEW u \in Thread, NEW r PROVE Sharing(u, r)' <=> Sharing(u, r)
  BY DEF Sharing
<1>2. RegionLife'
  BY <1>1 DEF RegionLife
<1>3. ASSUME NEW u \in Thread PROVE Adds(u)' /\ Searches(u)' /\ Collects(u)'
  <2>1. Adds(u)'
    BY DEF Adds
  <2>2. Searches(u)'
    BY <1>1 DEF Searches
  <2>3. Collects(u)'
    BY DEF Collects
  <2> QED BY <2>1, <2>2, <2>3
<1>4. Owns'
  BY DEF Owns
<1>5. BlocksExclusive'
  BY Z3 DEF BlocksExclusive
<1> QED BY <1>2, <1>3, <1>4, <1>5

\* A segment uses its memory: the allocation a becomes b, with the same blocks.
LEMMA UseStep ==
  ASSUME Structure, NEW a \in held, NEW b,
         UNCHANGED <<regions_count, info, start, in_use, memory, pc, al>>,
         held' = (held \ {a}) \cup {b}, b.r = a.r, Blocks(b) = Blocks(a)
  PROVE  Lifecycle'
<1> USE DEF Structure, Lifecycle
<1>1. ASSUME NEW u \in Thread, NEW r PROVE Sharing(u, r)' <=> Sharing(u, r)
  BY DEF Sharing
<1>2. RegionLife'
  BY <1>1 DEF RegionLife
<1>3. ASSUME NEW u \in Thread PROVE Adds(u)' /\ Searches(u)' /\ Collects(u)'
  <2>1. Adds(u)'
    BY DEF Adds
  <2>2. Searches(u)'
    BY <1>1 DEF Searches
  <2>3. Collects(u)'
    BY DEF Collects
  <2> QED BY <2>1, <2>2, <2>3
<1>4. Owns'
  BY DEF Owns
<1>5. BlocksExclusive'
  BY Z3 DEF BlocksExclusive
<1> QED BY <1>2, <1>3, <1>4, <1>5

\* A compare-and-swap that succeeds: the bits were free, so the region is neither
\* released nor about to be.
LEMMA ClaimStep ==
  ASSUME Structure, NEW t \in Thread, OnlyMoves(t), FindCas(t), in_use[al[t].r] = map[t]
  PROVE  Lifecycle'
<1> USE DEF Structure, Lifecycle, OnlyMoves
<1> DEFINE i == al[t].r
<1>0. /\ pc[t] = "cas" /\ pc'[t] = "claimed" /\ UNCHANGED <<regions_count, info, start, memory, held, al>>
      /\ in_use' = [in_use EXCEPT ![i] = in_use[i] \cup Blocks(al[t])]
      /\ i \in RegionIdx /\ al[t] \in Allocation
  BY DEF FindCas, Goto, TypeOK, os
<1>a. /\ start[i] /\ \A u \in Thread : ~Sharing(u, i)
      /\ Blocks(al[t]) \cap in_use[i] = {} /\ Blocks(al[t]) \subseteq Bit
  BY <1>0, BlocksLemma DEF Searches, Found
<1>b. in_use[i] # Bit
  BY <1>0, <1>a, BlocksLemma
<1>c. info[i]
  BY <1>0, <1>a, <1>b DEF RegionLife
<1>d. \A r \in RegionIdx : in_use[r] \subseteq in_use'[r] /\ (r # i => in_use'[r] = in_use[r])
  BY <1>0 DEF TypeOK
<1>e. \A u \in Thread : pc[u] \in {"release", "unmap"} => al[u].r # i
  BY <1>b DEF Collects
<1>1. ASSUME NEW u \in Thread, NEW r PROVE Sharing(u, r)' <=> Sharing(u, r)
  BY <1>0 DEF Sharing
<1>2. RegionLife'
  BY <1>0, <1>1, <1>a, <1>c, <1>d DEF RegionLife
<1>3. ASSUME NEW u \in Thread PROVE Adds(u)' /\ Searches(u)' /\ Collects(u)'
  <2>1. Adds(u)'
    BY <1>0, <1>a, <1>c DEF Adds
  <2>2. Searches(u)'
    BY <1>0, <1>1 DEF Searches
  <2>3. Collects(u)'
    <3>1. pc[u] \in {"release", "unmap"} => al[u].r \in RegionIdx
      BY DEF TypeOK
    <3> QED BY <1>0, <1>c, <1>d, <1>e, <3>1 DEF Collects
  <2> QED BY <2>1, <2>2, <2>3
<1>4. Owns'
  BY <1>0, <1>c DEF Owns
<1>5. BlocksExclusive'
  <2>1. \A a \in held : a.r \in RegionIdx /\ Blocks(a) \subseteq in_use[a.r]
    BY DEF BlocksExclusive, TypeOK
  <2>2. \A u \in Thread : pc[u] \in OwnLabel => al[u].r \in RegionIdx /\ Blocks(al[u]) \subseteq in_use[al[u].r]
    BY DEF BlocksExclusive, TypeOK
  <2>3. \A a \in held : a.r = i => Blocks(a) \cap Blocks(al[t]) = {}
    BY <1>a, <2>1
  <2>4. \A u \in Thread \ {t} : pc[u] \in OwnLabel /\ al[u].r = i => Blocks(al[u]) \cap Blocks(al[t]) = {}
    BY <1>a, <2>2
  <2>5. \A a \in held : Blocks(a) \subseteq in_use'[a.r]
    BY <1>d, <2>1
  <2>6. \A u \in Thread : pc'[u] \in OwnLabel => Blocks(al[u]) \subseteq in_use'[al[u].r]
    BY <1>0, <1>d, <2>2 DEF TypeOK
  <2>7. \A a, b \in held : a # b /\ a.r = b.r => Blocks(a) \cap Blocks(b) = {}
    BY DEF BlocksExclusive
  <2>8. \A u \in Thread : pc'[u] \in OwnLabel =>
          \A a \in held : a.r = al[u].r => Blocks(a) \cap Blocks(al[u]) = {}
    BY <1>0, <2>3 DEF BlocksExclusive
  <2>9. \A u \in Thread, v \in Thread : u # v /\ pc'[u] \in OwnLabel /\ pc'[v] \in OwnLabel /\ al[u].r = al[v].r =>
          Blocks(al[v]) \cap Blocks(al[u]) = {}
    BY <1>0, <2>4 DEF BlocksExclusive
  <2> QED BY <1>0, <2>5, <2>6, <2>7, <2>8, <2>9 DEF BlocksExclusive
<1> QED BY <1>2, <1>3, <1>4, <1>5

\* A thread gets a slot: nobody has it, because the count never falls to a slot
\* that was given out.
LEMMA SlotStep ==
  ASSUME Structure, NEW t \in Thread, OnlyMoves(t), Slot(t)
  PROVE  Lifecycle'
<1> USE DEF Structure, Lifecycle, OnlyMoves
<1>0. /\ pc[t] = "slot" /\ pc'[t] \in {"undo", "init"}
      /\ (pc'[t] = "init" <=> regions_count < MaxRegions)
      /\ UNCHANGED <<info, start, in_use, memory, held>> /\ regions_count' = regions_count + 1
      /\ al'[t].r = regions_count /\ regions_count \in Nat
  BY SizeAssumption DEF Slot, Goto, TypeOK, os, bitmaps, Allocation
<1>a. pc'[t] = "init" => regions_count \in RegionIdx
  BY <1>0, SizeAssumption DEF RegionIdx
<1>b. \A r \in RegionIdx : r \in Int
  BY SizeAssumption DEF RegionIdx
<1>c. \A u \in Thread : pc[u] \in {"share", "init"} => al[u].r \in RegionIdx /\ al[u].r < regions_count
  BY DEF Adds, RegionLife, TypeOK
<1>1. ASSUME NEW u \in Thread, NEW r PROVE Sharing(u, r)' <=> Sharing(u, r)
  BY <1>0 DEF Sharing
<1>2. RegionLife'
  BY <1>0, <1>1, <1>b DEF RegionLife
<1>3. ASSUME NEW u \in Thread PROVE Adds(u)' /\ Searches(u)' /\ Collects(u)'
  <2>1. Adds(u)'
    BY <1>0, <1>a, <1>b, <1>c DEF Adds, RegionLife
  <2>2. Searches(u)'
    BY <1>0, <1>1 DEF Searches
  <2>3. Collects(u)'
    BY <1>0 DEF Collects
  <2> QED BY <2>1, <2>2, <2>3
<1>4. Owns'
  BY <1>0 DEF Owns
<1>5. BlocksExclusive'
  BY <1>0 DEF BlocksExclusive
<1> QED BY <1>2, <1>3, <1>4, <1>5

\* A thread takes its increment back: the count stays at the size of the array.
LEMMA UndoStep ==
  ASSUME Structure, NEW t \in Thread, OnlyMoves(t), SlotUndo(t)
  PROVE  Lifecycle'
<1> USE DEF Structure, Lifecycle, OnlyMoves
<1>0. /\ pc[t] = "undo" /\ pc'[t] = "idle"
      /\ UNCHANGED <<info, start, in_use, memory, held>> /\ regions_count' = regions_count - 1
      /\ regions_count \in Nat
  BY DEF SlotUndo, Return, Goto, TypeOK, os, bitmaps
<1>a. regions_count > MaxRegions
  <2>1. t \in Undoing
    BY <1>0 DEF Undoing
  <2>2. Cardinality(Undoing) \in Nat /\ Cardinality(Undoing) # 0
    BY <2>1, FS_EmptySet, FS_CardinalityType DEF CountExact
  <2> QED BY <2>1, <2>2, SizeAssumption DEF CountExact
<1>b. \A r \in RegionIdx : r \in Int /\ r < regions_count'
  BY <1>0, <1>a, SizeAssumption DEF RegionIdx
<1>c. \A u \in Thread : pc[u] \in {"share", "init"} => al[u].r \in RegionIdx
  BY DEF TypeOK
<1>1. ASSUME NEW u \in Thread, NEW r PROVE Sharing(u, r)' <=> Sharing(u, r)
  BY <1>0 DEF Sharing
<1>2. RegionLife'
  BY <1>0, <1>1, <1>b DEF RegionLife
<1>3. ASSUME NEW u \in Thread PROVE Adds(u)' /\ Searches(u)' /\ Collects(u)'
  <2>1. Adds(u)'
    BY <1>0, <1>b, <1>c DEF Adds
  <2>2. Searches(u)'
    BY <1>0, <1>1 DEF Searches
  <2>3. Collects(u)'
    BY <1>0 DEF Collects
  <2> QED BY <2>1, <2>2, <2>3
<1>4. Owns'
  BY <1>0 DEF Owns
<1>5. BlocksExclusive'
  BY <1>0 DEF BlocksExclusive
<1> QED BY <1>2, <1>3, <1>4, <1>5

\* A thread initialises the region of its slot, which was fresh.
LEMMA InitStep ==
  ASSUME Structure, NEW t \in Thread, OnlyMoves(t), RegionInit(t)
  PROVE  Lifecycle'
<1> USE DEF Structure, Lifecycle, OnlyMoves
<1> DEFINE i == al[t].r
<1>0. /\ pc[t] = "init" /\ pc'[t] = "share" /\ UNCHANGED <<regions_count, info, held>>
      /\ in_use' = [in_use EXCEPT ![i] = Blocks(al'[t])]
      /\ start' = [start EXCEPT ![i] = TRUE]
      /\ memory' = [memory EXCEPT ![i] = "mapped"]
      /\ al'[t].r = i /\ i \in RegionIdx /\ al'[t] \in Allocation
  <2>1. /\ pc[t] = "init" /\ pc'[t] = "share" /\ UNCHANGED <<regions_count, info, held>>
        /\ al[t] \in Allocation /\ i \in RegionIdx
    BY DEF RegionInit, Goto, TypeOK
  <2>2. al'[t] = [al[t] EXCEPT !.at = 0]
    BY DEF RegionInit, TypeOK
  <2>3. al'[t].at = 0 /\ al'[t].r = i /\ al'[t].len = al[t].len
    BY <2>1, <2>2 DEF Allocation
  <2>4. Count(al'[t]) = Count(al[t])
    BY <2>3, Zenon DEF Count
  <2>5. al'[t] \in Allocation
    <3>1. 0 \in 0 .. Width
      BY SizeAssumption
    <3> QED BY <2>1, <2>2, <3>1, AlType, ZenonT(60)
  <2> QED BY <2>1, <2>3, <2>4, <2>5 DEF RegionInit, Blocks
<1>a. i < regions_count /\ ~start[i] /\ ~info[i] /\ in_use[i] = {}
  BY <1>0 DEF Adds, RegionLife
<1>b. \A a \in held : a.r # i
  BY <1>0, <1>a DEF Owns
<1>c. \A u \in Thread : pc[u] \in OwnLabel => al[u].r # i
  BY <1>0, <1>a DEF Owns, Adds
<1>d. \A r \in RegionIdx \ {i} : in_use'[r] = in_use[r] /\ start'[r] = start[r] /\ memory'[r] = memory[r]
  BY <1>0 DEF TypeOK
<1>e. start'[i] /\ memory'[i] = "mapped" /\ in_use'[i] = Blocks(al'[t])
  BY <1>0 DEF TypeOK
<1>1. ASSUME NEW u \in Thread, NEW r PROVE Sharing(u, r)' <=> Sharing(u, r) \/ (u = t /\ r = i)
  BY <1>0 DEF Sharing
<1>2. RegionLife'
  <2>1. ASSUME NEW r \in RegionIdx, r # i, NEW u \in Thread, Sharing(u, r) PROVE Sharing(u, r)'
    BY <1>1, <2>1
  <2>2. \E u \in Thread : pc'[u] = "share" /\ al'[u].r = i
    BY <1>0
  <2> QED BY <1>0, <1>a, <1>d, <1>e, <2>1, <2>2 DEF RegionLife, Sharing
<1>3. ASSUME NEW u \in Thread PROVE Adds(u)' /\ Searches(u)' /\ Collects(u)'
  <2>1. Adds(u)'
    <3>1. pc[u] \in {"init", "share"} => al[u].r \in RegionIdx
      BY DEF TypeOK
    <3> QED BY <1>0, <1>a, <1>d, <1>e, <3>1 DEF Adds
  <2>2. Searches(u)'
    <3>1. pc[u] \in {"find", "cas"} => al[u].r \in RegionIdx
      BY DEF TypeOK
    <3> QED BY <1>0, <1>1, <1>a, <1>d, <1>e, <3>1 DEF Searches
  <2>3. Collects(u)'
    <3>1. pc[u] \in {"release", "unmap"} => al[u].r \in RegionIdx
      BY DEF TypeOK
    <3>2. pc[u] \in {"release", "unmap"} => al[u].r # i
      BY <1>a, BlocksLemma, SizeAssumption DEF Collects, Bit
    <3> QED BY <1>0, <1>d, <3>1, <3>2 DEF Collects
  <2> QED BY <2>1, <2>2, <2>3
<1>4. Owns'
  BY <1>0 DEF Owns
<1>5. BlocksExclusive'
  <2>1. \A a \in held : a.r \in RegionIdx /\ a.r # i
    BY <1>b DEF TypeOK
  <2>2. \A u \in Thread : pc[u] \in OwnLabel => al[u].r \in RegionIdx /\ al[u].r # i
    BY <1>c DEF TypeOK
  <2>3. \A u \in Thread \ {t} : pc'[u] \in OwnLabel =>
          /\ al'[u] = al[u] /\ al[u].r # i
          /\ Blocks(al[u]) \subseteq in_use'[al[u].r]
          /\ \A a \in held : a.r = al[u].r => Blocks(a) \cap Blocks(al[u]) = {}
          /\ \A v \in Thread \ {u} : pc[v] \in OwnLabel /\ al[v].r = al[u].r =>
               Blocks(al[v]) \cap Blocks(al[u]) = {}
    BY <1>d, <2>2 DEF BlocksExclusive
  <2>4. \A a \in held : Blocks(a) \subseteq in_use'[a.r] /\ a.r # i
    BY <1>d, <2>1 DEF BlocksExclusive
  <2>5. \A a, b \in held : a # b /\ a.r = b.r => Blocks(a) \cap Blocks(b) = {}
    BY DEF BlocksExclusive
  <2>6. \A u \in Thread, v \in Thread : u # v /\ pc'[u] \in OwnLabel /\ pc'[v] \in OwnLabel /\ al'[u].r = al'[v].r =>
          Blocks(al'[v]) \cap Blocks(al'[u]) = {}
    BY <1>0, <2>3, Z3
  <2>7. \A u \in Thread : pc'[u] \in OwnLabel =>
          /\ Blocks(al'[u]) \subseteq in_use'[al'[u].r]
          /\ \A a \in held : a.r = al'[u].r => Blocks(a) \cap Blocks(al'[u]) = {}
    <3>1. Blocks(al'[t]) \subseteq in_use'[al'[t].r]
      BY <1>0, <1>e
    <3>2. \A a \in held : a.r # al'[t].r
      BY <1>0, <2>4
    <3> QED BY <2>3, <3>1, <3>2
  <2> QED BY <1>0, <2>4, <2>5, <2>6, <2>7 DEF BlocksExclusive
<1> QED BY <1>2, <1>3, <1>4, <1>5

\* A thread lets the others see its region.
LEMMA ShareStep ==
  ASSUME Structure, NEW t \in Thread, OnlyMoves(t), RegionShare(t)
  PROVE  Lifecycle'
<1> USE DEF Structure, Lifecycle, OnlyMoves
<1> DEFINE i == al[t].r
<1>0. /\ pc[t] = "share" /\ pc'[t] = "claimed" /\ UNCHANGED <<regions_count, start, in_use, memory, held, al>>
      /\ info' = [info EXCEPT ![i] = TRUE] /\ i \in RegionIdx
  BY DEF RegionShare, Goto, TypeOK, os, bitmaps
<1>a. ~info[i] /\ start[i] /\ memory[i] = "mapped" /\ i < regions_count
  BY <1>0 DEF Adds, RegionLife
<1>b. info'[i] /\ \A r \in RegionIdx \ {i} : info'[r] = info[r]
  BY <1>0 DEF TypeOK
<1>c. \A u \in Thread : pc[u] \in {"release", "unmap"} => al[u].r # i
  BY <1>0 DEF Collects
<1>1. ASSUME NEW u \in Thread, NEW r PROVE Sharing(u, r)' <=> Sharing(u, r) /\ u # t
  BY <1>0 DEF Sharing
<1>2. RegionLife'
  <2>1. ASSUME NEW r \in RegionIdx, r # i, NEW u \in Thread, Sharing(u, r) PROVE Sharing(u, r)'
    BY <1>0, <1>1, <2>1 DEF Sharing
  <2> QED BY <1>0, <1>a, <1>b, <2>1 DEF RegionLife
<1>3. ASSUME NEW u \in Thread PROVE Adds(u)' /\ Searches(u)' /\ Collects(u)'
  <2>1. Adds(u)'
    <3>1. pc[u] \in {"init", "share"} => al[u].r \in RegionIdx
      BY DEF TypeOK
    <3> QED BY <1>0, <1>b, <3>1 DEF Adds
  <2>2. Searches(u)'
    BY <1>0, <1>1 DEF Searches
  <2>3. Collects(u)'
    <3>1. pc[u] \in {"release", "unmap"} => al[u].r \in RegionIdx
      BY DEF TypeOK
    <3> QED BY <1>0, <1>b, <1>c, <3>1 DEF Collects
  <2> QED BY <2>1, <2>2, <2>3
<1>4. Owns'
  BY <1>0, <1>b DEF Owns, TypeOK
<1>5. BlocksExclusive'
  BY <1>0 DEF BlocksExclusive
<1> QED BY <1>2, <1>3, <1>4, <1>5

\* The bits of an allocation are cleared; they are its own.
LEMMA UnclaimStep ==
  ASSUME Structure, NEW t \in Thread, OnlyMoves(t), Unclaim(t)
  PROVE  Lifecycle'
<1> USE DEF Structure, Lifecycle, OnlyMoves
<1> DEFINE i == al[t].r
<1>0. /\ pc[t] = "unclaim" /\ pc'[t] = "idle" /\ UNCHANGED <<regions_count, info, start, memory, held>>
      /\ in_use' = [in_use EXCEPT ![i] = in_use[i] \ Blocks(al[t])] /\ i \in RegionIdx
  BY DEF Unclaim, Return, Goto, TypeOK, os
<1>a. info[i] /\ start[i] /\ \A u \in Thread : pc[u] \in {"release", "unmap"} => al[u].r # i
  BY <1>0 DEF Owns, RegionLife, Collects
<1>b. \A r \in RegionIdx \ {i} : in_use'[r] = in_use[r]
  BY <1>0 DEF TypeOK
<1>c. in_use'[i] = in_use[i] \ Blocks(al[t])
  BY <1>0 DEF TypeOK
<1>1. ASSUME NEW u \in Thread, NEW r PROVE Sharing(u, r)' <=> Sharing(u, r)
  BY <1>0 DEF Sharing
<1>2. RegionLife'
  BY <1>0, <1>1, <1>a, <1>b DEF RegionLife
<1>3. ASSUME NEW u \in Thread PROVE Adds(u)' /\ Searches(u)' /\ Collects(u)'
  <2>1. Adds(u)'
    BY <1>0 DEF Adds
  <2>2. Searches(u)'
    BY <1>0, <1>1 DEF Searches
  <2>3. Collects(u)'
    <3>1. pc[u] \in {"release", "unmap"} => al[u].r \in RegionIdx
      BY DEF TypeOK
    <3> QED BY <1>0, <1>a, <1>b, <3>1 DEF Collects
  <2> QED BY <2>1, <2>2, <2>3
<1>4. Owns'
  BY <1>0 DEF Owns
<1>5. BlocksExclusive'
  <2>1. \A a \in held : a.r \in RegionIdx /\ Blocks(a) \subseteq in_use'[a.r]
    BY <1>0, <1>b, <1>c DEF BlocksExclusive, TypeOK
  <2>2. \A u \in Thread \ {t} : pc[u] \in OwnLabel =>
          al[u].r \in RegionIdx /\ Blocks(al[u]) \subseteq in_use'[al[u].r]
    BY <1>0, <1>b, <1>c DEF BlocksExclusive, TypeOK
  <2> QED BY <1>0, <2>1, <2>2 DEF BlocksExclusive
<1> QED BY <1>2, <1>3, <1>4, <1>5

\* A region without blocks in use is claimed as a whole: nothing of it is
\* allocated, and a thread that searches it will not find a free bit.
LEMMA CollectClaimStep ==
  ASSUME Structure, NEW t \in Thread, OnlyMoves(t), CollectClaim(t), pc'[t] = "release"
  PROVE  Lifecycle'
<1> USE DEF Structure, Lifecycle, OnlyMoves
<1> DEFINE i == al[t].r
<1>0. /\ pc[t] = "collect" /\ UNCHANGED <<regions_count, info, start, memory, held, al>>
      /\ in_use' = [in_use EXCEPT ![i] = Bit] /\ i \in RegionIdx /\ info[i] /\ in_use[i] = {}
  BY DEF CollectClaim, Return, Goto, TypeOK, os
<1>a. \A a \in held : a.r # i
  BY <1>0, BlocksLemma DEF BlocksExclusive, TypeOK
<1>b. \A u \in Thread : pc[u] \in OwnLabel => al[u].r # i
  BY <1>0, BlocksLemma DEF BlocksExclusive, TypeOK
<1>c. in_use'[i] = Bit /\ \A r \in RegionIdx \ {i} : in_use'[r] = in_use[r]
  BY <1>0 DEF TypeOK
<1>1. ASSUME NEW u \in Thread, NEW r PROVE Sharing(u, r)' <=> Sharing(u, r)
  BY <1>0 DEF Sharing
<1>2. RegionLife'
  BY <1>0, <1>1, <1>c DEF RegionLife
<1>3. ASSUME NEW u \in Thread PROVE Adds(u)' /\ Searches(u)' /\ Collects(u)'
  <2>1. Adds(u)'
    BY <1>0 DEF Adds
  <2>2. Searches(u)'
    BY <1>0, <1>1 DEF Searches
  <2>3. Collects(u)'
    <3>1. pc[u] \in {"release", "unmap"} => al[u].r \in RegionIdx
      BY DEF TypeOK
    <3> QED BY <1>0, <1>a, <1>b, <1>c, <3>1 DEF Collects
  <2> QED BY <2>1, <2>2, <2>3
<1>4. Owns'
  BY <1>0 DEF Owns
<1>5. BlocksExclusive'
  <2>1. \A a \in held : a.r \in RegionIdx /\ a.r # i
    BY <1>a DEF TypeOK
  <2>2. \A u \in Thread : pc[u] \in OwnLabel => al[u].r \in RegionIdx /\ al[u].r # i
    BY <1>b DEF TypeOK
  <2> QED BY <1>0, <1>c, <2>1, <2>2, Z3 DEF BlocksExclusive
<1> QED BY <1>2, <1>3, <1>4, <1>5

\* The region is hidden from the others.
LEMMA ReleaseStep ==
  ASSUME Structure, NEW t \in Thread, OnlyMoves(t), CollectRelease(t)
  PROVE  Lifecycle'
<1> USE DEF Structure, Lifecycle, OnlyMoves
<1> DEFINE i == al[t].r
<1>0. /\ pc[t] = "release" /\ pc'[t] = "unmap" /\ UNCHANGED <<regions_count, start, in_use, memory, held, al>>
      /\ info' = [info EXCEPT ![i] = FALSE] /\ i \in RegionIdx
  BY DEF CollectRelease, Goto, TypeOK, os, bitmaps
<1>a. info[i] /\ start[i] /\ in_use[i] = Bit
  BY <1>0 DEF Collects, RegionLife
<1>b. ~info'[i] /\ \A r \in RegionIdx \ {i} : info'[r] = info[r]
  BY <1>0 DEF TypeOK
<1>c. \A a \in held : a.r \in RegionIdx \ {i}
  BY <1>0 DEF Collects, TypeOK
<1>d. \A u \in Thread : pc[u] \in OwnLabel => al[u].r \in RegionIdx \ {i}
  BY <1>0 DEF Collects, TypeOK
<1>e. \A u \in Thread \ {t} : pc[u] \notin {"collect", "release", "unmap"}
  BY <1>0 DEF Collects
<1>1. ASSUME NEW u \in Thread, NEW r PROVE Sharing(u, r)' <=> Sharing(u, r)
  BY <1>0 DEF Sharing
<1>2. RegionLife'
  BY <1>0, <1>1, <1>a, <1>b DEF RegionLife
<1>3. ASSUME NEW u \in Thread PROVE Adds(u)' /\ Searches(u)' /\ Collects(u)'
  <2>1. Adds(u)'
    <3>1. pc[u] \in {"init", "share"} => al[u].r \in RegionIdx
      BY DEF TypeOK
    <3> QED BY <1>0, <1>b, <1>d, <3>1 DEF Adds
  <2>2. Searches(u)'
    BY <1>0, <1>1 DEF Searches
  <2>3. Collects(u)'
    BY <1>0, <1>a, <1>b, <1>e DEF Collects
  <2> QED BY <2>1, <2>2, <2>3
<1>4. Owns'
  BY <1>0, <1>b, <1>c, <1>d DEF Owns
<1>5. BlocksExclusive'
  BY <1>0 DEF BlocksExclusive
<1> QED BY <1>2, <1>3, <1>4, <1>5

\* The memory of a region that nobody uses is unmapped.
LEMMA UnmapStep ==
  ASSUME Structure, NEW t \in Thread, OnlyMoves(t), CollectUnmap(t)
  PROVE  Lifecycle'
<1> USE DEF Structure, Lifecycle, OnlyMoves
<1> DEFINE i == al[t].r
<1>0. /\ pc[t] = "unmap" /\ pc'[t] = "collect" /\ UNCHANGED <<regions_count, info, start, in_use, held>>
      /\ memory' = [memory EXCEPT ![i] = "unmapped"] /\ i \in RegionIdx
  BY DEF CollectUnmap, Goto, TypeOK, bitmaps, shared
<1>a. ~info[i] /\ start[i] /\ in_use[i] = Bit
  BY <1>0 DEF Collects
<1>b. \A r \in RegionIdx \ {i} : memory'[r] = memory[r]
  BY <1>0 DEF TypeOK
<1>d. \A u \in Thread : pc[u] \in OwnLabel => al[u].r \in RegionIdx \ {i}
  BY <1>0 DEF Collects, TypeOK
<1>1. ASSUME NEW u \in Thread, NEW r PROVE Sharing(u, r)' <=> Sharing(u, r)
  BY <1>0 DEF Sharing
<1>2. RegionLife'
  BY <1>0, <1>1, <1>a, <1>b DEF RegionLife
<1>3. ASSUME NEW u \in Thread PROVE Adds(u)' /\ Searches(u)' /\ Collects(u)'
  <2>1. Adds(u)'
    BY <1>0, <1>b, <1>d DEF Adds
  <2>2. Searches(u)'
    BY <1>0, <1>1 DEF Searches
  <2>3. Collects(u)'
    BY <1>0 DEF Collects
  <2> QED BY <2>1, <2>2, <2>3
<1>4. Owns'
  BY <1>0 DEF Owns
<1>5. BlocksExclusive'
  BY <1>0 DEF BlocksExclusive
<1> QED BY <1>2, <1>3, <1>4, <1>5

-----------------------------------------------------------------------------
(* The regions and their blocks *)

\* What FreeMark leaves of an allocation has its blocks.
LEMMA MarkLemma ==
  ASSUME TypeOK, NEW t \in Thread, NEW a \in Allocation, FreeMark(t, a)
  PROVE  pc'[t] = "unclaim" /\ al'[t].r = a.r /\ al'[t].at = a.at /\ al'[t].len = a.len
<1>1. al'[t] = [a EXCEPT !.pages = {}, !.reset = {}, !.split = FALSE] /\ pc'[t] = "unclaim"
  BY DEF FreeMark, Goto, TypeOK
<1> QED BY <1>1 DEF Allocation

\* Every step keeps the invariant of the regions and their blocks, if info is
\* not seen before what was written earlier.
LEMMA LifecycleStep ==
  ASSUME Structure, [Next]_vars, ~RelaxedInfo
  PROVE  Lifecycle'
<1> USE DEF os, shared, bitmaps
<1>0. TypeOK /\ option.threads \subseteq Thread
  BY OptionAssumption DEF Structure, TypeOK, Option
<1>o. ASSUME NEW t \in Thread, Step(t) PROVE OnlyMoves(t)
  BY <1>0, <1>o, OthersStep DEF OnlyMoves
<1>i. ASSUME NEW t \in Thread, NEW i, info[i], i \in RegionIdx
      PROVE  start[i] /\ \A u \in Thread : ~Sharing(u, i)
  BY <1>i DEF Structure, Lifecycle, RegionLife, Adds, Sharing
<1>q. ASSUME NEW t \in Thread, Step(t),
             UNCHANGED <<regions_count, info, start, in_use, memory, held>>,
             pc[t] \in {"idle", "scan", "find", "cas", "slot", "collect"},
             pc'[t] \in {"idle", "scan", "slot", "collect"},
             pc'[t] = "collect" => t = Main
      PROVE  Lifecycle'
  BY <1>q, <1>o, QuietStep
<1>1. ASSUME NEW t \in Thread, AllocStart(t) PROVE Lifecycle'
  BY <1>0, <1>1, <1>q DEF AllocStart, Goto, Step, TypeOK
<1>2. ASSUME NEW t \in Thread, Scan(t) PROVE Lifecycle'
  <2> DEFINE i == IF al[t].r >= count[t] THEN 0 ELSE al[t].r
  <2>1. UNCHANGED <<regions_count, info, start, in_use, memory, held>> /\ pc[t] = "scan"
    BY <1>2 DEF Scan
  <2>2. CASE i \in RegionIdx /\ SeenValid(i)
    <3>1. al' = [al EXCEPT ![t].r = i] /\ pc'[t] = "find"
      BY <1>0, <1>2, <2>2 DEF Scan, Goto, TypeOK
    <3>2. al'[t].r = i
      BY <1>0, <3>1 DEF TypeOK, Allocation
    <3>3. info[i]
      BY <2>2 DEF SeenValid
    <3> HIDE DEF i
    <3> QED BY <1>i, <1>o, <1>2, <2>1, <2>2, <3>1, <3>2, <3>3, QuietStep DEF Step
  <2>3. CASE ~(i \in RegionIdx /\ SeenValid(i))
    <3>1. pc'[t] = "scan"
      BY <1>0, <1>2, <2>3 DEF Scan, NextRegion, Goto, TypeOK
    <3> QED BY <1>q, <1>2, <2>1, <3>1 DEF Step
  <2> QED BY <2>2, <2>3
<1>3. ASSUME NEW t \in Thread, FindRead(t) PROVE Lifecycle'
  <2>1. UNCHANGED <<regions_count, info, start, in_use, memory, held>> /\ pc[t] = "find"
    BY <1>3 DEF FindRead
  <2>2. pc'[t] = "scan" \/ (pc'[t] = "cas" /\ al'[t].r = al[t].r)
    BY <1>0, <1>3 DEF FindRead, NextRegion, Goto, TypeOK, Allocation
  <2>3. start[al[t].r] /\ \A u \in Thread : ~Sharing(u, al[t].r)
    BY <2>1 DEF Structure, Lifecycle, Searches
  <2> QED BY <1>o, <1>3, <2>1, <2>2, <2>3, QuietStep DEF Step
<1>4. ASSUME NEW t \in Thread, FindCas(t) PROVE Lifecycle'
  <2>1. CASE in_use[al[t].r] = map[t]
    BY <1>o, <1>4, <2>1, ClaimStep DEF Step
  <2>2. CASE in_use[al[t].r] # map[t]
    <3>1. UNCHANGED <<regions_count, info, start, in_use, memory, held>> /\ pc[t] = "cas"
      BY <1>4, <2>2 DEF FindCas
    <3>2. pc'[t] = "scan" \/ (pc'[t] = "cas" /\ al'[t].r = al[t].r)
      BY <1>0, <1>4, <2>2 DEF FindCas, NextRegion, Goto, TypeOK, Allocation
    <3>3. start[al[t].r] /\ \A u \in Thread : ~Sharing(u, al[t].r)
      BY <3>1 DEF Structure, Lifecycle, Searches
    <3> QED BY <1>o, <1>4, <3>1, <3>2, <3>3, QuietStep DEF Step
  <2> QED BY <2>1, <2>2
<1>5. ASSUME NEW t \in Thread, OsAlloc(t) PROVE Lifecycle'
  BY <1>0, <1>5, <1>q DEF OsAlloc, Return, Goto, Step, TypeOK
<1>6. ASSUME NEW t \in Thread, Slot(t) PROVE Lifecycle'
  BY <1>o, <1>6, SlotStep DEF Step
<1>7. ASSUME NEW t \in Thread, SlotUndo(t) PROVE Lifecycle'
  BY <1>o, <1>7, UndoStep DEF Step
<1>8. ASSUME NEW t \in Thread, RegionInit(t) PROVE Lifecycle'
  BY <1>o, <1>8, InitStep DEF Step
<1>9. ASSUME NEW t \in Thread, RegionShare(t) PROVE Lifecycle'
  BY <1>o, <1>9, ShareStep DEF Step
<1>10. ASSUME NEW t \in Thread, CommitBlocks(t) PROVE Lifecycle'
  <2>1. /\ UNCHANGED <<regions_count, info, start, in_use, memory, held>>
        /\ pc[t] = "claimed" /\ pc'[t] = "unreset"
    BY <1>0, <1>10 DEF CommitBlocks, Goto, TypeOK
  <2>2. al'[t].r = al[t].r /\ al'[t].at = al[t].at /\ al'[t].len = al[t].len
    BY <1>0, <1>10 DEF CommitBlocks, TypeOK, Allocation
  <2>3. Blocks(al'[t]) = Blocks(al[t])
    BY <2>2 DEF Blocks, Count
  <2> QED BY <1>o, <1>10, <2>1, <2>2, <2>3, KeepStep DEF Step
<1>d. ASSUME NEW t \in Thread, Step(t), NEW pages, Deliver(t, pages),
             UNCHANGED <<regions_count, info, start, in_use, memory>>,
             pc[t] \in {"unreset", "info"}
      PROVE  Lifecycle'
  <2> DEFINE b == [al[t] EXCEPT !.pages = pages, !.commit = FALSE, !.zero = FALSE]
  <2>1. held' = held \cup {b} /\ pc'[t] = "idle"
    BY <1>0, <1>d DEF Deliver, Return, Goto, TypeOK
  <2>2. b.r = al[t].r /\ b.at = al[t].at /\ b.len = al[t].len
    BY <1>0 DEF TypeOK, Allocation
  <2>3. Blocks(b) = Blocks(al[t])
    BY <2>2 DEF Blocks, Count
  <2> HIDE DEF b
  <2> QED BY <1>o, <1>d, <2>1, <2>2, <2>3, DeliverStep
<1>11. ASSUME NEW t \in Thread, Unreset(t) PROVE Lifecycle'
  <2>1. UNCHANGED <<regions_count, info, start, in_use, memory>> /\ pc[t] = "unreset"
    BY <1>11 DEF Unreset
  <2>2. CASE al[t].commit
    BY <1>d, <1>11, <2>1, <2>2 DEF Unreset, Step
  <2>3. CASE ~al[t].commit
    <3>1. UNCHANGED <<held, al>> /\ pc'[t] = "info"
      BY <1>0, <1>11, <2>3 DEF Unreset, Goto, TypeOK
    <3> QED BY <1>o, <1>11, <2>1, <3>1, KeepStep DEF Step
  <2> QED BY <2>2, <2>3
<1>12. ASSUME NEW t \in Thread, SegmentInfo(t) PROVE Lifecycle'
  BY <1>d, <1>12 DEF SegmentInfo, Step
<1>13. ASSUME NEW t \in Thread, Free(t) PROVE Lifecycle'
  <2>1. PICK a \in held : held' = held \ {a} /\ FreeMark(t, a)
    BY <1>13 DEF Free
  <2>2. al'[t].r = a.r /\ al'[t].at = a.at /\ al'[t].len = a.len /\ pc'[t] = "unclaim"
    BY <1>0, <2>1, MarkLemma DEF TypeOK
  <2>3. UNCHANGED <<regions_count, info, start, in_use, memory>> /\ pc[t] = "idle"
    BY <1>13, <2>1 DEF Free, FreeMark
  <2>4. Blocks(al'[t]) = Blocks(a)
    BY <2>2 DEF Blocks, Count
  <2> QED BY <1>o, <1>13, <2>1, <2>2, <2>3, <2>4, TakeStep DEF Step
<1>14. ASSUME NEW t \in Thread, InfoFailed(t) PROVE Lifecycle'
  <2> DEFINE a == [al[t] EXCEPT !.len = 2, !.zero = FALSE]
  <2>0. a \in Allocation /\ a.r = al[t].r /\ a.at = al[t].at /\ a.len = 2
    <3>1. al[t] \in Allocation
      BY <1>0, Zenon DEF TypeOK
    <3>2. a \in Allocation
      BY <3>1, AlType, Zenon
    <3> QED BY <3>1, <3>2 DEF Allocation
  <2>1. FreeMark(t, a) /\ UNCHANGED held /\ pc[t] = "info"
    BY <1>14 DEF InfoFailed
  <2> HIDE DEF a
  <2>2. al'[t].r = al[t].r /\ al'[t].at = al[t].at /\ al'[t].len = 2 /\ pc'[t] = "unclaim"
    BY <1>0, <2>0, <2>1, MarkLemma
  <2>3. UNCHANGED <<regions_count, info, start, in_use, memory>>
    BY <2>1 DEF FreeMark
  <2>4. Blocks(al'[t]) \subseteq Blocks(al[t])
    <3>1. Count(al'[t]) = 1
      BY <2>2 DEF Count
    <3>2. Count(al[t]) >= 1 /\ Count(al[t]) \in Int /\ al[t].at \in Nat
      BY <1>0, BlocksLemma, SizeAssumption DEF TypeOK, Allocation
    <3> QED BY <2>2, <3>1, <3>2 DEF Blocks, Mask
  <2> QED BY <1>o, <1>14, <2>1, <2>2, <2>3, <2>4, KeepStep DEF Step
<1>15. ASSUME NEW t \in Thread, Unclaim(t) PROVE Lifecycle'
  BY <1>o, <1>15, UnclaimStep DEF Step
<1>16. ASSUME NEW t \in Thread, CollectStart(t) PROVE Lifecycle'
  BY <1>0, <1>16, <1>q DEF CollectStart, Goto, Step, TypeOK
<1>17. ASSUME NEW t \in Thread, CollectClaim(t) PROVE Lifecycle'
  <2>1. CASE pc'[t] = "release"
    BY <1>o, <1>17, <2>1, CollectClaimStep DEF Step
  <2>2. CASE pc'[t] # "release"
    <3>1. /\ UNCHANGED <<regions_count, info, start, in_use, memory, held>> /\ pc[t] = "collect"
          /\ pc'[t] \in {"idle", "collect"}
      BY <1>0, <1>17, <2>2 DEF CollectClaim, Return, Goto, TypeOK
    <3>2. t = Main
      BY <3>1 DEF Structure, Lifecycle, Collects
    <3> QED BY <1>q, <1>17, <3>1, <3>2 DEF Step
  <2> QED BY <2>1, <2>2
<1>18. ASSUME NEW t \in Thread, CollectRelease(t) PROVE Lifecycle'
  BY <1>o, <1>18, ReleaseStep DEF Step
<1>19. ASSUME NEW t \in Thread, CollectUnmap(t) PROVE Lifecycle'
  BY <1>o, <1>19, UnmapStep DEF Step
<1>20. CASE Use
  <2>0. PICK a \in held : PageCommit(a) \/ PageReset(a) \/ PageUnreset(a)
    BY <1>20 DEF Use
  <2>1. PICK b : held' = (held \ {a}) \cup {b} /\ \E p : b \in {[a EXCEPT !.pages = p], [a EXCEPT !.reset = p]}
    BY <2>0 DEF PageCommit, PageReset, PageUnreset, Replace
  <2>2. b.r = a.r /\ b.at = a.at /\ b.len = a.len
    BY <1>0, <2>1 DEF TypeOK, Allocation
  <2>3. Blocks(b) = Blocks(a)
    BY <2>2 DEF Blocks, Count
  <2> QED BY <1>20, <2>1, <2>2, <2>3, UseStep DEF Use
<1>21. CASE UNCHANGED vars
  <2>1. UNCHANGED <<regions_count, info, start, in_use, memory, held, pc, al>>
    BY <1>21 DEF vars
  <2> QED BY <2>1 DEF Structure, Lifecycle, RegionLife, Adds, Searches, Collects, Owns,
            BlocksExclusive, Sharing
<1> QED
  BY <1>0, <1>1, <1>2, <1>3, <1>4, <1>5, <1>6, <1>7, <1>8, <1>9, <1>10, <1>11, <1>12, <1>13, <1>14, <1>15, <1>16, <1>17, <1>18, <1>19, <1>20, <1>21 DEF Next, Step

\* The initial state has no region.
LEMMA InitStructure == Init => Structure
<1> SUFFICES ASSUME Init PROVE Structure
  OBVIOUS
<1>1. TypeOK /\ CountExact
  BY InitCount
<1>2. \A t \in Thread : pc[t] = "idle" /\ Found(t)
  BY DEF Init, Found
<1>3. held = {} /\ \A i \in RegionIdx : ~start[i] /\ ~info[i] /\ in_use[i] = {} /\ memory[i] = "none"
  BY DEF Init
<1>4. Lifecycle
  BY <1>2, <1>3 DEF Lifecycle, RegionLife, Adds, Searches, Collects, Owns, BlocksExclusive
<1> QED BY <1>1, <1>2, <1>4 DEF Structure

\* The inductive invariant of the regions and their blocks.
LEMMA StructureStep ==
  ASSUME ~RelaxedInfo
  PROVE  Structure /\ [Next]_vars => Structure'
  BY LifecycleStep, TypeStep, CountStep, FoundStep DEF Structure

\* No block is handed out twice, whatever threads search, claim, free and
\* collect at the same time (bitmap.inc.c:155, region.c:485).
THEOREM RegionBlocksExclusive ==
  ASSUME ~RelaxedInfo
  PROVE  Spec => []BlocksExclusive
<1>1. Structure => BlocksExclusive
  BY DEF Structure, Lifecycle
<1> QED BY InitStructure, StructureStep, <1>1, PTL DEF Spec

\* An allocation lies in memory that is mapped, in a region with a start that
\* the others can see: a collect never takes a region in which a thread has
\* claimed blocks (region.c:505).
THEOREM RegionAllocationMapped ==
  ASSUME ~RelaxedInfo
  PROVE  Spec => []AllocationMapped
<1>1. Structure => AllocationMapped
  <2> SUFFICES ASSUME Structure PROVE AllocationMapped
    OBVIOUS
  <2>1. \A i \in RegionIdx : info[i] => memory[i] = "mapped" /\ start[i]
    BY DEF Structure, Lifecycle, RegionLife
  <2>2. /\ \A a \in held : a.r \in RegionIdx
        /\ \A t \in Thread : pc[t] \in OwnLabel => al[t].r \in RegionIdx
    BY DEF Structure, TypeOK
  <2> QED BY <2>1, <2>2 DEF Structure, Lifecycle, Owns, Adds, AllocationMapped
<1> QED BY InitStructure, StructureStep, <1>1, PTL DEF Spec

-----------------------------------------------------------------------------
(* No block leaks *)

\* what an allocation has in common with b: the region and the blocks
SameBlocks(a, b) == a.r = b.r /\ Blocks(a) = Blocks(b)

\* The blocks of an allocation in the hands of t stay its own, or are those of
\* the allocation that is returned, until they are unclaimed.
LEMMA OwnKeep ==
  ASSUME TypeOK, NEW t \in Thread, Step(t), ~Unclaim(t), pc[t] \in OwnLabel,
         InfoFailed(t) => al[t].len <= 2
  PROVE  /\ held \subseteq held'
         /\ \/ pc'[t] \in OwnLabel /\ SameBlocks(al'[t], al[t])
            \/ \E a \in held' : SameBlocks(a, al[t])
<1>0. al[t] \in Allocation
  BY DEF TypeOK
<1>s. ASSUME NEW a, a.r = al[t].r, a.at = al[t].at, a.len = al[t].len
      PROVE  SameBlocks(a, al[t])
  BY <1>s DEF SameBlocks, Blocks, Count
<1>1. CASE RegionShare(t)
  BY <1>1 DEF RegionShare, Goto, TypeOK, SameBlocks, os
<1>2. CASE CommitBlocks(t)
  <2>1. pc'[t] = "unreset" /\ al'[t].r = al[t].r /\ al'[t].at = al[t].at /\ al'[t].len = al[t].len
    BY <1>0, <1>2 DEF CommitBlocks, Goto, TypeOK, Allocation
  <2> QED BY <1>2, <1>s, <2>1 DEF CommitBlocks
<1>d. ASSUME NEW pages, Deliver(t, pages)
      PROVE  held \subseteq held' /\ \E a \in held' : SameBlocks(a, al[t])
  <2> DEFINE b == [al[t] EXCEPT !.pages = pages, !.commit = FALSE, !.zero = FALSE]
  <2>1. held' = held \cup {b}
    BY <1>d DEF Deliver
  <2>2. b.r = al[t].r /\ b.at = al[t].at /\ b.len = al[t].len
    BY <1>0 DEF Allocation
  <2>3. SameBlocks(b, al[t])
    BY <1>s, <2>2
  <2> HIDE DEF b
  <2> QED BY <2>1, <2>3
<1>3. CASE Unreset(t)
  <2>1. CASE al[t].commit
    BY <1>3, <1>d, <2>1 DEF Unreset
  <2>2. CASE ~al[t].commit
    BY <1>3, <2>2 DEF Unreset, Goto, TypeOK, SameBlocks
  <2> QED BY <2>1, <2>2
<1>4. CASE SegmentInfo(t)
  BY <1>4, <1>d DEF SegmentInfo
<1>5. CASE InfoFailed(t)
  <2> DEFINE a == [al[t] EXCEPT !.len = 2, !.zero = FALSE]
  <2>1. a \in Allocation
    BY <1>0, AlType, Zenon
  <2>2. a.r = al[t].r /\ a.at = al[t].at /\ a.len = 2
    BY <1>0 DEF Allocation
  <2>3. FreeMark(t, a) /\ UNCHANGED held
    BY <1>5 DEF InfoFailed
  <2> HIDE DEF a
  <2>4. pc'[t] = "unclaim" /\ al'[t].r = al[t].r /\ al'[t].at = al[t].at /\ al'[t].len = 2
    BY <2>1, <2>2, <2>3, MarkLemma
  <2>5. Count(al'[t]) = 1 /\ Count(al[t]) = 1
    <3>1. al[t].len \in {1, 2}
      BY <1>0, <1>5, Z3 DEF Allocation
    <3> QED BY <2>4, <3>1 DEF Count
  <2> QED BY <2>3, <2>4, <2>5 DEF SameBlocks, Blocks
<1>6. \/ RegionShare(t) \/ CommitBlocks(t) \/ Unreset(t) \/ SegmentInfo(t) \/ InfoFailed(t)
  BY Zenon DEF Step, AllocStart, Scan, FindRead, FindCas, OsAlloc, Slot, SlotUndo,
     RegionInit, Free, CollectStart, CollectClaim, CollectRelease, CollectUnmap
<1> QED BY <1>1, <1>2, <1>3, <1>4, <1>5, <1>6

\* An allocation stays, or a thread takes it to free it.
LEMMA HeldKeep ==
  ASSUME TypeOK, NEW t \in Thread, Step(t), NEW a \in held
  PROVE  a \in held' \/ (pc'[t] \in OwnLabel /\ SameBlocks(al'[t], a))
<1>1. CASE Free(t)
  <2>1. PICK c \in held : held' = held \ {c} /\ FreeMark(t, c)
    BY <1>1 DEF Free
  <2>2. pc'[t] = "unclaim" /\ al'[t].r = c.r /\ al'[t].at = c.at /\ al'[t].len = c.len
    BY <2>1, MarkLemma DEF TypeOK
  <2>3. SameBlocks(al'[t], c)
    BY <2>2, Zenon DEF SameBlocks, Blocks, Count
  <2> QED BY <2>1, <2>2, <2>3
<1>2. CASE ~Free(t)
  BY <1>2, Zenon DEF Step, AllocStart, Scan, FindRead, FindCas, OsAlloc, Slot, SlotUndo,
     RegionInit, RegionShare, CommitBlocks, Unreset, Deliver, SegmentInfo, InfoFailed,
     Unclaim, CollectStart, CollectClaim, CollectRelease, CollectUnmap, os
<1> QED BY <1>1, <1>2

\* A block keeps its owner until it is unclaimed.
LEMMA OwnedStep ==
  ASSUME TypeOK, NEW t \in Thread, Step(t), ~Unclaim(t), InfoFailed(t) => al[t].len <= 2,
         NEW i, NEW b, Owned(i, b)
  PROVE  Owned(i, b)'
<1>1. ASSUME NEW a \in held, a.r = i, b \in Blocks(a) PROVE Owned(i, b)'
  BY <1>1, HeldKeep DEF Owned, SameBlocks
<1>2. ASSUME NEW u \in Thread, pc[u] \in OwnLabel, al[u].r = i, b \in Blocks(al[u]) PROVE Owned(i, b)'
  <2>1. CASE u = t
    BY <1>2, <2>1, OwnKeep DEF Owned, SameBlocks
  <2>2. CASE u # t
    BY <1>2, <2>2, OthersStep DEF Owned
  <2> QED BY <2>1, <2>2
<1> QED BY <1>1, <1>2 DEF Owned

\* A region that is gone stays so, with all its bits.
LEMMA GoneStep ==
  ASSUME Structure, NEW t \in Thread, Step(t), NEW i \in RegionIdx, in_use[i] = Bit, Gone(i)
  PROVE  in_use'[i] = Bit /\ Gone(i)'
<1> USE DEF Structure, Lifecycle
<1>a. \A u \in Thread : pc[u] = "init" \/ pc[u] \in OwnLabel => al[u].r # i
  BY DEF Gone, Owns, Adds, Collects, Sharing, RegionLife
<1>c. ASSUME NEW u \in Thread, pc[u] = "cas" PROVE map[u] # Bit
  BY <1>c, BlocksLemma DEF Found, TypeOK
<1>b. start[i]
  BY DEF Gone, Collects, RegionLife
<1>1. in_use'[i] = Bit
  <2>1. CASE RegionInit(t)
    <3>1. al[t].r # i
      BY <1>a, <2>1 DEF RegionInit
    <3> QED BY <2>1, <3>1 DEF RegionInit, TypeOK
  <2>2. CASE Unclaim(t)
    <3>1. al[t].r # i
      BY <1>a, <2>2 DEF Unclaim
    <3> QED BY <2>2, <3>1 DEF Unclaim, TypeOK
  <2>3. CASE FindCas(t)
    BY <1>c, <2>3 DEF FindCas, TypeOK
  <2>4. CASE CollectClaim(t)
    BY <2>4, Zenon DEF CollectClaim, TypeOK
  <2>5. CASE ~RegionInit(t) /\ ~Unclaim(t) /\ ~FindCas(t) /\ ~CollectClaim(t)
    BY <2>5, ZenonT(60) DEF Step, AllocStart, Scan, FindRead, OsAlloc, Slot, SlotUndo,
     RegionShare, CommitBlocks, Unreset, SegmentInfo, Free, InfoFailed,
     FreeMark, CollectStart, CollectRelease, CollectUnmap, shared, bitmaps
  <2> QED BY <2>1, <2>2, <2>3, <2>4, <2>5
<1>2. start'[i]
  BY <1>b, ZenonT(60) DEF TypeOK, Step, AllocStart, Scan, FindRead, FindCas, OsAlloc, Slot, SlotUndo,
     RegionInit, RegionShare, CommitBlocks, Unreset, SegmentInfo, Free, InfoFailed,
     FreeMark, Unclaim, CollectStart, CollectClaim, CollectRelease, CollectUnmap, shared
<1>3. ASSUME NEW u \in Thread, Sharing(u, i)' PROVE Sharing(u, i)
  <2>1. CASE u # t
    BY <1>3, <2>1, OthersStep DEF Sharing
  <2>2. CASE u = t
    <3>1. pc'[t] = "share" /\ al'[t].r = i
      BY <1>3, <2>2 DEF Sharing
    <3>2. RegionInit(t)
      BY <3>1, ZenonT(60) DEF TypeOK, Step, Goto, AllocStart, Scan, NextRegion, FindRead, FindCas, OsAlloc, Slot, SlotUndo, Return,
     RegionInit, RegionShare, CommitBlocks, Unreset, Deliver, SegmentInfo, Free, InfoFailed,
     FreeMark, Unclaim, CollectStart, CollectClaim, CollectRelease, CollectUnmap
    <3>3. al'[t].r = al[t].r /\ pc[t] = "init"
      BY <3>2 DEF RegionInit, TypeOK, Allocation
    <3> QED BY <1>a, <3>1, <3>3
  <2> QED BY <2>1, <2>2
<1>4. CASE start[i] /\ ~info[i] /\ \A u \in Thread : ~Sharing(u, i)
  <2>1. ~info'[i]
    BY <1>4, Zenon DEF TypeOK, Step, AllocStart, Scan, FindRead, FindCas, OsAlloc, Slot, SlotUndo,
       RegionInit, RegionShare, CommitBlocks, Unreset, SegmentInfo, Free, InfoFailed,
       FreeMark, Unclaim, CollectStart, CollectClaim, CollectRelease, CollectUnmap, shared, Sharing
  <2> QED BY <1>1, <1>2, <1>3, <1>4, <2>1 DEF Gone
<1>5. ASSUME NEW u \in Thread, pc[u] = "release", al[u].r = i
      PROVE  Gone(i)'
  <2>1. CASE u # t
    BY <1>5, <2>1, OthersStep DEF Gone
  <2>2. CASE u = t
    <3>1. CollectRelease(t)
      BY <1>5, <2>2, Zenon DEF Step, AllocStart, Scan, FindRead, FindCas, OsAlloc, Slot, SlotUndo,
       RegionInit, RegionShare, CommitBlocks, Unreset, SegmentInfo, Free, InfoFailed,
       Unclaim, CollectStart, CollectClaim, CollectUnmap
    <3>2. ~info'[i]
      BY <1>5, <2>2, <3>1 DEF CollectRelease, TypeOK
    <3>3. info[i]
      BY <1>5 DEF Collects
    <3>4. \A v \in Thread : ~Sharing(v, i)
      BY <3>3 DEF Adds, Sharing
    <3> QED BY <1>2, <1>3, <3>2, <3>4 DEF Gone
  <2> QED BY <2>1, <2>2
<1> QED BY <1>1, <1>4, <1>5 DEF Gone

\* The allocations in progress keep the length that was asked for.
LEMMA LengthStep ==
  ASSUME TypeOK, FailuresSmall, [Next]_vars, option.commit_fails,
         \A t \in Thread : pc[t] \in Allocating => al[t].len <= 2
  PROVE  \A t \in Thread : pc'[t] \in Allocating => al'[t].len <= 2
<1>0. option.threads \subseteq Thread /\ \A q \in option.requests : q.len <= 2
  BY OptionAssumption DEF TypeOK, Option, FailuresSmall
<1>1. CASE Use \/ UNCHANGED vars
  BY <1>1 DEF Use, vars
<1>2. ASSUME NEW t \in Thread, Step(t), NEW u \in Thread, pc'[u] \in Allocating PROVE al'[u].len <= 2
  <2>1. CASE u # t
    BY <1>2, <2>1, OthersStep
  <2>2. CASE u = t
    <3>1. CASE AllocStart(t)
      <4>1. PICK q \in option.requests, c \in BOOLEAN :
              al' = [al EXCEPT ![t] = [NoAl EXCEPT !.r = region_idx[t], !.len = q.len,
                                                   !.split = q.split, !.commit = c]]
        BY <3>1 DEF AllocStart
      <4>2. al'[t].len = q.len
        BY <4>1 DEF TypeOK, NoAl
      <4> QED BY <1>0, <2>2, <4>2
    <3>2. CASE ~AllocStart(t) /\ pc[t] \in Allocating /\ pc'[t] \in Allocating
      <4>1. al'[t].len = al[t].len
        <5>1. CASE Scan(t) \/ FindRead(t) \/ FindCas(t)
          BY <5>1, <3>2 DEF TypeOK, Allocation, Scan, FindRead, FindCas, NextRegion
        <5>2. CASE Slot(t) \/ RegionInit(t) \/ RegionShare(t) \/ CommitBlocks(t)
          BY <5>2, <3>2 DEF TypeOK, Allocation, Slot, RegionInit, RegionShare, CommitBlocks
        <5>3. CASE OsAlloc(t) \/ Unreset(t)
          BY <5>3, <3>2, Z3 DEF TypeOK, Goto, Allocating, OsAlloc, Unreset, Deliver, Return
        <5>4. ~(SlotUndo(t) \/ SegmentInfo(t) \/ Free(t) \/ InfoFailed(t) \/ Unclaim(t) \/ CollectStart(t)
                \/ CollectClaim(t) \/ CollectRelease(t) \/ CollectUnmap(t))
          BY <3>2, ZenonT(60) DEF TypeOK, Goto, Allocating, SlotUndo, Return, Deliver, SegmentInfo, Free, InfoFailed,
            FreeMark, Unclaim, CollectStart, CollectClaim, CollectRelease, CollectUnmap
        <5> QED BY <1>2, <3>2, <5>1, <5>2, <5>3, <5>4 DEF Step
      <4> QED BY <1>2, <2>2, <3>2, <4>1
    <3>3. CASE ~AllocStart(t) /\ pc[t] \notin Allocating
      <4>1. \/ Free(t) \/ Unclaim(t) \/ CollectStart(t) \/ CollectClaim(t) \/ CollectRelease(t) \/ CollectUnmap(t)
        BY <1>2, <3>3 DEF Step, Allocating, Scan, FindRead, FindCas, OsAlloc, Slot, SlotUndo,
          RegionInit, RegionShare, CommitBlocks, Unreset, SegmentInfo, InfoFailed
      <4>2. pc'[t] \notin Allocating
        <5>1. CASE Free(t)
          BY <5>1 DEF TypeOK, Goto, Allocating, Free, FreeMark
        <5>2. CASE Unclaim(t) \/ CollectStart(t) \/ CollectRelease(t) \/ CollectUnmap(t)
          BY <5>2 DEF TypeOK, Goto, Allocating, Return, Unclaim, CollectStart, CollectRelease, CollectUnmap
        <5>3. CASE CollectClaim(t)
          BY <5>3 DEF TypeOK, Goto, Allocating, Return, CollectClaim
        <5> QED BY <4>1, <5>1, <5>2, <5>3
      <4> QED BY <1>2, <2>2, <4>2
    <3> QED BY <1>2, <2>2, <3>1, <3>2, <3>3
  <2> QED BY <2>1, <2>2
<1> QED BY <1>0, <1>1, <1>2 DEF Next

\* Every bit that is in use stays owned, or its region is gone.
LEMMA NoLeakStep ==
  ASSUME Structure, NoLeak, FailuresSmall, [Next]_vars
  PROVE  NoLeak'
<1> USE DEF Structure, Lifecycle
<1>0. TypeOK /\ option.threads \subseteq Thread
  BY OptionAssumption DEF TypeOK, Option
<1>u. UNCHANGED option
  BY ZenonT(60) DEF Next, Use, vars, Step, AllocStart, Scan, FindRead, FindCas, OsAlloc, Slot, SlotUndo,
     RegionInit, RegionShare, CommitBlocks, Unreset, SegmentInfo, Free, InfoFailed, FreeMark,
     Unclaim, CollectStart, CollectClaim, CollectRelease, CollectUnmap
<1>l. option'.commit_fails => \A t \in Thread : pc'[t] \in Allocating => al'[t].len <= 2
  BY <1>0, <1>u, LengthStep DEF NoLeak
<1>1. ASSUME NEW t \in Thread, Step(t), NEW i \in RegionIdx
      PROVE  (in_use'[i] = Bit /\ Gone(i)') \/ \A b \in in_use'[i] : Owned(i, b)'
  <2>1. CASE in_use[i] = Bit /\ Gone(i)
    BY <1>1, <2>1, GoneStep
  <2>2. CASE \A b \in in_use[i] : Owned(i, b)
    <3>s. InfoFailed(t) => al[t].len <= 2
      BY DEF InfoFailed, NoLeak, Allocating
    <3>o. ASSUME NEW b \in in_use[i], ~Unclaim(t) PROVE Owned(i, b)'
      BY <1>0, <1>1, <2>2, <3>s, <3>o, OwnedStep
    <3>1. CASE FindCas(t)
      <4>1. CASE in_use'[i] \subseteq in_use[i]
        BY <3>1, <3>o, <4>1 DEF FindCas, Unclaim
      <4>2. CASE /\ al[t].r = i /\ in_use'[i] = in_use[i] \cup Blocks(al[t])
                 /\ pc'[t] = "claimed" /\ al'[t] = al[t]
        <5>1. \A b \in Blocks(al[t]) : Owned(i, b)'
          BY <4>2 DEF Owned
        <5> QED BY <3>1, <3>o, <4>2, <5>1 DEF FindCas, Unclaim
      <4>3. \/ in_use'[i] \subseteq in_use[i]
            \/ /\ al[t].r = i /\ in_use'[i] = in_use[i] \cup Blocks(al[t])
               /\ pc'[t] = "claimed" /\ al'[t] = al[t]
        BY <1>0, <3>1 DEF FindCas, Goto, TypeOK
      <4> QED BY <4>1, <4>2, <4>3
    <3>2. CASE RegionInit(t)
      <4>1. CASE al[t].r # i
        <5>1. in_use'[i] = in_use[i]
          BY <1>0, <3>2, <4>1 DEF RegionInit, TypeOK
        <5> QED BY <3>2, <3>o, <5>1 DEF RegionInit, Unclaim
      <4>2. CASE al[t].r = i
        <5>1. /\ pc'[t] = "share" /\ in_use'[i] = Mask(Count(al[t]), 0)
              /\ al'[t] = [al[t] EXCEPT !.at = 0] /\ al[t] \in Allocation
          BY <1>0, <3>2, <4>2 DEF RegionInit, Goto, TypeOK
        <5>2. al'[t].at = 0 /\ al'[t].len = al[t].len /\ al'[t].r = i
          BY <4>2, <5>1 DEF Allocation
        <5>3. in_use'[i] = Blocks(al'[t])
          BY <5>1, <5>2 DEF Blocks, Count
        <5> QED BY <5>1, <5>2, <5>3 DEF Owned
      <4> QED BY <4>1, <4>2
    <3>3. CASE Unclaim(t)
      <4>1. ASSUME NEW b \in in_use'[i] PROVE b \in in_use[i] /\ ~(al[t].r = i /\ b \in Blocks(al[t]))
        BY <1>0, <3>3, <4>1 DEF Unclaim, TypeOK
      <4>2. UNCHANGED held /\ \A u \in Thread \ {t} : pc'[u] = pc[u] /\ al'[u] = al[u]
        BY <1>0, <1>1, <3>3, OthersStep DEF Unclaim
      <4> QED BY <2>2, <4>1, <4>2 DEF Owned
    <3>4. CASE CollectClaim(t)
      <4>1. CASE in_use'[i] = in_use[i]
        BY <3>4, <3>o, <4>1 DEF CollectClaim, Unclaim
      <4>2. CASE in_use'[i] # in_use[i]
        <5>1. in_use'[i] = Bit /\ pc'[t] = "release" /\ al'[t].r = i
          BY <1>0, <3>4, <4>2 DEF CollectClaim, Goto, TypeOK
        <5> QED BY <5>1 DEF Gone
      <4> QED BY <4>1, <4>2
    <3>5. CASE ~(FindCas(t) \/ RegionInit(t) \/ Unclaim(t) \/ CollectClaim(t))
      <4>1. UNCHANGED in_use
        BY <1>1, <3>5, Zenon DEF Step, AllocStart, Scan, FindRead, OsAlloc, Slot, SlotUndo,
           RegionShare, CommitBlocks, Unreset, SegmentInfo, Free, InfoFailed, FreeMark,
           CollectStart, CollectRelease, CollectUnmap, shared, bitmaps
      <4> QED BY <3>5, <3>o, <4>1
    <3> QED BY <3>1, <3>2, <3>3, <3>4, <3>5
  <2> QED BY <2>1, <2>2 DEF NoLeak
<1>2. CASE Use
  <2>0. PICK a \in held : PageCommit(a) \/ PageReset(a) \/ PageUnreset(a)
    BY <1>2 DEF Use
  <2>1. PICK b : held' = (held \ {a}) \cup {b} /\ \E p : b \in {[a EXCEPT !.pages = p], [a EXCEPT !.reset = p]}
    BY <2>0 DEF PageCommit, PageReset, PageUnreset, Replace
  <2>2. b.r = a.r /\ b.at = a.at /\ b.len = a.len
    BY <1>0, <2>1 DEF TypeOK, Allocation
  <2>3. Blocks(b) = Blocks(a)
    BY <2>2 DEF Blocks, Count
  <2>4. UNCHANGED <<start, info, in_use, pc, al>>
    BY <1>2 DEF Use, shared, bitmaps
  <2>5. \A i : Gone(i)' <=> Gone(i)
    BY <2>4 DEF Gone, Sharing
  <2>6. \A i, k : Owned(i, k) => Owned(i, k)'
    BY <2>1, <2>2, <2>3, <2>4 DEF Owned
  <2> QED BY <1>l, <2>4, <2>5, <2>6 DEF NoLeak
<1>3. CASE UNCHANGED vars
  <2>1. UNCHANGED <<start, info, in_use, pc, al, held>>
    BY <1>3 DEF vars, shared, bitmaps
  <2> QED BY <1>l, <2>1 DEF NoLeak, Gone, Owned, Sharing
<1>4. ASSUME NEW t \in Thread, Step(t) PROVE NoLeak'
  BY <1>1, <1>4, <1>l DEF NoLeak
<1> QED BY <1>0, <1>2, <1>3, <1>4 DEF Next

\* No block leaks: what is in use belongs to an allocation, or to a region that
\* the collect claimed as a whole (region.c:485).
THEOREM RegionInUseExact ==
  ASSUME ~RelaxedInfo, FailuresSmall
  PROVE  Spec => []InUseExact
<1>1. Init => NoLeak
  BY DEF Init, NoLeak, Allocating
<1>2. Structure /\ NoLeak /\ [Next]_vars => (Structure /\ NoLeak)'
  BY StructureStep, NoLeakStep
<1>3. Structure /\ NoLeak => InUseExact
  <2> SUFFICES ASSUME Structure, NoLeak, NEW i \in RegionIdx
      PROVE  \/ in_use[i] = BlocksOf(held, i) \cup UNION {BlocksOf(Mine(t), i) : t \in Thread}
             \/ in_use[i] = Bit /\ (~info[i] \/ \E t \in Thread : pc[t] = "release" /\ al[t].r = i)
    BY DEF InUseExact
  <2>1. CASE in_use[i] = Bit /\ Gone(i)
    BY <2>1 DEF Gone
  <2>2. CASE \A b \in in_use[i] : Owned(i, b)
    <3>1. ASSUME NEW b PROVE b \in BlocksOf(held, i) <=> \E a \in held : a.r = i /\ b \in Blocks(a)
      BY DEF BlocksOf
    <3>2. ASSUME NEW t \in Thread, NEW b
          PROVE  b \in BlocksOf(Mine(t), i) <=> pc[t] \in OwnLabel /\ al[t].r = i /\ b \in Blocks(al[t])
      BY DEF BlocksOf, Mine
    <3>3. ASSUME NEW b
          PROVE  b \in BlocksOf(held, i) \cup UNION {BlocksOf(Mine(t), i) : t \in Thread} <=> Owned(i, b)
      BY <3>1, <3>2 DEF Owned
    <3>4. ASSUME NEW b, Owned(i, b) PROVE b \in in_use[i]
      BY <3>4 DEF Owned, Structure, Lifecycle, BlocksExclusive
    <3> QED BY <2>2, <3>3, <3>4
  <2> QED BY <2>1, <2>2 DEF NoLeak
<1> QED BY <1>1, <1>2, <1>3, InitStructure, PTL DEF Spec

-----------------------------------------------------------------------------
(* What is committed, and what is zero *)

\* The memory of an allocation is that of its blocks.
LEMMA HalvesLemma ==
  ASSUME NEW a \in Allocation, a.at + Count(a) <= Width
  PROVE  /\ \A b \in Bit : \A h \in HalvesOf(b) : h \in BlockHalves(a) <=> b \in Blocks(a)
         /\ \A h \in BlockHalves(a) : \E b \in Blocks(a) : h \in HalvesOf(b)
         /\ SegmentHalves(a) \subseteq BlockHalves(a)
         /\ SegmentHalves(a) # {}
         /\ a.len % 2 = 0 => SegmentHalves(a) = BlockHalves(a)
         /\ Blocks(a) \subseteq Bit
<1>1. a.len \in Nat /\ a.at \in Nat /\ a.len >= 1 /\ Count(a) = (a.len + 1) \div 2
  BY DEF Allocation, Count
<1>2. Count(a) \in Nat /\ a.len <= 2 * Count(a) /\ (a.len % 2 = 0 => a.len = 2 * Count(a)) /\ Count(a) >= 1
  BY <1>1
<1>3. Blocks(a) \subseteq Bit
  BY BlocksLemma
<1>4. \A h \in Int : h \in BlockHalves(a) <=> h >= 2 * a.at /\ h <= 2 * a.at + 2 * Count(a) - 1
  BY <1>1, <1>2 DEF BlockHalves, Mask
<1>5. \A b \in Int : b \in Blocks(a) <=> b >= a.at /\ b <= a.at + Count(a) - 1
  BY <1>1, <1>2 DEF Blocks, Mask
<1>6. \A b \in Bit : \A h \in HalvesOf(b) : h \in BlockHalves(a) <=> b \in Blocks(a)
  <2>1. ASSUME NEW b \in Bit, NEW h \in HalvesOf(b) PROVE h \in BlockHalves(a) <=> b \in Blocks(a)
    <3>1. b \in Int /\ h \in Int /\ (h = 2 * b \/ h = 2 * b + 1)
      BY SizeAssumption DEF HalvesOf, Bit
    <3>2. h \in BlockHalves(a) <=> h >= 2 * a.at /\ h <= 2 * a.at + 2 * Count(a) - 1
      BY <1>4, <3>1
    <3>3. b \in Blocks(a) <=> b >= a.at /\ b <= a.at + Count(a) - 1
      BY <1>5, <3>1
    <3> QED BY <1>1, <1>2, <3>1, <3>2, <3>3
  <2> QED BY <2>1
<1>7. ASSUME NEW h \in BlockHalves(a) PROVE \E b \in Blocks(a) : h \in HalvesOf(b)
  <2> DEFINE b == h \div 2
  <2>1. h \in Int
    BY <1>1, <1>2, <1>7 DEF BlockHalves, Mask
  <2>2. b \in Int /\ (h = 2 * b \/ h = 2 * b + 1)
    BY <2>1
  <2> HIDE DEF b
  <2>3. b \in Blocks(a)
    BY <1>1, <1>2, <1>4, <1>5, <1>7, <2>1, <2>2
  <2> QED BY <2>2, <2>3 DEF HalvesOf
<1>8. SegmentHalves(a) \subseteq BlockHalves(a) /\ 2 * a.at \in SegmentHalves(a)
  BY <1>1, <1>2 DEF SegmentHalves, BlockHalves, Mask
<1>9. a.len % 2 = 0 => SegmentHalves(a) = BlockHalves(a)
  BY <1>1, <1>2 DEF SegmentHalves, BlockHalves
<1> QED BY <1>3, <1>6, <1>7, <1>8, <1>9

\* Two allocations without a common block have no common memory.
LEMMA HalvesDisjoint ==
  ASSUME NEW a \in Allocation, a.at + Count(a) <= Width,
         NEW c \in Allocation, c.at + Count(c) <= Width, Blocks(a) \cap Blocks(c) = {}
  PROVE  BlockHalves(a) \cap BlockHalves(c) = {}
<1> SUFFICES ASSUME NEW h \in BlockHalves(a), h \in BlockHalves(c) PROVE FALSE
  OBVIOUS
<1>1. PICK b \in Blocks(a) : h \in HalvesOf(b)
  BY HalvesLemma
<1>2. b \in Bit
  BY HalvesLemma
<1> QED BY <1>1, <1>2, HalvesLemma

\* The allocation that a thread makes or frees keeps to what the options say.
LEMMA MakingStep ==
  ASSUME TypeOK, Making, [Next]_vars
  PROVE  Making'
<1>0. option.threads \subseteq Thread /\ option.requests \subseteq Request
  BY OptionAssumption, Zenon DEF TypeOK, Option
<1>u. UNCHANGED option
  BY ZenonT(60) DEF Next, Use, vars, Step, AllocStart, Scan, FindRead, FindCas, OsAlloc, Slot, SlotUndo,
     RegionInit, RegionShare, CommitBlocks, Unreset, SegmentInfo, Free, InfoFailed, FreeMark,
     Unclaim, CollectStart, CollectClaim, CollectRelease, CollectUnmap
<1> DEFINE Made(l, a) == /\ a.reset = {} /\ a.pages = {}
                         /\ a.split => a.len = 2
                         /\ l \in Allocating \ {"unreset", "info"} =>
                              /\ a.commit => option.eager_commit
                              /\ option.eager_commit => a.commit \/ a.split
<1>1. CASE Use \/ UNCHANGED vars
  BY <1>1 DEF Use, vars, Making
<1>2. ASSUME NEW t \in Thread, Step(t) PROVE Made(pc'[t], al'[t])
  <2>0. al[t] \in Allocation /\ Made(pc[t], al[t])
    BY DEF TypeOK, Making
  <2>1. CASE AllocStart(t)
    <3>1. PICK q \in option.requests, c \in BOOLEAN :
            /\ c = option.eager_commit \/ (q.split /\ ~c)
            /\ al' = [al EXCEPT ![t] = [NoAl EXCEPT !.r = region_idx[t], !.len = q.len,
                                                 !.split = q.split, !.commit = c]]
      BY <2>1 DEF AllocStart
    <3>2. q.split => q.len = 2
      BY <1>0 DEF Request
    <3>3. /\ al'[t].len = q.len /\ al'[t].split = q.split /\ al'[t].commit = c
          /\ al'[t].pages = {} /\ al'[t].reset = {}
      BY <3>1 DEF TypeOK, NoAl
    <3> QED BY <3>1, <3>2, <3>3
  <2>k. ASSUME al'[t].reset = al[t].reset, al'[t].pages = al[t].pages, al'[t].split = al[t].split,
               al'[t].len = al[t].len, al'[t].commit = al[t].commit,
               pc[t] \in Allocating \ {"unreset", "info"} \/ pc'[t] \notin Allocating
        PROVE  Made(pc'[t], al'[t])
    BY <2>0, <2>k
  <2> DEFINE Same == /\ al'[t].reset = al[t].reset /\ al'[t].pages = al[t].pages /\ al'[t].split = al[t].split
                     /\ al'[t].len = al[t].len /\ al'[t].commit = al[t].commit
  <2>2. CASE Scan(t)
    <3>1. Same
      BY <2>0, <2>2, SMTT(60) DEF TypeOK, Allocation, Scan, NextRegion
    <3> QED BY <2>2, <2>k, <3>1 DEF Scan, Allocating
  <2>3. CASE FindRead(t)
    <3>1. Same
      <4>1. \/ NextRegion(t, al[t].r)
            \/ al' = [al EXCEPT ![t].at = FirstFit(in_use[al[t].r], Count(al[t]), 0)]
        BY <2>3 DEF FindRead
      <4>2. ASSUME NextRegion(t, al[t].r) PROVE Same
        BY <2>0, <4>2 DEF TypeOK, Allocation, NextRegion
      <4>3. ASSUME NEW at, al' = [al EXCEPT ![t].at = at] PROVE Same
        <5>1. al'[t] = [al[t] EXCEPT !.at = at]
          BY <4>3 DEF TypeOK
        <5> QED BY <2>0, <5>1 DEF Allocation
      <4> HIDE DEF Same
      <4> QED BY <4>1, <4>2, <4>3
    <3> QED BY <2>3, <2>k, <3>1 DEF FindRead, Allocating
  <2>4. CASE FindCas(t)
    <3>1. Same
      BY <2>0, <2>4, SMTT(60) DEF TypeOK, Allocation, FindCas, NextRegion
    <3> QED BY <2>4, <2>k, <3>1 DEF FindCas, Allocating
  <2>5. CASE Slot(t)
    BY <2>0, <2>5 DEF TypeOK, Allocation, Allocating, Slot, Goto
  <2>6. CASE RegionInit(t)
    BY <2>0, <2>6 DEF TypeOK, Allocation, Allocating, RegionInit, Goto
  <2>7. CASE RegionShare(t)
    BY <2>0, <2>7 DEF TypeOK, Allocation, Allocating, RegionShare, Goto
  <2>8. CASE CommitBlocks(t)
    BY <2>0, <2>8 DEF TypeOK, Allocation, Allocating, CommitBlocks, Goto
  <2>r. ASSUME Return(t) PROVE Made(pc'[t], al'[t])
    BY <2>r DEF TypeOK, Allocating, Return, Goto, NoAl
  <2>9. CASE OsAlloc(t)
    BY <2>0, <2>9, <2>r DEF TypeOK, Allocating, OsAlloc, Goto
  <2>10. CASE Unreset(t)
    BY <2>0, <2>10, <2>r DEF TypeOK, Allocating, Unreset, Deliver, Goto
  <2>11. CASE SlotUndo(t) \/ SegmentInfo(t) \/ Unclaim(t)
    BY <2>11, <2>r DEF SlotUndo, SegmentInfo, Unclaim, Deliver
  <2>f. ASSUME NEW a \in Allocation, FreeMark(t, a) PROVE Made(pc'[t], al'[t])
    BY <2>f DEF TypeOK, Allocation, Allocating, FreeMark, Goto
  <2>12. CASE Free(t)
    BY <2>12, <2>f, Zenon DEF Free, TypeOK
  <2>13. CASE InfoFailed(t)
    BY <2>0, <2>13, <2>f, AlType, Zenon DEF InfoFailed
  <2>14. CASE CollectStart(t) \/ CollectRelease(t)
    BY <2>0, <2>14 DEF TypeOK, Allocating, CollectStart, CollectRelease, Goto
  <2>15. CASE CollectClaim(t)
    <3>1. CASE Return(t)
      BY <2>r, <3>1
    <3>2. CASE ~Return(t)
      <4>1. Same
        BY <2>0, <2>15, <3>2, SMTT(60) DEF TypeOK, Allocation, CollectClaim
      <4>2. pc'[t] \in {"collect", "release"}
        BY <2>15, <3>2 DEF TypeOK, CollectClaim, Goto
      <4> QED BY <2>k, <4>1, <4>2 DEF Allocating
    <3> QED BY <3>1, <3>2
  <2>16. CASE CollectUnmap(t)
    BY <2>0, <2>16 DEF TypeOK, Allocation, Allocating, CollectUnmap, Goto
  <2> HIDE DEF Made
  <2> QED BY <1>2, <2>1, <2>2, <2>3, <2>4, <2>5, <2>6, <2>7, <2>8, <2>9, <2>10, <2>11, <2>12,
             <2>13, <2>14, <2>15, <2>16 DEF Step
<1>3. ASSUME NEW t \in Thread, Step(t) PROVE Making'
  <2>1. ASSUME NEW u \in Thread PROVE Made(pc'[u], al'[u])
    <3>1. CASE u = t
      BY <1>2, <1>3, <3>1
    <3>2. CASE u # t
      BY <1>3, <3>2, OthersStep DEF Making
    <3> QED BY <3>1, <3>2
  <2> QED BY <1>u, <2>1 DEF Making
<1> QED BY <1>0, <1>1, <1>3 DEF Next

\* what the steps below have to keep
Recorded == HeldBacked /\ CommitTrue /\ Claimed

\* The options of the process.
LEMMA OptionLemma ==
  ASSUME CommitOptions, option \in Options
  PROVE  /\ option.reset_decommits => option.eager_commit /\ ~option.commit_fails
         /\ option.commit_fails => ~option.eager_commit
  BY DEF CommitOptions

\* A step that leaves the commit bits and the memory alone.
LEMMA QuietRecord ==
  ASSUME CommitRecord, UNCHANGED <<option, commit, reset, backed, memory, held>>,
         \A u \in Thread : pc'[u] = "unreset" => pc[u] = "unreset" /\ al'[u] = al[u]
  PROVE  Recorded'
<1>1. HeldBacked'
  BY DEF CommitRecord, HeldBacked
<1>2. \A i, b, h : BackedOrReset(i, b, h)' <=> BackedOrReset(i, b, h)
  BY DEF BackedOrReset
<1>3. CommitTrue'
  BY <1>2 DEF CommitRecord, CommitTrue
<1>4. Claimed'
  BY DEF CommitRecord, Claimed
<1> QED BY <1>1, <1>3, <1>4 DEF Recorded

\* The memory of an allocation in the hands of t, and that it is its own.
LEMMA MineLemma ==
  ASSUME Structure, NEW t \in Thread, pc[t] \in OwnLabel
  PROVE  /\ al[t] \in Allocation /\ al[t].r \in RegionIdx /\ al[t].at + Count(al[t]) <= Width
         /\ memory[al[t].r] = "mapped"
         /\ \A c \in held : c.r = al[t].r =>
              Blocks(c) \cap Blocks(al[t]) = {} /\ BlockHalves(c) \cap BlockHalves(al[t]) = {}
<1>1. al[t] \in Allocation /\ al[t].r \in RegionIdx /\ al[t].at + Count(al[t]) <= Width
  BY DEF Structure, TypeOK
<1>2. memory[al[t].r] = "mapped"
  BY <1>1 DEF Structure, Lifecycle, Owns, Adds, RegionLife
<1>3. ASSUME NEW c \in held, c.r = al[t].r
      PROVE  Blocks(c) \cap Blocks(al[t]) = {} /\ BlockHalves(c) \cap BlockHalves(al[t]) = {}
  <2>1. Blocks(c) \cap Blocks(al[t]) = {}
    BY <1>3 DEF Structure, Lifecycle, BlocksExclusive
  <2>2. c \in Allocation /\ c.at + Count(c) <= Width
    BY DEF Structure, TypeOK
  <2> QED BY <1>1, <2>1, <2>2, HalvesDisjoint
<1> QED BY <1>1, <1>2, <1>3

\* The memory of a returned allocation, and that it is its own.
LEMMA TheirsLemma ==
  ASSUME Structure, HeldBacked, NEW a \in held
  PROVE  /\ a \in Allocation /\ a.r \in RegionIdx /\ a.at + Count(a) <= Width
         /\ memory[a.r] = "mapped"
         /\ a.reset \subseteq BlockHalves(a) /\ a.pages \subseteq BlockHalves(a)
         /\ \A c \in held : c.r = a.r /\ c # a => BlockHalves(c) \cap BlockHalves(a) = {}
<1>1. a \in Allocation /\ a.r \in RegionIdx /\ a.at + Count(a) <= Width
  BY DEF Structure, TypeOK
<1>2. memory[a.r] = "mapped"
  BY <1>1 DEF Structure, Lifecycle, Owns, RegionLife
<1>3. ASSUME NEW c \in held, c.r = a.r, c # a PROVE BlockHalves(c) \cap BlockHalves(a) = {}
  <2>1. Blocks(c) \cap Blocks(a) = {}
    BY <1>3 DEF Structure, Lifecycle, BlocksExclusive
  <2>2. c \in Allocation /\ c.at + Count(c) <= Width
    BY DEF Structure, TypeOK
  <2> QED BY <1>1, <2>1, <2>2, HalvesDisjoint
<1>4. a.reset \subseteq a.pages /\ a.pages \subseteq SegmentHalves(a)
  BY DEF HeldBacked
<1> QED BY <1>1, <1>2, <1>3, <1>4, HalvesLemma

\* A new region is committed as a whole or not at all.
LEMMA InitRecord ==
  ASSUME Structure, CommitRecord, NEW t \in Thread, RegionInit(t), OnlyMoves(t)
  PROVE  Recorded'
<1> USE DEF CommitRecord
<1> DEFINE i == al[t].r
<1>0. pc[t] = "init" /\ pc'[t] = "share" /\ i \in RegionIdx /\ ~info[i] /\ ~start[i] /\ UNCHANGED <<held, option>>
  BY DEF RegionInit, Goto, Structure, TypeOK, Lifecycle, Adds, RegionLife
<1>1. \A a \in held : a.r # i /\ a.r \in RegionIdx
  BY <1>0 DEF Structure, TypeOK, Lifecycle, Owns
<1>2. \A u \in Thread : pc[u] \in OwnLabel => al[u].r # i /\ al[u].r \in RegionIdx
  BY <1>0 DEF Structure, TypeOK, Lifecycle, Owns, Adds
<1>3. \A r \in RegionIdx \ {i} :
        commit'[r] = commit[r] /\ reset'[r] = reset[r] /\ backed'[r] = backed[r] /\ memory'[r] = memory[r]
  BY DEF RegionInit, Structure, TypeOK
<1>4. commit'[i] = {} \/ backed'[i] = Half
  BY <1>0 DEF RegionInit, Structure, TypeOK
<1>5. commit'[i] \subseteq Bit
  BY <1>0 DEF RegionInit, Structure, TypeOK
<1>6. HeldBacked'
  BY <1>0, <1>1, <1>3 DEF HeldBacked
<1>7. ASSUME NEW r \in RegionIdx, memory'[r] = "mapped", NEW b \in commit'[r], NEW h \in HalvesOf(b)
      PROVE  BackedOrReset(r, b, h)'
  <2>1. CASE r = i
    <3>1. b \in Bit /\ backed'[r] = Half
      BY <1>4, <1>5, <1>7, <2>1
    <3>2. h \in Half
      BY <3>1, SizeAssumption DEF HalvesOf, Bit, Half
    <3> QED BY <3>1, <3>2 DEF BackedOrReset
  <2>2. CASE r # i
    BY <1>0, <1>3, <1>7, <2>2 DEF CommitTrue, BackedOrReset
  <2> QED BY <2>1, <2>2
<1>8. CommitTrue'
  BY <1>7 DEF CommitTrue, HalvesOf
<1>9. Claimed'
  BY <1>0, <1>2, <1>3, Z3 DEF Claimed, OnlyMoves
<1> QED BY <1>6, <1>8, <1>9 DEF Recorded

\* The blocks are committed when that was asked for, else *commit says if they are.
LEMMA CommitBlocksRecord ==
  ASSUME Structure, CommitRecord, CommitOptions, NEW t \in Thread, CommitBlocks(t), OnlyMoves(t)
  PROVE  Recorded'
<1> USE DEF CommitRecord
<1> DEFINE a == al[t]
           i == al[t].r
<1>0. /\ pc[t] = "claimed" /\ pc'[t] = "unreset" /\ UNCHANGED <<held, option, memory, reset>>
      /\ option \in Options
  BY DEF CommitBlocks, Goto, Structure, TypeOK
<1>1. /\ a \in Allocation /\ i \in RegionIdx /\ a.at + Count(a) <= Width
      /\ al'[t].commit <=> (a.commit \/ Blocks(a) \subseteq commit[i])
      /\ al'[t].r = i /\ al'[t].at = a.at /\ al'[t].len = a.len
  <2>1. al'[t] = [a EXCEPT !.zero = (Blocks(a) \cap dirty[i] = {}),
                           !.commit = a.commit \/ Blocks(a) \subseteq commit[i]]
    BY DEF CommitBlocks, Structure, TypeOK
  <2>2. a \in Allocation
    BY DEF Structure, TypeOK
  <2> QED BY <1>0, <2>1, <2>2, MineLemma DEF Allocation
<1>2. Blocks(al'[t]) = Blocks(a)
  BY <1>1 DEF Blocks, Count
<1>3. /\ \A r \in RegionIdx \ {i} : commit'[r] = commit[r]
      /\ commit'[i] = IF a.commit THEN commit[i] \cup Blocks(a) ELSE commit[i]
  BY <1>1 DEF CommitBlocks, Structure, TypeOK
<1>4. a.commit => option.eager_commit /\ ~option.commit_fails
  BY <1>0 DEF Making, Allocating, CommitOptions
<1>5. /\ \A r \in RegionIdx : backed[r] \subseteq backed'[r]
      /\ a.commit /\ ~(Blocks(a) \subseteq commit[i]) => BlockHalves(a) \subseteq backed'[i]
  BY <1>1, <1>4 DEF CommitBlocks, OsCommit, Structure, TypeOK
<1>6. HeldBacked'
  <2>1. \A c \in held : c.r \in RegionIdx
    BY DEF Structure, TypeOK
  <2> QED BY <1>0, <1>5, <2>1 DEF HeldBacked
<1>7. ASSUME NEW r \in RegionIdx, memory'[r] = "mapped", NEW b \in commit'[r], NEW h \in HalvesOf(b)
      PROVE  BackedOrReset(r, b, h)'
  <2>1. CASE b \in commit[r]
    <3>1. BackedOrReset(r, b, h)
      BY <1>0, <1>7, <2>1 DEF CommitTrue
    <3> QED BY <1>0, <1>5, <3>1 DEF BackedOrReset
  <2>2. CASE b \notin commit[r]
    <3>1. r = i /\ b \in Blocks(a) /\ a.commit
      BY <1>3, <1>7, <2>2
    <3>2. h \in BlockHalves(a)
      BY <1>1, <3>1, HalvesLemma
    <3> QED BY <1>5, <2>2, <3>1, <3>2 DEF BackedOrReset
  <2> QED BY <2>1, <2>2
<1>8. CommitTrue'
  BY <1>7 DEF CommitTrue, HalvesOf
<1>9. Claimed'
  <2>1. ASSUME NEW u \in Thread, u # t, pc'[u] = "unreset"
        PROVE  /\ al'[u].commit => Blocks(al'[u]) \subseteq commit'[al'[u].r]
               /\ ~al'[u].commit /\ option.reset_decommits => Blocks(al'[u]) \cap commit'[al'[u].r] = {}
    <3>1. pc[u] = "unreset" /\ al'[u] = al[u] /\ al[u].r \in RegionIdx
      BY <2>1 DEF OnlyMoves, Structure, TypeOK
    <3>2. al[u].r = i => Blocks(al[u]) \cap Blocks(a) = {}
      BY <1>0, <2>1, <3>1 DEF Structure, Lifecycle, BlocksExclusive
    <3> QED BY <1>3, <3>1, <3>2 DEF Claimed
  <2>2. al'[t].commit => Blocks(al'[t]) \subseteq commit'[al'[t].r]
    BY <1>1, <1>2, <1>3
  <2>3. ASSUME ~al'[t].commit, option.reset_decommits PROVE Blocks(al'[t]) \cap commit'[al'[t].r] = {}
    <3>1. ~a.commit /\ ~(Blocks(a) \subseteq commit[i])
      BY <1>1, <2>3
    <3>2. a.len = 2
      <4>1. option.eager_commit
        BY <1>0, <2>3, OptionLemma
      <4> QED BY <1>0, <3>1, <4>1 DEF Making, Allocating
    <3>3. Blocks(a) = {a.at}
      BY <1>1, <3>2 DEF Blocks, Mask, Count, Allocation
    <3> QED BY <1>1, <1>2, <1>3, <3>1, <3>3
  <2> QED BY <1>0, <2>1, <2>2, <2>3 DEF Claimed
<1> QED BY <1>6, <1>8, <1>9 DEF Recorded

\* Blocks that were reset are committed again, and what is said to be committed is.
LEMMA UnresetRecord ==
  ASSUME Structure, CommitRecord, CommitOptions, NEW t \in Thread, Unreset(t), OnlyMoves(t)
  PROVE  Recorded'
<1> USE DEF CommitRecord
<1> DEFINE a == al[t]
           i == al[t].r
<1>0. pc[t] = "unreset" /\ pc'[t] \in {"idle", "info"} /\ UNCHANGED <<option, memory, commit>> /\ option \in Options
  BY DEF Unreset, Deliver, Return, Goto, Structure, TypeOK
<1>1. a \in Allocation /\ i \in RegionIdx /\ a.at + Count(a) <= Width /\ memory[i] = "mapped"
  BY <1>0, MineLemma
<1>2. /\ \A r \in RegionIdx \ {i} : reset'[r] = reset[r]
      /\ reset'[i] = reset[i] \ Blocks(a)
  BY <1>1 DEF Unreset, Structure, TypeOK
<1>3. option.reset_decommits => ~option.commit_fails
  BY <1>0, OptionLemma
<1>4. /\ \A r \in RegionIdx : backed[r] \subseteq backed'[r]
      /\ Blocks(a) \cap reset[i] # {} /\ a.commit /\ option.reset_decommits =>
           BlockHalves(a) \subseteq backed'[i]
  BY <1>1, <1>3 DEF Unreset, OsUnreset, OsCommit, Structure, TypeOK
<1>5. ASSUME NEW b \in Blocks(a), b \in commit[i], NEW h \in HalvesOf(b) PROVE h \in backed'[i]
  <2>0. b \in Bit
    BY <1>1, HalvesLemma
  <2>1. h \in BlockHalves(a)
    BY <1>1, <2>0, HalvesLemma
  <2>2. BackedOrReset(i, b, h)
    BY <1>1, <1>5 DEF CommitTrue
  <2>3. \A c \in held : c.r = i => h \notin c.reset
    BY <1>0, <2>1, MineLemma, TheirsLemma
  <2>4. CASE h \in backed[i]
    BY <1>1, <1>4, <2>4
  <2>5. CASE option.reset_decommits /\ b \in reset[i]
    <3>1. a.commit
      BY <1>0, <1>5, <2>5 DEF Claimed
    <3> QED BY <1>4, <2>1, <2>5, <3>1
  <2> QED BY <2>2, <2>3, <2>4, <2>5 DEF BackedOrReset
<1>6. \/ held' = held /\ ~a.commit
      \/ /\ held' = held \cup {[a EXCEPT !.pages = SegmentHalves(a), !.commit = FALSE, !.zero = FALSE]}
         /\ a.commit
  BY DEF Unreset, Deliver
<1>7. held \subseteq held'
  BY <1>6
<1>8. HeldBacked'
  <2>1. ASSUME NEW c \in held
        PROVE  /\ c.reset \subseteq c.pages /\ c.pages \subseteq SegmentHalves(c)
               /\ \A h \in c.pages : h \in backed'[c.r] \/ (option.reset_decommits /\ h \in c.reset)
    <3>1. c.r \in RegionIdx
      BY DEF Structure, TypeOK
    <3> QED BY <1>4, <3>1 DEF HeldBacked
  <2>2. ASSUME a.commit, NEW c, c = [a EXCEPT !.pages = SegmentHalves(a), !.commit = FALSE, !.zero = FALSE]
        PROVE  /\ c.reset \subseteq c.pages /\ c.pages \subseteq SegmentHalves(c)
               /\ \A h \in c.pages : h \in backed'[c.r]
    <3>1. /\ c.reset = a.reset /\ c.pages = SegmentHalves(a) /\ c.r = i
          /\ c.at = a.at /\ c.len = a.len
      BY <1>1, <2>2 DEF Allocation
    <3>2. a.reset = {} /\ SegmentHalves(c) = SegmentHalves(a)
      BY <3>1 DEF Making, SegmentHalves
    <3>3. ASSUME NEW h \in SegmentHalves(a) PROVE h \in backed'[i]
      <4>1. PICK b \in Blocks(a) : h \in HalvesOf(b)
        BY <1>1, HalvesLemma
      <4> QED BY <1>0, <1>5, <2>2, <4>1 DEF Claimed
    <3> QED BY <3>1, <3>2, <3>3
  <2> HIDE DEF a, i
  <2> QED BY <1>0, <1>6, <2>1, <2>2 DEF HeldBacked
<1>9. ASSUME NEW r \in RegionIdx, memory'[r] = "mapped", NEW b \in commit'[r], NEW h \in HalvesOf(b)
      PROVE  BackedOrReset(r, b, h)'
  <2>0. b \in commit[r] /\ BackedOrReset(r, b, h)
    BY <1>0, <1>9 DEF CommitTrue
  <2>1. CASE r = i /\ b \in Blocks(a)
    BY <1>5, <1>9, <2>0, <2>1 DEF BackedOrReset
  <2>2. CASE ~(r = i /\ b \in Blocks(a))
    <3>1. b \in reset[r] => b \in reset'[r]
      BY <1>2, <2>2
    <3> QED BY <1>0, <1>4, <1>7, <2>0, <3>1 DEF BackedOrReset
  <2> QED BY <2>1, <2>2
<1>10. CommitTrue'
  BY <1>9 DEF CommitTrue, HalvesOf
<1>11. Claimed'
  BY <1>0 DEF Claimed, OnlyMoves
<1> QED BY <1>8, <1>10, <1>11 DEF Recorded

\* The segment that commits its info takes no page for committed.
LEMMA SegmentInfoRecord ==
  ASSUME Structure, CommitRecord, NEW t \in Thread, SegmentInfo(t), OnlyMoves(t)
  PROVE  Recorded'
<1> USE DEF CommitRecord
<1>0. /\ pc[t] = "info" /\ pc'[t] = "idle" /\ UNCHANGED <<option, memory, commit, reset, backed>>
      /\ al[t] \in Allocation /\ al[t].reset = {}
  BY DEF SegmentInfo, Deliver, Return, Goto, Structure, TypeOK, Making, shared, bitmaps
<1> DEFINE b == [al[t] EXCEPT !.pages = {}, !.commit = FALSE, !.zero = FALSE]
<1>1. held' = held \cup {b}
  BY DEF SegmentInfo, Deliver
<1>2. b.pages = {} /\ b.reset = {}
  BY <1>0 DEF Allocation
<1> HIDE DEF b
<1>3. HeldBacked'
  BY <1>0, <1>1, <1>2 DEF HeldBacked
<1>4. CommitTrue'
  BY <1>0, <1>1 DEF CommitTrue, BackedOrReset
<1>5. Claimed'
  BY <1>0 DEF Claimed, OnlyMoves
<1> QED BY <1>3, <1>4, <1>5 DEF Recorded

\* A segment that is freed says what of it is committed, or resets it.
LEMMA FreeRecord ==
  ASSUME Structure, CommitRecord, NEW t \in Thread, Free(t), OnlyMoves(t)
  PROVE  Recorded'
<1> USE DEF CommitRecord
<1>1. PICK a \in held : held' = held \ {a} /\ FreeMark(t, a)
  BY DEF Free
<1> DEFINE i == a.r
<1>2. /\ a \in Allocation /\ i \in RegionIdx /\ a.at + Count(a) <= Width
      /\ a.reset \subseteq BlockHalves(a) /\ a.pages \subseteq BlockHalves(a)
      /\ \A c \in held : c.r = i /\ c # a => BlockHalves(c) \cap BlockHalves(a) = {}
  BY TheirsLemma
<1>3. UNCHANGED <<option, memory>> /\ pc'[t] = "unclaim"
  BY <1>1 DEF FreeMark, Goto, Structure, TypeOK
<1>4. \A r \in RegionIdx \ {i} : commit'[r] = commit[r] /\ reset'[r] = reset[r] /\ backed'[r] = backed[r]
  BY <1>1, <1>2 DEF FreeMark, OsReset, Structure, TypeOK
<1>5. /\ reset[i] \subseteq reset'[i]
      /\ SegmentReset \/ a.reset # {} => Blocks(a) \subseteq reset'[i]
  BY <1>1, <1>2 DEF FreeMark, Structure, TypeOK
<1>6. /\ commit'[i] \subseteq commit[i] \cup Blocks(a)
      /\ ~FullyCommitted(a) \/ a.len % 2 # 0 => commit'[i] = commit[i]
  BY <1>1, <1>2 DEF FreeMark, Structure, TypeOK
<1>7. /\ \A h \in backed[i] : h \in backed'[i] \/ h \in BlockHalves(a)
      /\ ~SegmentReset \/ ~option.reset_decommits => backed' = backed
  BY <1>1, <1>2 DEF FreeMark, OsReset, Structure, TypeOK
<1>8. HeldBacked'
  <2>1. ASSUME NEW c \in held, c # a, NEW h \in c.pages
        PROVE  h \in backed'[c.r] \/ (option.reset_decommits /\ h \in c.reset)
    <3>1. h \in backed[c.r] \/ (option.reset_decommits /\ h \in c.reset)
      BY DEF HeldBacked
    <3>2. c.r \in RegionIdx /\ h \in BlockHalves(c)
      BY TheirsLemma
    <3> QED BY <1>2, <1>4, <1>7, <2>1, <3>1, <3>2
  <2> QED BY <1>1, <1>3, <2>1 DEF HeldBacked
<1>9. ASSUME NEW b \in commit[i], b \notin Blocks(a), memory[i] = "mapped", NEW h \in HalvesOf(b)
      PROVE  BackedOrReset(i, b, h)'
  <2>1. BackedOrReset(i, b, h)
    BY <1>2, <1>9 DEF CommitTrue
  <2>2. b \in Bit
    BY <1>2 DEF Structure, TypeOK
  <2>3. h \notin BlockHalves(a)
    BY <1>2, <1>9, <2>2, HalvesLemma
  <2> QED BY <1>1, <1>2, <1>3, <1>5, <1>7, <2>1, <2>3 DEF BackedOrReset
<1>10. ASSUME NEW b \in commit'[i], b \in Blocks(a), memory[i] = "mapped", NEW h \in HalvesOf(b)
       PROVE  BackedOrReset(i, b, h)'
  <2>1. h \in BlockHalves(a)
    BY <1>2, <1>10, HalvesLemma
  <2>2. CASE option.reset_decommits /\ (SegmentReset \/ a.reset # {})
    BY <1>3, <1>5, <1>10, <2>2 DEF BackedOrReset
  <2>3. CASE ~option.reset_decommits \/ (~SegmentReset /\ a.reset = {})
    <3>1. backed' = backed
      BY <1>7, <2>3
    <3>2. h \in backed[i] \/ (option.reset_decommits /\ b \in reset[i])
      <4>1. CASE b \in commit[i]
        <5>1. BackedOrReset(i, b, h)
          BY <1>2, <1>10, <4>1 DEF CommitTrue
        <5>2. ASSUME NEW c \in held, c.r = i, h \in c.reset PROVE c = a
          BY <1>2, <2>1, <5>2, TheirsLemma
        <5> QED BY <2>3, <5>1, <5>2 DEF BackedOrReset
      <4>2. CASE b \notin commit[i]
        <5>1. a.pages = SegmentHalves(a) /\ a.len % 2 = 0
          BY <1>6, <1>10, <4>2 DEF FullyCommitted
        <5>2. h \in a.pages
          BY <1>2, <2>1, <5>1, HalvesLemma
        <5> QED BY <2>3, <5>2 DEF HeldBacked
      <4> QED BY <4>1, <4>2
    <3> QED BY <1>3, <1>5, <3>1, <3>2 DEF BackedOrReset
  <2> QED BY <2>2, <2>3
<1>11. ASSUME NEW r \in RegionIdx, r # i, memory[r] = "mapped", NEW b \in commit[r], NEW h \in HalvesOf(b)
       PROVE  BackedOrReset(r, b, h)'
  <2>1. BackedOrReset(r, b, h)
    BY <1>11 DEF CommitTrue
  <2> QED BY <1>1, <1>3, <1>4, <1>11, <2>1 DEF BackedOrReset
<1>12. CommitTrue'
  <2>1. ASSUME NEW r \in RegionIdx, memory'[r] = "mapped", NEW b \in commit'[r], NEW h \in HalvesOf(b)
        PROVE  BackedOrReset(r, b, h)'
    BY <1>3, <1>4, <1>6, <1>9, <1>10, <1>11, <2>1
  <2> QED BY <2>1 DEF CommitTrue, HalvesOf
<1>13. Claimed'
  <2>1. ASSUME NEW u \in Thread, pc'[u] = "unreset"
        PROVE  /\ al'[u].commit => Blocks(al'[u]) \subseteq commit'[al'[u].r]
               /\ ~al'[u].commit /\ option.reset_decommits => Blocks(al'[u]) \cap commit'[al'[u].r] = {}
    <3>1. pc[u] = "unreset" /\ al'[u] = al[u] /\ al[u].r \in RegionIdx
      BY <1>3, <2>1 DEF OnlyMoves, Structure, TypeOK
    <3>2. al[u].r = i => Blocks(al[u]) \cap Blocks(a) = {}
      BY <3>1 DEF Structure, Lifecycle, BlocksExclusive
    <3>3. al[u].r = i => commit[i] \subseteq commit'[i]
      BY <1>1, <1>2 DEF FreeMark, Structure, TypeOK
    <3> QED BY <1>4, <1>6, <3>1, <3>2, <3>3 DEF Claimed
  <2> QED BY <1>3, <2>1 DEF Claimed
<1> QED BY <1>8, <1>12, <1>13 DEF Recorded

\* Where the info cannot be committed, the blocks are left as they were found.
LEMMA InfoFailedRecord ==
  ASSUME Structure, CommitRecord, CommitOptions, NEW t \in Thread, InfoFailed(t), OnlyMoves(t)
  PROVE  Recorded'
<1> DEFINE a == [al[t] EXCEPT !.len = 2, !.zero = FALSE]
<1>1. FreeMark(t, a) /\ option.commit_fails /\ pc[t] = "info" /\ UNCHANGED held
  BY DEF InfoFailed
<1>2. option \in Options /\ al[t] \in Allocation /\ al[t].r \in RegionIdx /\ al[t].at + Count(al[t]) <= Width
  BY <1>1, MineLemma, Zenon DEF Structure, TypeOK
<1>3. a \in Allocation
  BY <1>2, AlType, Zenon
<1>4. a.len = 2 /\ a.at = al[t].at /\ a.r = al[t].r /\ a.pages = {} /\ a.reset = {}
  BY <1>2 DEF Allocation, CommitRecord, Making
<1>5. ~FullyCommitted(a)
  <2>1. ASSUME NEW c \in Allocation PROVE SegmentHalves(c) # {}
    <3>1. 2 * c.at \in Nat /\ c.len \in Nat /\ c.len >= 1
      BY SizeAssumption DEF Allocation
    <3>2. 2 * c.at \in 2 * c.at .. (2 * c.at + c.len - 1)
      BY <3>1
    <3> QED BY <3>2 DEF SegmentHalves, Mask
  <2> QED BY <1>3, <1>4, <2>1 DEF FullyCommitted
<1>6. ~SegmentReset
  BY <1>1, <1>2, OptionLemma DEF SegmentReset
<1> HIDE DEF a
<1>7. UNCHANGED <<option, memory, commit, reset, backed>>
  BY <1>1, <1>2, <1>4, <1>5, <1>6 DEF FreeMark, Structure, TypeOK
<1>8. pc'[t] = "unclaim"
  BY <1>1 DEF FreeMark, Goto, Structure, TypeOK
<1> QED BY <1>1, <1>7, <1>8, QuietRecord DEF OnlyMoves

\* The collect unmaps a region that no allocation is in.
LEMMA UnmapRecord ==
  ASSUME Structure, CommitRecord, NEW t \in Thread, CollectUnmap(t), OnlyMoves(t)
  PROVE  Recorded'
<1> USE DEF CommitRecord
<1> DEFINE i == al[t].r
<1>0. pc[t] = "unmap" /\ pc'[t] = "collect" /\ i \in RegionIdx /\ UNCHANGED <<option, held, commit, reset>>
  BY DEF CollectUnmap, Goto, Structure, TypeOK, shared, bitmaps
<1>1. \A a \in held : a.r # i /\ a.r \in RegionIdx
  BY <1>0 DEF Structure, TypeOK, Lifecycle, Collects
<1>2. /\ memory'[i] = "unmapped"
      /\ \A r \in RegionIdx \ {i} : memory'[r] = memory[r] /\ backed'[r] = backed[r]
  BY <1>0 DEF CollectUnmap, Structure, TypeOK
<1>3. HeldBacked'
  BY <1>0, <1>1, <1>2 DEF HeldBacked
<1>4. CommitTrue'
  BY <1>0, <1>2 DEF CommitTrue, BackedOrReset
<1>5. Claimed'
  BY <1>0 DEF Claimed, OnlyMoves
<1> QED BY <1>3, <1>4, <1>5 DEF Recorded

\* A segment commits, resets and unresets its own pages, and knows which.
LEMMA UseRecord ==
  ASSUME Structure, CommitRecord, CommitOptions, Use
  PROVE  Recorded'
<1> USE DEF CommitRecord
<1>0. UNCHANGED <<option, memory, commit, reset, pc, al>> /\ option \in Options
  BY DEF Use, shared, bitmaps, Structure, TypeOK
<1>1. PICK a \in held : PageCommit(a) \/ PageReset(a) \/ PageUnreset(a)
  BY DEF Use
<1> DEFINE i == a.r
<1>2. /\ a \in Allocation /\ i \in RegionIdx /\ a.at + Count(a) <= Width
      /\ SegmentHalves(a) \subseteq BlockHalves(a)
      /\ \A c \in held : c.r = i /\ c # a => BlockHalves(c) \cap BlockHalves(a) = {}
  BY TheirsLemma, HalvesLemma
<1>3. option.reset_decommits => ~option.commit_fails
  BY <1>0, OptionLemma
<1>4. PICK b, p : /\ held' = (held \ {a}) \cup {b}
                  /\ b.r = a.r /\ b.at = a.at /\ b.len = a.len /\ p \subseteq SegmentHalves(a)
                  /\ \/ b.pages = a.pages \cup p /\ b.reset = a.reset /\ backed' = [backed EXCEPT ![i] = @ \cup p]
                     \/ /\ b.pages = a.pages /\ b.reset = a.reset \cup p /\ p \subseteq a.pages
                        /\ backed' = [backed EXCEPT ![i] = IF option.reset_decommits THEN @ \ p ELSE @]
                     \/ /\ b.pages = a.pages /\ b.reset = a.reset \ p
                        /\ option.reset_decommits => backed' = [backed EXCEPT ![i] = @ \cup p]
                        /\ ~option.reset_decommits => UNCHANGED backed
  <2>1. \A p \in SegmentPages(a) : p \subseteq SegmentHalves(a)
    BY DEF SegmentPages
  <2>2. CASE PageCommit(a)
    <3>1. PICK p \in SegmentPages(a) : /\ Replace(a, [a EXCEPT !.pages = @ \cup p])
                                       /\ backed' = [backed EXCEPT ![i] = @ \cup p]
      BY <2>2 DEF PageCommit
    <3> DEFINE b == [a EXCEPT !.pages = @ \cup p]
    <3>2. b.pages = a.pages \cup p /\ b.reset = a.reset /\ b.r = a.r /\ b.at = a.at /\ b.len = a.len
      BY <1>2 DEF Allocation
    <3>3. held' = (held \ {a}) \cup {b}
      BY <3>1 DEF Replace
    <3> HIDE DEF b
    <3> QED BY <2>1, <3>1, <3>2, <3>3
  <2>3. CASE PageReset(a)
    <3>1. PICK p \in SegmentPages(a) : /\ p \subseteq a.pages \ a.reset
                                       /\ Replace(a, [a EXCEPT !.reset = @ \cup p])
                                       /\ OsReset(i, p)
      BY <2>3 DEF PageReset
    <3> DEFINE b == [a EXCEPT !.reset = @ \cup p]
    <3>2. b.reset = a.reset \cup p /\ b.pages = a.pages /\ b.r = a.r /\ b.at = a.at /\ b.len = a.len
      BY <1>2 DEF Allocation
    <3>3. held' = (held \ {a}) \cup {b}
      BY <3>1 DEF Replace
    <3>4. backed' = [backed EXCEPT ![i] = IF option.reset_decommits THEN @ \ p ELSE @]
      BY <3>1 DEF OsReset, Structure, TypeOK
    <3> HIDE DEF b
    <3> QED BY <2>1, <3>1, <3>2, <3>3, <3>4
  <2>4. CASE PageUnreset(a)
    <3>1. PICK p \in SegmentPages(a) : /\ Replace(a, [a EXCEPT !.reset = @ \ p])
                                       /\ OsUnreset(i, p)
      BY <2>4 DEF PageUnreset
    <3> DEFINE b == [a EXCEPT !.reset = @ \ p]
    <3>2. b.reset = a.reset \ p /\ b.pages = a.pages /\ b.r = a.r /\ b.at = a.at /\ b.len = a.len
      BY <1>2 DEF Allocation
    <3>3. held' = (held \ {a}) \cup {b}
      BY <3>1 DEF Replace
    <3>4. /\ option.reset_decommits => backed' = [backed EXCEPT ![i] = @ \cup p]
          /\ ~option.reset_decommits => UNCHANGED backed
      BY <1>3, <3>1 DEF OsUnreset, OsCommit
    <3> HIDE DEF b
    <3> QED BY <2>1, <3>1, <3>2, <3>3, <3>4
  <2> QED BY <1>1, <2>2, <2>3, <2>4
<1>5. /\ \A r \in RegionIdx \ {i} : backed'[r] = backed[r]
      /\ \A h : h \notin SegmentHalves(a) => (h \in backed'[i] <=> h \in backed[i])
  BY <1>2, <1>4 DEF Structure, TypeOK
<1>6. ASSUME NEW h, h \in backed[i] \/ (option.reset_decommits /\ h \in a.reset)
      PROVE  h \in backed'[i] \/ (option.reset_decommits /\ h \in b.reset)
  BY <1>2, <1>4, <1>6 DEF Structure, TypeOK
<1>7. HeldBacked'
  <2>1. ASSUME NEW c \in held, c # a, NEW h \in c.pages
        PROVE  h \in backed'[c.r] \/ (option.reset_decommits /\ h \in c.reset)
    <3>1. h \in backed[c.r] \/ (option.reset_decommits /\ h \in c.reset)
      BY DEF HeldBacked
    <3>2. c.r \in RegionIdx /\ h \in BlockHalves(c)
      BY TheirsLemma
    <3>3. c.r = i => h \notin SegmentHalves(a)
      BY <1>2, <2>1, <3>2
    <3> QED BY <1>5, <3>1, <3>2, <3>3
  <2>2. SegmentHalves(b) = SegmentHalves(a)
    BY <1>4 DEF SegmentHalves
  <2>3. b.reset \subseteq b.pages /\ b.pages \subseteq SegmentHalves(b)
    BY <1>4, <2>2 DEF HeldBacked
  <2>4. ASSUME NEW h \in b.pages
        PROVE  h \in backed'[i] \/ (option.reset_decommits /\ h \in b.reset)
    <3>1. h \in a.pages \/ h \in backed'[i]
      BY <1>2, <1>4 DEF Structure, TypeOK
    <3> QED BY <1>6, <3>1 DEF HeldBacked
  <2> QED BY <1>0, <1>4, <2>1, <2>3, <2>4 DEF HeldBacked
<1>8. ASSUME NEW r \in RegionIdx, NEW k, NEW h, BackedOrReset(r, k, h)
      PROVE  BackedOrReset(r, k, h)'
  <2>1. CASE option.reset_decommits /\ k \in reset[r]
    BY <1>0, <2>1 DEF BackedOrReset
  <2>2. CASE \E c \in held \ {a} : option.reset_decommits /\ c.r = r /\ h \in c.reset
    BY <1>0, <1>4, <2>2 DEF BackedOrReset
  <2>3. CASE option.reset_decommits /\ r = i /\ h \in a.reset
    BY <1>0, <1>4, <1>6, <2>3 DEF BackedOrReset
  <2>4. CASE h \in backed[r]
    BY <1>0, <1>4, <1>5, <1>6, <2>4 DEF BackedOrReset
  <2> QED BY <1>8, <2>1, <2>2, <2>3, <2>4 DEF BackedOrReset
<1>9. CommitTrue'
  BY <1>0, <1>8 DEF CommitTrue, HalvesOf
<1>10. Claimed'
  BY <1>0 DEF Claimed
<1> QED BY <1>7, <1>9, <1>10 DEF Recorded

\* Every step keeps what is said of committed memory.
LEMMA RecordStep ==
  ASSUME Structure, CommitRecord, CommitOptions, [Next]_vars
  PROVE  CommitRecord'
<1>0. TypeOK /\ option.threads \subseteq Thread
  BY OptionAssumption DEF Structure, TypeOK, Option
<1>1. ASSUME Use PROVE Recorded'
  BY <1>1, UseRecord
<1>2. ASSUME UNCHANGED vars PROVE Recorded'
  BY <1>2, QuietRecord DEF vars, shared, bitmaps, os
<1>3. ASSUME NEW t \in Thread, Step(t) PROVE Recorded'
  <2>0. OnlyMoves(t)
    BY <1>0, <1>3, OthersStep DEF OnlyMoves
  <2>q. ASSUME UNCHANGED <<option, commit, reset, backed, memory, held>>, pc'[t] # "unreset"
        PROVE  Recorded'
    BY <2>0, <2>q, QuietRecord DEF OnlyMoves
  <2>1. CASE RegionInit(t)
    BY <2>0, <2>1, InitRecord
  <2>2. CASE CommitBlocks(t)
    BY <2>0, <2>2, CommitBlocksRecord
  <2>3. CASE Unreset(t)
    BY <2>0, <2>3, UnresetRecord
  <2>4. CASE SegmentInfo(t)
    BY <2>0, <2>4, SegmentInfoRecord
  <2>5. CASE Free(t)
    BY <2>0, <2>5, FreeRecord
  <2>6. CASE InfoFailed(t)
    BY <2>0, <2>6, InfoFailedRecord
  <2>7. CASE CollectUnmap(t)
    BY <2>0, <2>7, UnmapRecord
  <2>8. CASE AllocStart(t) \/ Scan(t) \/ FindRead(t) \/ FindCas(t) \/ OsAlloc(t)
    <3>1. UNCHANGED <<option, commit, reset, backed, memory, held>>
      BY <2>8, ZenonT(60) DEF AllocStart, Scan, FindRead, FindCas, OsAlloc, shared, bitmaps, os
    <3>2. pc'[t] # "unreset"
      BY <1>0, <2>8 DEF TypeOK, Goto, Return, NextRegion, AllocStart, Scan, FindRead, FindCas, OsAlloc
    <3> QED BY <2>q, <3>1, <3>2, Zenon
  <2>9. CASE \/ Slot(t) \/ SlotUndo(t) \/ RegionShare(t) \/ Unclaim(t)
             \/ CollectStart(t) \/ CollectClaim(t) \/ CollectRelease(t)
    <3>1. UNCHANGED <<option, commit, reset, backed, memory, held>>
      BY <2>9 DEF Slot, SlotUndo, RegionShare, Unclaim, CollectStart, CollectClaim, CollectRelease,
        shared, bitmaps, os
    <3>2. pc'[t] # "unreset"
      BY <1>0, <2>9 DEF TypeOK, Goto, Return, Slot, SlotUndo, RegionShare, Unclaim,
        CollectStart, CollectClaim, CollectRelease
    <3> QED BY <2>q, <3>1, <3>2
  <2> QED BY <1>3, <2>1, <2>2, <2>3, <2>4, <2>5, <2>6, <2>7, <2>8, <2>9 DEF Step
<1>4. Recorded'
  BY <1>0, <1>1, <1>2, <1>3 DEF Next
<1>5. Making'
  BY <1>0, MakingStep DEF CommitRecord
<1> QED BY <1>4, <1>5 DEF Recorded, CommitRecord

-----------------------------------------------------------------------------
(* Zeroed memory *)

\* A step that leaves the dirty bits alone, and hands nothing out.
LEMMA QuietDirty ==
  ASSUME TypeOK, DirtyTrue, UNCHANGED dirty, \A i \in RegionIdx : touched'[i] \subseteq touched[i],
         \A u \in Thread : pc'[u] \in {"unreset", "info"} =>
           pc[u] \in {"unreset", "info"} /\ al'[u] = al[u]
  PROVE  DirtyTrue'
<1>1. ASSUME NEW u \in Thread, pc'[u] \in {"unreset", "info"}
      PROVE  /\ Blocks(al'[u]) \subseteq dirty'[al'[u].r]
             /\ al'[u].zero => Blocks(al'[u]) \cap touched'[al'[u].r] = {}
  <2>1. pc[u] \in {"unreset", "info"} /\ al'[u] = al[u] /\ al[u].r \in RegionIdx
    BY <1>1 DEF TypeOK
  <2> QED BY <2>1 DEF DirtyTrue
<1> QED BY <1>1 DEF DirtyTrue

\* The dirty bits of blocks are set before their memory is returned.
LEMMA DirtyBlocks ==
  ASSUME Structure, DirtyTrue, NEW t \in Thread, CommitBlocks(t), OnlyMoves(t)
  PROVE  DirtyTrue'
<1> DEFINE a == al[t]
           i == al[t].r
<1>1. /\ pc[t] = "claimed" /\ UNCHANGED touched /\ a \in Allocation /\ i \in RegionIdx
      /\ al'[t] = [a EXCEPT !.zero = (Blocks(a) \cap dirty[i] = {}),
                            !.commit = a.commit \/ Blocks(a) \subseteq commit[i]]
  BY DEF CommitBlocks, Structure, TypeOK
<1>2. al'[t].r = i /\ Blocks(al'[t]) = Blocks(a) /\ (al'[t].zero <=> Blocks(a) \cap dirty[i] = {})
  BY <1>1 DEF Allocation, Blocks, Count
<1>3. dirty'[i] = dirty[i] \cup Blocks(a) /\ \A r \in RegionIdx \ {i} : dirty'[r] = dirty[r]
  BY <1>1 DEF CommitBlocks, Structure, TypeOK
<1>4. \A r \in RegionIdx : touched'[r] \subseteq dirty'[r]
  BY <1>1, <1>3 DEF DirtyTrue
<1>5. ASSUME NEW u \in Thread, u # t, pc'[u] \in {"unreset", "info"}
      PROVE  /\ Blocks(al'[u]) \subseteq dirty'[al'[u].r]
             /\ al'[u].zero => Blocks(al'[u]) \cap touched'[al'[u].r] = {}
  <2>1. pc[u] = pc'[u] /\ al'[u] = al[u] /\ al[u].r \in RegionIdx
    BY <1>5 DEF OnlyMoves, Structure, TypeOK
  <2> QED BY <1>1, <1>3, <1>5, <2>1, Z3 DEF DirtyTrue
<1>6. /\ Blocks(al'[t]) \subseteq dirty'[al'[t].r]
      /\ al'[t].zero => Blocks(al'[t]) \cap touched'[al'[t].r] = {}
  BY <1>1, <1>2, <1>3 DEF DirtyTrue
<1> QED BY <1>4, <1>5, <1>6 DEF DirtyTrue

\* What is returned was marked as dirty, and no other thread has its blocks.
LEMMA DirtyDeliver ==
  ASSUME Structure, DirtyTrue, NEW t \in Thread, pc[t] \in {"unreset", "info"}, OnlyMoves(t),
         UNCHANGED dirty, touched' = [touched EXCEPT ![al[t].r] = @ \cup Blocks(al[t])], pc'[t] = "idle"
  PROVE  DirtyTrue'
<1> DEFINE i == al[t].r
<1>1. i \in RegionIdx /\ Blocks(al[t]) \subseteq dirty[i]
  BY DEF Structure, TypeOK, DirtyTrue
<1>2. touched'[i] = touched[i] \cup Blocks(al[t]) /\ \A r \in RegionIdx \ {i} : touched'[r] = touched[r]
  BY <1>1 DEF Structure, TypeOK
<1>3. \A r \in RegionIdx : touched'[r] \subseteq dirty'[r]
  BY <1>1, <1>2 DEF DirtyTrue
<1>4. ASSUME NEW u \in Thread, pc'[u] \in {"unreset", "info"}
      PROVE  /\ Blocks(al'[u]) \subseteq dirty'[al'[u].r]
             /\ al'[u].zero => Blocks(al'[u]) \cap touched'[al'[u].r] = {}
  <2>1. u # t /\ pc[u] = pc'[u] /\ al'[u] = al[u] /\ al[u].r \in RegionIdx
    BY <1>4 DEF OnlyMoves, Structure, TypeOK
  <2>2. al[u].r = i => Blocks(al[u]) \cap Blocks(al[t]) = {}
    BY <1>4, <2>1 DEF Structure, Lifecycle, BlocksExclusive
  <2> QED BY <1>2, <1>4, <2>1, <2>2 DEF DirtyTrue
<1> QED BY <1>3, <1>4 DEF DirtyTrue

\* A new region has no dirty bits, and nothing of it was handed out.
LEMMA DirtyInit ==
  ASSUME Structure, DirtyTrue, NEW t \in Thread, RegionInit(t), OnlyMoves(t)
  PROVE  DirtyTrue'
<1> DEFINE i == al[t].r
<1>1. pc[t] = "init" /\ pc'[t] = "share" /\ i \in RegionIdx /\ ~info[i] /\ ~start[i]
  BY DEF RegionInit, Goto, Structure, TypeOK, Lifecycle, Adds, RegionLife
<1>2. \A u \in Thread : pc[u] \in OwnLabel => al[u].r # i /\ al[u].r \in RegionIdx
  BY <1>1 DEF Structure, TypeOK, Lifecycle, Owns, Adds
<1>3. /\ touched'[i] = {} /\ dirty'[i] = {}
      /\ \A r \in RegionIdx \ {i} : touched'[r] = touched[r] /\ dirty'[r] = dirty[r]
  BY <1>1 DEF RegionInit, Structure, TypeOK
<1>4. \A r \in RegionIdx : touched'[r] \subseteq dirty'[r]
  BY <1>3 DEF DirtyTrue
<1>5. ASSUME NEW u \in Thread, pc'[u] \in {"unreset", "info"}
      PROVE  /\ Blocks(al'[u]) \subseteq dirty'[al'[u].r]
             /\ al'[u].zero => Blocks(al'[u]) \cap touched'[al'[u].r] = {}
  <2>1. u # t /\ pc[u] = pc'[u] /\ al'[u] = al[u] /\ al[u].r \in RegionIdx \ {i}
    BY <1>1, <1>2, <1>5 DEF OnlyMoves
  <2> QED BY <1>3, <1>5, <2>1 DEF DirtyTrue
<1> QED BY <1>4, <1>5 DEF DirtyTrue

\* Every step keeps the dirty bits true.
LEMMA DirtyStep ==
  ASSUME Structure, DirtyTrue, [Next]_vars
  PROVE  DirtyTrue'
<1>0. TypeOK /\ option.threads \subseteq Thread
  BY OptionAssumption DEF Structure, TypeOK, Option
<1>1. ASSUME Use \/ UNCHANGED vars PROVE DirtyTrue'
  <2>1. UNCHANGED <<dirty, touched, pc, al>>
    BY <1>1 DEF Use, vars, shared, bitmaps, os
  <2> QED BY <1>0, <2>1, QuietDirty
<1>2. ASSUME NEW t \in Thread, Step(t) PROVE DirtyTrue'
  <2>0. OnlyMoves(t)
    BY <1>0, <1>2, OthersStep DEF OnlyMoves
  <2>q. ASSUME UNCHANGED dirty, \A i \in RegionIdx : touched'[i] \subseteq touched[i],
               pc'[t] \notin {"unreset", "info"}
        PROVE  DirtyTrue'
    BY <1>0, <2>0, <2>q, QuietDirty DEF OnlyMoves
  <2>1. CASE RegionInit(t)
    BY <2>0, <2>1, DirtyInit
  <2>2. CASE CommitBlocks(t)
    BY <2>0, <2>2, DirtyBlocks
  <2>3. CASE Unreset(t)
    <3>1. CASE al[t].commit
      <4>1. /\ pc[t] \in {"unreset", "info"} /\ UNCHANGED dirty /\ pc'[t] = "idle"
            /\ touched' = [touched EXCEPT ![al[t].r] = @ \cup Blocks(al[t])]
        BY <1>0, <2>3, <3>1 DEF Unreset, Deliver, Return, Goto, TypeOK
      <4> QED BY <2>0, <4>1, DirtyDeliver
    <3>2. CASE ~al[t].commit
      <4>1. UNCHANGED <<dirty, touched, al>> /\ pc[t] = "unreset"
        BY <2>3, <3>2 DEF Unreset
      <4> QED BY <1>0, <2>0, <4>1, QuietDirty DEF OnlyMoves
    <3> QED BY <3>1, <3>2
  <2>4. CASE SegmentInfo(t)
    <3>1. /\ pc[t] \in {"unreset", "info"} /\ UNCHANGED dirty /\ pc'[t] = "idle"
          /\ touched' = [touched EXCEPT ![al[t].r] = @ \cup Blocks(al[t])]
      BY <1>0, <2>4 DEF SegmentInfo, Deliver, Return, Goto, TypeOK, shared, bitmaps
    <3> QED BY <2>0, <3>1, DirtyDeliver
  <2>5. CASE Free(t) \/ InfoFailed(t)
    <3>1. UNCHANGED <<dirty, touched>> /\ pc'[t] = "unclaim"
      BY <1>0, <2>5, ZenonT(60) DEF Free, InfoFailed, FreeMark, Goto, TypeOK
    <3> QED BY <2>q, <3>1, Zenon
  <2>6. CASE CollectUnmap(t)
    <3>1. UNCHANGED dirty /\ pc'[t] = "collect" /\ \A i \in RegionIdx : touched'[i] \subseteq touched[i]
      BY <1>0, <2>6 DEF CollectUnmap, Goto, TypeOK, shared, bitmaps
    <3> QED BY <2>q, <3>1
  <2>7. CASE AllocStart(t) \/ Scan(t) \/ FindRead(t) \/ FindCas(t) \/ OsAlloc(t)
    <3>1. UNCHANGED <<dirty, touched>>
      BY <2>7, ZenonT(60) DEF AllocStart, Scan, FindRead, FindCas, OsAlloc, shared, bitmaps, os
    <3>2. pc'[t] \notin {"unreset", "info"}
      BY <1>0, <2>7 DEF TypeOK, Goto, Return, NextRegion, AllocStart, Scan, FindRead, FindCas, OsAlloc
    <3> QED BY <2>q, <3>1, <3>2
  <2>8. CASE \/ Slot(t) \/ SlotUndo(t) \/ RegionShare(t) \/ Unclaim(t)
             \/ CollectStart(t) \/ CollectClaim(t) \/ CollectRelease(t)
    <3>1. UNCHANGED <<dirty, touched>>
      BY <2>8 DEF Slot, SlotUndo, RegionShare, Unclaim, CollectStart, CollectClaim, CollectRelease,
        shared, bitmaps, os
    <3>2. pc'[t] \notin {"unreset", "info"}
      BY <1>0, <2>8 DEF TypeOK, Goto, Return, Slot, SlotUndo, RegionShare, Unclaim,
        CollectStart, CollectClaim, CollectRelease
    <3> QED BY <2>q, <3>1, <3>2
  <2> QED BY <1>2, <2>1, <2>2, <2>3, <2>4, <2>5, <2>6, <2>7, <2>8 DEF Step
<1> QED BY <1>0, <1>1, <1>2 DEF Next

\* What is_commit and is_zero say is true: memory a segment takes for committed
\* is committed (region.c:401), and memory that is said to be zero was not handed
\* out before (region.c:318).
THEOREM RegionTrueWhenSaid ==
  ASSUME ~RelaxedInfo, CommitOptions
  PROVE  Spec => []TrueWhenSaid
<1> DEFINE Inv == Structure /\ CommitRecord /\ DirtyTrue
<1>1. Init => CommitRecord /\ DirtyTrue
  BY DEF Init, CommitRecord, Making, HeldBacked, CommitTrue, Claimed, DirtyTrue, NoAl, Allocating
<1>2. Init => Inv
  BY <1>1, InitStructure
<1>3. Inv /\ [Next]_vars => Inv'
  BY StructureStep, RecordStep, DirtyStep
<1>4. Inv => TrueWhenSaid
  <2> SUFFICES ASSUME Inv PROVE TrueWhenSaid
    OBVIOUS
  <2>1. \A a \in held : a.pages \ a.reset \subseteq backed[a.r]
    BY DEF CommitRecord, HeldBacked
  <2>2. \A t \in Thread : pc[t] \in {"unreset", "info"} /\ al[t].zero =>
          Blocks(al[t]) \cap touched[al[t].r] = {}
    BY DEF DirtyTrue
  <2> QED BY <2>1, <2>2 DEF TrueWhenSaid
<1> HIDE DEF Inv
<1> QED BY <1>2, <1>3, <1>4, PTL DEF Spec
=============================================================================
