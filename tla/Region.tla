------------------------------- MODULE Region -------------------------------
(***************************************************************************)
(* Memory for segments (region.c, bitmap.inc.c): an array of regions, each *)
(* with a bitmap of the blocks in use that threads search and claim with   *)
(* compare-and-swaps, bitmaps that record which blocks are committed and   *)
(* which were reset, a count of the regions that threads increment when    *)
(* they add one, and the collect that unmaps regions without blocks in     *)
(* use.  What the segments do with their memory between allocation and     *)
(* free (segment.c) is included as far as it commits and resets pages.     *)
(*                                                                         *)
(* A bitmap field is the set of its one bits.  After a thread has claimed  *)
(* blocks in `in_use` only it touches their bits in the other bitmaps, so  *)
(* those updates are joined with the system call they belong to.  NUMA     *)
(* nodes, large OS pages, arenas and the segment cache are left out: every *)
(* region suits every request and its memory comes from the OS.            *)
(*                                                                         *)
(* Sizes are counted in halves of a block, and so is committed memory: a   *)
(* huge segment may end in the middle of its last block, and a small one   *)
(* commits and resets its two pages on their own.  The segment info at the *)
(* start of a segment is not counted as memory.                            *)
(***************************************************************************)
EXTENDS Integers, FiniteSets

CONSTANTS
  Thread,
  Main,        \* the thread that collects regions
  MaxRegions,  \* MI_REGION_MAX
  Width,       \* MI_BITMAP_FIELD_BITS, the blocks of a region
  MaxObj,      \* MI_REGION_MAX_OBJ_BLOCKS, most blocks of one allocation
  Options,     \* the processes, see Option
  RelaxedInfo  \* may a read of info overtake the writes before it was set?

\* a segment is some halves of a block long; one of normal size has two pages
\* (split) or one
Request == {q \in [len : 1 .. 2 * MaxObj, split : BOOLEAN] : q.split => q.len = 2}

\* A process: the options of the allocator, the threads that run, the segments
\* they need, and whether the OS may refuse to commit memory.
Option == [eager_commit : BOOLEAN, eager_region_commit : BOOLEAN,
           page_reset : BOOLEAN, segment_reset : BOOLEAN, reset_decommits : BOOLEAN,
           threads : SUBSET Thread, requests : SUBSET Request, commit_fails : BOOLEAN]

ASSUME ThreadAssumption == Main \in Thread
ASSUME SizeAssumption ==
  /\ MaxRegions \in Nat \ {0}
  /\ Width \in Nat \ {0}
  /\ MaxObj \in 1 .. Width
ASSUME OptionAssumption == Options \subseteq Option /\ RelaxedInfo \in BOOLEAN

VARIABLES
  option,           \* the process, which does not change
  regions_count,
  \* the fields of regions[i]
  info,             \* is the region valid?
  start,            \* is the start address set?
  in_use, dirty, commit, reset,
  \* the operating system
  memory,           \* the memory of regions[i]: "none", "mapped" or "unmapped"
  backed,           \* the halves that are committed
  touched,          \* the blocks that were handed out since they were mapped
  held,             \* allocations that were returned and not yet freed
  \* each thread
  pc,
  al,               \* the allocation that is made or freed
  map,              \* the value read from in_use
  count, visited,   \* of mi_region_try_claim and _mi_mem_collect
  region_idx        \* tld->region_idx

bitmaps == <<in_use, dirty, commit, reset>>
shared  == <<regions_count, info, start, bitmaps>>
os      == <<memory, backed, touched>>
scanned == <<map, count, visited, region_idx>>
vars    == <<option, shared, os, held, pc, al, scanned>>

RegionIdx == 0 .. MaxRegions - 1
Bit       == 0 .. Width - 1
Half      == 0 .. 2 * Width - 1

\* An allocation: r and at are the index of the region and of the first block, len the halves
\* it is long; split says that the segment has two pages and not one; commit
\* and zero are *commit and *is_zero; pages and reset are the halves in the
\* segment's pages with is_committed and with is_reset.
Allocation == [r : Nat, at : 0 .. Width, len : 1 .. 2 * MaxObj, split : BOOLEAN,
               commit : BOOLEAN, zero : BOOLEAN, pages : SUBSET Half, reset : SUBSET Half]

NoAl == [r |-> 0, at |-> 0, len |-> 2, split |-> TRUE, commit |-> FALSE,
         zero |-> FALSE, pages |-> {}, reset |-> {}]

\* the n bits at index i, mi_bitmap_mask_
Mask(n, i) == i .. (i + n - 1)
\* mi_region_block_count
Count(a)   == (a.len + 1) \div 2
Blocks(a)  == Mask(Count(a), a.at)
\* the memory of the blocks, and of the segment in them
BlockHalves(a)   == Mask(2 * Count(a), 2 * a.at)
SegmentHalves(a) == Mask(a.len, 2 * a.at)
SegmentPages(a)  == IF a.split THEN {{h} : h \in SegmentHalves(a)} ELSE {SegmentHalves(a)}

\* labels at which a thread has claimed the blocks of al
OwnLabel == {"share", "claimed", "unreset", "info", "unclaim"}
Label == OwnLabel \cup {"idle", "scan", "find", "cas", "slot", "undo", "init",
                        "collect", "release", "unmap"}

TypeOK ==
  /\ option \in Options
  /\ regions_count \in Nat
  /\ info \in [RegionIdx -> BOOLEAN]
  /\ start \in [RegionIdx -> BOOLEAN]
  /\ in_use \in [RegionIdx -> SUBSET Bit]
  /\ dirty \in [RegionIdx -> SUBSET Bit]
  /\ commit \in [RegionIdx -> SUBSET Bit]
  /\ reset \in [RegionIdx -> SUBSET Bit]
  /\ memory \in [RegionIdx -> {"none", "mapped", "unmapped"}]
  /\ backed \in [RegionIdx -> SUBSET Half]
  /\ touched \in [RegionIdx -> SUBSET Bit]
  /\ held \subseteq Allocation
  /\ pc \in [Thread -> Label]
  /\ al \in [Thread -> Allocation]
  /\ map \in [Thread -> SUBSET Bit]
  /\ count \in [Thread -> Nat]
  /\ visited \in [Thread -> Nat]
  /\ region_idx \in [Thread -> Nat]
  /\ \A a \in held : a.r \in RegionIdx /\ a.at + Count(a) <= Width
  /\ \A t \in Thread :
       /\ pc[t] \in OwnLabel \cup {"find", "cas", "init", "release", "unmap"} =>
            al[t].r \in RegionIdx
       /\ pc[t] \in OwnLabel => al[t].at + Count(al[t]) <= Width

Init ==
  /\ option \in Options
  /\ regions_count = 0
  /\ info = [i \in RegionIdx |-> FALSE]
  /\ start = [i \in RegionIdx |-> FALSE]
  /\ in_use = [i \in RegionIdx |-> {}]
  /\ dirty = [i \in RegionIdx |-> {}]
  /\ commit = [i \in RegionIdx |-> {}]
  /\ reset = [i \in RegionIdx |-> {}]
  /\ memory = [i \in RegionIdx |-> "none"]
  /\ backed = [i \in RegionIdx |-> {}]
  /\ touched = [i \in RegionIdx |-> {}]
  /\ held = {}
  /\ pc = [t \in Thread |-> "idle"]
  /\ al = [t \in Thread |-> NoAl]
  /\ map = [t \in Thread |-> {}]
  /\ count = [t \in Thread |-> 0]
  /\ visited = [t \in Thread |-> 0]
  /\ region_idx = [t \in Thread |-> 0]

Goto(t, label) == pc' = [pc EXCEPT ![t] = label]

\* the call of t returns; its locals are forgotten
Return(t) ==
  /\ Goto(t, "idle")
  /\ al' = [al EXCEPT ![t] = NoAl]
  /\ map' = [map EXCEPT ![t] = {}]
  /\ count' = [count EXCEPT ![t] = 0]
  /\ visited' = [visited EXCEPT ![t] = 0]

\* where the scan of mi_bitmap_try_find_claim_field stops: at the first range
\* of n zero bits from index i on (see module BitScan)
Fits(m, n, i)     == {j \in i .. (Width - n) : Mask(n, j) \cap m = {}}
FirstFit(m, n, i) == CHOOSE j \in Fits(m, n, i) : \A k \in Fits(m, n, i) : j <= k

\* _mi_os_commit of the halves h in region i, which may fail
OsCommit(i, h) ==
  \/ backed' = [backed EXCEPT ![i] = @ \cup h]
  \/ option.commit_fails /\ UNCHANGED backed

\* _mi_os_reset, and _mi_os_unreset
OsReset(i, h) ==
  IF option.reset_decommits THEN backed' = [backed EXCEPT ![i] = @ \ h] ELSE UNCHANGED backed
OsUnreset(i, h) ==
  IF option.reset_decommits THEN OsCommit(i, h) ELSE UNCHANGED backed

-----------------------------------------------------------------------------
(* _mi_mem_alloc_aligned, called by mi_segment_init *)

\* all segments are committed with eager_commit but the first ones of a thread
\* with several pages (eager_commit_delay)
AllocStart(t) ==
  /\ pc[t] = "idle"
  /\ \E q \in option.requests, c \in BOOLEAN :
       /\ c = option.eager_commit \/ (q.split /\ ~c)
       /\ al' = [al EXCEPT ![t] = [NoAl EXCEPT !.r = region_idx[t], !.len = q.len,
                                              !.split = q.split, !.commit = c]]
  /\ count' = [count EXCEPT ![t] = regions_count]
  /\ Goto(t, "scan")
  /\ UNCHANGED <<option, shared, os, held, map, visited, region_idx>>

\* on to the next region
NextRegion(t, i) ==
  /\ al' = [al EXCEPT ![t].r = i + 1, ![t].at = 0]
  /\ visited' = [visited EXCEPT ![t] = @ + 1]
  /\ map' = [map EXCEPT ![t] = {}]
  /\ Goto(t, "scan")

\* mi_region_is_suitable.  The read of info is relaxed: a thread that sees the
\* region as valid may still find in_use as it was before it was initialised,
\* as if it had read info early.
SeenValid(i) ==
  \/ info[i]
  \/ RelaxedInfo /\ \E u \in Thread : pc[u] = "init" /\ al[u].r = i

\* The loop of mi_region_try_claim (regions_count can exceed MaxRegions for a moment;
\* what the code then reads behind the array counts as not valid).
Scan(t) ==
  /\ pc[t] = "scan"
  /\ visited[t] < count[t]
  /\ LET i == IF al[t].r >= count[t] THEN 0 ELSE al[t].r IN
       IF i \in RegionIdx /\ SeenValid(i)
         THEN /\ al' = [al EXCEPT ![t].r = i]
              /\ Goto(t, "find")
              /\ UNCHANGED <<map, visited>>
         ELSE NextRegion(t, i)
  /\ UNCHANGED <<option, shared, os, held, count, region_idx>>

\* mi_bitmap_try_find_claim_field starts at the first zero bit, ...
FindRead(t) ==
  /\ pc[t] = "find"
  /\ LET m == in_use[al[t].r] IN
       IF Fits(m, Count(al[t]), 0) = {}
         THEN NextRegion(t, al[t].r)
         ELSE /\ map' = [map EXCEPT ![t] = m]
              /\ al' = [al EXCEPT ![t].at = FirstFit(m, Count(al[t]), 0)]
              /\ Goto(t, "cas")
              /\ UNCHANGED visited
  /\ UNCHANGED <<option, shared, os, held, count, region_idx>>

\* Mutant: the bits are set whatever the field is now
FindCasBlind(t) ==
  /\ pc[t] = "cas"
  /\ in_use' = [in_use EXCEPT ![al[t].r] = @ \cup Blocks(al[t])]
  /\ region_idx' = [region_idx EXCEPT ![t] = al[t].r]
  /\ Goto(t, "claimed")
  /\ map' = [map EXCEPT ![t] = {}]
  /\ UNCHANGED <<al, visited>>
  /\ UNCHANGED <<option, regions_count, info, start, dirty, commit, reset, os, held, count>>

\* ... claims, and when another thread was faster goes on with the new field
\* at the index where it is
FindCas(t) ==
  /\ pc[t] = "cas"
  /\ LET i == al[t].r
         m == in_use[i]
     IN  IF m = map[t]
           THEN /\ in_use' = [in_use EXCEPT ![i] = m \cup Blocks(al[t])]
                /\ region_idx' = [region_idx EXCEPT ![t] = i]
                /\ Goto(t, "claimed")
                /\ map' = [map EXCEPT ![t] = {}]
                /\ UNCHANGED <<al, visited>>
           ELSE /\ IF Fits(m, Count(al[t]), al[t].at) = {}
                     THEN NextRegion(t, i)
                     ELSE /\ map' = [map EXCEPT ![t] = m]
                          /\ al' = [al EXCEPT ![t].at = FirstFit(m, Count(al[t]), @)]
                          /\ UNCHANGED <<pc, visited>>
                /\ UNCHANGED <<in_use, region_idx>>
  /\ UNCHANGED <<option, regions_count, info, start, dirty, commit, reset, os, held, count>>

\* no region had room: mi_region_try_alloc_os.  When the regions or the memory
\* are used up the allocation falls back to the OS and is not ours.
OsAlloc(t) ==
  /\ pc[t] = "scan"
  /\ visited[t] >= count[t]
  /\ \/ regions_count < MaxRegions - 1 /\ Goto(t, "slot") /\ UNCHANGED <<al, map, count, visited>>
     \/ Return(t)
  /\ UNCHANGED <<option, shared, os, held, region_idx>>

\* mi_atomic_increment returns the value before
Slot(t) ==
  /\ pc[t] = "slot"
  /\ regions_count' = regions_count + 1
  /\ Goto(t, IF regions_count >= MaxRegions THEN "undo" ELSE "init")
  /\ al' = [al EXCEPT ![t].r = regions_count]
  /\ UNCHANGED <<option, info, start, bitmaps, os, held, scanned>>

\* Mutant: the count stays
SlotKeep(t) ==
  /\ pc[t] = "undo"
  /\ Return(t)
  /\ UNCHANGED <<option, shared, os, held, region_idx>>

\* too many regions: the memory is given back
SlotUndo(t) ==
  /\ pc[t] = "undo"
  /\ regions_count' = regions_count - 1
  /\ Return(t)
  /\ UNCHANGED <<option, info, start, bitmaps, os, held, region_idx>>

RegionInit(t) ==
  /\ pc[t] = "init"
  /\ LET i == al[t].r
         c == al[t].commit /\ option.eager_region_commit
     IN  /\ in_use' = [in_use EXCEPT ![i] = Mask(Count(al[t]), 0)]
         /\ dirty' = [dirty EXCEPT ![i] = {}]
         /\ commit' = [commit EXCEPT ![i] = IF c THEN Bit ELSE {}]
         /\ reset' = [reset EXCEPT ![i] = {}]
         /\ start' = [start EXCEPT ![i] = TRUE]
         /\ memory' = [memory EXCEPT ![i] = "mapped"]
         /\ backed' = [backed EXCEPT ![i] = IF c THEN Half ELSE {}]
         /\ touched' = [touched EXCEPT ![i] = {}]
  /\ al' = [al EXCEPT ![t].at = 0]
  /\ Goto(t, "share")
  /\ UNCHANGED <<option, regions_count, info, held, scanned>>

RegionShare(t) ==
  /\ pc[t] = "share"
  /\ info' = [info EXCEPT ![al[t].r] = TRUE]
  /\ Goto(t, "claimed")
  /\ UNCHANGED <<option, regions_count, start, bitmaps, os, held, al, scanned>>

\* mi_region_try_alloc with the blocks claimed: are they zero, commit them if
\* that was asked for, or see if they are committed, ...
CommitBlocks(t) ==
  /\ pc[t] = "claimed"
  /\ LET a == al[t]
         z == Blocks(a) \cap dirty[a.r] = {}
     IN  /\ dirty' = [dirty EXCEPT ![a.r] = @ \cup Blocks(a)]
         /\ al' = [al EXCEPT ![t].zero = z, ![t].commit = @ \/ Blocks(a) \subseteq commit[a.r]]
         /\ commit' = [commit EXCEPT ![a.r] = IF a.commit THEN @ \cup Blocks(a) ELSE @]
         /\ IF a.commit /\ ~(Blocks(a) \subseteq commit[a.r])
              THEN OsCommit(a.r, BlockHalves(a)) ELSE UNCHANGED backed
  /\ Goto(t, "unreset")
  /\ UNCHANGED <<option, regions_count, info, start, in_use, reset, memory, touched, held, scanned>>

\* the allocation of t is returned to its segment, with these pages committed;
\* *commit and *is_zero have been used
Deliver(t, pages) ==
  /\ held' = held \cup {[al[t] EXCEPT !.pages = pages, !.commit = FALSE, !.zero = FALSE]}
  /\ touched' = [touched EXCEPT ![al[t].r] = @ \cup Blocks(al[t])]
  /\ Return(t)

\* Mutant: the reset bits are forgotten without a call of the OS
UnresetNot(t) ==
  /\ pc[t] = "unreset"
  /\ reset' = [reset EXCEPT ![al[t].r] = @ \ Blocks(al[t])]
  /\ UNCHANGED backed
  /\ IF al[t].commit
       THEN Deliver(t, SegmentHalves(al[t]))
       ELSE Goto(t, "info") /\ UNCHANGED <<touched, held, al, map, count, visited>>
  /\ UNCHANGED <<option, regions_count, info, start, in_use, dirty, commit, memory, region_idx>>

\* ... and unreset them
Unreset(t) ==
  /\ pc[t] = "unreset"
  /\ LET a == al[t] IN
       /\ reset' = [reset EXCEPT ![a.r] = @ \ Blocks(a)]
       /\ IF Blocks(a) \cap reset[a.r] # {} /\ (a.commit \/ ~option.reset_decommits)
            THEN OsUnreset(a.r, BlockHalves(a)) ELSE UNCHANGED backed
       /\ IF a.commit
            THEN Deliver(t, SegmentHalves(a))
            ELSE Goto(t, "info") /\ UNCHANGED <<touched, held, al, map, count, visited>>
  /\ UNCHANGED <<option, regions_count, info, start, in_use, dirty, commit, memory, region_idx>>

\* mi_segment_init commits the segment info
SegmentInfo(t) ==
  /\ pc[t] = "info"
  /\ Deliver(t, {})
  /\ UNCHANGED <<option, shared, memory, backed, region_idx>>

-----------------------------------------------------------------------------
(* The segment uses its memory *)

Replace(a, b) == held' = (held \ {a}) \cup {b}

\* mi_segment_page_claim commits the page; when that fails nothing changes
PageCommit(a) ==
  \E p \in SegmentPages(a) :
    /\ p \cap a.pages = {}
    /\ Replace(a, [a EXCEPT !.pages = @ \cup p])
    /\ backed' = [backed EXCEPT ![a.r] = @ \cup p]

\* mi_page_reset of a page that is not in use
PageReset(a) ==
  /\ option.page_reset
  /\ \E p \in SegmentPages(a) :
       /\ p \subseteq a.pages \ a.reset
       /\ Replace(a, [a EXCEPT !.reset = @ \cup p])
       /\ OsReset(a.r, p)

\* mi_page_unreset, which does not look if it succeeded
PageUnreset(a) ==
  \E p \in SegmentPages(a) :
    /\ p \subseteq a.reset
    /\ Replace(a, [a EXCEPT !.reset = @ \ p])
    /\ OsUnreset(a.r, p)

Use ==
  /\ \E a \in held : PageCommit(a) \/ PageReset(a) \/ PageUnreset(a)
  /\ UNCHANGED <<option, shared, memory, touched, pc, al, scanned>>

-----------------------------------------------------------------------------
(* mi_segment_os_free and _mi_mem_free *)

\* fully_committed of mi_segment_os_free
FullyCommitted(a) ==
  /\ a.pages = SegmentHalves(a)
  /\ ~(a.reset # {} /\ option.reset_decommits)

SegmentReset == option.segment_reset /\ (option.eager_commit \/ option.reset_decommits)

\* t frees a: the bits, and the reset of the blocks
FreeMark(t, a) ==
  /\ LET r == IF a.reset # {} THEN reset[a.r] \cup Blocks(a) ELSE reset[a.r]
     IN  /\ commit' = [commit EXCEPT ![a.r] =
              IF FullyCommitted(a) /\ a.len % 2 = 0 THEN @ \cup Blocks(a) ELSE @]
         /\ reset' = [reset EXCEPT ![a.r] = IF SegmentReset THEN r \cup Blocks(a) ELSE r]
         /\ IF SegmentReset /\ ~(Blocks(a) \subseteq r)
              THEN OsReset(a.r, BlockHalves(a)) ELSE UNCHANGED backed
  /\ al' = [al EXCEPT ![t] = [a EXCEPT !.pages = {}, !.reset = {}, !.split = FALSE]]
  /\ Goto(t, "unclaim")
  /\ UNCHANGED <<option, regions_count, info, start, in_use, dirty, memory, touched, scanned>>

\* a segment claims its first page before it is used, unless that fails
Free(t) ==
  /\ pc[t] = "idle"
  /\ \E a \in held :
       /\ a.pages # {} \/ option.commit_fails
       /\ held' = held \ {a}
       /\ FreeMark(t, a)

\* the info could not be committed: mi_segment_init frees the segment, with
\* the size of one block
InfoFailed(t) ==
  /\ pc[t] = "info"
  /\ option.commit_fails
  /\ FreeMark(t, [al[t] EXCEPT !.len = 2, !.zero = FALSE])
  /\ UNCHANGED held

\* Mutant: the first block only
UnclaimOne(t) ==
  /\ pc[t] = "unclaim"
  /\ in_use' = [in_use EXCEPT ![al[t].r] = @ \ {al[t].at}]
  /\ Return(t)
  /\ UNCHANGED <<option, regions_count, info, start, dirty, commit, reset, os, held, region_idx>>

Unclaim(t) ==
  /\ pc[t] = "unclaim"
  /\ in_use' = [in_use EXCEPT ![al[t].r] = @ \ Blocks(al[t])]
  /\ Return(t)
  /\ UNCHANGED <<option, regions_count, info, start, dirty, commit, reset, os, held, region_idx>>

-----------------------------------------------------------------------------
(* _mi_mem_collect, by the main thread *)

CollectStart(t) ==
  /\ t = Main /\ pc[t] = "idle"
  /\ count' = [count EXCEPT ![t] = regions_count]
  /\ Goto(t, "collect")
  /\ UNCHANGED <<option, shared, os, held, al, map, visited, region_idx>>

\* the whole region is claimed if no block of it is in use
CollectClaim(t) ==
  /\ pc[t] = "collect"
  /\ LET i == al[t].r IN
       \/ /\ i < count[t] /\ i \in RegionIdx
          /\ info[i] /\ in_use[i] = {}
          /\ in_use' = [in_use EXCEPT ![i] = Bit]
          /\ Goto(t, "release")
          /\ UNCHANGED <<al, map, count, visited>>
       \/ /\ i < count[t]
          /\ i \in RegionIdx => ~info[i] \/ in_use[i] # {}
          /\ al' = [al EXCEPT ![t].r = i + 1]
          /\ UNCHANGED <<in_use, pc, map, count, visited>>
       \/ i >= count[t] /\ Return(t) /\ UNCHANGED in_use
  /\ UNCHANGED <<option, regions_count, info, start, dirty, commit, reset, os, held, region_idx>>

\* Mutant: the descriptor is cleared, as the memset at region.c:512 would
CollectReleaseClears(t) ==
  /\ pc[t] = "release"
  /\ info' = [info EXCEPT ![al[t].r] = FALSE]
  /\ start' = [start EXCEPT ![al[t].r] = FALSE]
  /\ in_use' = [in_use EXCEPT ![al[t].r] = {}]
  /\ Goto(t, "unmap")
  /\ UNCHANGED <<option, regions_count, dirty, commit, reset, os, held, al, scanned>>

CollectRelease(t) ==
  /\ pc[t] = "release"
  /\ info' = [info EXCEPT ![al[t].r] = FALSE]
  /\ Goto(t, "unmap")
  /\ UNCHANGED <<option, regions_count, start, bitmaps, os, held, al, scanned>>

CollectUnmap(t) ==
  /\ pc[t] = "unmap"
  /\ memory' = [memory EXCEPT ![al[t].r] = "unmapped"]
  /\ backed' = [backed EXCEPT ![al[t].r] = {}]
  /\ touched' = [touched EXCEPT ![al[t].r] = {}]
  /\ al' = [al EXCEPT ![t].r = @ + 1]
  /\ Goto(t, "collect")
  /\ UNCHANGED <<option, shared, held, scanned>>

-----------------------------------------------------------------------------
Step(t) ==
  \/ AllocStart(t) \/ Scan(t) \/ FindRead(t) \/ FindCas(t)
  \/ OsAlloc(t) \/ Slot(t) \/ SlotUndo(t) \/ RegionInit(t) \/ RegionShare(t)
  \/ CommitBlocks(t) \/ Unreset(t) \/ SegmentInfo(t)
  \/ Free(t) \/ InfoFailed(t) \/ Unclaim(t)
  \/ CollectStart(t) \/ CollectClaim(t) \/ CollectRelease(t) \/ CollectUnmap(t)

Next == Use \/ \E t \in option.threads : Step(t)

Spec == Init /\ [][Next]_vars

-----------------------------------------------------------------------------
(* Properties *)

\* the allocations that threads make or free, and all of them
Mine(t) == IF pc[t] \in OwnLabel THEN {al[t]} ELSE {}
BlocksOf(A, i) == UNION {Blocks(a) : a \in {x \in A : x.r = i}}

\* No block is handed out twice: two allocations, returned or in the hands of
\* a thread, have no block in common, and their blocks are in use.  The
\* threads only agree through compare-and-swaps on words they read earlier.
BlocksExclusive ==
  /\ \A a \in held : Blocks(a) \subseteq in_use[a.r]
  /\ \A t \in Thread : pc[t] \in OwnLabel => Blocks(al[t]) \subseteq in_use[al[t].r]
  /\ \A a, b \in held : a # b /\ a.r = b.r => Blocks(a) \cap Blocks(b) = {}
  /\ \A t \in Thread : pc[t] \in OwnLabel =>
       /\ \A a \in held : a.r = al[t].r => Blocks(a) \cap Blocks(al[t]) = {}
       /\ \A u \in Thread \ {t} : pc[u] \in OwnLabel /\ al[u].r = al[t].r =>
            Blocks(al[u]) \cap Blocks(al[t]) = {}

\* No block leaks: what is in use belongs to an allocation, unless the region
\* was claimed as a whole to be released (region.c:485).
InUseExact ==
  \A i \in RegionIdx :
    \/ in_use[i] = BlocksOf(held, i) \cup UNION {BlocksOf(Mine(t), i) : t \in Thread}
    \/ in_use[i] = Bit /\ (~info[i] \/ \E t \in Thread : pc[t] = "release" /\ al[t].r = i)

\* Threads that find the array of regions full take back their increment of
\* the count (region.c:194): it settles at no more than the array holds, and
\* no slot is given out again.
CountSettles ==
  \/ regions_count <= MaxRegions
  \/ \E t \in Thread : pc[t] = "undo"

\* An allocation lies in mapped memory of a region others can see: collecting
\* regions and claiming in them do not cross (region.c:505), and the address
\* of a block is computed from a start that is set (region.c:142).
AllocationMapped ==
  /\ \A a \in held : memory[a.r] = "mapped" /\ start[a.r] /\ info[a.r]
  /\ \A t \in Thread : pc[t] \in OwnLabel =>
       /\ memory[al[t].r] = "mapped" /\ start[al[t].r]
       /\ pc[t] = "share" \/ info[al[t].r]

\* What is_commit and is_zero say of an allocation is true, whatever segments
\* had its blocks before.  Memory the segment takes for committed is committed
\* (region.c:401 writes to it to be sure), and memory that is said to be zero was
\* not handed out before: calloc relies on it (region.c:318).
TrueWhenSaid ==
  /\ \A a \in held : a.pages \ a.reset \subseteq backed[a.r]
  /\ \A t \in Thread : pc[t] \in {"unreset", "info"} /\ al[t].zero =>
       Blocks(al[t]) \cap touched[al[t].r] = {}
=============================================================================
