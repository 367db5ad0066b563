------------------------------ MODULE Segment ------------------------------
(***************************************************************************)
(* Segments and their pages (segment.c): each thread has segments whose    *)
(* pages it claims for its heap and clears again, queues of the segments   *)
(* with free pages, a cache of empty segments, and a queue of free pages   *)
(* whose memory is to be reset after a delay.  Segments go from thread to  *)
(* thread when a thread ends with pages in use, and huge segments belong   *)
(* to nobody until they are freed.                                         *)
(*                                                                         *)
(* A call touches only what its thread owns and takes segments from the    *)
(* abandoned list in one step (module AbandonedList), so calls of          *)
(* different threads are executed one after the other: pc, me and cur      *)
(* belong to the call that is running, and its steps are the functions of  *)
(* the code.  Which blocks of a page are free (module ThreadFree), guard   *)
(* pages (MI_SECURE is 0) and is_zero_init are left out.                   *)
(*                                                                         *)
(* The memory of a segment is counted in units of a page of the smallest   *)
(* kind.  mi_segment_init does not zero the page info, so memory that held *)
(* fewer pages before has arbitrary values in segment_in_use of the others *)
(* (segment.c:670): the model does not use it with more pages until it is  *)
(* mapped anew.                                                            *)
(***************************************************************************)
EXTENDS Integers, Sequences, FiniteSets

CONSTANTS
  Thread, Segment, NULL,
  Capacity,      \* pages of a segment of each kind
  Kinds,         \* the kinds of pages that are allocated
  Options,       \* combinations of the options, see Option
  Main,          \* the main thread
  CacheFraction  \* MI_SEGMENT_CACHE_FRACTION

PageKind == {"small", "medium", "large", "huge"}
Queued   == {"small", "medium"}     \* page_kind <= MI_PAGE_MEDIUM
Units    == Capacity["small"]
Unit     == 0 .. Units - 1

\* The options; the values that mi_option_set gives segment_cache; whether the OS
\* refuses to commit memory at times; and whether the last blocks of a page can be
\* freed between the two looks that mi_segment_try_reclaim takes at an abandoned
\* segment.
Option == [eager_commit : BOOLEAN, eager_commit_delay : Nat, page_reset : BOOLEAN,
           reset_decommits : BOOLEAN, abandoned_page_reset : BOOLEAN, reset_delay : Nat,
           segment_cache : Nat, cache_sizes : SUBSET Nat, commit_fails : BOOLEAN, late_frees : BOOLEAN]

ASSUME NULLAssumption == NULL \notin Thread /\ NULL \notin Segment /\ Main \in Thread
ASSUME SegmentAssumption == IsFiniteSet(Segment)
ASSUME CapacityAssumption ==
  /\ Capacity \in [PageKind -> Nat \ {0}]
  /\ Capacity["large"] = 1 /\ Capacity["huge"] = 1
  /\ \A k \in PageKind : Units % Capacity[k] = 0
ASSUME OptionAssumption ==
  /\ Options \subseteq Option /\ Kinds \subseteq PageKind
  /\ CacheFraction \in Nat \ {0}

VARIABLES
  option,
  \* the fields of a segment, and of its pages
  kind, used, abandoned, thread_id, mem_is_fixed, page,
  \* the memory of a segment
  mapped,       \* did a thread get it from a region?
  backed,       \* the units that are committed
  known,        \* the pages whose info is zero or was left by a segment
  abandoned_list,
  \* the tld of a thread
  free_queue, cache, pages_reset, count, peak_count,
  status,       \* of the thread
  \* the call that runs
  pc, me, cur

segment == <<kind, used, abandoned, thread_id, mem_is_fixed, page>>
memory  == <<mapped, backed, known>>
tld     == <<free_queue, cache, pages_reset, count, peak_count, status>>
vars    == <<option, segment, memory, abandoned_list, tld, pc, me, cur>>

\* a page: segment_in_use, is_committed, is_reset, and mi_page_heap
Page == [in_use : BOOLEAN, committed : BOOLEAN, reset : BOOLEAN, heap : Thread \cup {NULL}]
FreePage == [in_use |-> FALSE, committed |-> FALSE, reset |-> FALSE, heap |-> NULL]
NoPages  == [u \in Unit |-> FreePage]

\* An entry of pages_reset.  late is the signed difference of the clock and
\* the expiration (which the code keeps in page->used); it stays at 0 when it
\* has expired, so the clock does not go around while a page is queued.
Entry == [s : Segment, p : Unit, late : Int]

\* what the call works on: a segment or NULL, a page, the kind that is
\* allocated, whether a free is forced, and where to go on after a segment is freed
Call == [s : Segment \cup {NULL}, p : Unit, k : PageKind, force : BOOLEAN,
         ret : {"idle", "try", "fresh", "reclaim_all"}]
NoCall == [s |-> NULL, p |-> 0, k |-> "small", force |-> FALSE, ret |-> "idle"]

Label == {"idle", "try", "fresh", "claim", "clear", "free", "abandon", "reclaim_all",
          "delay_alloc", "delay_free", "delay_abandon"}

TypeOK ==
  /\ option \in Option
  /\ kind \in [Segment -> PageKind]
  /\ used \in [Segment -> Nat] /\ abandoned \in [Segment -> Nat]
  /\ thread_id \in [Segment -> Thread \cup {NULL}]
  /\ mem_is_fixed \in [Segment -> BOOLEAN]
  /\ page \in [Segment -> [Unit -> Page]]
  /\ mapped \in [Segment -> BOOLEAN]
  /\ backed \in [Segment -> SUBSET Unit]
  /\ known \in [Segment -> 1 .. Units]
  /\ abandoned_list \subseteq Segment
  /\ free_queue \in [Thread -> [Queued -> Seq(Segment)]]
  /\ cache \in [Thread -> Seq(Segment)]
  /\ pages_reset \in [Thread -> Seq(Entry)]
  /\ count \in [Thread -> Nat] /\ peak_count \in [Thread -> Nat]
  /\ status \in [Thread -> {"alive", "exiting", "gone"}]
  /\ pc \in Label /\ me \in Thread \cup {NULL} /\ cur \in Call
  /\ pc # "idle" => me \in Thread
  /\ pc \in {"claim", "clear", "free", "abandon", "delay_free", "delay_abandon"} => cur.s \in Segment

Init ==
  /\ option \in Options
  /\ kind = [s \in Segment |-> "small"]
  /\ used = [s \in Segment |-> 0] /\ abandoned = [s \in Segment |-> 0]
  /\ thread_id = [s \in Segment |-> NULL]
  /\ mem_is_fixed = [s \in Segment |-> FALSE]
  /\ page = [s \in Segment |-> NoPages]
  /\ mapped = [s \in Segment |-> FALSE]
  /\ backed = [s \in Segment |-> {}]
  /\ known = [s \in Segment |-> Units]
  /\ abandoned_list = {}
  /\ free_queue = [t \in Thread |-> [k \in Queued |-> <<>>]]
  /\ cache = [t \in Thread |-> <<>>]
  /\ pages_reset = [t \in Thread |-> <<>>]
  /\ count = [t \in Thread |-> 0] /\ peak_count = [t \in Thread |-> 0]
  /\ status = [t \in Thread |-> "alive"]
  /\ pc = "idle" /\ me = NULL /\ cur = NoCall

-----------------------------------------------------------------------------
Pages(s)      == 0 .. Capacity[kind[s]] - 1
InUse(s)      == {p \in Pages(s) : page[s][p].in_use}
UnitsIn(c, p) == {u \in Unit : (u * c) \div Units = p}     \* of page p of c pages
UnitsOf(s, p) == UnitsIn(Capacity[kind[s]], p)
AllUnits(s, P) == UNION {UnitsOf(s, p) : p \in P}

\* q without the elements that are in S: its n-th element is the n-th one that stays
Rank(K, i) == Cardinality({j \in K : j <= i})
Without(q, S) ==
  LET K == {i \in DOMAIN q : q[i] \notin S}
  IN  [n \in 1 .. Cardinality(K) |-> q[CHOOSE i \in K : Rank(K, i) = n]]

Finish == pc' = "idle" /\ me' = NULL /\ cur' = NoCall

\* Mutant: the count is not taken back
TrackUp(t, n) ==
  /\ count' = [count EXCEPT ![t] = IF n > 0 THEN @ + n ELSE @]
  /\ peak_count' = [peak_count EXCEPT ![t] = IF count[t] + n > @ THEN count[t] + n ELSE @]

\* mi_segments_track_size
Track(t, n) ==
  /\ count' = [count EXCEPT ![t] = @ + n]
  /\ peak_count' = [peak_count EXCEPT ![t] = IF count[t] + n > @ THEN count[t] + n ELSE @]

\* mi_segment_remove_from_free_queue and mi_segment_insert_in_free_queue
Dequeue(t, s) ==
  free_queue' = [free_queue EXCEPT ![t] = [k \in Queued |->
    IF k = kind[s] THEN Without(@[k], {s}) ELSE @[k]]]
Enqueue(t, s) == free_queue' = [free_queue EXCEPT ![t][kind[s]] = Append(@, s)]

-----------------------------------------------------------------------------
(* Resetting the memory of free pages *)

\* may the memory of the page be reset? (mi_page_reset, mi_pages_reset_add)
Resettable(s, p) ==
  /\ option.page_reset /\ ~mem_is_fixed[s]
  /\ ~page[s][p].in_use /\ page[s][p].committed /\ ~page[s][p].reset

\* _mi_mem_reset of the memory of pages P
ResetMemory(s, P) == IF option.reset_decommits THEN backed[s] \ AllUnits(s, P) ELSE backed[s]

EntriesOf(t, S) == {e \in {pages_reset[t][i] : i \in DOMAIN pages_reset[t]} : e.s \in S}
EntriesAt(t, s, p) == {e \in EntriesOf(t, {s}) : e.p = p}

\* mi_reset_delayed resets from the oldest entry up to the first that has not expired
Waiting(t) ==
  LET n == {i \in DOMAIN pages_reset[t] : pages_reset[t][i].late < 0}
  IN  IF n = {} THEN 0 ELSE CHOOSE i \in n : \A j \in n : j <= i
Expired(t, s) ==
  {pages_reset[t][i].p : i \in {j \in DOMAIN pages_reset[t] : j > Waiting(t) /\ pages_reset[t][j].s = s}}

After == [delay_alloc |-> "idle", delay_free |-> "clear", delay_abandon |-> "abandon"]

ResetDelayed ==
  /\ pc \in DOMAIN After
  /\ IF option.page_reset
       THEN /\ LET R == [s \in Segment |-> {p \in Expired(me, s) : Resettable(s, p)}]
               IN  /\ page' = [s \in Segment |-> [p \in Unit |->
                                 IF p \in R[s] THEN [page[s][p] EXCEPT !.reset = TRUE] ELSE page[s][p]]]
                   /\ backed' = [s \in Segment |-> ResetMemory(s, R[s])]
            /\ pages_reset' = [pages_reset EXCEPT ![me] = SubSeq(@, 1, Waiting(me))]
       ELSE UNCHANGED <<page, backed, pages_reset>>
  /\ IF pc = "delay_alloc" THEN Finish ELSE pc' = After[pc] /\ UNCHANGED <<me, cur>>
  /\ UNCHANGED <<option, kind, used, abandoned, thread_id, mem_is_fixed, mapped,
                 known, abandoned_list, free_queue, cache, count, peak_count, status>>

\* the clock
Tick ==
  /\ pc = "idle"
  /\ \E t \in Thread : \E i \in DOMAIN pages_reset[t] : pages_reset[t][i].late < 0
  /\ pages_reset' = [t \in Thread |-> [i \in DOMAIN pages_reset[t] |->
       [pages_reset[t][i] EXCEPT !.late = IF @ < 0 THEN @ + 1 ELSE @]]]
  /\ UNCHANGED <<option, segment, memory, abandoned_list, free_queue, cache,
                 count, peak_count, status, pc, me, cur>>

\* the pages of P that mi_pages_reset_add takes, and their entries in the queue,
\* of the last page first
ToReset(s, P, pg) ==
  {p \in P : option.page_reset /\ ~mem_is_fixed[s] /\ pg[p].committed /\ ~pg[p].reset}
EntriesFor(s, P) ==
  [i \in 1 .. Cardinality(P) |->
     [s |-> s, late |-> 0 - option.reset_delay,
      p |-> CHOOSE p \in P : Cardinality({q \in P : q > p}) = i - 1]]

\* mi_pages_reset_add of the pages P, which are not in use any more, lowest first
ResetAdd(t, s, P, pg) ==
  LET ok == ToReset(s, P, pg)
  IN  IF option.reset_delay = 0
        THEN /\ page' = [page EXCEPT ![s] = [p \in Unit |->
                           IF p \in ok THEN [pg[p] EXCEPT !.reset = TRUE] ELSE pg[p]]]
             /\ backed' = [backed EXCEPT ![s] = ResetMemory(s, ok)]
             /\ UNCHANGED pages_reset
        ELSE /\ page' = [page EXCEPT ![s] = pg]
             /\ pages_reset' = [pages_reset EXCEPT ![t] = EntriesFor(s, ok) \o @]
             /\ UNCHANGED backed

\* Mutant: the first page is not looked at
RemovedFromFirst(s) == {p \in Pages(s) : p > 0}

\* mi_pages_reset_remove_all_in_segment: the queue without the pages of s, and
\* the pages and the memory when they are reset in the same go
Removed(s) == IF mem_is_fixed[s] THEN {} ELSE Pages(s)
QueueWithout(t, s) == Without(pages_reset[t], {e \in EntriesOf(t, {s}) : e.p \in Removed(s)})
PagesReset(s, force) == [page EXCEPT ![s] = [p \in Unit |->
  IF force /\ p \in Removed(s) /\ Resettable(s, p) THEN [@[p] EXCEPT !.reset = TRUE] ELSE @[p]]]
MemoryReset(s, force) == [backed EXCEPT ![s] =
  IF force THEN ResetMemory(s, {p \in Removed(s) : Resettable(s, p)}) ELSE @]

-----------------------------------------------------------------------------
(* _mi_segment_page_alloc *)

\* eager of mi_segment_init
Eager(t, k) ==
  /\ ~(k \in Queued /\ count[t] < option.eager_commit_delay)
  /\ option.eager_commit

\* a segment with a free page is there, or mi_segment_reclaim_or_alloc looks for one
AllocStart(t, k) ==
  /\ pc = "idle" /\ status[t] = "alive"
  /\ me' = t
  /\ \/ /\ k \in Queued /\ free_queue[t][k] # <<>>
        /\ pc' = "claim" /\ cur' = [NoCall EXCEPT !.k = k, !.s = Head(free_queue[t][k])]
     \/ /\ k = "huge"
        /\ pc' = "fresh" /\ cur' = [NoCall EXCEPT !.k = k]
     \/ /\ k # "huge" /\ cache[t] = <<>>
        /\ k \in Queued => free_queue[t][k] = <<>>
        /\ pc' = "try" /\ cur' = [NoCall EXCEPT !.k = k]
  /\ UNCHANGED <<option, segment, memory, abandoned_list, tld>>

\* pages_still_good
StillGood(s, k) == k \in Queued /\ kind[s] = k

\* mi_segment_cache_pop takes the segment that was pushed last
CachePop(t) == cache' = [cache EXCEPT ![t] = Tail(@)]
CachePush(t, s) == cache' = [cache EXCEPT ![t] = <<s>> \o @]

\* the info of the pages that mi_segment_init writes
NewPages(k, commit) == [p \in Unit |-> [FreePage EXCEPT !.committed = commit /\ p < Capacity[k]]]

\* mi_segment_init of a segment from the cache
CacheReuse(t, k) ==
  /\ pc = "idle" /\ status[t] = "alive" /\ k # "huge"
  /\ cache[t] # <<>>
  /\ k \in Queued => free_queue[t][k] = <<>>
  /\ LET s == Head(cache[t])
         commit == Eager(t, k)
         R == {p \in Pages(s) : page[s][p].reset /\ (commit \/ ~option.reset_decommits)}
     IN
       /\ Capacity[k] <= known[s]
       /\ IF StillGood(s, k)
            THEN UNCHANGED <<page, backed>>
            ELSE /\ page' = [page EXCEPT ![s] = NewPages(k, commit)]
                 /\ backed' = [backed EXCEPT ![s] =
                                 IF option.reset_decommits THEN @ \cup AllUnits(s, R) ELSE @]
       /\ kind' = [kind EXCEPT ![s] = k]
       /\ thread_id' = [thread_id EXCEPT ![s] = t]
       /\ known' = [known EXCEPT ![s] = Capacity[k]]
       /\ IF k \in Queued THEN free_queue' = [free_queue EXCEPT ![t][k] = Append(@, s)]
                          ELSE UNCHANGED free_queue
       /\ cur' = [NoCall EXCEPT !.k = k, !.s = s]
  /\ CachePop(t)
  /\ pc' = "claim" /\ me' = t
  /\ UNCHANGED <<option, used, abandoned, mem_is_fixed, mapped,
                 abandoned_list, pages_reset, count, peak_count, status>>

\* mi_segment_alloc: a segment from the regions.  They may return memory that
\* is committed without being asked; or there is none, or its info cannot be
\* committed.
Fresh ==
  /\ pc = "fresh"
  /\ \/ /\ pc' = "delay_alloc"
        /\ UNCHANGED <<segment, memory, tld, cur>>
     \/ \E s \in {x \in Segment : ~mapped[x]}, anew \in BOOLEAN, large \in BOOLEAN :
          LET k == cur.k
              eager_delayed == k \in Queued /\ count[me] < option.eager_commit_delay
              commit == Eager(me, k) \/ (~anew /\ backed[s] = Unit) \/ large
          IN
            /\ large => ~eager_delayed
            /\ anew \/ Capacity[k] <= known[s]
            /\ mapped' = [mapped EXCEPT ![s] = TRUE]
            /\ backed' = [backed EXCEPT ![s] = IF commit THEN Unit ELSE IF anew THEN {} ELSE @]
            /\ known' = [known EXCEPT ![s] = Capacity[k]]
            /\ mem_is_fixed' = [mem_is_fixed EXCEPT ![s] = large]
            /\ kind' = [kind EXCEPT ![s] = k]
            /\ used' = [used EXCEPT ![s] = 0] /\ abandoned' = [abandoned EXCEPT ![s] = 0]
            /\ page' = [page EXCEPT ![s] = NewPages(k, commit)]
            /\ IF k = "huge"      \* huge pages are immediately abandoned
                 THEN /\ thread_id' = [thread_id EXCEPT ![s] = NULL]
                      /\ peak_count' = [peak_count EXCEPT ![me] = IF count[me] + 1 > @ THEN count[me] + 1 ELSE @]
                      /\ UNCHANGED count
                 ELSE /\ thread_id' = [thread_id EXCEPT ![s] = me]
                      /\ Track(me, 1)
            /\ IF k \in Queued THEN free_queue' = [free_queue EXCEPT ![me][k] = Append(@, s)]
                               ELSE UNCHANGED free_queue
            \* the page is taken from the first segment of the queue
            /\ cur' = [cur EXCEPT !.s = IF k \in Queued /\ free_queue[me][k] # <<>>
                                         THEN Head(free_queue[me][k]) ELSE s]
            /\ pc' = "claim"
            /\ UNCHANGED <<cache, pages_reset, status>>
  /\ UNCHANGED <<option, abandoned_list, me>>

\* Mutant: a page that was reset is not committed again
NeedsCommitNew(s, p) == ~page[s][p].committed

\* is there memory to commit before page p can be used?
NeedsCommit(s, p) == ~page[s][p].committed \/ (page[s][p].reset /\ option.reset_decommits)

\* mi_segment_find_free: may it pass by the free pages P, because the OS refuses
\* to commit them?
Refused(s, P) == option.commit_fails /\ \A q \in P : ~page[s][q].committed

\* mi_segment_page_claim of the first free page, or the first that can be
\* committed.  mi_page_unreset does not see that the OS refuses.
Claim ==
  /\ pc = "claim"
  /\ LET s == cur.s
         open == Pages(s) \ InUse(s)
     IN
     \/ \E p \in open :
          LET full == used[s] + 1 = Capacity[kind[s]] IN
          /\ (\E q \in open : q < p) => Refused(s, {q \in open : q < p})
          /\ page' = [page EXCEPT ![s][p] = [in_use |-> TRUE, committed |-> TRUE, reset |-> FALSE,
                                             heap |-> IF kind[s] = "huge" THEN NULL ELSE me]]
          /\ \/ NeedsCommit(s, p) /\ backed' = [backed EXCEPT ![s] = @ \cup UnitsOf(s, p)]
             \/ /\ NeedsCommit(s, p) => page[s][p].committed /\ option.commit_fails
                /\ UNCHANGED backed
          /\ used' = [used EXCEPT ![s] = @ + 1]
          /\ pages_reset' = [pages_reset EXCEPT ![me] = Without(@, EntriesAt(me, s, p))]
          /\ IF full /\ kind[s] \in Queued THEN Dequeue(me, s) ELSE UNCHANGED free_queue
     \/ /\ Refused(s, open)
        /\ UNCHANGED <<page, backed, used, pages_reset, free_queue>>
  /\ pc' = "delay_alloc"
  /\ UNCHANGED <<option, kind, abandoned, thread_id, mem_is_fixed, mapped, known,
                 abandoned_list, cache, count, peak_count, status, me, cur>>

-----------------------------------------------------------------------------
(* Abandoned segments *)

\* mi_segment_reclaim of s, in which the pages F have become free: they are
\* cleared, the others go to the heap of t.  An empty segment is freed and the
\* caller goes on at ret, otherwise done says how it goes on.
Reclaim(t, s, F, ret, done) ==
  /\ thread_id' = [thread_id EXCEPT ![s] = t]
  /\ Track(t, 1)
  /\ abandoned_list' = abandoned_list \ {s}
  /\ abandoned' = [abandoned EXCEPT ![s] = @ - Cardinality(InUse(s))]
  /\ used' = [used EXCEPT ![s] = @ - Cardinality(F)]
  /\ ResetAdd(t, s, F, [p \in Unit |->
       IF p \in F THEN [page[s][p] EXCEPT !.in_use = FALSE, !.heap = NULL]
       ELSE IF p \in InUse(s) THEN [page[s][p] EXCEPT !.heap = t] ELSE page[s][p]])
  /\ IF F = InUse(s)
       THEN pc' = "free" /\ cur' = [cur EXCEPT !.s = s, !.force = FALSE, !.ret = ret] /\ UNCHANGED free_queue
       ELSE /\ done
            /\ IF kind[s] \in Queued /\ used'[s] < Capacity[kind[s]] THEN Enqueue(t, s)
                                                                     ELSE UNCHANGED free_queue
  /\ UNCHANGED <<option, kind, mem_is_fixed, mapped, known, cache, status>>

\* mi_segment_try_reclaim.  mi_segment_check_free finds the pages E free, and
\* by the time of the reclaim the pages F are.  A segment of another kind, or
\* without a page for us, stays abandoned or is reclaimed at its third visit.
TryReclaim ==
  /\ pc = "try"
  /\ \E s \in abandoned_list : \E F \in SUBSET InUse(s) :
     \E E \in (IF option.late_frees THEN SUBSET F ELSE {F}) :
       LET go_on == pc' = "try" /\ UNCHANGED cur IN
       \/ /\ E = InUse(s)
          /\ Reclaim(me, s, F, "try", FALSE)
       \/ /\ E # InUse(s) /\ kind[s] = cur.k
          /\ \E reclaimed \in BOOLEAN :    \* a page of the right block size with free blocks
               /\ reclaimed => F # InUse(s)
               /\ ~reclaimed => F # {} \/ InUse(s) # Pages(s)
               /\ Reclaim(me, s, F, "fresh",
                    /\ pc' = IF reclaimed THEN "delay_alloc" ELSE "claim"
                    /\ cur' = [cur EXCEPT !.s =
                         IF reclaimed THEN NULL
                         ELSE Head(IF free_queue[me][cur.k] = <<>> THEN <<s>> ELSE free_queue[me][cur.k])])
       \/ /\ E # InUse(s)
          /\ kind[s] # cur.k \/ (E = {} /\ InUse(s) = Pages(s))
          /\ Reclaim(me, s, F, "try", go_on)
  /\ UNCHANGED me

\* no more tries or segments; segments that were reclaimed meanwhile do not
\* count, but mi_segment_page_alloc_in then takes the first of the queue
TryEnd ==
  /\ pc = "try"
  /\ pc' = "fresh"
  /\ UNCHANGED <<option, segment, memory, abandoned_list, tld, me, cur>>

\* _mi_abandoned_reclaim_all, in a forced collection of the main thread
ReclaimAllStart ==
  /\ pc = "idle" /\ status[Main] = "alive"
  /\ pc' = "reclaim_all" /\ me' = Main /\ cur' = NoCall
  /\ UNCHANGED <<option, segment, memory, abandoned_list, tld>>

ReclaimAll ==
  /\ pc = "reclaim_all"
  /\ \/ /\ \E s \in abandoned_list : \E F \in SUBSET InUse(s) :
             Reclaim(me, s, F, "reclaim_all", UNCHANGED <<pc, cur>>)
        /\ UNCHANGED me
     \/ /\ abandoned_list = {}
        /\ Finish
        /\ UNCHANGED <<option, segment, memory, abandoned_list, tld>>

-----------------------------------------------------------------------------
(* Freeing pages and segments *)

\* mi_segment_os_free of the segments S.  What their fields were is of no
\* consequence any more, and pg and bk are the page info and the memory.
OsFree(t, S, pg, bk) ==
  /\ thread_id' = [s \in Segment |-> IF s \in S THEN NULL ELSE thread_id[s]]
  /\ mapped' = [s \in Segment |-> mapped[s] /\ s \notin S]
  /\ count' = [count EXCEPT ![t] = @ - Cardinality(S)]
  /\ kind' = [s \in Segment |-> IF s \in S THEN "small" ELSE kind[s]]
  /\ mem_is_fixed' = [s \in Segment |-> mem_is_fixed[s] /\ s \notin S]
  /\ page' = [s \in Segment |-> IF s \in S THEN NoPages ELSE pg[s]]
  /\ backed' = bk

\* _mi_segment_page_free of a page of the thread, forced in a forced
\* collection and when the thread ends
PageFree(t) ==
  /\ pc = "idle" /\ status[t] # "gone"
  /\ \E s \in Segment, p \in Unit, force \in BOOLEAN :
       /\ thread_id[s] = t /\ p \in InUse(s) /\ page[s][p].heap = t
       /\ status[t] = "exiting" => force
       /\ cur' = [NoCall EXCEPT !.s = s, !.p = p, !.force = force]
  /\ pc' = "delay_free" /\ me' = t
  /\ UNCHANGED <<option, segment, memory, abandoned_list, tld>>

\* _mi_segment_huge_page_free: any thread that frees the block takes the segment
HugeFree(t) ==
  /\ pc = "idle" /\ status[t] # "gone"
  /\ \E s \in Segment :
       /\ mapped[s] /\ kind[s] = "huge" /\ thread_id[s] = NULL /\ InUse(s) # {}
       /\ thread_id' = [thread_id EXCEPT ![s] = t]
       /\ cur' = [NoCall EXCEPT !.s = s, !.force = TRUE]
  /\ Track(t, 1)
  /\ pc' = "delay_free" /\ me' = t
  /\ UNCHANGED <<option, kind, used, abandoned, mem_is_fixed, page, memory, abandoned_list,
                 free_queue, cache, pages_reset, status>>

\* Mutant: a segment that has only abandoned pages left is kept
AfterClearKeeps(s, n) == IF n = 0 THEN "free" ELSE "idle"

\* what follows on mi_segment_page_clear when n pages are still used
AfterClear(s, n) ==
  IF n = 0 THEN "free" ELSE IF n = abandoned[s] THEN "delay_abandon" ELSE "idle"

\* Mutant: off by one
WasFullLate(s, n) == n = Capacity[kind[s]]

WasFull(s, n) == n + 1 = Capacity[kind[s]]

\* mi_segment_page_clear and the rest of _mi_segment_page_free
PageClear ==
  /\ pc = "clear"
  /\ LET s == cur.s
         n == used[s] - 1 IN
       /\ used' = [used EXCEPT ![s] = n]
       /\ ResetAdd(me, s, {cur.p},
            [page[s] EXCEPT ![cur.p] = [@ EXCEPT !.in_use = FALSE, !.heap = NULL]])
       /\ IF AfterClear(s, n) = "idle"
            THEN /\ IF WasFull(s, n) THEN Enqueue(me, s) ELSE UNCHANGED free_queue
                 /\ Finish
            ELSE pc' = AfterClear(s, n) /\ UNCHANGED <<me, cur, free_queue>>
  /\ UNCHANGED <<option, kind, abandoned, thread_id, mem_is_fixed, mapped, known, abandoned_list,
                 cache, count, peak_count, status>>

\* mi_segment_cache_full: how many segments the cache gives up, when it is full
CacheRoom(t) == /\ Len(cache[t]) < option.segment_cache
                /\ Len(cache[t]) < 1 + peak_count[t] \div CacheFraction
CachePurge(t) == IF Len(cache[t]) > option.segment_cache
                   THEN Len(cache[t]) - option.segment_cache ELSE 0

\* mi_segment_free, and on to where its caller goes
SegmentFree ==
  /\ pc = "free"
  /\ pages_reset' = [pages_reset EXCEPT ![me] = QueueWithout(me, cur.s)]
  /\ Dequeue(me, cur.s)
  /\ LET force_reset == cur.force /\ option.abandoned_page_reset
         pg == PagesReset(cur.s, force_reset)
         bk == MemoryReset(cur.s, force_reset)
         cacheable == ~cur.force /\ kind[cur.s] # "huge"
     IN
     \/ /\ cacheable /\ CacheRoom(me)
        /\ CachePush(me, cur.s)
        /\ page' = pg /\ backed' = bk
        /\ UNCHANGED <<thread_id, mapped, count, kind, mem_is_fixed>>
     \/ /\ cacheable /\ ~CacheRoom(me)
        /\ cache' = [cache EXCEPT ![me] = SubSeq(@, CachePurge(me) + 1, Len(@))]
        /\ OsFree(me, {cur.s} \cup {cache[me][i] : i \in 1 .. CachePurge(me)}, pg, bk)
     \/ /\ ~cacheable
        /\ OsFree(me, {cur.s}, pg, bk)
        /\ UNCHANGED cache
  /\ IF cur.ret = "idle" THEN Finish
     ELSE pc' = cur.ret /\ cur' = [cur EXCEPT !.s = NULL] /\ UNCHANGED me
  /\ UNCHANGED <<option, used, abandoned, known, abandoned_list, peak_count, status>>

\* mi_segment_abandon, after mi_reset_delayed
AbandonSegment ==
  /\ pc = "abandon"
  /\ pages_reset' = [pages_reset EXCEPT ![me] = QueueWithout(me, cur.s)]
  /\ page' = PagesReset(cur.s, option.abandoned_page_reset)
  /\ backed' = MemoryReset(cur.s, option.abandoned_page_reset)
  /\ Dequeue(me, cur.s)
  /\ Track(me, -1)
  /\ thread_id' = [thread_id EXCEPT ![cur.s] = NULL]
  /\ abandoned_list' = abandoned_list \cup {cur.s}
  /\ Finish
  /\ UNCHANGED <<option, kind, used, abandoned, mem_is_fixed, mapped, known, cache, status>>

\* _mi_segment_page_abandon of a page of a thread that ends
PageAbandon(t) ==
  /\ pc = "idle" /\ status[t] = "exiting"
  /\ \E s \in Segment, p \in Unit :
       /\ thread_id[s] = t /\ p \in InUse(s) /\ page[s][p].heap = t
       /\ page' = [page EXCEPT ![s][p].heap = NULL]
       /\ abandoned' = [abandoned EXCEPT ![s] = @ + 1]
       /\ IF used[s] = abandoned[s] + 1
            THEN pc' = "delay_abandon" /\ me' = t /\ cur' = [NoCall EXCEPT !.s = s]
            ELSE UNCHANGED <<pc, me, cur>>
  /\ UNCHANGED <<option, kind, used, thread_id, mem_is_fixed, memory, abandoned_list, tld>>

\* _mi_segment_thread_collect, in a forced collection and when a thread has
\* given up its pages
ThreadCollect(t) ==
  /\ pc = "idle"
  /\ \/ status[t] = "alive" /\ cache[t] # <<>> /\ UNCHANGED status
     \/ /\ status[t] = "exiting"
        /\ \A s \in Segment, p \in Unit : page[s][p].heap # t
        /\ status' = [status EXCEPT ![t] = "gone"]
  /\ OsFree(t, {cache[t][i] : i \in DOMAIN cache[t]}, page, backed)
  /\ cache' = [cache EXCEPT ![t] = <<>>]
  /\ UNCHANGED <<option, used, abandoned, known, abandoned_list, free_queue, pages_reset,
                 peak_count, pc, me, cur>>

\* a thread ends (the main thread keeps its heap), and another one starts
ThreadExit(t) ==
  /\ pc = "idle" /\ status[t] = "alive" /\ t # Main
  /\ status' = [status EXCEPT ![t] = "exiting"]
  /\ UNCHANGED <<option, segment, memory, abandoned_list, free_queue, cache, pages_reset,
                 count, peak_count, pc, me, cur>>
ThreadStart(t) ==
  /\ pc = "idle" /\ status[t] = "gone"
  /\ count[t] = 0      \* a thread that left segments behind keeps its id
  /\ status' = [status EXCEPT ![t] = "alive"]
  /\ free_queue' = [free_queue EXCEPT ![t] = [k \in Queued |-> <<>>]]
  /\ cache' = [cache EXCEPT ![t] = <<>>]
  /\ pages_reset' = [pages_reset EXCEPT ![t] = <<>>]
  /\ count' = [count EXCEPT ![t] = 0] /\ peak_count' = [peak_count EXCEPT ![t] = 0]
  /\ UNCHANGED <<option, segment, memory, abandoned_list, pc, me, cur>>

\* mi_option_set of segment_cache
SetCache ==
  /\ pc = "idle"
  /\ \E n \in option.cache_sizes \ {option.segment_cache} :
       option' = [option EXCEPT !.segment_cache = n]
  /\ UNCHANGED <<segment, memory, abandoned_list, tld, pc, me, cur>>

-----------------------------------------------------------------------------
Next ==
  \/ \E t \in Thread :
       \/ \E k \in Kinds : AllocStart(t, k) \/ CacheReuse(t, k)
       \/ PageFree(t) \/ HugeFree(t) \/ PageAbandon(t)
       \/ ThreadCollect(t) \/ ThreadExit(t) \/ ThreadStart(t)
  \/ Fresh \/ Claim \/ TryReclaim \/ TryEnd \/ ReclaimAllStart \/ ReclaimAll
  \/ PageClear \/ SegmentFree \/ AbandonSegment \/ ResetDelayed \/ Tick \/ SetCache

Spec == Init /\ [][Next]_vars

-----------------------------------------------------------------------------
(* Properties *)

Cached(s) == \E t \in Thread : \E i \in DOMAIN cache[t] : cache[t][i] = s

\* The counters agree with the pages and segments they count, at every step of
\* a call: segment->used and segment->abandoned (asserted in
\* mi_segment_is_valid, segment.c:148-169), and tld->count, by which eager
\* commits and the cache are limited (segment.c:446, init.c:262).
CountsExact ==
  /\ \A s \in Segment : mapped[s] /\ thread_id[s] # NULL /\ ~Cached(s) =>
       /\ used[s] = Cardinality(InUse(s))
       /\ kind[s] # "huge" => abandoned[s] = Cardinality({p \in InUse(s) : page[s][p].heap = NULL})
  /\ \A t \in Thread : count[t] = Cardinality({s \in Segment : thread_id[s] = t})

\* Between calls a queue of free pages has exactly the segments of its thread
\* and kind that have a free page, once each: mi_segment_page_alloc finds
\* every free page, and only takes free pages (segment.c:1272-1285).
FreeQueueExact ==
  pc = "idle" => \A t \in Thread, k \in Queued :
    LET q == free_queue[t][k] IN
    /\ \A i, j \in DOMAIN q : q[i] = q[j] => i = j
    /\ {q[i] : i \in DOMAIN q} =
         {s \in Segment : /\ thread_id[s] = t /\ kind[s] = k /\ ~Cached(s)
                          /\ InUse(s) # Pages(s)}

\* The delayed resets of a thread are of pages that it still owns, that are
\* free and whose memory is there, once each: whatever happens to a page or
\* its segment during the delay takes it from the queue first (segment.c:278-337).
ResetQueueOwn ==
  \A t \in Thread : \A i \in DOMAIN pages_reset[t] :
    LET e == pages_reset[t][i] IN
    /\ mapped[e.s] /\ thread_id[e.s] = t /\ ~Cached(e.s) /\ e.p \in Pages(e.s)
    /\ LET pg == page[e.s][e.p] IN pg.committed /\ ~pg.in_use /\ ~pg.reset
    /\ \A j \in DOMAIN pages_reset[t] :
         e.s = pages_reset[t][j].s /\ e.p = pages_reset[t][j].p => i = j

\* All the memory of a page in use is committed, whichever way the page came:
\* by a fresh or a cached segment, after a reset, through another thread
\* (the write "verify it is committed", segment.c:1287-1290).
PageUsable ==
  \A s \in Segment : mapped[s] =>
    \A p \in InUse(s) : UnitsOf(s, p) \subseteq backed[s] /\ ~page[s][p].reset

\* nothing goes wrong that the code does not recover from: with a refused
\* commit (segment.c:1262), or with a segment reclaimed at its third visit that
\* gets a free page meanwhile (the assertion segment.c:1279 fails), an empty
\* segment stays in the free queue
Undisturbed == ~option.commit_fails /\ ~option.late_frees

\* Between calls no segment is lost: one without a page in use is in a cache,
\* and one without a thread is huge or in the abandoned list, where each of
\* its pages is without a heap.  A thread that ended has no segment and no
\* delayed reset left: its tld is freed (the assertions at segment.c:540-547 and
\* init.c:262).
NothingLost ==
  /\ pc = "idle" => \A s \in Segment : mapped[s] =>
       /\ InUse(s) = {} /\ Undisturbed => Cached(s)
       /\ Cached(s) => InUse(s) = {}
       /\ (thread_id[s] = NULL /\ kind[s] # "huge") <=> s \in abandoned_list
       /\ s \in abandoned_list => \A p \in InUse(s) : page[s][p].heap = NULL
       /\ thread_id[s] # NULL => \A p \in InUse(s) :
            page[s][p].heap = thread_id[s] \/ status[thread_id[s]] = "exiting"
  /\ \A t \in Thread : status[t] = "gone" /\ Undisturbed =>
       /\ count[t] = 0 /\ cache[t] = <<>> /\ pages_reset[t] = <<>>
       /\ \A k \in Queued : free_queue[t][k] = <<>>

=============================================================================
