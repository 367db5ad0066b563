----------------------------- MODULE ThreadFree -----------------------------
(***************************************************************************)
(* Allocation and freeing of the blocks of one size class across threads:  *)
(* the page free lists (`free`, `local_free`, `xthread_free`), the heap's  *)
(* `thread_delayed_free` list, the four delayed-free flags, the full       *)
(* queue, retiring, collecting, abandoning and reclaiming (alloc.c,        *)
(* page.c, heap.c, and the parts of segment.c they call).                  *)
(*                                                                         *)
(* One step is one access to memory that other threads access too, with    *)
(* the thread-local work around it.  A compare-and-swap loop is the step   *)
(* of its successful iteration (module BlockList models the loops and the  *)
(* links and shows that this is what they implement).                      *)
(*                                                                         *)
(* Lists are sets of blocks and a page queue is the set of its pages: no   *)
(* property depends on their order.  Every thread has one heap, named by   *)
(* the thread, and every segment one page, so that `segment->thread_id`    *)
(* is the page's xheap.                                                    *)
(***************************************************************************)
EXTENDS Integers, FiniteSets

CONSTANTS
  Thread,       \* the threads of the program
  Main,         \* the main thread, whose heap is _mi_heap_main
  Page,         \* the pages the segments can hand out
  Block,        \* the blocks of all pages
  PageOf,       \* the page of each block, _mi_ptr_page
  MaxExtend,    \* most blocks one mi_page_extend_free adds
  MaxTries,     \* segments one mi_segment_try_reclaim looks at (8 in the code)
  MaxVisits,    \* visit at which a segment is always reclaimed (3 in the code)
  Reuse,        \* may a released page be handed out again?
  NULL

ASSUME ThreadAssumption == Main \in Thread /\ NULL \notin Thread
ASSUME PageAssumption   == NULL \notin Page
ASSUME BlockAssumption  ==
  /\ IsFiniteSet(Block)
  /\ NULL \notin Block
  /\ PageOf \in [Block -> Page]
ASSUME BoundAssumption ==
  /\ MaxExtend \in Nat \ {0}
  /\ MaxTries \in Nat
  /\ MaxVisits \in Nat
  /\ Reuse \in BOOLEAN

\* mi_delayed_t
USE_DELAYED_FREE   == "use"
DELAYED_FREEING    == "freeing"
NO_DELAYED_FREE    == "no"
NEVER_DELAYED_FREE == "never"

VARIABLES
  \* memory several threads access
  flag,          \* the delayed flag in the low bits of page->xthread_free
  thread_free,   \* the list in page->xthread_free
  xheap,         \* page->xheap
  delayed_free,  \* heap->thread_delayed_free
  \* fields of a page only its owner accesses
  free, local_free, used,
  capacity,      \* the blocks page->capacity counts
  retired,       \* page->retire_expire # 0
  place,         \* where the page is, see Place
  visits,        \* segment->abandoned_visits
  \* the program
  live,          \* blocks returned by malloc and not yet passed to free
  \* each thread
  pc,
  goal,          \* the operation being executed, see Goal
  blk,           \* block argument of the free being executed
  pg,            \* page argument
  hp,            \* the heap read from page->xheap
  todo,          \* pages a loop still has to visit
  batch,         \* delayed blocks taken over and not yet freed
  tries,         \* max_tries of mi_segment_try_reclaim
  round,         \* which call of mi_page_queue_find_free_ex: first_try of the
                 \* first mi_find_page is 1, its retry 2, the second's 3 and 4
  ret            \* where mi_segment_reclaim returns to

atomics == <<flag, thread_free, xheap, delayed_free>>
fields  == <<free, local_free, used, capacity, retired, place, visits>>
control == <<pc, goal, blk, pg, hp, todo, batch, tries, round, ret>>
vars    == <<atomics, fields, live, control>>

Flag  == {USE_DELAYED_FREE, DELAYED_FREEING, NO_DELAYED_FREE, NEVER_DELAYED_FREE}
\* fresh: zeroed OS memory; queue and full: in the heap's size queue or its
\* full queue; abandoned: in the abandoned list; popped: taken from that list
\* by a thread; released: given back to its segment
Place == {"fresh", "queue", "full", "abandoned", "popped", "released"}
Goal  == {"none", "malloc", "oom", "collect", "force", "abandon"}
Label == {"idle", "mt", "mt_heap", "mt_push", "mt_reset", "take", "dblock",
          "dcollect", "find", "to_full", "retired", "fresh", "check",
          "reclaim", "reclaim_use", "reclaim_collect", "reclaim_all",
          "never", "visit", "abandon", "done"}

PageType ==
  /\ flag \in [Page -> Flag]
  /\ thread_free \in [Page -> SUBSET Block]
  /\ xheap \in [Page -> Thread \cup {NULL}]
  /\ delayed_free \in [Thread -> SUBSET Block]
  /\ free \in [Page -> SUBSET Block]
  /\ local_free \in [Page -> SUBSET Block]
  /\ used \in [Page -> Int]
  /\ capacity \in [Page -> SUBSET Block]
  /\ retired \in [Page -> BOOLEAN]
  /\ place \in [Page -> Place]
  /\ visits \in [Page -> Nat]
  /\ live \in SUBSET Block

ThreadType ==
  /\ pc \in [Thread -> Label]
  /\ goal \in [Thread -> Goal]
  /\ blk \in [Thread -> Block \cup {NULL}]
  /\ pg \in [Thread -> Page \cup {NULL}]
  /\ hp \in [Thread -> Thread \cup {NULL}]
  /\ todo \in [Thread -> SUBSET Page]
  /\ batch \in [Thread -> SUBSET Block]
  /\ tries \in [Thread -> Nat]
  /\ round \in [Thread -> 0 .. 4]
  /\ ret \in [Thread -> {"none", "retry", "fresh", "reclaim_all"}]
  \* the arguments of the call being executed are there
  /\ \A t \in Thread :
       /\ pc[t] \in {"mt", "mt_heap", "mt_push", "mt_reset", "dcollect"} => blk[t] \in Block
       /\ pc[t] = "mt_push" => hp[t] \in Thread
       /\ pc[t] \in {"to_full", "check", "abandon", "reclaim", "reclaim_use",
                     "reclaim_collect"} => pg[t] \in Page
       /\ pc[t] \in {"reclaim", "reclaim_use", "reclaim_collect"} => ret[t] # "none"

TypeOK == PageType /\ ThreadType

Init ==
  /\ flag = [p \in Page |-> USE_DELAYED_FREE]
  /\ thread_free = [p \in Page |-> {}]
  /\ xheap = [p \in Page |-> NULL]
  /\ delayed_free = [t \in Thread |-> {}]
  /\ free = [p \in Page |-> {}]
  /\ local_free = [p \in Page |-> {}]
  /\ used = [p \in Page |-> 0]
  /\ capacity = [p \in Page |-> {}]
  /\ retired = [p \in Page |-> FALSE]
  /\ place = [p \in Page |-> "fresh"]
  /\ visits = [p \in Page |-> 0]
  /\ live = {}
  /\ pc = [t \in Thread |-> "idle"]
  /\ goal = [t \in Thread |-> "none"]
  /\ blk = [t \in Thread |-> NULL]
  /\ pg = [t \in Thread |-> NULL]
  /\ hp = [t \in Thread |-> NULL]
  /\ todo = [t \in Thread |-> {}]
  /\ batch = [t \in Thread |-> {}]
  /\ tries = [t \in Thread |-> 0]
  /\ round = [t \in Thread |-> 0]
  /\ ret = [t \in Thread |-> "none"]

-----------------------------------------------------------------------------
(* Pages and queues *)

\* the blocks page->reserved counts
Reserved(p) == {b \in Block : PageOf[b] = p}

\* the pages of the size queue, and of both queues, of t's heap
Queue(t)     == {p \in Page : xheap[p] = t /\ place[p] = "queue"}
HeapPages(t) == {p \in Page : xheap[p] = t /\ place[p] \in {"queue", "full"}}

Abandoned == {p \in Page : place[p] = "abandoned"}

\* mi_abandoned_pop may return NULL to t: nothing is abandoned, or another
\* thread in its own pop is moving the visited list (module AbandonedList)
PopFindsNone(t) ==
  \/ Abandoned = {}
  \/ \E u \in Thread \ {t} : pc[u] \in {"fresh", "reclaim_all"}

\* the flag _mi_page_use_delayed_free(page, delay, override_never) leaves; the
\* loop spins while a thread is DELAYED_FREEING (mutant: it does not wait)
CanSetDelayedNoWait(p) == TRUE
CanSetDelayed(p) == flag[p] # DELAYED_FREEING
SetDelayed(p, delay, override_never) ==
  flag' = [flag EXCEPT ![p] =
             IF @ = NEVER_DELAYED_FREE /\ ~override_never THEN @ ELSE delay]

\* What _mi_page_free_collect(page, force) leaves in the free lists: it takes
\* the whole thread_free list, keeping the flag, appends it to local_free, and
\* moves local_free to free if free is empty or force is set.  (Mutants: the
\* used count or the shared list is left as it was.)
Pending(p) == local_free[p] \cup thread_free[p]
CollectedFree(p, force) ==
  IF force \/ free[p] = {} THEN free[p] \cup Pending(p) ELSE free[p]
CollectedLocal(p, force) ==
  IF force \/ free[p] = {} THEN {} ELSE Pending(p)
CollectedUsedStale(p) == used[p]
CollectedUsed(p) == used[p] - Cardinality(thread_free[p])

EmptyThreadFreeKeeps(p) == UNCHANGED thread_free
EmptyThreadFree(p) == thread_free' = [thread_free EXCEPT ![p] = {}]

Collect(p, force) ==
  /\ EmptyThreadFree(p)
  /\ free' = [free EXCEPT ![p] = CollectedFree(p, force)]
  /\ local_free' = [local_free EXCEPT ![p] = CollectedLocal(p, force)]
  /\ used' = [used EXCEPT ![p] = CollectedUsed(p)]

\* _mi_page_free: out of the queue, no heap, and back to the segment, which
\* zeroes capacity and leaves the other fields as they are
PageFree(p) ==
  /\ xheap' = [xheap EXCEPT ![p] = NULL]
  /\ capacity' = [capacity EXCEPT ![p] = {}]
  /\ place' = [place EXCEPT ![p] = "released"]
  /\ UNCHANGED retired

\* The blocks mi_page_extend_free may add: none if there is a free list
Extensions(p) ==
  LET rest == Reserved(p) \ capacity[p]
      n    == Cardinality(rest)
      k    == IF n > MaxExtend THEN MaxExtend ELSE n
  IN  {e \in SUBSET rest : Cardinality(e) = k}

\* t returns from the operation it executes
Return(t, label) ==
  /\ pc' = [pc EXCEPT ![t] = label]
  /\ goal' = [goal EXCEPT ![t] = "none"]
  /\ blk' = [blk EXCEPT ![t] = NULL]
  /\ pg' = [pg EXCEPT ![t] = NULL]
  /\ hp' = [hp EXCEPT ![t] = NULL]
  /\ todo' = [todo EXCEPT ![t] = {}]
  /\ tries' = [tries EXCEPT ![t] = 0]
  /\ round' = [round EXCEPT ![t] = 0]
  /\ ret' = [ret EXCEPT ![t] = "none"]
  /\ UNCHANGED batch

\* t goes on at label, keeping its local variables
Goto(t, label) == pc' = [pc EXCEPT ![t] = label]

-----------------------------------------------------------------------------
(* mi_malloc *)

\* _mi_page_malloc of a block b in the free list f of page p, used u before
PopBlock(p, b, f, u) ==
  /\ b \in f
  /\ free' = [free EXCEPT ![p] = f \ {b}]
  /\ used' = [used EXCEPT ![p] = u + 1]
  /\ live' = live \cup {b}

\* mi_heap_malloc_small: the first page of the queue has a free block
MallocFast(t) ==
  /\ pc[t] = "idle"
  /\ \E p \in Queue(t) : \E b \in free[p] : PopBlock(p, b, free[p], used[p])
  /\ UNCHANGED <<atomics, local_free, capacity, retired, place, visits, control>>

\* _mi_malloc_generic, entered because the first page has no free block or
\* because the size is over MI_SMALL_SIZE_MAX
MallocGeneric(t) ==
  /\ pc[t] = "idle"
  /\ Goto(t, "take")
  /\ goal' = [goal EXCEPT ![t] = "malloc"]
  /\ round' = [round EXCEPT ![t] = 1]
  /\ UNCHANGED <<atomics, fields, live, blk, pg, hp, todo, batch, tries, ret>>

\* _mi_heap_delayed_free takes over the delayed list of t's heap ...
TakeDelayed(t) ==
  /\ pc[t] = "take"
  /\ batch' = [batch EXCEPT ![t] = delayed_free[t]]
  /\ delayed_free' = [delayed_free EXCEPT ![t] = {}]
  /\ Goto(t, "dblock")
  /\ UNCHANGED <<flag, thread_free, xheap, fields, live,
                 goal, blk, pg, hp, todo, tries, round, ret>>

\* Mutant: the no-delayed flag is not cleared
DelayedUseKeepsFlag(t) ==
  /\ pc[t] = "dblock"
  /\ \E b \in batch[t] :
       /\ CanSetDelayed(PageOf[b])
       /\ blk' = [blk EXCEPT ![t] = b]
       /\ batch' = [batch EXCEPT ![t] = @ \ {b}]
  /\ Goto(t, "dcollect")
  /\ UNCHANGED <<atomics, fields, live, goal, pg, hp, todo, tries, round, ret>>

\* ... and frees each block: _mi_free_delayed_block first sets the flag, ...
DelayedUse(t) ==
  /\ pc[t] = "dblock"
  /\ \E b \in batch[t] :
       /\ CanSetDelayed(PageOf[b])
       /\ SetDelayed(PageOf[b], USE_DELAYED_FREE, FALSE)
       /\ blk' = [blk EXCEPT ![t] = b]
       /\ batch' = [batch EXCEPT ![t] = @ \ {b}]
  /\ Goto(t, "dcollect")
  /\ UNCHANGED <<thread_free, xheap, delayed_free, fields, live,
                 goal, pg, hp, todo, tries, round, ret>>

\* _mi_free_block(page, true, b) when f, l and u are the page's lists and used
\* count: the block goes on local_free; an empty page is retired, or released
\* if it is full or not the only page of its queue; a full page leaves the
\* full queue
LocalFree(t, p, b, f, l, u) ==
  /\ free' = [free EXCEPT ![p] = f]
  /\ local_free' = [local_free EXCEPT ![p] = l \cup {b}]
  /\ used' = [used EXCEPT ![p] = u - 1]
  /\ \/ /\ u - 1 = 0
        /\ Queue(t) = {p}
        /\ retired' = [retired EXCEPT ![p] = TRUE]
        /\ UNCHANGED <<xheap, capacity, place>>
     \/ /\ u - 1 = 0
        /\ Queue(t) # {p}
        /\ PageFree(p)
     \/ /\ u - 1 # 0
        /\ place' = [place EXCEPT ![p] = IF @ = "full" THEN "queue" ELSE @]
        /\ UNCHANGED <<xheap, capacity, retired>>
  /\ UNCHANGED visits

\* ... then collects the page and frees the block locally
DelayedFree(t) ==
  /\ pc[t] = "dcollect"
  /\ LET p == PageOf[blk[t]] IN
       /\ EmptyThreadFree(p)
       /\ LocalFree(t, p, blk[t], CollectedFree(p, FALSE),
                    CollectedLocal(p, FALSE), CollectedUsed(p))
  /\ blk' = [blk EXCEPT ![t] = NULL]
  /\ Goto(t, "dblock")
  /\ UNCHANGED <<flag, delayed_free, live,
                 goal, pg, hp, todo, batch, tries, round, ret>>

\* all delayed blocks are freed: mi_malloc looks for a page, a collect goes on
\* with the retired pages
DelayedDone(t) ==
  /\ pc[t] = "dblock"
  /\ batch[t] = {}
  /\ IF goal[t] = "malloc"
       THEN Goto(t, "find") /\ todo' = [todo EXCEPT ![t] = Queue(t)]
       ELSE Goto(t, "retired") /\ UNCHANGED todo
  /\ UNCHANGED <<atomics, fields, live, goal, blk, pg, hp, batch, tries, round, ret>>

\* mi_page_queue_find_free_ex visits page p: it has a free block after a
\* collect, ...
FindAvailable(t) ==
  /\ pc[t] = "find"
  /\ \E p \in todo[t] : \E b \in CollectedFree(p, FALSE) :
       /\ EmptyThreadFree(p)
       /\ local_free' = [local_free EXCEPT ![p] = CollectedLocal(p, FALSE)]
       /\ PopBlock(p, b, CollectedFree(p, FALSE), CollectedUsed(p))
       /\ retired' = [retired EXCEPT ![p] = FALSE]
  /\ Return(t, "idle")
  /\ UNCHANGED <<flag, xheap, delayed_free, capacity, place, visits>>

\* ... or can be extended, ...
FindExtend(t) ==
  /\ pc[t] = "find"
  /\ \E p \in todo[t] :
       /\ CollectedFree(p, FALSE) = {}
       /\ capacity[p] # Reserved(p)
       /\ \E e \in Extensions(p), b \in Block :
            /\ PopBlock(p, b, e, used[p])
            /\ capacity' = [capacity EXCEPT ![p] = @ \cup e]
       /\ retired' = [retired EXCEPT ![p] = FALSE]
  /\ Return(t, "idle")
  /\ UNCHANGED <<atomics, local_free, place, visits>>

\* ... or is full: mi_page_to_full moves it to the full queue ...
FindFull(t) ==
  /\ pc[t] = "find"
  /\ \E p \in todo[t] :
       /\ CollectedFree(p, FALSE) = {}
       /\ capacity[p] = Reserved(p)
       /\ place' = [place EXCEPT ![p] = "full"]
       /\ pg' = [pg EXCEPT ![t] = p]
       /\ todo' = [todo EXCEPT ![t] = @ \ {p}]
  /\ Goto(t, "to_full")
  /\ UNCHANGED <<atomics, free, local_free, used, capacity, retired, visits, live,
                 goal, blk, hp, batch, tries, round, ret>>

\* ... and collects it once more
ToFull(t) ==
  /\ pc[t] = "to_full"
  /\ Collect(pg[t], FALSE)
  /\ pg' = [pg EXCEPT ![t] = NULL]
  /\ Goto(t, "find")
  /\ UNCHANGED <<flag, xheap, delayed_free, capacity, retired, place, visits, live,
                 goal, blk, hp, todo, batch, tries, round, ret>>

FindNone(t) ==
  /\ pc[t] = "find"
  /\ todo[t] = {}
  /\ Goto(t, "retired")
  /\ UNCHANGED <<atomics, fields, live, goal, blk, pg, hp, todo, batch, tries, round, ret>>

\* _mi_heap_collect_retired looks at the first page p of the queue: if it is
\* retired and still empty it is released when its count expires (or at once
\* with force), if it is used again it is no longer retired.  Then a malloc
\* needs a fresh page, and a collect visits all pages.
CollectRetired(t) ==
  /\ pc[t] = "retired"
  /\ \/ \E p \in Queue(t) :
          /\ retired[p]
          /\ IF used[p] = 0
               THEN PageFree(p)
               ELSE /\ retired' = [retired EXCEPT ![p] = FALSE]
                    /\ UNCHANGED <<xheap, capacity, place>>
     \/ UNCHANGED <<xheap, capacity, place, retired>>
  /\ IF goal[t] = "malloc"
       THEN /\ Goto(t, "fresh")
            /\ tries' = [tries EXCEPT ![t] = MaxTries]
            /\ UNCHANGED todo
       ELSE /\ Goto(t, "visit")
            /\ todo' = [todo EXCEPT ![t] = HeapPages(t)']
            /\ UNCHANGED tries
  /\ UNCHANGED <<flag, thread_free, delayed_free, free, local_free, used, visits, live,
                 goal, blk, pg, hp, batch, round, ret>>

-----------------------------------------------------------------------------
(* _mi_segment_page_alloc: reclaim an abandoned page or take a fresh one *)

\* mi_abandoned_pop
PopAbandoned(t) ==
  /\ pc[t] = "fresh"
  /\ tries[t] > 0
  /\ \E p \in Abandoned :
       /\ place' = [place EXCEPT ![p] = "popped"]
       /\ visits' = [visits EXCEPT ![p] = @ + 1]
       /\ pg' = [pg EXCEPT ![t] = p]
  /\ tries' = [tries EXCEPT ![t] = @ - 1]
  /\ Goto(t, "check")
  /\ UNCHANGED <<atomics, free, local_free, used, capacity, retired, live,
                 goal, blk, hp, todo, batch, round, ret>>

\* mi_segment_check_free and what mi_segment_try_reclaim does with its answer.
\* (A block freed between the collect and the test of mi_page_has_any_available
\* counts as freed before the collect: the page is collected again below.)
CheckFree(t) ==
  /\ pc[t] = "check"
  /\ LET p   == pg[t]
         u   == CollectedUsed(p)
         any == u < Cardinality(Reserved(p))
     IN  /\ Collect(p, FALSE)
         /\ \/ /\ u = 0 \/ (~any /\ visits[p] >= MaxVisits)
               /\ ret' = [ret EXCEPT ![t] = "fresh"]
               /\ Goto(t, "reclaim")
               /\ UNCHANGED <<place, pg>>
            \/ /\ u # 0 /\ any
               /\ ret' = [ret EXCEPT ![t] = "retry"]
               /\ Goto(t, "reclaim")
               /\ UNCHANGED <<place, pg>>
            \/ /\ u # 0 /\ ~any /\ visits[p] < MaxVisits
               /\ place' = [place EXCEPT ![p] = "abandoned"]
               /\ pg' = [pg EXCEPT ![t] = NULL]
               /\ Goto(t, "fresh")
               /\ UNCHANGED ret
  /\ UNCHANGED <<flag, xheap, delayed_free, capacity, retired, visits, live,
                 goal, blk, hp, todo, batch, tries, round>>

\* mi_segment_reclaim: the page gets the heap, ...
Reclaim(t) ==
  /\ pc[t] = "reclaim"
  /\ xheap' = [xheap EXCEPT ![pg[t]] = t]
  /\ visits' = [visits EXCEPT ![pg[t]] = 0]
  /\ Goto(t, "reclaim_use")
  /\ UNCHANGED <<flag, thread_free, delayed_free, free, local_free, used, capacity,
                 retired, place, live, goal, blk, pg, hp, todo, batch, tries, round, ret>>

\* ... delayed frees are allowed again, ...
ReclaimUse(t) ==
  /\ pc[t] = "reclaim_use"
  /\ CanSetDelayed(pg[t])
  /\ SetDelayed(pg[t], USE_DELAYED_FREE, TRUE)
  /\ Goto(t, "reclaim_collect")
  /\ UNCHANGED <<thread_free, xheap, delayed_free, fields, live,
                 goal, blk, pg, hp, todo, batch, tries, round, ret>>

\* Mutant: every retry is a first try again
NoPageAlwaysFirst(t) ==
  /\ todo' = [todo EXCEPT ![t] = Queue(t)']
  /\ Goto(t, "find")
  /\ pg' = [pg EXCEPT ![t] = NULL]
  /\ ret' = [ret EXCEPT ![t] = "none"]
  /\ UNCHANGED <<goal, blk, hp, batch, tries, round>>

\* Mutant: the retry is not limited to the first try
NoPageForever(t) ==
  /\ round' = [round EXCEPT ![t] = @ + 1]
  /\ todo' = [todo EXCEPT ![t] = Queue(t)']
  /\ Goto(t, "find")
  /\ pg' = [pg EXCEPT ![t] = NULL]
  /\ ret' = [ret EXCEPT ![t] = "none"]
  /\ UNCHANGED <<goal, blk, hp, batch, tries>>

\* round ends without a page: mi_page_queue_find_free_ex is tried once more,
\* then mi_malloc forces a collect and does both again, then it returns NULL
NoPage(t) ==
  \/ /\ round[t] \in {1, 3}
     /\ round' = [round EXCEPT ![t] = @ + 1]
     /\ todo' = [todo EXCEPT ![t] = Queue(t)']
     /\ Goto(t, "find")
     /\ pg' = [pg EXCEPT ![t] = NULL]
     /\ ret' = [ret EXCEPT ![t] = "none"]
     /\ UNCHANGED <<goal, blk, hp, batch, tries>>
  \/ /\ round[t] = 2
     /\ round' = [round EXCEPT ![t] = 3]
     /\ goal' = [goal EXCEPT ![t] = "oom"]
     /\ Goto(t, IF t = Main THEN "reclaim_all" ELSE "take")
     /\ pg' = [pg EXCEPT ![t] = NULL]
     /\ ret' = [ret EXCEPT ![t] = "none"]
     /\ UNCHANGED <<blk, hp, todo, batch, tries>>
  \/ /\ round[t] = 4
     /\ Return(t, "idle")

\* ... and the page is collected: if it is empty it is cleared and its segment
\* freed, else it joins the queue; then the caller goes on
ReclaimCollect(t) ==
  /\ pc[t] = "reclaim_collect"
  /\ UNCHANGED <<flag, xheap, delayed_free, retired, visits, live>>
  /\ LET p == pg[t] IN
       /\ Collect(p, FALSE)
       /\ \/ /\ CollectedUsed(p) = 0
             /\ capacity' = [capacity EXCEPT ![p] = {}]
             /\ place' = [place EXCEPT ![p] = "released"]
             \* mi_segment_reclaim returns NULL; with nothing reclaimed
             \* mi_segment_reclaim_or_alloc allocates a fresh segment
             /\ Goto(t, IF ret[t] = "reclaim_all" THEN "reclaim_all" ELSE "fresh")
             /\ tries' = [tries EXCEPT ![t] = IF ret[t] = "retry" THEN 0 ELSE @]
             /\ pg' = [pg EXCEPT ![t] = NULL]
             /\ ret' = [ret EXCEPT ![t] = "none"]
             /\ UNCHANGED <<goal, blk, hp, todo, batch, round>>
          \/ /\ CollectedUsed(p) # 0
             /\ place' = [place EXCEPT ![p] = "queue"]
             /\ UNCHANGED capacity
             /\ \/ /\ ret[t] = "retry"
                   /\ NoPage(t)
                \/ /\ ret[t] # "retry"
                   /\ Goto(t, ret[t])
                   /\ pg' = [pg EXCEPT ![t] = NULL]
                   /\ ret' = [ret EXCEPT ![t] = "none"]
                   /\ UNCHANGED <<goal, blk, hp, todo, batch, tries, round>>

\* mi_segment_alloc, mi_segment_page_claim and mi_page_init of a page, which
\* the malloc then takes its block from
FreshPage(t) ==
  /\ pc[t] = "fresh"
  /\ tries[t] = 0 \/ PopFindsNone(t)
  /\ \E p \in Page :
       /\ \/ place[p] = "fresh"
          \/ place[p] = "released" /\ Reuse
       /\ xheap' = [xheap EXCEPT ![p] = t]
       /\ \E e \in (IF free[p] = {} THEN Extensions(p) ELSE {{}}), b \in Block :
            /\ PopBlock(p, b, free[p] \cup e, used[p])
            /\ capacity' = [capacity EXCEPT ![p] = e]
       /\ place' = [place EXCEPT ![p] = "queue"]
  /\ Return(t, "idle")
  /\ UNCHANGED <<flag, thread_free, delayed_free, local_free, retired, visits>>

\* the OS has no memory for a segment
FreshFails(t) ==
  /\ pc[t] = "fresh"
  /\ tries[t] = 0 \/ PopFindsNone(t)
  /\ UNCHANGED <<atomics, fields, live>>
  /\ NoPage(t)

-----------------------------------------------------------------------------
(* mi_free *)

\* by the thread that owns the page
FreeLocal(t) ==
  /\ pc[t] = "idle"
  /\ \E b \in live :
       /\ xheap[PageOf[b]] = t
       /\ live' = live \ {b}
       /\ LocalFree(t, PageOf[b], b, free[PageOf[b]], local_free[PageOf[b]],
                    used[PageOf[b]])
  /\ UNCHANGED <<flag, thread_free, delayed_free, control>>

\* by another thread: _mi_free_block_mt
FreeRemote(t) ==
  /\ pc[t] = "idle"
  /\ \E b \in live :
       /\ xheap[PageOf[b]] # t
       /\ live' = live \ {b}
       /\ blk' = [blk EXCEPT ![t] = b]
  /\ Goto(t, "mt")
  /\ UNCHANGED <<atomics, fields, goal, pg, hp, todo, batch, tries, round, ret>>

\* the first concurrent free in the page claims the heap's delayed list, ...
MtClaim(t) ==
  /\ pc[t] = "mt"
  /\ flag[PageOf[blk[t]]] = USE_DELAYED_FREE
  /\ flag' = [flag EXCEPT ![PageOf[blk[t]]] = DELAYED_FREEING]
  /\ Goto(t, "mt_heap")
  /\ UNCHANGED <<thread_free, xheap, delayed_free, fields, live,
                 goal, blk, pg, hp, todo, batch, tries, round, ret>>

\* ... any other goes on the page's thread_free list
MtPush(t) ==
  /\ pc[t] = "mt"
  /\ flag[PageOf[blk[t]]] # USE_DELAYED_FREE
  /\ thread_free' = [thread_free EXCEPT ![PageOf[blk[t]]] = @ \cup {blk[t]}]
  /\ Return(t, "idle")
  /\ UNCHANGED <<flag, xheap, delayed_free, fields, live>>

\* the racy read of page->xheap; without a heap the block is not put anywhere
MtHeap(t) ==
  /\ pc[t] = "mt_heap"
  /\ hp' = [hp EXCEPT ![t] = xheap[PageOf[blk[t]]]]
  /\ Goto(t, IF xheap[PageOf[blk[t]]] = NULL THEN "mt_reset" ELSE "mt_push")
  /\ UNCHANGED <<atomics, fields, live, goal, blk, pg, todo, batch, tries, round, ret>>

\* the block goes on that heap's delayed list
MtDelayed(t) ==
  /\ pc[t] = "mt_push"
  /\ delayed_free' = [delayed_free EXCEPT ![hp[t]] = @ \cup {blk[t]}]
  /\ Goto(t, "mt_reset")
  /\ UNCHANGED <<flag, thread_free, xheap, fields, live,
                 goal, blk, pg, hp, todo, batch, tries, round, ret>>

\* the flag is reset; from now on frees in the page go to its thread_free list
MtReset(t) ==
  /\ pc[t] = "mt_reset"
  /\ flag' = [flag EXCEPT ![PageOf[blk[t]]] = NO_DELAYED_FREE]
  /\ Return(t, "idle")
  /\ UNCHANGED <<thread_free, xheap, delayed_free, fields, live>>

-----------------------------------------------------------------------------
(* mi_collect and the end of a thread *)

\* mi_heap_collect_ex for MI_NORMAL and MI_FORCE; only the main thread first
\* reclaims all abandoned segments
StartCollect(t) ==
  /\ pc[t] = "idle"
  /\ \E g \in {"collect", "force"} :
       /\ goal' = [goal EXCEPT ![t] = g]
       /\ Goto(t, IF g = "force" /\ t = Main THEN "reclaim_all" ELSE "take")
  /\ UNCHANGED <<atomics, fields, live, blk, pg, hp, todo, batch, tries, round, ret>>

\* _mi_abandoned_reclaim_all
ReclaimAll(t) ==
  /\ pc[t] = "reclaim_all"
  /\ \E p \in Abandoned :
       /\ place' = [place EXCEPT ![p] = "popped"]
       /\ pg' = [pg EXCEPT ![t] = p]
  /\ ret' = [ret EXCEPT ![t] = "reclaim_all"]
  /\ Goto(t, "reclaim")
  /\ UNCHANGED <<atomics, free, local_free, used, capacity, retired, visits, live,
                 goal, blk, hp, todo, batch, tries, round>>

ReclaimAllDone(t) ==
  /\ pc[t] = "reclaim_all"
  /\ PopFindsNone(t)
  /\ Goto(t, "take")
  /\ UNCHANGED <<atomics, fields, live, goal, blk, pg, hp, todo, batch, tries, round, ret>>

\* _mi_heap_done of a thread that is not the main thread: MI_ABANDON
ThreadDone(t) ==
  /\ pc[t] = "idle"
  /\ t # Main
  /\ goal' = [goal EXCEPT ![t] = "abandon"]
  /\ todo' = [todo EXCEPT ![t] = HeapPages(t)]
  /\ Goto(t, "never")
  /\ UNCHANGED <<atomics, fields, live, blk, pg, hp, batch, tries, round, ret>>

\* Mutant: does not wait for a thread that is DELAYED_FREEING
NeverDelayedNoWait(t) ==
  /\ pc[t] = "never"
  /\ \E p \in todo[t] :
       /\ SetDelayed(p, NEVER_DELAYED_FREE, FALSE)
       /\ todo' = [todo EXCEPT ![t] = @ \ {p}]
  /\ UNCHANGED <<thread_free, xheap, delayed_free, fields, live,
                 pc, goal, blk, pg, hp, batch, tries, round, ret>>

\* mi_heap_page_never_delayed_free
NeverDelayed(t) ==
  /\ pc[t] = "never"
  /\ \E p \in todo[t] :
       /\ CanSetDelayed(p)
       /\ SetDelayed(p, NEVER_DELAYED_FREE, FALSE)
       /\ todo' = [todo EXCEPT ![t] = @ \ {p}]
  /\ UNCHANGED <<thread_free, xheap, delayed_free, fields, live,
                 pc, goal, blk, pg, hp, batch, tries, round, ret>>

NeverDone(t) ==
  /\ pc[t] = "never"
  /\ todo[t] = {}
  /\ Goto(t, "take")
  /\ UNCHANGED <<atomics, fields, live, goal, blk, pg, hp, todo, batch, tries, round, ret>>

\* mi_heap_page_collect: an empty page is released, another one abandoned if
\* the thread ends
VisitPage(t) ==
  /\ pc[t] = "visit"
  /\ \E p \in todo[t] :
       /\ Collect(p, goal[t] # "collect")
       /\ todo' = [todo EXCEPT ![t] = @ \ {p}]
       /\ \/ /\ CollectedUsed(p) = 0
             /\ PageFree(p)
             /\ UNCHANGED <<pc, pg>>
          \/ /\ CollectedUsed(p) # 0
             /\ UNCHANGED <<xheap, capacity, place, retired>>
             /\ IF goal[t] = "abandon"
                  THEN Goto(t, "abandon") /\ pg' = [pg EXCEPT ![t] = p]
                  ELSE UNCHANGED <<pc, pg>>
  /\ UNCHANGED <<flag, delayed_free, visits, live,
                 goal, blk, hp, batch, tries, round, ret>>

\* _mi_page_abandon, _mi_segment_page_abandon and mi_segment_abandon
PageAbandon(t) ==
  /\ pc[t] = "abandon"
  /\ xheap' = [xheap EXCEPT ![pg[t]] = NULL]
  /\ place' = [place EXCEPT ![pg[t]] = "abandoned"]
  /\ visits' = [visits EXCEPT ![pg[t]] = 0]
  /\ pg' = [pg EXCEPT ![t] = NULL]
  /\ Goto(t, "visit")
  /\ UNCHANGED <<flag, thread_free, delayed_free, free, local_free, used, capacity,
                 retired, live, goal, blk, hp, todo, batch, tries, round, ret>>

\* a collect returns, a malloc out of memory looks for a page again, and the
\* heap of a thread that ends is given back to the OS
VisitDone(t) ==
  /\ pc[t] = "visit"
  /\ todo[t] = {}
  /\ \/ goal[t] = "abandon" /\ Return(t, "done")
     \/ goal[t] \in {"collect", "force"} /\ Return(t, "idle")
     \/ /\ goal[t] = "oom"
        /\ goal' = [goal EXCEPT ![t] = "malloc"]
        /\ todo' = [todo EXCEPT ![t] = Queue(t)]
        /\ Goto(t, "find")
        /\ UNCHANGED <<blk, pg, hp, batch, tries, round, ret>>
  /\ UNCHANGED <<atomics, fields, live>>

-----------------------------------------------------------------------------
\* what the program may call, and what the calls do from there
Call(t) ==
  \/ MallocFast(t) \/ MallocGeneric(t) \/ FreeLocal(t) \/ FreeRemote(t)
  \/ StartCollect(t) \/ ThreadDone(t)

Continue(t) ==
  \/ TakeDelayed(t) \/ DelayedUse(t) \/ DelayedFree(t) \/ DelayedDone(t)
  \/ FindAvailable(t) \/ FindExtend(t) \/ FindFull(t) \/ ToFull(t) \/ FindNone(t)
  \/ CollectRetired(t) \/ PopAbandoned(t) \/ CheckFree(t)
  \/ Reclaim(t) \/ ReclaimUse(t) \/ ReclaimCollect(t) \/ FreshPage(t) \/ FreshFails(t)
  \/ MtClaim(t) \/ MtPush(t) \/ MtHeap(t) \/ MtDelayed(t) \/ MtReset(t)
  \/ ReclaimAll(t) \/ ReclaimAllDone(t)
  \/ NeverDelayed(t) \/ NeverDone(t) \/ VisitPage(t) \/ PageAbandon(t) \/ VisitDone(t)

Next == \E t \in Thread : Call(t) \/ Continue(t)

Spec == Init /\ [][Next]_vars

\* every operation goes on once it has started (the OS scheduler runs every
\* thread); the program need not call any
FairSpec == Spec /\ \A t \in Thread : WF_vars(Continue(t))

-----------------------------------------------------------------------------
(* Properties *)

InUse(p) == place[p] \in {"queue", "full", "abandoned", "popped"}

\* labels at which the block in blk is on no list and not the program's, and
\* at which a thread is between setting and resetting DELAYED_FREEING
HandLabel    == {"mt", "mt_heap", "mt_push", "dcollect"}
FreeingLabel == {"mt_heap", "mt_push", "mt_reset"}

InHand(t, b)  == blk[t] = b /\ pc[t] \in HandLabel
Freeing(t, p) == pc[t] \in FreeingLabel /\ PageOf[blk[t]] = p

\* in how many places a block is, on the lists of its page and outside
OnPage(b) ==
  LET p == PageOf[b] IN
  Cardinality({l \in {"free", "local_free", "thread_free"} :
                 \/ l = "free" /\ b \in free[p]
                 \/ l = "local_free" /\ b \in local_free[p]
                 \/ l = "thread_free" /\ b \in thread_free[p]})
OffPage(b) ==
    Cardinality({t \in Thread : b \in delayed_free[t]})
  + Cardinality({t \in Thread : b \in batch[t]})
  + Cardinality({t \in Thread : InHand(t, b)})
  + (IF b \in live THEN 1 ELSE 0)

\* A block of a page is in exactly one place: on one of the lists of its page,
\* on a delayed list, in the hands of one thread that frees it, or the
\* program's.  So no interleaving of frees, collects, abandonment and reclaim
\* loses a block or puts it on two lists; and a page is only given back to its
\* segment when nobody outside can reach a block of it.
BlockOwnedOnce ==
  \A b \in Block :
    LET p == PageOf[b] IN
    IF ~InUse(p) THEN OffPage(b) = 0
    ELSE OnPage(b) + OffPage(b) = IF b \in capacity[p] THEN 1 ELSE 0

\* page->used counts the blocks that are neither on free nor on local_free,
\* wherever they are (mi_page_is_valid_init: used + |free| + |local_free| =
\* capacity): the test used = 0 means that no block is in use.
UsedExact ==
  \A p \in Page : InUse(p) =>
    used[p] = Cardinality(capacity[p]) - Cardinality(free[p])
                - Cardinality(local_free[p])

\* The invariant of mimalloc-types.h:198: NO_DELAYED_FREE is only set while a
\* block of the page is on the delayed list of the page's heap (or was just
\* taken from it), so the owner will come to see the blocks on thread_free.
NoDelayedPending ==
  \A p \in Page : flag[p] = NO_DELAYED_FREE /\ InUse(p) =>
    /\ xheap[p] # NULL
    /\ \E b \in delayed_free[xheap[p]] \cup batch[xheap[p]] : PageOf[b] = p

\* A page in the full queue is not lost: when all its blocks have been freed,
\* by any threads, one of them is on the delayed list of its heap, so that the
\* owner's next malloc finds the page (the full queue itself is never searched).
FullPageNotLost ==
  \A p \in Page :
    /\ place[p] = "full"
    /\ pc[xheap[p]] = "idle"
    /\ \A b \in Reserved(p) : b \notin live /\ \A t \in Thread : ~InHand(t, b)
    => \E b \in delayed_free[xheap[p]] : PageOf[b] = p

\* The flag is DELAYED_FREEING exactly while one thread, and only one, is
\* between setting and resetting it (the assertion at alloc.c:341).
OneDelayedFreer ==
  \A p \in Page :
    /\ \A t, u \in Thread : Freeing(t, p) /\ Freeing(u, p) => t = u
    /\ flag[p] = DELAYED_FREEING <=> \E t \in Thread : Freeing(t, p)

\* The racy read of page->xheap is safe (alloc.c:326): while a thread is
\* between setting and resetting DELAYED_FREEING the page is in use and has a
\* heap, so the read yields one (alloc.c:328); the heap the block is pushed to
\* still exists and still is the page's.  So during the last visit of an ending
\* thread nothing arrives on its delayed list and no page of it lets another
\* thread start a delayed free (heap.c:138-156, page.c:347-355), and a heap that
\* was given back to the OS has an empty delayed list.
DelayedHeapAlive ==
  \A t \in Thread :
    /\ goal[t] = "abandon" /\ pc[t] \in {"retired", "visit", "abandon"} =>
         /\ delayed_free[t] = {}
         /\ \A p \in HeapPages(t) : flag[p] = NEVER_DELAYED_FREE
    /\ pc[t] \in FreeingLabel =>
         InUse(PageOf[blk[t]]) /\ xheap[PageOf[blk[t]]] # NULL
    /\ pc[t] = "mt_push" => pc[hp[t]] # "done" /\ xheap[PageOf[blk[t]]] = hp[t]
    /\ pc[t] = "done" => delayed_free[t] = {} /\ batch[t] = {}

\* mi_page_init finds a page whose lists, flag and used count are zero
\* (page.c:650-653 and 588).
PageInitClean ==
  \A p \in Page : place[p] = "fresh" \/ (place[p] = "released" /\ Reuse) =>
    /\ free[p] = {} /\ local_free[p] = {} /\ thread_free[p] = {}
    /\ used[p] = 0 /\ flag[p] = USE_DELAYED_FREE

\* The pages, lists and flags implement the allocator the program sees: malloc
\* never hands out a block that is live, or one whose free has not returned
\* (a thread in _mi_free_block_mt still uses the page of the block).
Status == [b \in Block |->
  IF b \in live THEN "live"
  ELSE IF \E t \in Thread : blk[t] = b /\ pc[t] \in {"mt"} \cup FreeingLabel
         THEN "freeing" ELSE "free"]
Abstract == INSTANCE Allocator WITH status <- Status
ImplementsAllocator == Abstract!ASpec

\* Every call returns: the loops that wait for a DELAYED_FREEING flag to go
\* away, the search for a page, the reclaiming and the exit of a thread all
\* end, whatever the other threads do.
CallsReturn ==
  \A t \in Thread : pc[t] \notin {"idle", "done"} ~> pc[t] \in {"idle", "done"}
=============================================================================
