----------------------------- MODULE PageQueue -----------------------------
(***************************************************************************)
(* The heap of a thread (page-queue.c, page.c, heap.c, init.c): a queue of *)
(* pages for each size class and one for the full pages, the array         *)
(* pages_free_direct that caches the first page of the small classes, and  *)
(* the range of the classes with a retired page.                           *)
(*                                                                         *)
(* Only the thread itself changes its heap, so the model has one thread.   *)
(* Other threads free blocks of its pages (what they do to the lists of a  *)
(* page is in module ThreadFree; here a list is the number of its blocks)  *)
(* and leave pages behind that the thread reclaims.  Sizes are in machine  *)
(* words, with the padding.  A page is handed out once (see ThreadFree).   *)
(* mi_heap_new does not initialise the queues of the heap it returns       *)
(* (heap.c:211), so a thread has its backing heap only.                    *)
(***************************************************************************)
EXTENDS Integers, Sequences, FiniteSets

CONSTANTS
  Page, EMPTY,   \* the pages, and _mi_page_empty
  Sizes,         \* the sizes that are allocated
  SmallMax,      \* MI_SMALL_WSIZE_MAX
  SmallObjMax,   \* MI_SMALL_OBJ_SIZE_MAX, in words
  LargeMax,      \* MI_LARGE_OBJ_WSIZE_MAX
  Padding,       \* MI_PADDING_WSIZE
  Reserved,      \* blocks of a page
  MaxExtend,     \* blocks that mi_page_extend_free adds at most
  RetireCycles   \* MI_RETIRE_CYCLES, of the small classes

\* the sizes of the queues, MI_PAGE_QUEUES_EMPTY
BinTable == <<1, 1, 2, 3, 4, 5, 6, 7, 8, 10, 12, 14, 16, 20, 24, 28, 32, 40, 48, 56, 64,
  80, 96, 112, 128, 160, 192, 224, 256, 320, 384, 448, 512, 640, 768, 896, 1024, 1280,
  1536, 1792, 2048, 2560, 3072, 3584, 4096, 5120, 6144, 7168, 8192, 10240, 12288, 14336,
  16384, 20480, 24576, 28672, 32768, 40960, 49152, 57344, 65536, 81920, 98304, 114688,
  131072, 163840, 196608, 229376, 262144, 327680, 393216, 458752, 524288>>
BIN_HUGE == 73
BIN_FULL == 74
BinSize(b) == IF b < BIN_HUGE THEN BinTable[b + 1] ELSE LargeMax + (b - BIN_HUGE) + 1

\* the index of the highest bit, mi_bsr32
Bsr(x) == CHOOSE b \in 0 .. 31 : 2 ^ b <= x /\ x < 2 ^ (b + 1)

\* Mutant: without the step down, a size that fills a class goes to the next one
BinUp(w) ==
  IF w <= 1 THEN 1
  ELSE IF w <= 8 THEN 2 * ((w + 1) \div 2)
  ELSE IF w > LargeMax THEN BIN_HUGE
  ELSE 4 * Bsr(w) + ((w \div 2 ^ (Bsr(w) - 2)) % 4) - 3

\* _mi_bin, with an alignment of two words (MI_ALIGN2W)
Bin(w) ==
  IF w <= 1 THEN 1
  ELSE IF w <= 8 THEN 2 * ((w + 1) \div 2)
  ELSE IF w > LargeMax THEN BIN_HUGE
  ELSE LET b == Bsr(w - 1) IN 4 * b + (((w - 1) \div 2 ^ (b - 2)) % 4) - 3

Bins == 0 .. Bin(LargeMax)
\* every size has the smallest class that holds it (odd ones are not used)
ClassTable ==
  LET classes == {b \in Bins : b <= 1 \/ BinTable[b + 1] % 2 = 0}
  IN  \A w \in 1 .. LargeMax :
        /\ Bin(w) \in classes /\ BinSize(Bin(w)) >= w
        /\ \A b \in classes : BinSize(b) >= w => BinSize(Bin(w)) <= BinSize(b)
Queues == Bins \cup {BIN_FULL}

ASSUME SizeAssumption ==
  /\ SmallMax \in Nat \ {0} /\ LargeMax \in SmallMax .. 262144 /\ SmallObjMax \in Nat /\ Padding \in {0, 1}
  /\ Sizes \subseteq Nat \ {0}
\* the largest small and large sizes fill their classes (128 and 262144 in the code)
ASSUME ClassAssumption ==
  \A m \in {SmallMax, LargeMax} : \E b \in 1 .. 68 : BinTable[b + 1] = m /\ (b = 1 \/ m % 2 = 0)
ASSUME PageAssumption == EMPTY \notin Page /\ IsFiniteSet(Page)
ASSUME BoundAssumption ==
  Reserved \in Nat \ {0} /\ MaxExtend \in Nat \ {0} /\ RetireCycles \in {4 * n : n \in 1 .. 63}

VARIABLES
  init,         \* does the thread have its heap?  (else it has _mi_heap_empty)
  \* the heap
  queue, direct, page_count, retired_min, retired_max,
  \* the pages
  page,
  live,         \* blocks of each page that the program has
  \* the call
  pc, cur

heap == <<queue, direct, page_count>>
vars == <<init, heap, retired_min, retired_max, page, live, pc, cur>>

\* A page.  place: not handed out, in a queue of the heap, a huge page,
\* abandoned, or given back.  free, local and remote are the blocks in free,
\* local_free and xthread_free, delayed those in thread_delayed_free of the heap.
PageRec == [place : {"fresh", "heap", "huge", "abandoned", "released"},
            size : Nat, in_full : BOOLEAN, capacity : Nat, used : Nat,
            free : Nat, local : Nat, remote : Nat, delayed : Nat, expire : Nat]
Fresh0 == [place |-> "fresh", size |-> 0, in_full |-> FALSE, capacity |-> 0, used |-> 0,
           free |-> 0, local |-> 0, remote |-> 0, delayed |-> 0, expire |-> 0]

\* The call: the requested size (0: mi_collect or mi_thread_done), the page the
\* search looks at, which search it is, the kind of the collection, the pages
\* it still visits, the next class of _mi_heap_collect_retired and the range it
\* found so far.
Call == [w : Nat, p : Page \cup {EMPTY}, round : 1 .. 4,
         collect : {"none", "normal", "force", "abandon"}, todo : SUBSET Page,
         bin : 0 .. BIN_FULL, min : 0 .. BIN_FULL, max : 0 .. BIN_FULL]
NoCall == [w |-> 0, p |-> EMPTY, round |-> 1, collect |-> "none", todo |-> {},
           bin |-> 0, min |-> BIN_FULL, max |-> 0]

TypeOK ==
  /\ init \in BOOLEAN
  /\ queue \in [Queues -> Seq(Page)]
  /\ direct \in [0 .. SmallMax + Padding -> Page \cup {EMPTY}]
  /\ page_count \in Nat
  /\ retired_min \in 0 .. BIN_FULL /\ retired_max \in 0 .. BIN_FULL
  /\ page \in [Page -> PageRec]
  /\ live \in [Page -> Nat]
  /\ pc \in {"idle", "delayed", "search", "retired", "fresh", "visit"}
  /\ cur \in Call

\* _mi_heap_empty
NoQueues == [b \in Queues |-> <<>>]
NoDirect == [w \in 0 .. SmallMax + Padding |-> EMPTY]

Init ==
  /\ init = FALSE
  /\ queue = NoQueues /\ direct = NoDirect /\ page_count = 0
  /\ retired_min = BIN_FULL /\ retired_max = 0
  /\ page = [p \in Page |-> Fresh0]
  /\ live = [p \in Page |-> 0]
  /\ pc = "idle" /\ cur = NoCall

-----------------------------------------------------------------------------
(* Queues.  The operators take and return h = [queue, direct, count]. *)

Heap == [queue |-> queue, direct |-> direct, count |-> page_count]
SetHeap(h) == queue' = h.queue /\ direct' = h.direct /\ page_count' = h.count

First(q) == IF q = <<>> THEN EMPTY ELSE q[1]
Without(q, p) ==
  IF \A i \in DOMAIN q : q[i] # p THEN q
  ELSE LET i == CHOOSE j \in DOMAIN q : q[j] = p IN SubSeq(q, 1, i - 1) \o SubSeq(q, i + 1, Len(q))

\* Mutant: only the entry of the size itself
StartSame(b) == BinSize(b)

\* the first entry of pages_free_direct that queue b serves: queues before it
\* that no size is mapped to are skipped
Start(b) ==
  LET idx  == BinSize(b)
      same == {q \in 0 .. b - 1 : \A r \in q .. b - 1 : Bin(BinSize(r)) = Bin(idx)}
      prev == IF same = {} THEN b - 1
              ELSE LET low == CHOOSE q \in same : \A r \in same : q <= r
                   IN  IF low = 0 THEN 0 ELSE low - 1
  IN  IF idx <= 1 THEN 0
      ELSE IF 1 + BinSize(prev) > idx THEN idx ELSE 1 + BinSize(prev)

\* mi_heap_queue_first_update
FirstUpdate(h, b) ==
  IF BinSize(b) > SmallMax \/ h.direct[BinSize(b)] = First(h.queue[b]) THEN h
  ELSE [h EXCEPT !.direct = [w \in DOMAIN h.direct |->
          IF w \in Start(b) .. BinSize(b) THEN First(h.queue[b]) ELSE h.direct[w]]]

\* mi_page_queue_remove; the caller resets in_full
Remove(h, b, p) ==
  LET r == [h EXCEPT !.queue[b] = Without(@, p), !.count = @ - 1]
  IN  IF First(h.queue[b]) = p THEN FirstUpdate(r, b) ELSE r

\* mi_page_queue_push
Push(h, b, p) == FirstUpdate([h EXCEPT !.queue[b] = <<p>> \o @, !.count = @ + 1], b)

\* mi_page_queue_enqueue_from
EnqueueFrom(h, to, from, p) ==
  LET r == [h EXCEPT !.queue[from] = Without(@, p)]
      u == IF First(h.queue[from]) = p THEN FirstUpdate(r, from) ELSE r
      a == [u EXCEPT !.queue[to] = Append(@, p)]
  IN  IF u.queue[to] = <<>> THEN FirstUpdate(a, to) ELSE a

\* mi_page_queue_of
QueueOf(pg) == IF pg.in_full THEN BIN_FULL ELSE Bin(pg.size)

-----------------------------------------------------------------------------
(* Pages *)

\* _mi_page_free_collect
Collect(pg, force) ==
  LET local == pg.local + pg.remote
      take  == pg.free = 0 \/ force
  IN  [pg EXCEPT !.used = @ - pg.remote, !.remote = 0,
                 !.free = IF take THEN @ + local ELSE @,
                 !.local = IF take THEN 0 ELSE local]

\* mi_page_extend_free
Extend(pg) ==
  LET n == IF Reserved - pg.capacity > MaxExtend THEN MaxExtend ELSE Reserved - pg.capacity
  IN  [pg EXCEPT !.free = @ + n, !.capacity = @ + n]

\* pop a block, _mi_page_malloc
Pop(pg) == [pg EXCEPT !.free = @ - 1, !.used = @ + 1]

\* _mi_page_free: the page goes back to its segment (module Segment)
Release(pg) == [Fresh0 EXCEPT !.place = "released", !.remote = pg.remote, !.delayed = pg.delayed]

\* _mi_page_unfull: page p goes back from the full queue
Unfull(h, p, pg) == IF pg.in_full THEN EnqueueFrom(h, Bin(pg.size), BIN_FULL, p) ELSE h

\* the rest of a local free, when page p is pg with the block in local_free:
\* _mi_page_retire when all blocks are free
FreeInto(p, pg) ==
  LET b == QueueOf(pg) IN
  IF pg.used # 0
    THEN /\ SetHeap(Unfull(Heap, p, pg))
         /\ page' = [page EXCEPT ![p] = [pg EXCEPT !.in_full = FALSE]]
         /\ UNCHANGED <<retired_min, retired_max>>
  ELSE IF ~pg.in_full /\ queue[b] = <<p>>
    THEN /\ page' = [page EXCEPT ![p] = [pg EXCEPT !.expire =
                       IF pg.size <= SmallObjMax THEN RetireCycles ELSE RetireCycles \div 4]]
         /\ retired_min' = IF b < retired_min THEN b ELSE retired_min
         /\ retired_max' = IF b > retired_max THEN b ELSE retired_max
         /\ UNCHANGED heap
  ELSE /\ SetHeap(Remove(Heap, b, p))
       /\ page' = [page EXCEPT ![p] = Release(pg)]
       /\ UNCHANGED <<retired_min, retired_max>>

-----------------------------------------------------------------------------
(* The calls *)

\* the call ends with block of page p (or of none)
Return(p, pg) ==
  /\ page' = [page EXCEPT ![p] = Pop(pg)]
  /\ live' = [live EXCEPT ![p] = @ + 1]
  /\ pc' = "idle" /\ cur' = NoCall

\* mi_heap_malloc: a small size takes a block of the page in the array; else
\* _mi_malloc_generic begins, with mi_thread_init for a thread without a heap
Malloc(w) ==
  /\ pc = "idle"
  /\ LET p == IF w <= SmallMax + Padding THEN direct[w] ELSE EMPTY IN
       IF p # EMPTY /\ (p # EMPTY => page[p].free > 0)
         THEN Return(p, page[p]) /\ UNCHANGED init
         ELSE /\ init' = TRUE
              /\ pc' = "delayed" /\ cur' = [NoCall EXCEPT !.w = w] /\ UNCHANGED <<page, live>>
  /\ UNCHANGED <<heap, retired_min, retired_max>>

\* mi_collect, and mi_thread_done of a thread other than the main thread
StartCollect(kind) ==
  /\ pc = "idle" /\ init
  /\ pc' = "delayed" /\ cur' = [NoCall EXCEPT !.collect = kind]
  /\ UNCHANGED <<init, heap, retired_min, retired_max, page, live>>

\* mi_find_page: a huge page is made, for other sizes the queue is searched
FindPage(c) ==
  IF c.w > LargeMax THEN pc' = "fresh" /\ cur' = c
  ELSE pc' = "search" /\ cur' = [c EXCEPT !.p = First(queue[Bin(c.w)])]

\* _mi_heap_delayed_free: each delayed block is freed by its thread.  Then a
\* size is searched, or a collection goes on.
Delayed ==
  /\ pc = "delayed"
  /\ \E p \in Page :
       /\ page[p].delayed > 0
       /\ LET pg == Collect(page[p], FALSE)
          IN  FreeInto(p, [pg EXCEPT !.delayed = @ - 1, !.used = @ - 1, !.local = @ + 1])
  /\ UNCHANGED <<init, live, pc, cur>>
DelayedEnd ==
  /\ pc = "delayed"
  /\ \A p \in Page : page[p].delayed = 0
  /\ IF cur.collect # "none"
       THEN pc' = "retired" /\ cur' = [cur EXCEPT !.bin = retired_min]
       ELSE FindPage(cur)
  /\ UNCHANGED <<init, heap, retired_min, retired_max, page, live>>

\* mi_find_free_page and mi_page_queue_find_free_ex: the first page with a free
\* block or blocks to add; the full ones before it go to the full queue
Found ==
  /\ pc = "search" /\ cur.p # EMPTY
  /\ LET pg == Collect(page[cur.p], FALSE)
         found == IF pg.free = 0 /\ pg.capacity < Reserved THEN Extend(pg) ELSE pg
     IN  /\ found.free > 0
         /\ Return(cur.p, [found EXCEPT !.expire = 0])
  /\ UNCHANGED <<init, heap, retired_min, retired_max>>

\* Mutant: the page is looked for in its queue after it has moved
ToFullLost ==
  /\ pc = "search" /\ cur.p # EMPTY
  /\ LET p  == cur.p
         pg == Collect(page[p], FALSE)
     IN  /\ pg.free = 0 /\ pg.capacity = Reserved
         /\ SetHeap(EnqueueFrom(Heap, BIN_FULL, Bin(cur.w), p))
         /\ page' = [page EXCEPT ![p] = [pg EXCEPT !.in_full = FALSE]]
         /\ cur' = [cur EXCEPT !.p = First(Tail(queue[Bin(cur.w)]))]
  /\ UNCHANGED <<init, retired_min, retired_max, live, pc>>

ToFull ==
  /\ pc = "search" /\ cur.p # EMPTY
  /\ LET p  == cur.p
         q  == queue[Bin(cur.w)]
         pg == Collect(page[p], FALSE)
     IN  /\ pg.free = 0 /\ pg.capacity = Reserved
         /\ SetHeap(EnqueueFrom(Heap, BIN_FULL, Bin(cur.w), p))
         /\ page' = [page EXCEPT ![p] = [pg EXCEPT !.in_full = TRUE]]
         /\ \E i \in DOMAIN q :
              /\ q[i] = p
              /\ cur' = [cur EXCEPT !.p = IF i = Len(q) THEN EMPTY ELSE q[i + 1]]
  /\ UNCHANGED <<init, retired_min, retired_max, live, pc>>

SearchEnd ==
  /\ pc = "search" /\ cur.p = EMPTY
  /\ pc' = "retired"
  /\ cur' = [cur EXCEPT !.bin = retired_min, !.min = BIN_FULL, !.max = 0]
  /\ UNCHANGED <<init, heap, retired_min, retired_max, page, live>>

\* the range with class b, whose retired page is kept
Keep(b) == [cur EXCEPT !.bin = b + 1, !.min = IF b < @ THEN b ELSE @,
                       !.max = IF b > @ THEN b ELSE @]

\* _mi_heap_collect_retired, the next class whose first page is retired
Retired ==
  /\ pc = "retired"
  /\ LET R == {b \in Bins \cap (cur.bin .. retired_max) :
                 queue[b] # <<>> /\ (queue[b] # <<>> => page[queue[b][1]].expire # 0)}
         b == CHOOSE x \in R : \A y \in R : x <= y
         p == queue[b][1]
         pg == page[p]
         n == pg.expire - 1
         force == cur.collect \in {"force", "abandon"}
     IN
       \/ /\ R # {} /\ pg.used = 0 /\ (force \/ n = 0)
          /\ SetHeap(Remove(Heap, b, p))
          /\ page' = [page EXCEPT ![p] = Release([pg EXCEPT !.expire = n])]
          /\ cur' = [cur EXCEPT !.bin = b + 1]
          /\ UNCHANGED <<retired_min, retired_max, pc>>
       \/ /\ R # {} /\ pg.used = 0 /\ ~force /\ n # 0
          /\ page' = [page EXCEPT ![p].expire = n]
          /\ cur' = Keep(b)
          /\ UNCHANGED <<heap, retired_min, retired_max, pc>>
       \/ /\ R # {} /\ pg.used # 0
          /\ page' = [page EXCEPT ![p].expire = 0]
          /\ cur' = [cur EXCEPT !.bin = b + 1]
          /\ UNCHANGED <<heap, retired_min, retired_max, pc>>
       \/ /\ R = {}
          /\ retired_min' = cur.min /\ retired_max' = cur.max
          /\ IF cur.collect # "none"
               THEN pc' = "visit" /\ cur' = [cur EXCEPT !.todo = {x \in Page : page[x].place = "heap"}]
               ELSE pc' = "fresh" /\ UNCHANGED cur
          /\ UNCHANGED <<heap, page>>
  /\ UNCHANGED <<init, live>>

\* mi_page_fresh: a page of a segment
FreshPage ==
  /\ pc = "fresh" /\ cur.w <= LargeMax
  /\ \E p \in Page :
       /\ page[p].place = "fresh"
       /\ SetHeap(Push(Heap, Bin(cur.w), p))
       /\ Return(p, Extend([page[p] EXCEPT !.place = "heap", !.size = BinSize(Bin(cur.w))]))
  /\ UNCHANGED <<init, retired_min, retired_max>>

\* mi_huge_page_alloc: a page of its own, in no queue
HugePage ==
  /\ pc = "fresh" /\ cur.w > LargeMax
  /\ \E p \in Page :
       /\ page[p].place = "fresh"
       /\ Return(p, [page[p] EXCEPT !.place = "huge", !.size = cur.w, !.free = 1, !.capacity = 1])
  /\ UNCHANGED <<init, heap, retired_min, retired_max>>

\* where the call goes on when mi_page_fresh returns NULL: the search is
\* repeated, the heap is collected and searched twice more, then malloc fails
Again ==
  IF cur.round \in {1, 3} /\ cur.w <= LargeMax
    THEN pc' = "search" /\ cur' = [cur EXCEPT !.round = @ + 1, !.p = First(queue'[Bin(cur.w)])]
  ELSE IF cur.round < 3
    THEN pc' = "delayed" /\ cur' = [NoCall EXCEPT !.w = cur.w, !.round = 3, !.collect = "force"]
  ELSE pc' = "idle" /\ cur' = NoCall

\* an abandoned page is reclaimed (_mi_page_reclaim); with the right size and
\* free blocks it ends the search for a segment
ReclaimPage ==
  /\ pc = "fresh" /\ cur.w <= LargeMax
  /\ \E p \in Page :
       LET pg == Collect(page[p], FALSE)
           right == pg.size = BinSize(Bin(cur.w)) /\ (pg.free > 0 \/ pg.capacity < Reserved)
       IN
       /\ page[p].place = "abandoned"
       /\ IF pg.used = 0
            THEN page' = [page EXCEPT ![p] = Release(pg)] /\ UNCHANGED <<heap, pc, cur>>
            ELSE /\ page' = [page EXCEPT ![p] = [pg EXCEPT !.place = "heap"]]
                 /\ SetHeap(Push(Heap, Bin(pg.size), p))
                 /\ IF right THEN Again ELSE UNCHANGED <<pc, cur>>
  /\ UNCHANGED <<init, retired_min, retired_max, live>>

OutOfMemory ==
  /\ pc = "fresh"
  /\ UNCHANGED <<init, heap, retired_min, retired_max, page, live>>
  /\ Again

\* mi_heap_page_collect: an empty page is freed, and one in use is abandoned at
\* the end of the thread
Visit ==
  /\ pc = "visit"
  /\ \E p \in cur.todo :
       LET pg == Collect(page[p], cur.collect # "normal") IN
       /\ IF pg.used = 0
            THEN /\ SetHeap(Remove(Heap, QueueOf(pg), p))
                 /\ page' = [page EXCEPT ![p] = Release(pg)]
          ELSE IF cur.collect = "abandon"
            THEN /\ SetHeap(Remove(Heap, QueueOf(pg), p))
                 /\ page' = [page EXCEPT ![p] = [pg EXCEPT !.place = "abandoned", !.in_full = FALSE]]
          ELSE page' = [page EXCEPT ![p] = pg] /\ UNCHANGED heap
       /\ cur' = [cur EXCEPT !.todo = @ \ {p}]
  /\ UNCHANGED <<init, retired_min, retired_max, live, pc>>

\* the end of mi_heap_collect_ex: back to malloc, or _mi_heap_done frees the heap
VisitEnd ==
  /\ pc = "visit" /\ cur.todo = {}
  /\ IF cur.w # 0
       THEN FindPage([cur EXCEPT !.collect = "none"])
       ELSE pc' = "idle" /\ cur' = NoCall
  /\ IF cur.collect = "abandon"
       THEN /\ init' = FALSE
            /\ SetHeap([queue |-> NoQueues, direct |-> NoDirect, count |-> 0])
            /\ retired_min' = BIN_FULL /\ retired_max' = 0
       ELSE UNCHANGED <<init, heap, retired_min, retired_max>>
  /\ UNCHANGED <<page, live>>

\* mi_free of a block of a page of the heap
Free(p) ==
  /\ pc = "idle"
  /\ live[p] > 0 /\ page[p].place = "heap"
  /\ live' = [live EXCEPT ![p] = @ - 1]
  /\ FreeInto(p, [page[p] EXCEPT !.used = @ - 1, !.local = @ + 1])
  /\ UNCHANGED <<init, pc, cur>>

\* another thread frees a block: into xthread_free, or into the heap's delayed
\* list; a huge page is freed with its block.  (Bound: between calls and
\* during the first search.)
RemoteFree(p) ==
  /\ pc = "idle" \/ (pc = "search" /\ cur.round = 1)
  /\ live[p] > 0
  /\ live' = [live EXCEPT ![p] = @ - 1]
  /\ \/ /\ page[p].place \in {"heap", "abandoned"}
        /\ page' = [page EXCEPT ![p].remote = @ + 1]
     \/ /\ page[p].place = "heap" /\ page[p].delayed = 0
        /\ page' = [page EXCEPT ![p].delayed = 1]
     \/ /\ page[p].place = "huge"
        /\ page' = [page EXCEPT ![p] = Release([@ EXCEPT !.used = 0])]
  /\ UNCHANGED <<init, heap, retired_min, retired_max, pc, cur>>

-----------------------------------------------------------------------------
Next ==
  \/ \E w \in Sizes : Malloc(w)
  \/ \E kind \in {"normal", "force", "abandon"} : StartCollect(kind)
  \/ \E p \in Page : Free(p) \/ RemoteFree(p)
  \/ Delayed \/ DelayedEnd \/ Found \/ ToFull \/ SearchEnd \/ Retired
  \/ FreshPage \/ HugePage \/ ReclaimPage \/ OutOfMemory \/ Visit \/ VisitEnd

Spec == Init /\ [][Next]_vars

-----------------------------------------------------------------------------
(* Properties *)

\* Every entry of pages_free_direct is the first page of the queue of its size,
\* or the empty page: a malloc that takes the short way (alloc.c:72) gets what
\* the queues would give it (page-queue.c:203-238).
DirectExact ==
  \A w \in 1 .. SmallMax : direct[w] = First(queue[Bin(w)])

\* Each page of the heap is once in one queue, the full queue or the one of its
\* size, and page_count counts them; no other page is in a queue
\* (page-queue.c:180-194, and the total that mi_heap_visit_pages asserts).  The
\* page a search looks at is the first of its queue: those before it are full and
\* have left it (the assertion page.c:719).
QueuesExact ==
  /\ \A b \in Queues : \A i \in DOMAIN queue[b] :
       LET p == queue[b][i] IN
       /\ page[p].place = "heap" /\ QueueOf(page[p]) = b
       /\ \A j \in DOMAIN queue[b] : queue[b][j] = p => i = j
  /\ \A p \in Page : page[p].place = "heap" =>
       LET q == queue[QueueOf(page[p])] IN \E i \in DOMAIN q : q[i] = p
  /\ page_count = Cardinality({p \in Page : page[p].place = "heap"})
  /\ pc = "search" => cur.p = First(queue[Bin(cur.w)])

\* The class of a size is the smallest that holds it, so a page of a queue
\* serves blocks that are never too small and the waste is bounded; pages have
\* the size of a class (page-queue.c:100-137 against the table init.c:44-58).
ClassFits ==
  \A p \in Page : page[p].place = "heap" =>
    ClassTable /\ page[p].size = BinSize(Bin(page[p].size))

=============================================================================
