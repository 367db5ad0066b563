# A TLA+ model of mimalloc-mc

The repository holds a copy of the mimalloc allocator (`src/mimalloc-custom`),
adapted so that GenMC can execute it, and small client programs for that tool
(`src/test`).  This project models the allocator itself: the concurrent
protocols between the threads that allocate and free, and the sequential
machinery they depend on.

## The system

| Part | State | Operations | Interacts with |
| --- | --- | --- | --- |
| Blocks and pages (`alloc.c`, `page.c`) | `free`, `local_free`, `used`, `capacity`, `reserved`, `retire_expire` of a page, `xthread_free` (list and flag in one word), `xheap` | malloc (fast and generic), free (local and remote), collect, extend, retire, release | page queues, segments, other threads through `xthread_free` |
| Delayed frees (`alloc.c`, `page.c`) | the flag in `xthread_free`, `heap->thread_delayed_free` | `_mi_free_block_mt`, `_mi_heap_delayed_free`, `_mi_page_use_delayed_free` | heaps of other threads |
| Page queues (`page-queue.c`) | doubly linked queue per bin, full queue, `pages_free_direct` | push, remove, enqueue_from, append, bin | pages, heaps |
| Heaps (`heap.c`, `init.c`) | queues, thread id, list of heaps of a thread, `no_reclaim` | init, done, collect, new, delete, destroy, absorb | pages, segments, regions |
| Segments (`segment.c`) | `used`, `capacity`, `abandoned`, free queues, cache, reset queue with expiry | page alloc, claim, clear, free, reset and unreset, cache push and pop | regions, pages |
| Abandoned segments (`segment.c`) | tagged list `abandoned`, list `abandoned_visited`, `abandoned_readers` | push, pop, revisit, await readers, reclaim | exiting and allocating threads, regions |
| Huge pages (`segment.c`, `page.c`) | `thread_id` of the segment | alloc (abandoned at once), free by any thread | segments |
| Regions (`region.c`) | array of regions, `regions_count`, bitmaps `in_use`, `dirty`, `commit`, `reset` | alloc, claim, free, collect | bitmap, arenas, readers of the abandoned lists |
| Bitmap (`bitmap.inc.c`) | words of bits | find and claim, claim, unclaim, test | regions, arenas |
| Arenas (`arena.c`, `os.c`) | array of arenas with bitmaps `inuse` and `dirty`, `mi_huge_start` | reserve huge pages, add, alloc, free | OS, bitmap |
| OS layer (`os.c`) | `aligned_base`, `large_page_try_ok`, what is mapped and committed | aligned alloc, free, commit, decommit, reset, protect | system calls |
| Options, statistics, random numbers, wrappers | - | parsing, counters, ChaCha | - |

What is hard to test here is the concurrency: every thread may free any block at
any moment, also while the owner of the page exits, and while another thread
takes the page over.  There are no locks; correctness rests on the order of
single-word compare-and-swaps, on a two-bit flag used as a lock, on a reader
count and on a tag.  The readme of the repository names the same three places
("Potential issues": delayed flags, abandoned pages and segments, the bitmap).
PROJECT.json lists the hazards line by line.

What makes each part correct:

* blocks and pages: a block is in one place; `used` is exact; a page is
  released only when nobody can reach a block of it; a full page whose blocks
  were freed is found again; malloc never returns a block that is in use;
* delayed frees: DELAYED_FREEING is held by one thread; the heap it pushes to
  exists; NO_DELAYED_FREE implies a pending block; exit leaves nothing behind;
* abandoned lists: no segment is lost, doubled or read after its memory was
  reset, and pop fails only with an excuse;
* regions and bitmap: a block is handed out once, is not lost and is mapped as
  long as it is used; what is said to be committed or zero is; the array of
  regions keeps its bound;
* segments: `used`, `abandoned` and the counts of a thread match the pages; the
  free queues hold the segments with a free page; a page that waits for its
  reset is free and the thread's own; a claimed page is committed; no segment
  is lost between threads, cache and abandoned list;
* page queues: every page is in the queue its flag and size say;
  `pages_free_direct` is what it caches; the search passes full pages only;
  every size has the smallest class that holds it;
* OS layer and arenas: memory is mapped as long as somebody has it and no
  longer; calls on unaligned areas keep their neighbours' data; blocks and
  address ranges are given out once; a huge page that is mapped is in one arena,
  or it is known why nobody uses it.

## Modules

| Module | Models |
| --- | --- |
| `Allocator` | abstract specification: a block is free, live or being freed |
| `ThreadFree` | pages, flags, delayed frees, collect, retire, full queue, abandon, reclaim; one step per access to shared memory |
| `MCThreadFree`, `ThreadFree_*.cfg` | its instances |
| `ThreadFree_proofs` | theorems about `ThreadFree`: types and the flag; pages, flags, lists and blocks, and that it implements `Allocator` |
| `Chains` | linked lists: what is on one, and that it ends |
| `BlockSets` | abstract specification: atomic steps on a flag and two sets of blocks |
| `BlockList` | the same lists word by word: read, link, compare-and-swap, shared `next` field |
| `MCBlockList`, `BlockList_words.cfg` | its instance |
| `BlockList_proofs` | theorems about `BlockList`, and that it implements `BlockSets` |
| `AbandonedSet` | abstract specification: one set of abandoned segments |
| `AbandonedList` | the two abandoned lists, the tag and the reader count, word by word |
| `MCAbandonedList`, `AbandonedList_*.cfg` | its instances |
| `AbandonedList_proofs` | theorems about `AbandonedList`, and that it implements `AbandonedSet` |
| `Region` | the region array and its bitmaps, allocation, free and collect, commit and reset of memory by regions and segments |
| `MCRegion`, `Region_*.cfg` | its instances |
| `Region_proofs` | theorems about `Region` |
| `Segment` | segments of several pages: claim, clear, free queues, cache, delayed reset, commit on demand, abandon, reclaim, huge segments |
| `MCSegment`, `Segment_pages.cfg` | its instance |
| `Segment_proofs` | theorems about `Segment` |
| `PageQueue` | the heap of a thread: queues of pages by size class, full queue, `pages_free_direct`, retired range, bins |
| `MCPageQueue`, `PageQueue_heap.cfg` | its instance |
| `PageQueue_proofs` | theorems about `PageQueue` |
| `OsMemory` | memory from the OS: aligned allocation, large pages, commit, reset, protect |
| `Arena` | huge OS pages and arenas; extends `OsMemory`, to which it falls back |
| `MCArena`, `Arena_memory.cfg` | the instance of both |
| `Arena_proofs` | lemmas about the steps of `OsMemory`; theorems about `Arena` and `OsMemory` together |
| `BitScan` | the search and claim in one field of a bitmap, with its bit scans and shifts |
| `MCBitScan`, `BitScan_words.cfg` | its instance |
| `BitScan_proofs` | theorems about `BitScan` |

Definitions called "Mutant" in a comment are wrong variants of the definition
below them; they are part of no specification and show that a property can
fail.

### ThreadFree

State.  `flag` and `thread_free` are the two halves of `page->xthread_free`;
`xheap`, `free`, `local_free`, `used` are the fields of that name; `capacity`
is the set of blocks the field counts; `delayed_free[t]` is
`heap->thread_delayed_free` of the heap of t; `place` says which queue or list a
page is on; `visits` is `abandoned_visits` of its segment; `live` is what the
program has.  `pc`, `goal`, `blk`, `pg`, `hp`, `todo`, `batch`, `tries`,
`round`, `ret` are the locals of the thread's call.

Actions.  Each operation is cut where it touches memory that other threads
change:

* `malloc`: `MallocFast`, or `MallocGeneric` (start of `_mi_malloc_generic`),
  `TakeDelayed`, then per delayed block `DelayedUse` (flag) and `DelayedFree`
  (collect and free), `DelayedDone`, the search `FindAvailable` / `FindExtend`
  / `FindFull` + `ToFull` / `FindNone`, `CollectRetired`, then `PopAbandoned`,
  `CheckFree`, `Reclaim` (heap), `ReclaimUse` (flag), `ReclaimCollect`, or
  `FreshPage`, or `FreshFails` (out of memory: the retries of
  `mi_page_queue_find_free_ex`, the forced collect and the second
  `mi_find_page` are counted by `round`);
* `free`: `FreeLocal`; or `FreeRemote` and then `MtPush`, or `MtClaim`,
  `MtHeap` (the read of `xheap`), `MtDelayed`, `MtReset`;
* `mi_heap_collect`: `StartCollect`, for the main thread with force
  `ReclaimAll` ... `ReclaimAllDone`, the delayed frees, `CollectRetired`,
  `VisitPage`, `VisitDone`;
* exit: `ThreadDone`, `NeverDelayed` per page, `NeverDone`, the delayed frees,
  `VisitPage` and `PageAbandon`, `VisitDone`, after which the heap memory is
  given back.

Abstractions, and why they keep the behaviour:

* lists are sets.  `BlockList` shows that the words implement atomic steps on
  sets (`ImplementsSets`); a compare-and-swap loop is the step of its
  successful iteration;
* the abandoned lists are the set of pages with place "abandoned".
  `AbandonedList` shows that the two lists implement one set
  (`ImplementsSet`), and that a pop which returns NULL has the excuse that
  `PopFindsNone` asks for (`PopNullExcused`);
* one size class, and the order of a queue is arbitrary: `FindAvailable` may
  meet any page first, which includes the order of the code (`PageQueue` has
  the order and the classes);
* one page per segment (`Segment` has several), so `segment->thread_id` is determined by `xheap`;
* one heap per thread: `mi_heap_new` in this fork returns a heap whose fields
  are not initialised (the copy of `_mi_heap_empty` is commented out), so
  only the backing heap is usable;
* `retire_expire` is a Boolean, it may expire at any collect of retired pages;
* a page is handed out once (`Reuse = FALSE`), because `mi_segment_page_clear`
  does not zero the page in this fork; the run `page_reuse` is about that;
* memory is sequentially consistent.  The readme's race on `next` is outside
  this model.

### BlockList

One page, its owner and other threads.  `xthread_free` is a record of a block
and a flag that is compared and swapped as one word; `next` is one function
because a block has one link field whatever list it is on.  `free` and
`local_free` are one list.  Every read, link and compare-and-swap of
`_mi_free_block_mt`, `_mi_page_use_delayed_free`,
`_mi_page_thread_free_collect` and `_mi_heap_delayed_free` is a step; the walk
of a list that only the owner can reach is one step.  What is on a list
(`OnList`) is `Reach` of `Chains`.  The owner calls
`_mi_page_use_delayed_free` also outside a delayed free, with the arguments of
abandoning and of reclaiming.

### AbandonedList

`abandoned` is a record of a segment and a tag modulo `TagMod` (2^22 in the
code), `memory` says whether the memory of a segment is mapped and not reset,
`unused` are segments given back.  `Direct` are the segments that were
allocated directly from the OS.  `excused` is a history variable for
`PopNullExcused`.  What is on the lists is `Reach` of `Chains`: `Stack` and
`Visited` are the two lists, `InFlight` is what a revisit has grabbed and not put
back.  `MaxCalls` bounds the calls, and `TagMod > 2 * MaxCalls`
keeps the tag from wrapping around.

### Region

State.  `regions_count`, `info`, `start`, `in_use`, `dirty`, `commit`, `reset`
are the variables and fields of that name, a bitmap field as the set of its
one bits.  `memory` and `backed` are the operating system's side: whether the
region is mapped, and which halves of its blocks are committed.  `held` are
the allocations that segments have, with the pages that have `is_committed`
and `is_reset`.  `touched` is a history variable for `ZeroWhenSaid`.

Actions.  `AllocStart`, then `Scan` per region, `FindRead` and `FindCas` in
the bitmap; or `OsAlloc`, `Slot` (or `SlotUndo`), `RegionInit`, `RegionShare`;
then `CommitBlocks`, `Unreset`, and for memory that is not committed
`SegmentInfo` or `InfoFailed`.  `PageCommit`, `PageReset` and `PageUnreset` are
what segments do to their memory.  `Free` sets the bits and resets the memory,
`Unclaim` gives the blocks back.  `CollectStart`, `CollectClaim`,
`CollectRelease`, `CollectUnmap` are `_mi_mem_collect`, which only the main
thread calls (heap.c:169).

Abstractions: half a block is the unit of memory, enough to tell a segment
that ends inside a block, or a page of several, from whole blocks; the search
in a field is its first fit (`BitScan`); a failed compare-and-swap and the read
after it are one step, which loses nothing because the step can be delayed
until that read; between claiming and unclaiming only the owner changes
the other bits of its blocks, so their updates are joined with the system call.
The wait for the readers of the abandoned lists is in `AbandonedList`.
The segment cache is off by default and left out here (`Segment` has it).  `RelaxedInfo` adds the one
weak memory behaviour that the readme of the repository describes: `info` is
read before the writes it publishes are there.

### BitScan

`field` is shared and other threads change it arbitrarily; `map`, `bitidx`, `m`
and `count` are the locals of `mi_bitmap_try_find_claim_field`.  The ghost
variable `from` is the index at which `map` was read last: after a failed
compare-and-swap the search goes on from there and does not return to lower
bits, which is what `Region` assumes.

### Segment

State.  `kind`, `used`, `abandoned`, `thread_id`, `mem_is_fixed` are the fields
of a segment, `page` those of its pages (`segment_in_use`, `is_committed`,
`is_reset`, the heap); `free_queue`, `cache`, `pages_reset`, `count`,
`peak_count` are those of `mi_segments_tld_t`; `mapped` and `backed` are the
memory behind a segment, in units of the smallest page, and `known` is how many
pages its info was written for.

Actions.  `AllocStart` is `mi_segment_page_alloc` with the queue of its kind;
`TryReclaim`, `TryEnd` the loop of `mi_segment_try_reclaim` (visits, a segment
of another kind, one with no blocks left); `CacheReuse` and `Fresh`
`mi_segment_init`; `Claim` `mi_segment_page_claim` with its failing commit;
`PageFree`, `HugeFree`, `PageClear`, `SegmentFree` the free of a page, with
`CachePurge` and `CachePush`; `PageAbandon`, `AbandonSegment` and
`ReclaimAllStart`, `ReclaimAll` the way of a segment to another thread;
`ResetDelayed` and `Tick` the reset queue and the clock; `ThreadCollect`,
`ThreadExit`, `ThreadStart` the end of a thread and a new one in its place;
`SetCache` is `mi_option_set`.

Abstractions: a call touches what its thread owns and the abandoned list,
whose operations are atomic here (`AbandonedList`), so calls run one after the
other; which blocks of a page are free is a choice (`ThreadFree`); a clock
value is the ticks since an entry was due.

### PageQueue

State.  `queue` maps every bin and the full queue to the sequence of its pages,
`direct` is `pages_free_direct`, `page_count`, `retired_min`, `retired_max` are
the fields of that name; `page` has the numbers of blocks on each list of a
page, `in_full`, `retire_expire` and its block size in words; `live` are the
program's blocks.

Actions.  `Malloc` (fast path or start of `_mi_malloc_generic`), `Delayed` and
`DelayedEnd`, then `Found`, `ToFull`, `SearchEnd` for the walk of
`mi_page_queue_find_free_ex`, `Retired`, `FreshPage`, `ReclaimPage`,
`HugePage`, `OutOfMemory`; `Free` with retiring and unfulling, `RemoteFree` by
other threads between calls and during the first search; `StartCollect`, `Visit`, `VisitEnd` for the three
collects.  `FirstUpdate`, `Remove`, `Push`, `EnqueueFrom` are the functions of
page-queue.c on a record of the heap.  `Bin` and `BinTable` are `_mi_bin` and
the table of init.c with their arithmetic; `ClassTable` is the reference.

Abstractions: one thread, since only it changes its heap; lists of blocks are
their lengths; a page is handed out once, as in `ThreadFree`.

### OsMemory and Arena

State.  `prot` and `content` are the OS pages: mapped, accessible, holding what
was written.  `aligned_base`, `large_page_try_ok`, `mi_huge_start`,
`mi_arenas`, `mi_arena_count` are the variables of that name, `arena` the
records of `mi_arena_t`.  `allocs`, `written`, `hidden`, `ablocks` are what the
program has and may rely on, `leaked` and `lost` what a failing call left.

Actions.  `Alloc` looks for an arena (`Look`, `ReadField`, `ClaimBits`,
`SearchIdx`, `Dirty`) or goes to the OS: `Start`, `Less` (the counter of large
pages), `Hint`, `Wrap`, `Again` (`mi_os_get_aligned_hint`), `Map` (mmap, with
large pages first), and for a result that is not aligned `Unmap`, a larger
`Map`, `Pre`, `Post`.  `OsUse` are free, commit, decommit, reset, unreset,
protect of any part of an allocation.  `ReserveAt`, `Interleave`, `Claim`,
`Swap`, `HugePage`, `Build`, `Add`, `Undo`, `Slot` reserve huge pages, with a
timeout or without; `Free` gives blocks of an arena back.  `HugePage` is one round
of the loop of `_mi_os_alloc_huge_os_pages`.  It ends the loop (`Leave`) when
there is no page at the address, and after a timeout, which comes when the page
is mapped and not yet counted: that page goes to `lost`.  The clock is a
choice: with a timeout any page may be the last.

Abstractions: mmap puts memory at any free place, aligned or not, since an
address is only a hint to it (the hints themselves are computed, for the race on
`aligned_base`); sizes are small numbers with the rounding
of the code; a memory id is the number the code computes.  `Build` starts the
two bitmaps with `option.garbage`, since `_mi_os_alloc` is `malloc` in this fork
(os.c:616).

## Runs

| Run | Instance | Checks |
| --- | --- | --- |
| `free_pages` | 3 threads on a page of 2 blocks, or 2 threads on pages of 2 and 1 blocks | `TypeOK`, `OneDelayedFreer`, `DelayedHeapAlive`, `NoDelayedPending`, `BlockOwnedOnce`, `UsedExact`, `FullPageNotLost`, `ImplementsAllocator` |
| `free_live` | 2 threads, 1 page of 2 blocks, fair | `CallsReturn` |
| `page_reuse` | 2 threads, pages handed out again | `PageInitClean` is violated (finding) |
| `abandoned_lists` | 3 threads, 2 segments, 5 calls, fair | `ListsIntact`, `NoReadOfReset`, `PopNullExcused`, `ImplementsSet`, `ListCallsReturn` |
| `abandoned_direct` | 2 threads, 2 segments, one of them direct | `NoReadOfReset` is violated (finding) |
| `block_words` | owner and 2 threads, 3 blocks | `BlockListsIntact`, `ImplementsSets` |
| `bit_scan` | fields of 5 bits, all counts | `FirstFit`, `NoOverflow`, `ClaimExact`, `Ends` |
| `region_blocks` | array of 2, regions of 2 blocks, 7 processes: 2 threads that claim and collect; 1 thread with all sizes under 4 settings; 3 threads that add regions; 1 whose commits fail | `BlocksExclusive`, `InUseExact`, `CountSettles`, `AllocationMapped`, `TrueWhenSaid` |
| `region_relaxed` | 2 threads, relaxed read of `info` | `BlocksExclusive` is violated (finding) |
| `segment_pages` | 2 threads, 2 segments of 2 small, 1 large or 1 huge page, 6 settings | `CountsExact`, `FreeQueueExact`, `ResetQueueOwn`, `PageUsable`, `NothingLost` |
| `page_queues` | 3 pages of 2 blocks, sizes 5, 9 and 257 words | `DirectExact`, `QueuesExact`, `ClassFits` |
| `os_memory` | 6 OS pages, 4 huge pages, 2 arenas, 6 processes of 1 or 2 threads | `ArenaTypeOK`, `AllocsMapped`, `DataKept`, `ArenaBlocks`, `HugeDisjoint`, `SlotsFilled`, `HugeCounted` |

Every module has a type invariant.  Two runs list it: where a theorem states it
(`TypeOK` of `ThreadFree`), and where it bounds a counter that threads race for
(`large_page_try_ok`, in `ArenaTypeOK`).  The variable `option` of `Region`,
`Segment` and `OsMemory` is chosen by the initial state, so one run has several
processes; only `SetCache` of `Segment` changes it.

Why the bounds are enough.  The flag protocol involves an owner, a freeing
thread, and a third thread that frees too or reclaims the page: three threads
and two blocks (one to claim the flag, one to go to `thread_free` meanwhile)
produce every combination of the four flags with them.  Two pages are needed
for the page queue to be non-trivial (retire only if it is the only page, full
and not full).  `MaxExtend = 1` makes a page grow in two steps.  `MaxTries = 2`
and `MaxVisits = 2` (8 and 3 in the code) reach the limits with the pages
there are.  A-B-A on the abandoned list needs a delayed pop and a pop, pop,
push of others: two segments and five calls (the mutant without the tag
breaks `ImplementsSet` within them).  A region array of two slots
takes new regions while its count is zero (`MI_REGION_MAX - 1`): two threads
fill it in a race, a third one overshoots.  A segment of two blocks and, after
it, ones of one block or half of one are the least that mix commit bits.
`MaxObj` is `MI_REGION_MAX_OBJ_BLOCKS`, a quarter of the bits in the code.  In `segment_pages` a segment goes from one
thread to the other and back, and two segments are needed for the cache, the
free queue and the abandoned list to hold different ones; the three kinds
include one with a queue, one without and one without an owner; the clock
needs one tick beyond the delay.  In `page_queues` one size is in
`pages_free_direct`, one is just above `MI_SMALL_OBJ_SIZE_MAX` and one is huge;
three pages allow a queue with a page before and behind the one that moves;
`LargeMax` limits `ClassTable` to 256 words, beyond which the arithmetic
repeats with a higher bit.  In `os_memory` six pages are the least for an
aligned allocation of two, its larger second try and another allocation
beside it; `HintEnd` is one step above `HintStart`, so the hint wraps; two
slots and three reservations overshoot the array of arenas; a reservation of three
pages at two nodes, with a timeout, can end after any of its pages.  `MaxBase`,
`MaxHuge` and the options `max_fails` and `limit` are bounds: beyond them a call is
not started, or munmap does not fail again.

Deadlock is checked in the runs of all modules but two: a search of `BitScan`
ends, and the calls of `AbandonedList` are bounded, so their runs may stop.

Fairness is weak fairness of the steps of each thread inside a call: the
operating system schedules every thread.  No fairness is assumed of starting a
call.  In `ThreadFree` a compare-and-swap loop is one step, so `CallsReturn`
there is about the waiting loops and retries; in `AbandonedList` the loops are
there and `ListCallsReturn` says that calls return when the calls of other threads
are finitely many (the lists are lock-free, not wait-free).  In `BitScan` only
the searching thread is fair, and `Ends` assumes that the others stop changing
the field.

## Findings

* `page_reuse`: the `memset` in `mi_segment_page_clear` (segment.c:830) is
  commented out while its comment and the assertions of `mi_page_init` still
  say that the page is zero.
* `abandoned_direct`: `_mi_mem_free` of a segment that is not in a region does
  not wait for the readers of the abandoned list, although segment.c:887 says
  that the reader count prevents it.
* `region_relaxed`: the relaxed read of `region->info` (region.c:241) lets two
  threads have the same block; the readme of the repository describes it.

Known limits.  The passing runs keep to the settings under which their
properties hold, and the models state where they rely on one.  Each of the
following was met while choosing them.

Regions (change `AllProcesses` of `MCRegion` to see the first three):

* `Failing` with segments of two blocks: a segment of several blocks whose info
  cannot be committed is freed with the size of one block (segment.c:633), and
  `InUseExact` fails.  With `eager_commit` such a segment is committed before.
* `Resetting` with `eager_commit` off and `reset_decommits` on:
  `mi_region_try_alloc` clears the reset bits of blocks that it does not
  recommit (region.c:346), and `TrueWhenSaid` fails.
* `Resetting` with commits that may fail: `mi_region_try_alloc` does not
  look at the result of `_mi_mem_commit` (region.c:331), and
  `TrueWhenSaid` fails.
* `_mi_mem_collect` leaves `start` set (the `memset` at region.c:512 is
  commented out), so `mi_is_in_heap_region` is true of memory that was unmapped.
* the equation at mimalloc-types.h:182 is off by `|thread_free|`; the code
  keeps `used + |free| + |local_free| = capacity`, which `UsedExact` states.

Segments (`Undisturbed` names what two parts of `NothingLost` leave out):

* a refused commit leaves an empty segment in the free queue, and a large one
  with nobody (segment.c:1262);
* when the last blocks of an abandoned segment are freed between
  `mi_segment_check_free` and `mi_segment_reclaim` on the third visit, the empty
  segment stays in the queue and is left behind at the end of the thread;
* with `eager_commit_delay` above 0 and a segment cache, a cached segment that is
  made one of another kind takes its pages for committed as the option says,
  though it was committed in part (segment.c:667); the instances have one of
  the two;
* `mi_page_unreset` does not look at the result of the commit: the model has it
  succeed;
* `mi_segment_init` does not zero the page info (segment.c:670-678), and init.c:199
  takes the memory of the thread's data for zero though `_mi_os_alloc` is `malloc` (os.c:616):
  the models start from zeroed data.

Page queues: a retired page that a reclaimed page was put in front of leaves the range of
`retired_min` and `retired_max` and is kept until a forced collect (page.c:442).

OS and arenas:

* threads that wrap `aligned_base` around at once add to it twice, so that hints leave their area
  (os.c:473-480); the memory is used where mmap puts it, which `AllocsMapped` covers;
* the bitmaps of an arena are taken for zero (arena.c:307) but are malloc'd: blocks
  whose bit happens to be set are never used, and the properties hold;
* an arena that finds no slot leaves its huge pages to nobody, since the result
  of `mi_arena_add` is not looked at (arena.c:317): they are in `lost`;
* the `break` after a timeout (os.c:1067) skips the `page++` of its loop
  (os.c:1037), so the page that was just mapped and recorded as a success
  (os.c:1052) is not counted: it is in no arena and is never freed.  After the
  first page nothing is counted, the reservation fails, and the page stays
  mapped.  The model does what the code does: such a page goes to `lost`, and
  `HugeCounted` allows no other;
* `_mi_os_free_huge_pages` never advances `base` (os.c:1082-1085), so of several
  pages only the first would be freed: the model does what the code does;
* a huge page at another address is freed with a statistic that was never
  increased (os.c:1047): `reserved` of the model counts normal pages only.

## Theorems

`ThreadFree_proofs` proves, for any threads, pages, blocks and bounds that
satisfy the named assumptions of `ThreadFree`:

* `TypeCorrect`: `Spec => []TypeOK`.  `TypeOK` is inductive.  It is more than
  typing of variables: its part `ThreadType` says at which labels the block,
  page and heap arguments of a call are present, which every action needs when
  it dereferences them.
* `DelayedFreeingIsLock`: `Spec => []OneDelayedFreer`.  The property is
  inductive together with `TypeOK`.  Actions outside `_mi_free_block_mt`
  neither enter nor leave the section between `MtClaim` and `MtReset` and never
  change a flag that is DELAYED_FREEING (lemmas `OutsideKeeps` and
  `SetDelayedKeeps`); `MtClaim` enters when the flag is USE_DELAYED_FREE, so
  nobody else is inside; `MtReset` leaves and resets the flag of its page
  only.

It proves the other invariants of `ThreadFree` under the
hypothesis `~Reuse`: with released pages handed out again, `mi_page_init` finds a
page that is not clean (run `page_reuse`), and the lists of such a page hold
whatever its last owner left.

* `FreedToLiveHeap` (`DelayedHeapAlive`), `NoFreeForgotten` (`NoDelayedPending`),
  `UsedCounts` (`UsedExact`), `FullPageFound` (`FullPageNotLost`),
  `BlocksOwnedOnce` (`BlockOwnedOnce`), all from `BlocksSafe`: `Spec => []Safe`.

None of the properties is inductive.  `Safe` is `TypeOK`, `OneDelayedFreer` and
three parts.  `Homes` says who has a page, which pages a call still works on, and
that a thread that ends has visited all its pages.  `Flags` says that a page
without a heap is NEVER_DELAYED_FREE, that a flag which is DELAYED_FREEING has
its thread, which has read a heap that cannot go before it resets the flag (the
owner waits for it in `NeverDelayed`), and that NO_DELAYED_FREE means a
block on its way.  `Blocks` places every block once: `At(b, k, o)` lists the
kinds of place, `Placed` says that no block has two, and the counts follow from
it.  `SafeStep` has a lemma for every action and part.

The same module proves `AllocatorImplemented`, `Spec => ImplementsAllocator`,
again under `~Reuse`.  The four actions that return a block to `mi_malloc` are
`AMalloc`, two actions start a free and two end one, and every other action keeps
the status of every block; `Safe` gives that a block that is returned was free
and that only one thread frees a block.

`BitScan_proofs` proves for every width of a field (64 in the code, 5 in the
run):

* `FindsFirstFit`: `Spec => []FirstFit`;
* `MaskWhole`: `Spec => []NoOverflow`;
* `ClaimsExactly`: `Spec => ClaimExact`.

The inductive invariant is `TypeOK`, `FirstFit` and `MaskAt`: during the scan
`m` is the mask at `bitidx`, as far as it is in the word.  It is needed because
a jump is only as good as the mask it was computed from.  The lemmas `Bsf`
and `Bsr` say what the bit scans return; `SkipIInv` is the heart: every range
that a jump passes holds the last one bit under the mask.

`Region_proofs` proves for every number of threads, regions and blocks:

* `RegionTypes` (`TypeOK`) and `RegionCountSettles` (`CountSettles`) in every
  setting;
* `RegionBlocksExclusive`, `RegionAllocationMapped` when reads of `info` see what
  was written (`~RelaxedInfo`; with the relaxed reads the first fails, run
  `region_relaxed`);
* `RegionInUseExact` under `~RelaxedInfo` and `FailuresSmall`: a segment whose
  commit may fail has one block (segment.c:633 frees several as one);
* `RegionTrueWhenSaid` under `~RelaxedInfo` and `CommitOptions`: a process
  with `reset_decommits` has `eager_commit`, and one whose commits may fail has
  not.  Without the first, region.c:337 and 346 clear the reset bits of blocks
  that stay decommitted; without the second, region.c:331 passes over a commit
  that failed (both under Known limits, with the processes on which TLC finds it).

The inductive invariant is `Structure`: types, the count of threads that will
take their increment back (`CountExact`), the bits found in a field that are still
free (`Found`), and `Lifecycle`: every region is fresh, about to be shared,
shared or released, and what each thread relies on at its label.  `NoLeak` adds
that every bit in use has an owner, `CommitRecord` relates the commit and reset
bits to the memory, part by part of the record a thread carries, and `DirtyTrue`
says that a block which is not dirty was never handed out.

`Arena_proofs` proves all properties of `os_memory` for every number of threads,
arenas, pages, options and requests, from the `ASSUME`s of the two modules alone:

* `ArenaTypes` (`ArenaTypeOK`), `ArenaBlocksAlone` (`ArenaBlocks`), `HugeRangesDisjoint`
  (`HugeDisjoint`), `ArenaSlotsFilled` (`SlotsFilled`), `ArenaHugeCounted`
  (`HugeCounted`), `OsAllocsMapped` (`AllocsMapped`), `OsDataKept` (`DataKept`), all from `ArenaInvariant`:
  `Spec => []Inv`.

`Inv` has three parts, and a step of one leaves the others alone (`OsQuiet`,
`ArenaQuiet`).  `OsInv`: the arguments of a call fit its
label (`CallFits`), every mapped page has one owner, an allocation, a call under
way or nobody (`Owned`), and what is written, hidden or protected does not meet
the pages an operation on a neighbour rounds to (`DataSafe`); the rounding
lemmas `Aligned`, `AlignedArea` and `DivIs` carry the arithmetic.  `ReserveInv`:
ranges lie below `mi_huge_start` and are apart (`Ranges`), so a page that `Swap`
claims is nobody's; the slots below the count are filled or about to be
(`Slots`), the count exceeds the array by the threads that take it back
(`CountExact`); a huge page is lost, in an arena, or held (`HugeOwned`), and
only one of these (`OnceOwned`), so that two slots never have the same arena; of a
range under way no page is mapped but those counted and, when the loop has
ended, the one before the timeout (`Counted`).
`BlockInv`: bits behind the last block are always set (`Records`), so a run of
free bits is a run of blocks; the bits a call is about to claim are free in the
map it compares with (`Searches`), claimed and handed-out blocks are apart
(`Apart`).  `ArenaIdParts` needs that a slot number fits the 8 bits of an id.

`Segment_proofs` proves all invariants of `Segment` for every number of threads,
segments, kinds and pages:

* `SegmentTypes` (`TypeOK`), `SegmentCounts` (`CountsExact`), `SegmentFreeQueues`
  (`FreeQueueExact`), `SegmentResets` (`ResetQueueOwn`), `SegmentNothingLost`
  (`NothingLost`), with every option;
* `SegmentPagesUsable` (`PageUsable`) under `CommitOptions`: what the OS may refuse
  to commit is not decommitted by a reset (segment.c:255 does not look at the
  result of the commit), and segments that are committed page by page are not
  cached (segment.c:667); both are under Known limits.

The inductive invariant is `FieldsInv`: for every segment its counters, its owner
and what the info of its pages can be (`SegmentFields`); cached segments are empty
and their thread's (`CacheOwn`), those in a queue of their thread and kind
(`QueueOwn`); what the running call has in hand at each step (`Role`), without
which no action that continues a call can be followed; the count of a thread
(`CountOwned`).  Each of four more is inductive together with it.  `QueueExact`
says which queue has a segment at every step of a call; a segment that is being
freed or abandoned is excepted until it is taken out.  `ResetsOwn` adds that
no page of a segment with fixed memory is queued, so that freeing such a segment,
which does not empty the reset queue, leaves no entry behind.  `NotLost`
needs that a search goes on only while the queue of its kind is empty (`Alone`):
the segment it finds is the one the page is taken from.  `MemoryInv` relates
the info of a page to the memory behind it, with the options the info depends on.
Lemmas on one segment (`FieldsSame`, `FieldsClaim`, `FieldsReclaim`, ...) carry the
actions.  `RankIsBijection` and `WithoutIs` say what taking elements out of a queue
leaves; for them `Without` is defined by the ranks of the elements that stay.

`PageQueue_proofs` proves all invariants of `PageQueue` for every set of pages and
sizes, from the `ASSUME`s of the module alone:

* `PageQueueTypes` (`TypeOK`), `DirectEntriesExact` (`DirectExact`),
  `PageQueuesExact` (`QueuesExact`), `ClassesFit` (`ClassFits`), all from `PageQueueInvariant`: `Spec => []Inv`.

`ClassAssumption` says that the largest small and the largest large size fill their
classes; they are 128 and 262144 words in the code, entries of the table.
Without it the array of first pages would have entries of a class whose size is
above `SmallMax`, which `mi_heap_queue_first_update` does not update.  Three layers
carry the proof.  *Classes*: above 8 words a class is a quarter of the distance
between two powers of two, so `Bin` is the inverse of the table (`BinHolds`, `BinOf`),
`ClassTable` follows for all sizes up to the largest (`TableHolds`), and the
entries that `Start` and `BinSize` delimit are those of the sizes of one class
(`StartIs`).  *Queues*: what taking out, pushing and appending leave
(`WithoutIs`, `PushedIs`, `AppendedIs`), and that each function of page-queue.c
leaves the array exact (`RemoveIs`, `PushIs`, `EnqueueIs`); `Without` is defined by
the place of the page, as unlinking works, so that these need no induction.
*Steps*: `HeapInv` puts every page of the heap once into the queue its flag and size
say; `PageInv` has a page's size from the classes and its `used` count from the
program's, the remote and the delayed blocks, so that a page with `used` 0 has no
delayed block left; `Role` has that the delayed blocks are freed before a
collection visits the pages and that the pages still in the heap are still to be
visited when a thread ends, which is why the reset of the heap loses none.

`AbandonedList_proofs` proves for every finite set of threads and segments:

* `AbandonedTypes` (`TypeOK`), `AbandonedListsIntact` (`ListsIntact`), `PopsExcused`
  (`PopNullExcused`) and `ListsImplementSet` (`ImplementsSet`), with or without
  direct segments;
* `PopReadsMapped` (`NoReadOfReset`) if no segment is direct, the case the code
  handles; with one it is false (run `abandoned_direct`).

`ThreadAssumption` asks for finitely many threads because `abandoned_readers`
counts them; `TagAssumption`, for more tags than updates of the list: the theorems
say nothing of a pop that sleeps through 2^22 updates.

What is on a linked list is usually defined by recursion along the links, and facts
about it need induction.  `Reach` of `Chains` is the least set that holds the first
element and is closed under the links.  Whatever contains the first element and is
closed then contains the list (`ReachLeast`), and this replaces the induction: a
list is its first element and the list of the rest (`ReachStep`), it does not
change with other links (`ReachSame`), it does not come back to its first element
if it ends (`NoCycle`), it has one end (`OneEnd`), and linking the end to a list
appends that (`ReachAppend`).

The inductive invariant has every segment in one place (`OnePlace`), lists that end
(`ListsEnd`), what a call has read and linked at each label (`Locals`), and what
the tag and the reader count are good for.  `TagBound` counts the updates that were made and
those that calls under way may still make; so the tag grows with every update, and a
pop whose compare-and-swap succeeds has read the link of the segment that is first
now, although the segment may have left and come back in between.  `Readers`
counts the pops that may read a link, and a segment is reset only when there is
none.  Every step is a move (`Moves`): one segment, a list that is grabbed or put
back, or nothing; the refinement follows from that.

`BlockList_proofs` proves for every set of threads and every finite set of blocks:

* `BlockTypes` (`TypeOK`), `BlockListsWhole` (`BlockListsIntact`) and
  `SetsImplemented` (`ImplementsSets`).

The lemmas on chains are the same.  A list of blocks needs no tag.  A push links to
the value it compares, and it does not matter whether the list changed in between
and came back: the link is the first block now.  Only the owner takes blocks off
a shared list, and it takes all of them.  So the invariant needs only that nobody else writes the
link of a block in a thread's hands (`LinkKept`); `OnePlace` gives that, because a
step writes links only of a block that its thread or the program has, or at the
end of the list that the owner has taken.  `Lock` has that
DELAYED_FREEING belongs to one thread, without which the push on the heap's list
would not be a step of `BlockSets`; `OwnerHolds` has that the owner takes a list only after it
has used up the one it took before; `Counted`, that the walk which appends a list
counts exactly its blocks, so that the number it compares with the capacity
(page.c:178) never exceeds it.

Only model-checked: liveness under fairness, `CallsReturn` of `ThreadFree`,
`ListCallsReturn` of `AbandonedList` and `Ends` of `BitScan`, since the prover has
no rules for ENABLED.
That the invariants can fail at all is the business of the mutants in PROJECT.json.

## Plan

Every safety property and every refinement that a passing run checks has its theorem.
What is left is modelling: secondary heaps once `mi_heap_new` initialises their
queues, realloc and aligned allocation.

## Not modelled

* Secondary heaps (`mi_heap_new`, delete, destroy, absorb): `mi_heap_new` returns a
  heap whose queues are not initialised, since the copy of `_mi_heap_empty` is
  commented out (heap.c:211); `_mi_page_queue_append` is called for them only.
* Windows and WebAssembly in os.c, the choice between 1GiB and 2MiB pages,
  mbind and the detection of NUMA nodes: system calls without state here.
* Parsing of options, output of messages, statistics but for the one that
  `AllocsMapped` uses, random numbers: no protocol, and no property is about
  their values.
* Aligned, POSIX and C++ entry points and realloc: they call malloc and free with other
  sizes; block contents, padding and double-free detection, which need them.
* Loading and ending the process, the hooks that call `mi_thread_done`.
* Memory orders weaker than sequential consistency, but for the read of
  `region->info`.
