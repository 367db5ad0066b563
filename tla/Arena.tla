------------------------------- MODULE Arena -------------------------------
(***************************************************************************)
(* Arenas (arena.c): memory in huge OS pages that is reserved up front and *)
(* handed out in blocks, and the huge pages themselves (os.c).  What does  *)
(* not fit an arena comes from the OS (module OsMemory).                   *)
(*                                                                         *)
(* Huge pages have an address area of their own, numbered from 1.  An      *)
(* arena is identified with its record in arena, one for each reservation. *)
(* The only arenas are those of huge pages, which are committed and large. *)
(***************************************************************************)
EXTENDS OsMemory, Sequences

CONSTANTS
  BlockSize,      \* MI_ARENA_BLOCK_SIZE, in units
  FieldBits,      \* MI_BITMAP_FIELD_BITS
  HugeBlocks,     \* blocks of a huge page
  MaxArenas,      \* MI_MAX_ARENAS
  MaxHuge,        \* bound: huge pages of the address area
  NumaCount,      \* _mi_os_numa_node_count
  Options         \* the processes, see Option

\* what the program asks for: memory, and huge pages (at one node if nodes is 0)
\* with a timeout or without one
Request == [req : Nat \ {0}, align : Nat \ {0}, commit : BOOLEAN, large : BOOLEAN, node : Nat]
Reservation == [pages : Nat, node : Int, nodes : Nat, timed : BOOLEAN]

\* A process: the options, the threads that run and what they ask for.
\* Bounds: the number of allocations and of failures, whether areas of the memory
\* are committed and reset, and what memory from malloc may hold.
Option == [large_os_pages : BOOLEAN, reset_decommits : BOOLEAN, threads : SUBSET Thread,
           requests : SUBSET Request, reserve : SUBSET Reservation, limit : Nat, max_fails : Nat,
           areas : BOOLEAN, garbage : SUBSET (SUBSET Nat)]

ASSUME ArenaAssumption ==
  /\ BlockSize \in Nat \ {0} /\ FieldBits \in Nat \ {0} /\ HugeBlocks \in Nat \ {0}
  /\ MaxArenas \in 1 .. 254     \* arena.c:87
  /\ MaxHuge \in Nat /\ NumaCount \in Nat \ {0}
ASSUME ThreadAssumption == IsFiniteSet(Thread)     \* of Room and of ArenaTypeOK
ASSUME OptionAssumption == Options \subseteq Option

VARIABLES
  mi_huge_start,            \* the first address that is not claimed (0: none yet)
  huge, lost,               \* huge pages that are mapped, those among them nobody will use
  mi_arenas, mi_arena_count,
  arena,                    \* the arenas that were made
  acall,                    \* the call of each thread
  ablocks,                  \* the program's memory in arenas
  touched                   \* blocks that were written to

avars == <<mi_huge_start, huge, lost, mi_arenas, mi_arena_count, arena, acall, ablocks, touched>>
vars == <<osvars, avars>>

NULL == 0
NoArenaCall == [pc |-> "idle", req |-> 0, align |-> 1, commit |-> FALSE, large |-> FALSE, node |-> 0,
                remote |-> FALSE, i |-> 0, visited |-> 0, field |-> 0, map |-> {}, bit |-> 0,
                todo |-> <<>>, start |-> 0, page |-> 0, a |-> 0]

Bits == 0 .. FieldBits - 1
Record == [start : Nat \ {0}, pages : Nat \ {0}, blocks : Nat, fields : Nat \ {0}, node : Int,
           search_idx : Nat, inuse : SUBSET Nat, dirty : SUBSET Nat]
Todo == [pages : Nat \ {0}, node : Int, timed : BOOLEAN]
ArenaCall ==
  [pc : {"idle", "claim", "swap", "page", "build", "add", "undo", "slot", "look", "read", "cas",
         "search", "dirty"},
   req : Nat, align : Nat \ {0}, commit : BOOLEAN, large : BOOLEAN, node : Nat, remote : BOOLEAN,
   i : Nat, visited : Nat, field : Nat, map : SUBSET Bits, bit : Nat,
   todo : Seq(Todo), start : Nat, page : Nat, a : Nat]

ArenaTypeOK ==
  /\ option \in Options /\ OsTypeOK
  /\ mi_huge_start \in Nat /\ huge \subseteq Nat \ {0} /\ lost \subseteq huge
  /\ mi_arena_count \in 0 .. MaxArenas + Cardinality(Thread)
  /\ mi_arenas \in [1 .. MaxArenas -> 0 .. Len(arena)]
  /\ arena \in Seq(Record)
  /\ \A a \in 1 .. Len(arena) :
       arena[a].search_idx \in 0 .. arena[a].fields - 1
         /\ arena[a].inuse \cup arena[a].dirty \subseteq 0 .. arena[a].fields * FieldBits - 1
  /\ acall \in [Thread -> ArenaCall]
  /\ ablocks \subseteq [memid : Nat, a : Nat, req : Nat \ {0}, is_zero : BOOLEAN, fresh : BOOLEAN]
  /\ touched \subseteq Nat \X Nat

Init ==
  /\ option \in Options /\ OsInit
  /\ mi_huge_start = 0 /\ huge = {} /\ lost = {}
  /\ mi_arenas = [i \in 1 .. MaxArenas |-> NULL] /\ mi_arena_count = 0
  /\ arena = <<>> /\ acall = [t \in Thread |-> NoArenaCall] /\ ablocks = {} /\ touched = {}

Idle(t) == acall[t].pc = "idle" /\ call[t].pc = "idle"
BlockCount(req) == AlignUp(req, BlockSize) \div BlockSize      \* mi_block_count_of_size

\* mi_arena_id_create of the slot i and the block, and the two parts of such an id
ArenaId(i, block) == block * 256 + ((i + 1) % 256)
SlotOf(memid) == (memid % 256) - 1
BlockOf(memid) == memid \div 256

-----------------------------------------------------------------------------
(* Reserving huge pages *)

\* bound: is there room for n more pages?
Room(n) ==
  mi_huge_start + n + Cardinality({x \in Thread \X (1 .. MaxHuge) \X (1 .. MaxHuge) :
    x[2] <= Len(acall[x[1]].todo) /\ x[3] <= acall[x[1]].todo[x[2]].pages})
      <= MaxHuge + 1

\* mi_reserve_huge_os_pages_at: a list of one reservation, a node of -1 being any
\* node.  timed: is timeout_msecs above 0?
ReserveAt(t, pages, node, timed) ==
  /\ Idle(t) /\ Room(pages)
  /\ IF pages = 0 THEN UNCHANGED acall
     ELSE acall' = [acall EXCEPT ![t] = [NoArenaCall EXCEPT !.pc = "claim",
            !.todo = <<[pages |-> pages, node |-> IF node >= 0 THEN node % NumaCount ELSE -1,
                        timed |-> timed]>>]]
  /\ UNCHANGED <<osvars, mi_huge_start, huge, lost, mi_arenas, mi_arena_count, arena, ablocks, touched>>

\* mi_reserve_huge_os_pages_interleave: the pages of each node, until there are no
\* pages left
NodePages(pages, nodes, k) == pages \div nodes + (IF k < pages % nodes THEN 1 ELSE 0)
Interleave(t, pages, nodes, timed) ==
  /\ Idle(t) /\ Room(pages)
  /\ IF pages = 0 THEN UNCHANGED acall
     ELSE acall' = [acall EXCEPT ![t] = [NoArenaCall EXCEPT !.pc = "claim",
            !.todo = [k \in 1 .. (IF pages < nodes THEN pages ELSE nodes) |->
              [pages |-> NodePages(pages, nodes, k - 1), node |-> (k - 1) % NumaCount,
               timed |-> timed]]]]
  /\ UNCHANGED <<osvars, mi_huge_start, huge, lost, mi_arenas, mi_arena_count, arena, ablocks, touched>>

\* mi_os_claim_huge_pages: read the start, and swap in the end of the range
Claim(t) ==
  /\ acall[t].pc = "claim"
  /\ acall' = [acall EXCEPT ![t].pc = "swap", ![t].start = mi_huge_start]
  /\ UNCHANGED <<osvars, mi_huge_start, huge, lost, mi_arenas, mi_arena_count, arena, ablocks, touched>>

\* Mutant: the end is written without comparing
SwappedBlind(t) == TRUE

Swapped(t) == mi_huge_start = acall[t].start
Swap(t) ==
  LET c == acall[t]
      start == IF c.start = 0 THEN 1 ELSE c.start
  IN
  /\ c.pc = "swap"
  /\ IF Swapped(t)
       THEN /\ mi_huge_start' = start + c.todo[1].pages
            /\ acall' = [acall EXCEPT ![t].pc = "page", ![t].start = start, ![t].page = 0]
       ELSE acall' = [acall EXCEPT ![t].pc = "claim"] /\ UNCHANGED mi_huge_start
  /\ UNCHANGED <<osvars, huge, lost, mi_arenas, mi_arena_count, arena, ablocks, touched>>

\* Mutant: the page that was not mapped is counted
LeaveCounting(c) == [c EXCEPT !.page = @ + 1, !.pc = "build"]

\* a break in _mi_os_alloc_huge_os_pages: the pages are those counted until then
Leave(c) == IF c.page = 0 THEN NoArenaCall ELSE [c EXCEPT !.pc = "build"]

\* _mi_os_alloc_huge_os_pages: one page at a time.  The loop is left when there is
\* no page or the page is elsewhere (it is freed at once).  A timeout leaves it
\* before the page that was just mapped is counted: nobody will use that page.
HugePage(t) ==
  LET c == acall[t]
      addr == c.start + c.page
      mapped == addr \notin huge /\ huge' = huge \cup {addr}
  IN
  /\ c.pc = "page"
  /\ \/ /\ mapped /\ UNCHANGED lost
        /\ acall' = [acall EXCEPT ![t].page = @ + 1,
                                  ![t].pc = IF c.page + 1 = c.todo[1].pages THEN "build" ELSE "page"]
     \/ /\ mapped /\ c.todo[1].timed
        /\ lost' = lost \cup {addr}
        /\ acall' = [acall EXCEPT ![t] = Leave(c)]
     \/ /\ acall' = [acall EXCEPT ![t] = Leave(c)]
        /\ UNCHANGED <<huge, lost>>
  /\ UNCHANGED <<osvars, mi_huge_start, mi_arenas, mi_arena_count, arena, ablocks, touched>>

\* _mi_os_free_huge_pages: the address does not advance, so the first page is
\* freed each time and the others stay
FreeHugePages(t) ==
  LET R == Run(acall[t].start, acall[t].page) IN
  huge' = huge \ {acall[t].start} /\ lost' = lost \cup (R \ {acall[t].start})

\* the bits of the last field that are no blocks
Leftover(blocks, fields) == blocks .. fields * FieldBits - 1

\* the arena is made, unless there is no memory for it.  Its bitmaps start with
\* what the memory holds: _mi_os_alloc is malloc, which does not clear it.
\* bound: the contents of such memory are those in option.garbage.
Build(t) ==
  LET c == acall[t]
      blocks == c.page * HugeBlocks
      fields == (blocks + FieldBits - 1) \div FieldBits
  IN
  /\ c.pc = "build"
  /\ \/ /\ \E inuse, dirty \in option.garbage :
             arena' = Append(arena, [start |-> c.start, pages |-> c.page, blocks |-> blocks,
               fields |-> fields, node |-> c.todo[1].node, search_idx |-> 0,
               inuse |-> Leftover(blocks, fields) \cup (inuse \cap 0 .. blocks - 1),
               dirty |-> dirty \cap 0 .. blocks - 1])
        /\ acall' = [acall EXCEPT ![t].pc = "add", ![t].a = Len(arena) + 1]
        /\ UNCHANGED <<huge, lost>>
     \/ /\ FreeHugePages(t)
        /\ acall' = [acall EXCEPT ![t] = NoArenaCall]
        /\ UNCHANGED arena
  /\ UNCHANGED <<osvars, mi_huge_start, mi_arenas, mi_arena_count, ablocks, touched>>

\* mi_arena_add: take a slot; past the end the count is taken back, and the
\* arena is not used (the result is ignored)
Add(t) ==
  /\ acall[t].pc = "add"
  /\ mi_arena_count' = mi_arena_count + 1
  /\ acall' = [acall EXCEPT ![t].i = mi_arena_count,
                            ![t].pc = IF mi_arena_count >= MaxArenas THEN "undo" ELSE "slot"]
  /\ UNCHANGED <<osvars, mi_huge_start, huge, lost, mi_arenas, arena, ablocks, touched>>

\* the next reservation of an interleaved one
Reserved(t) == [acall EXCEPT ![t] = IF Len(@.todo) = 1 THEN NoArenaCall
                                    ELSE [NoArenaCall EXCEPT !.pc = "claim", !.todo = Tail(acall[t].todo)]]
\* Mutant: the count is not taken back
UndoNone(t) == UNCHANGED mi_arena_count

Undone(t) == mi_arena_count' = mi_arena_count - 1
Undo(t) ==
  /\ acall[t].pc = "undo"
  /\ Undone(t)
  /\ lost' = lost \cup Run(acall[t].start, acall[t].page)
  /\ acall' = Reserved(t)
  /\ UNCHANGED <<osvars, mi_huge_start, huge, mi_arenas, arena, ablocks, touched>>
Slot(t) ==
  /\ acall[t].pc = "slot"
  /\ mi_arenas' = [mi_arenas EXCEPT ![acall[t].i + 1] = acall[t].a]
  /\ acall' = Reserved(t)
  /\ UNCHANGED <<osvars, mi_huge_start, huge, lost, mi_arena_count, arena, ablocks, touched>>

-----------------------------------------------------------------------------
(* Allocating *)

\* _mi_arena_alloc_aligned.  Sizes that are too small or too large, and large
\* alignments, go to the OS.
Alloc(t, req, align, commit, large, node) ==
  /\ Idle(t)
  /\ IF align <= SegmentSize /\ req <= FieldBits * BlockSize /\ 2 * req >= BlockSize
       THEN /\ acall' = [acall EXCEPT ![t] = [NoArenaCall EXCEPT !.pc = "look", !.req = req,
                 !.align = align, !.commit = commit, !.large = large, !.node = node]]
            /\ UNCHANGED call
       ELSE OsAlloc(t, req, align, commit, large) /\ UNCHANGED acall
  /\ UNCHANGED <<option, prot, content, aligned_base, large_page_try_ok, reserved, allocs, written,
       hidden, leaked, fails, mi_huge_start, huge, lost, mi_arenas, mi_arena_count, arena, ablocks, touched>>

\* is arena a tried in this pass: first the arenas of the node, then the others
Suitable(c, a) ==
  c.large /\ IF c.remote THEN a.node >= 0 /\ a.node # c.node ELSE a.node < 0 \/ a.node = c.node

\* the next slot; the first empty one is the end of the pass
Look(t) ==
  LET c == acall[t]
      end == c.i = MaxArenas \/ mi_arenas[c.i + 1] = NULL
  IN
  /\ c.pc = "look"
  /\ IF ~end
       THEN /\ acall' = [acall EXCEPT ![t] =
                 IF Suitable(c, arena[mi_arenas[c.i + 1]])
                   THEN [c EXCEPT !.pc = "read", !.a = mi_arenas[c.i + 1], !.visited = 0,
                                  !.field = arena[mi_arenas[c.i + 1]].search_idx]
                   ELSE [c EXCEPT !.i = @ + 1]]
            /\ UNCHANGED call
     ELSE IF ~c.remote
       THEN acall' = [acall EXCEPT ![t].remote = TRUE, ![t].i = 0] /\ UNCHANGED call
     ELSE acall' = [acall EXCEPT ![t] = NoArenaCall] /\ OsAlloc(t, c.req, c.align, c.commit, c.large)
  /\ UNCHANGED <<option, prot, content, aligned_base, large_page_try_ok, reserved, allocs, written,
       hidden, leaked, fails, mi_huge_start, huge, lost, mi_arenas, mi_arena_count, arena, ablocks, touched>>

FieldMap(a, f) == {b \in Bits : f * FieldBits + b \in a.inuse}
Mask(b, n) == b .. b + n - 1
\* the first place for n bits in map from bit b on, FieldBits if there is none
FirstFit(map, n, b) ==
  LET F == {x \in b .. FieldBits - n : Mask(x, n) \cap map = {}}
  IN  IF F = {} THEN FieldBits ELSE CHOOSE x \in F : \A y \in F : x <= y

\* mi_bitmap_try_find_claim_field, the search for zero bits in the field as read
\* (module BitScan); no place in the field: mi_arena_alloc goes to the next
\* field, after the last one _mi_arena_alloc_aligned to the next arena
Scan(t, from) ==
  LET c == acall[t]
      a == arena[c.a]
      map == FieldMap(a, c.field)
      b == FirstFit(map, BlockCount(c.req), from)
  IN
  acall' = [acall EXCEPT ![t] =
    IF b < FieldBits THEN [c EXCEPT !.pc = "cas", !.map = map, !.bit = b]
    ELSE IF c.visited + 1 < a.fields
      THEN [c EXCEPT !.pc = "read", !.visited = @ + 1, !.field = (@ + 1) % a.fields]
    ELSE [c EXCEPT !.pc = "look", !.i = @ + 1]]

ReadField(t) ==
  /\ acall[t].pc = "read"
  /\ Scan(t, 0)
  /\ UNCHANGED <<osvars, mi_huge_start, huge, lost, mi_arenas, mi_arena_count, arena, ablocks, touched>>

\* Mutant: the map as it was read is written without comparing
SameMapBlind(t) == TRUE

\* has the field not changed since it was read?
SameMap(t) == FieldMap(arena[acall[t].a], acall[t].field) = acall[t].map

\* the compare-and-swap; when it fails the search goes on from the same bit
ClaimBits(t) ==
  LET c == acall[t]
      first == c.field * FieldBits + c.bit
  IN
  /\ c.pc = "cas"
  /\ IF SameMap(t)
       THEN /\ arena' = [arena EXCEPT ![c.a].inuse = @ \cup Run(first, BlockCount(c.req))]
            /\ acall' = [acall EXCEPT ![t].pc = "search", ![t].bit = first]
       ELSE Scan(t, c.bit) /\ UNCHANGED arena
  /\ UNCHANGED <<osvars, mi_huge_start, huge, lost, mi_arenas, mi_arena_count, ablocks, touched>>

\* the next search starts in this field
SearchIdx(t) ==
  /\ acall[t].pc = "search"
  /\ arena' = [arena EXCEPT ![acall[t].a].search_idx = acall[t].field]
  /\ acall' = [acall EXCEPT ![t].pc = "dirty"]
  /\ UNCHANGED <<osvars, mi_huge_start, huge, lost, mi_arenas, mi_arena_count, ablocks, touched>>

\* is_zero: no block was dirty before
IsZero(c, R) == R \cap arena[c.a].dirty = {}

\* the dirty bits are set; the memory is the program's, which writes to it
Dirty(t) ==
  LET c == acall[t]
      R == Run(c.bit, BlockCount(c.req))
  IN
  /\ c.pc = "dirty"
  /\ arena' = [arena EXCEPT ![c.a].dirty = @ \cup R]
  /\ ablocks' = ablocks \cup {[memid |-> ArenaId(c.i, c.bit), a |-> c.a, req |-> c.req, is_zero |-> IsZero(c, R),
                               fresh |-> \A b \in R : <<c.a, b>> \notin touched]}
  /\ touched' = touched \cup {<<c.a, b>> : b \in R}
  /\ acall' = [acall EXCEPT ![t] = NoArenaCall]
  /\ UNCHANGED <<osvars, mi_huge_start, huge, lost, mi_arenas, mi_arena_count>>

\* _mi_arena_free: the arena is found with the id of the memory
Free(m) ==
  LET a == mi_arenas[SlotOf(m.memid) + 1] IN
  /\ m \in ablocks
  /\ arena' = [arena EXCEPT ![a].inuse = @ \ Run(BlockOf(m.memid), BlockCount(m.req))]
  /\ ablocks' = ablocks \ {m}
  /\ UNCHANGED <<osvars, mi_huge_start, huge, lost, mi_arenas, mi_arena_count, acall, touched>>

-----------------------------------------------------------------------------
ArenaStep(t) ==
  \/ Claim(t) \/ Swap(t) \/ HugePage(t) \/ Build(t) \/ Add(t) \/ Undo(t) \/ Slot(t)
  \/ Look(t) \/ ReadField(t) \/ ClaimBits(t) \/ SearchIdx(t) \/ Dirty(t)

\* the process: option.threads run, with the requests and the reservations of option
Next ==
  \/ \E t \in option.threads :
       \/ \E r \in option.requests : Alloc(t, r.req, r.align, r.commit, r.large, r.node)
       \/ \E r \in option.reserve :
            IF r.nodes = 0 THEN ReserveAt(t, r.pages, r.node, r.timed)
                           ELSE Interleave(t, r.pages, r.nodes, r.timed)
       \/ ArenaStep(t)
       \/ OsStep(t) /\ UNCHANGED avars
  \/ OsUse /\ UNCHANGED avars
  \/ \E m \in ablocks : Free(m)

Spec == Init /\ [][Next]_vars

-----------------------------------------------------------------------------
(* Properties *)

BlocksOf(m) == {<<m.a, b>> : b \in Run(BlockOf(m.memid), BlockCount(m.req))}

\* Memory in an arena has its blocks alone, they lie in the arena, in huge pages
\* that are mapped, and the memory id leads back to them (arena.c:105-118, 289-315,
\* bitmap.inc.c:129-178).  Memory that is said to be zero was never written to
\* (arena.c:134).
ArenaBlocks ==
  \A m \in ablocks :
    /\ mi_arenas[SlotOf(m.memid) + 1] = m.a
    /\ BlocksOf(m) \subseteq {<<m.a, b>> : b \in 0 .. arena[m.a].blocks - 1}
    /\ Run(arena[m.a].start, arena[m.a].pages) \subseteq huge
    /\ Run(BlockOf(m.memid), BlockCount(m.req)) \subseteq arena[m.a].inuse
    /\ \A n \in ablocks \ {m} : BlocksOf(m) \cap BlocksOf(n) = {}
    /\ m.is_zero => m.fresh

\* The address ranges of reservations never overlap, those under way included,
\* so no thread meets pages of another one in its range (os.c:992-1015).
HugeDisjoint ==
  LET range(t) == IF acall[t].pc \in {"page", "build"} THEN Run(acall[t].start, acall[t].todo[1].pages) ELSE {}
      pages(a) == Run(arena[a].start, arena[a].pages)
  IN
  /\ \A t \in Thread, u \in Thread : t # u => range(t) \cap range(u) = {}
  /\ \A a \in 1 .. Len(arena) :
       /\ \A t \in Thread : range(t) \cap pages(a) = {}
       /\ \A b \in 1 .. a - 1 : pages(a) \cap pages(b) = {}

\* When no reservation is under way the slots below mi_arena_count are the ones
\* in use, each by an arena of its own, so the loops that stop at the first empty
\* slot see every arena (arena.c:255-267).
SlotsFilled ==
  (\A t \in Thread : acall[t].todo = <<>>) =>
    /\ mi_arena_count <= MaxArenas
    /\ \A i \in 1 .. MaxArenas : mi_arenas[i] # NULL <=> i <= mi_arena_count
    /\ \A i, j \in 1 .. mi_arena_count : i # j => mi_arenas[i] # mi_arenas[j]

\* However the loop over huge pages ends, the pages that are counted for the arena
\* are mapped, and no other page of the range is but, after a timeout, the one
\* that was not counted (os.c:1037-1074).  When no reservation is under way, what
\* is mapped is in the arena of a slot or was given up, never both: by a timeout,
\* for want of memory for the arena (arena.c:295) or for want of a slot
\* (arena.c:262).
HugeCounted ==
  /\ \A t \in Thread :
       LET c == acall[t]
           counted == Run(c.start, c.page)
       IN  c.pc = "build" =>
             /\ counted \subseteq huge
             /\ \A x \in huge \cap Run(c.start, c.todo[1].pages) :
                  x \in counted \/ (c.todo[1].timed /\ x = c.start + c.page)
  /\ (\A t \in Thread : acall[t].todo = <<>>) =>
       huge \ lost = UNION {Run(arena[mi_arenas[i]].start, arena[mi_arenas[i]].pages) :
                               i \in {j \in 1 .. MaxArenas : mi_arenas[j] # NULL}}

=============================================================================
