------------------------------ MODULE OsMemory ------------------------------
(***************************************************************************)
(* Memory from the operating system (os.c, the build that uses mmap):      *)
(* aligned allocation with a hint or by allocating too much and unmapping  *)
(* around it, large OS pages, and commit, decommit, reset and protect of   *)
(* areas that are not aligned to OS pages.                                 *)
(*                                                                         *)
(* The address space is PageCount OS pages of PageSize units each; page 0  *)
(* is NULL.  Areas are counted in units, mappings in OS pages.  A system   *)
(* call is one step, the steps between the calls of a function interleave  *)
(* with other threads.  The allocations are made by module Arena.          *)
(***************************************************************************)
EXTENDS Integers, FiniteSets

CONSTANTS
  Thread,
  PageCount, PageSize,   \* OS pages of the address space, units of a page
  SegmentSize,           \* MI_SEGMENT_SIZE, in pages
  LargePage,             \* large_os_page_size, in pages
  GoodLimit, GoodAlign,  \* sizes of GoodLimit pages or more are rounded to GoodAlign pages
  HintStart, HintEnd,    \* the area for aligned allocation (4TiB to 30TiB)
  MaxBase,               \* bound: aligned_base for calls at the same time
  LargeTry               \* calls without large pages after a failure

ASSUME SpaceAssumption ==
  /\ PageCount \in Nat \ {0} /\ PageSize \in Nat \ {0}
  /\ SegmentSize \in Nat \ {0} /\ LargePage \in Nat \ {0}
  /\ GoodLimit \in Nat /\ GoodAlign \in Nat \ {0}
ASSUME HintAssumption ==
  /\ HintStart \in Nat \ {0} /\ HintStart % SegmentSize = 0
  /\ HintEnd \in Nat /\ HintEnd > HintStart /\ MaxBase \in Nat
ASSUME CountAssumption == LargeTry \in Nat \ {0}

VARIABLES
  option,              \* the options of the process, and how it uses the memory
  prot,                \* each OS page: not mapped, no access, or read and write
  content,             \* units that hold what the program wrote
  aligned_base, large_page_try_ok,
  reserved,            \* the statistic stats.reserved, in pages
  call,                \* the call of each thread
  allocs,              \* the program's memory
  written,             \* units the program wrote and still needs
  hidden,              \* areas the program reset or protected
  leaked, fails        \* pages whose munmap failed, failures so far

osvars == <<option, prot, content, aligned_base, large_page_try_ok, reserved, call,
            allocs, written, hidden, leaked, fails>>

Pages == 1 .. PageCount
Run(p, n) == p .. p + n - 1                        \* n pages from p
Units(p, n) == p * PageSize .. (p + n) * PageSize - 1
AlignUp(x, a) == ((x + a - 1) \div a) * a          \* _mi_align_up
AlignDown(x, a) == (x \div a) * a

\* _mi_os_good_alloc_size: units in, pages out
GoodAllocSize(size) ==
  LET n == AlignUp(size, PageSize) \div PageSize
  IN  IF n < GoodLimit THEN n ELSE AlignUp(n, GoodAlign)

\* use_large_os_page
UseLarge(size, align) ==
  option.large_os_pages /\ size % LargePage = 0 /\ align % LargePage = 0

NoOsCall == [pc |-> "idle", req |-> 0, size |-> 0, align |-> 1, commit |-> FALSE,
             allow |-> FALSE, is_large |-> FALSE, kind |-> "plain", over |-> FALSE, hint |-> 0,
             try_ok |-> 0, p |-> 0]

OsCall ==
  [pc : {"idle", "start", "less", "hint", "wrap", "again", "map", "unmap", "pre", "post"},
   req : Nat, size : Nat, align : Nat \ {0}, commit : BOOLEAN, allow : BOOLEAN, is_large : BOOLEAN,
   kind : {"plain", "large"}, over : BOOLEAN, hint : Nat, try_ok : 0 .. LargeTry, p : Nat]

OsTypeOK ==
  /\ prot \in [Pages -> {"unmapped", "none", "rw"}]
  /\ content \subseteq Units(1, PageCount) /\ written \subseteq Units(1, PageCount)
  /\ aligned_base \in Nat
  /\ large_page_try_ok \in 0 .. LargeTry
  /\ reserved \in Nat /\ fails \in 0 .. option.max_fails /\ leaked \subseteq Pages
  /\ call \in [Thread -> OsCall]
  /\ allocs \subseteq [addr : Nat, req : Nat \ {0}, align : Nat \ {0}, large : BOOLEAN]
  /\ hidden \subseteq [lo : Nat, n : Nat \ {0}, how : {"reset", "protect"}]

OsInit ==
  /\ prot = [p \in Pages |-> "unmapped"] /\ content = {} /\ written = {}
  /\ aligned_base = 0 /\ large_page_try_ok = 0 /\ reserved = 0
  /\ call = [t \in Thread |-> NoOsCall]
  /\ allocs = {} /\ hidden = {} /\ leaked = {} /\ fails = 0

Unmapped(R) == R \subseteq Pages /\ \A p \in R : prot[p] = "unmapped"

-----------------------------------------------------------------------------
(* Allocation *)

\* _mi_os_alloc_aligned: req units at an alignment of align pages.  Memory that
\* is not committed is never in large pages.  (Above MaxBase one call at a time:
\* two that hinder each other can push aligned_base up without end.  The
\* program has at most option.limit allocations.)
OsAlloc(t, req, align, commit, large) ==
  /\ call[t].pc = "idle"
  /\ Cardinality(allocs) + Cardinality({u \in Thread : call[u].pc # "idle"}) < option.limit
  /\ aligned_base <= MaxBase \/ \A u \in Thread \ {t} : call[u].pc = "idle"
  /\ call' = [call EXCEPT ![t] = [NoOsCall EXCEPT !.pc = "start", !.req = req,
       !.size = GoodAllocSize(req), !.align = align, !.commit = commit, !.allow = large /\ commit]]

\* mi_unix_mmap begins.  After a failure large pages are not tried for a while.
Start(t) ==
  LET c == call[t] IN
  /\ c.pc = "start"
  /\ call' = [call EXCEPT ![t] =
       IF ~(c.allow /\ UseLarge(c.size, c.align)) THEN [c EXCEPT !.pc = "hint", !.kind = "plain"]
       ELSE IF large_page_try_ok > 0 THEN [c EXCEPT !.pc = "less", !.try_ok = large_page_try_ok]
       ELSE [c EXCEPT !.pc = "hint", !.kind = "large"]]
  /\ UNCHANGED <<option, prot, content, aligned_base, large_page_try_ok, reserved, allocs,
                 written, hidden, leaked, fails>>

\* Mutant: the counter is decremented whatever it is by now
TryLessBlind(t) == large_page_try_ok' = large_page_try_ok - 1

\* the weak compare-and-swap of the counter
TryLess(t) ==
  \/ large_page_try_ok = call[t].try_ok /\ large_page_try_ok' = call[t].try_ok - 1
  \/ UNCHANGED large_page_try_ok

Less(t) ==
  /\ call[t].pc = "less"
  /\ TryLess(t)
  /\ call' = [call EXCEPT ![t].pc = "hint", ![t].kind = "plain"]
  /\ UNCHANGED <<option, prot, content, aligned_base, reserved, allocs, written, hidden, leaked, fails>>

\* mi_os_get_aligned_hint
Hint(t) ==
  LET c == call[t] IN
  /\ c.pc = "hint"
  /\ IF c.align > SegmentSize \/ c.size % SegmentSize # 0
       THEN /\ call' = [call EXCEPT ![t].pc = "map", ![t].hint = 0]
            /\ UNCHANGED aligned_base
       ELSE /\ aligned_base' = aligned_base + c.size
            /\ call' = [call EXCEPT ![t].hint = aligned_base,
                 ![t].pc = IF aligned_base = 0 \/ aligned_base > HintEnd THEN "wrap"
                           ELSE "map"]
  /\ UNCHANGED <<option, prot, content, large_page_try_ok, reserved, allocs, written, hidden, leaked, fails>>

\* back to the start of the area, unless another thread was faster
Wrap(t) ==
  LET c == call[t] IN
  /\ c.pc = "wrap"
  /\ aligned_base' = IF aligned_base = c.hint + c.size THEN HintStart ELSE aligned_base
  /\ call' = [call EXCEPT ![t].pc = "again"]
  /\ UNCHANGED <<option, prot, content, large_page_try_ok, reserved, allocs, written, hidden, leaked, fails>>
Again(t) ==
  /\ call[t].pc = "again"
  /\ aligned_base' = aligned_base + call[t].size
  /\ call' = [call EXCEPT ![t].pc = "map", ![t].hint = aligned_base]
  /\ UNCHANGED <<option, prot, content, large_page_try_ok, reserved, allocs, written, hidden, leaked, fails>>

\* the call ends with the memory at page p
Done(t, p) ==
  LET c == call[t]
      U == p * PageSize .. p * PageSize + c.req - 1
  IN
  /\ allocs' = allocs \cup {[addr |-> p, req |-> c.req, align |-> c.align, large |-> c.is_large]}
  /\ IF c.commit THEN written' = written \cup U /\ content' = content \cup U
                 ELSE UNCHANGED <<written, content>>
  /\ call' = [call EXCEPT ![t] = NoOsCall]

\* mmap returned page p: is it aligned, was it the larger allocation?
Mapped(t, p, is_large) ==
  LET c == call[t]
      m == [c EXCEPT !.p = p, !.is_large = is_large]
  IN
  /\ prot' = [x \in Pages |-> IF x \in Run(p, c.size) THEN IF c.commit THEN "rw" ELSE "none" ELSE prot[x]]
  /\ reserved' = reserved + c.size
  /\ call' = [call EXCEPT ![t] = [m EXCEPT !.pc =
       IF c.over THEN "pre" ELSE IF p % c.align # 0 THEN "unmap" ELSE "post"]]

\* mi_unix_mmapx: where mmap may place the memory of call c.  An address is only
\* a hint to mmap, and when mmap fails with it, it is called again without one.
MmapPages(c) == {p \in Pages : Unmapped(Run(p, c.size))}

\* mmap may fail.  A failure for large pages is noted and plain pages are tried.
Map(t) ==
  LET c == call[t] IN
  /\ c.pc = "map"
  /\ \/ /\ \E p \in MmapPages(c), possibly \in BOOLEAN :
             /\ possibly => c.kind = "plain" /\ c.allow /\ UseLarge(c.size, c.align)
             /\ Mapped(t, p, c.kind = "large" \/ possibly)
        /\ UNCHANGED large_page_try_ok
     \/ /\ c.kind = "large"
        /\ large_page_try_ok' = LargeTry
        /\ call' = [call EXCEPT ![t].pc = "hint", ![t].kind = "plain"]
        /\ UNCHANGED <<prot, reserved>>
     \/ /\ c.kind = "plain"
        /\ call' = [call EXCEPT ![t] = NoOsCall]
        /\ UNCHANGED <<prot, reserved, large_page_try_ok>>
  /\ UNCHANGED <<option, content, aligned_base, allocs, written, hidden, leaked, fails>>

\* mi_os_mem_free: munmap, which may fail; the statistic goes down anyway
Munmap(R) ==
  /\ reserved' = reserved - Cardinality(R)
  /\ \/ /\ prot' = [x \in Pages |-> IF x \in R THEN "unmapped" ELSE prot[x]]
        /\ UNCHANGED <<leaked, fails>>
     \/ /\ fails < option.max_fails /\ R # {}
        /\ fails' = fails + 1 /\ leaked' = leaked \cup R
        /\ UNCHANGED prot

\* not aligned: free it and allocate more, without large pages
Unmap(t) ==
  LET c == call[t] IN
  /\ c.pc = "unmap"
  /\ Munmap(Run(c.p, c.size))
  /\ call' = [call EXCEPT ![t] = [c EXCEPT !.pc = "start", !.over = TRUE, !.allow = FALSE,
                                           !.size = c.size + c.align, !.p = 0]]
  /\ UNCHANGED <<option, content, aligned_base, large_page_try_ok, allocs, written, hidden>>

\* the pages before the aligned address in the larger allocation
PreSize(c) == AlignUp(c.p, c.align) - c.p

\* Mutant: the part behind begins a page early
PostRunEarly(c) == Run(c.p + PreSize(c) + c.size - c.align - 1, c.align - PreSize(c) + 1)

\* the pages behind what is asked for
PostRun(c) == Run(c.p + PreSize(c) + c.size - c.align, c.align - PreSize(c))

Pre(t) ==
  LET c == call[t] IN
  /\ c.pc = "pre"
  /\ Munmap(Run(c.p, PreSize(c)))
  /\ call' = [call EXCEPT ![t].pc = "post"]
  /\ UNCHANGED <<option, content, aligned_base, large_page_try_ok, allocs, written, hidden>>

Post(t) ==
  LET c == call[t] IN
  /\ c.pc = "post"
  /\ IF c.over THEN Munmap(PostRun(c)) ELSE UNCHANGED <<reserved, prot, leaked, fails>>
  /\ Done(t, IF c.over THEN AlignUp(c.p, c.align) ELSE c.p)
  /\ UNCHANGED <<option, aligned_base, large_page_try_ok, hidden>>

OsStep(t) ==
  \/ Start(t) \/ Less(t) \/ Hint(t) \/ Wrap(t) \/ Again(t) \/ Map(t)
  \/ Unmap(t) \/ Pre(t) \/ Post(t)

-----------------------------------------------------------------------------
(* Use *)

Area(a) == a.addr * PageSize .. a.addr * PageSize + a.req - 1
AreaPages(a) == Run(a.addr, GoodAllocSize(a.req))

\* _mi_os_free_ex: the size is rounded as in the allocation
OsFree(a) ==
  /\ a \in allocs
  /\ allocs' = allocs \ {a}
  /\ Munmap(AreaPages(a))
  /\ written' = written \ Area(a)
  /\ content' = content \ Units(a.addr, GoodAllocSize(a.req))
  /\ hidden' = {h \in hidden : h.lo \notin Area(a)}
  /\ UNCHANGED <<option, aligned_base, large_page_try_ok, call>>

\* Mutant: every page that the area touches
PageAlignAreaLiberal(conservative, lo, n) ==
  AlignDown(lo, PageSize) \div PageSize .. AlignUp(lo + n, PageSize) \div PageSize - 1

\* mi_os_page_align_areax: the pages inside the area, or those it touches
PageAlignArea(conservative, lo, n) ==
  IF conservative
    THEN AlignUp(lo, PageSize) \div PageSize .. AlignDown(lo + n, PageSize) \div PageSize - 1
    ELSE AlignDown(lo, PageSize) \div PageSize .. AlignUp(lo + n, PageSize) \div PageSize - 1

Protected(R, access) == [x \in Pages |-> IF x \in R THEN access ELSE prot[x]]

\* areas of the program's memory; large pages are never decommitted, and an
\* area that is reset or protected is left alone until that is undone
Areas(a) == {[lo |-> lo, n |-> n] : lo \in Area(a), n \in 1 .. a.req}
FreeArea(a, lo, n) ==
  /\ ~a.large /\ lo .. lo + n - 1 \subseteq Area(a)
  /\ \A h \in hidden : h.lo .. h.lo + h.n - 1 \cap lo .. lo + n - 1 = {}

\* _mi_os_commit; the program writes to the area when the call succeeds
Commit(a, lo, n) ==
  /\ FreeArea(a, lo, n)
  /\ prot' = Protected(PageAlignArea(FALSE, lo, n), "rw")
  /\ written' = written \cup lo .. lo + n - 1 /\ content' = content \cup lo .. lo + n - 1
  /\ UNCHANGED <<option, aligned_base, large_page_try_ok, reserved, call, allocs, hidden, leaked, fails>>

\* what the system calls do to the pages R: decommitted pages are mapped anew,
\* reset pages lose their content, protected ones keep it
Decommitted(R) == prot' = Protected(R, "none") /\ content' = content \ UNION {Units(p, 1) : p \in R}
ResetPages(R) ==
  IF option.reset_decommits THEN Decommitted(R)
  ELSE content' = content \ UNION {Units(p, 1) : p \in R} /\ UNCHANGED prot

\* _mi_os_decommit; a call that fails changes nothing
Decommit(a, lo, n) ==
  /\ FreeArea(a, lo, n)
  /\ Decommitted(PageAlignArea(TRUE, lo, n))
  /\ written' = written \ lo .. lo + n - 1
  /\ UNCHANGED <<option, aligned_base, large_page_try_ok, reserved, call, allocs, hidden, leaked, fails>>

\* _mi_os_reset and _mi_os_protect of memory that is in use
Hide(a, lo, n, how) ==
  /\ FreeArea(a, lo, n) /\ lo .. lo + n - 1 \subseteq written
  /\ IF how = "reset" THEN ResetPages(PageAlignArea(TRUE, lo, n))
     ELSE prot' = Protected(PageAlignArea(TRUE, lo, n), "none") /\ UNCHANGED content
  /\ written' = written \ lo .. lo + n - 1
  /\ hidden' = hidden \cup {[lo |-> lo, n |-> n, how |-> how]}
  /\ UNCHANGED <<option, aligned_base, large_page_try_ok, reserved, call, allocs, leaked, fails>>

\* _mi_os_unreset: nothing to do unless a reset decommits
UnresetPages(R) == IF option.reset_decommits THEN prot' = Protected(R, "rw") ELSE UNCHANGED prot

\* _mi_os_unreset and _mi_os_unprotect of the same area; the program writes to it
Show(h) ==
  /\ h \in hidden
  /\ LET R == PageAlignArea(TRUE, h.lo, h.n) IN
       IF h.how = "reset" THEN UnresetPages(R) ELSE prot' = Protected(R, "rw")
  /\ written' = written \cup h.lo .. h.lo + h.n - 1
  /\ content' = content \cup h.lo .. h.lo + h.n - 1
  /\ hidden' = hidden \ {h}
  /\ UNCHANGED <<option, aligned_base, large_page_try_ok, reserved, call, allocs, leaked, fails>>

OsUse ==
  \/ \E a \in allocs : OsFree(a)
  \/ /\ option.areas
     /\ \E a \in allocs : \E r \in Areas(a) :
          \/ Commit(a, r.lo, r.n) \/ Decommit(a, r.lo, r.n)
          \/ \E how \in {"reset", "protect"} : Hide(a, r.lo, r.n, how)
  \/ \E h \in hidden : Show(h)

-----------------------------------------------------------------------------
(* Properties *)

\* the pages that a call has mapped and not handed out
InFlight(t) ==
  LET c == call[t] IN
  IF c.pc = "unmap" \/ c.pc = "pre" THEN Run(c.p, c.size)
  ELSE IF c.pc = "post" /\ c.over THEN Run(c.p + PreSize(c), c.size - PreSize(c))
  ELSE IF c.pc = "post" THEN Run(c.p, c.size) ELSE {}

\* Memory that is handed out is aligned as asked and mapped for as long as the
\* program has it, and no page of it is another allocation's or another
\* thread's: what is unmapped around an aligned address is never part of what
\* is returned (os.c:583-597).  Nothing stays mapped that nobody has, but for pages
\* that the OS refused to unmap, and stats.reserved counts what is mapped
\* (os.c:182-210, 593-594, 619-623).
AllocsMapped ==
  LET mapped == {p \in Pages : prot[p] # "unmapped"} IN
  /\ \A a \in allocs :
       /\ a.addr % a.align = 0
       /\ \A b \in allocs \ {a} : AreaPages(a) \cap AreaPages(b) = {}
       /\ \A t \in Thread : AreaPages(a) \cap InFlight(t) = {}
  /\ mapped = (UNION {AreaPages(a) : a \in allocs}) \cup (UNION {InFlight(t) : t \in Thread}) \cup leaked
  /\ reserved = Cardinality(mapped \ leaked)

\* What the program wrote and did not give up stays accessible and keeps its
\* content: decommit and reset of an area never reach its neighbours in the
\* same OS page, commit reaches all of the area, and unreset what reset took
\* (os.c:651-667, 688-741).
DataKept ==
  \A u \in written : u \in content /\ prot[u \div PageSize] = "rw"

=============================================================================
