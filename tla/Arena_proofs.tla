---------------------------- MODULE Arena_proofs ----------------------------
(***************************************************************************)
(* Modules Arena and OsMemory for every number of threads, arenas, blocks  *)
(* and pages, every size of a page and of the address space.               *)
(*                                                                         *)
(* First the steps of OsMemory: no page has two owners, none is lost but   *)
(* for a munmap that fails, and what the program wrote is kept.  Then      *)
(* those of Arena: the types, the address ranges of huge pages, the slots  *)
(* of the arenas, and the blocks of an arena.                              *)
(***************************************************************************)
EXTENDS Arena, NaturalsInduction, WellFoundedInduction, FiniteSetTheorems, SequenceTheorems, TLAPS

-----------------------------------------------------------------------------
(* The inductive invariant: memory from the OS *)

\* what the steps need of the options
OptionOK == option.max_fails \in Nat /\ option.reset_decommits \in BOOLEAN

\* the pages that are mapped, without those whose munmap failed
Kept == {x \in Pages : prot[x] # "unmapped" /\ x \notin leaked}

\* What a call knows of its memory: the size is that of the request, and the
\* alignment once more when it allocated too much.
CallFits ==
  \A t \in Thread : LET c == call[t] IN
    /\ c.pc # "idle" => c.req > 0 /\ c.size = GoodAllocSize(c.req) + (IF c.over THEN c.align ELSE 0)
    /\ c.pc = "less" => c.try_ok > 0
    /\ c.pc = "pre" => c.over
    /\ c.pc = "unmap" => ~c.over
    /\ c.pc = "post" /\ ~c.over => c.p % c.align = 0

\* Every page that is kept has one owner, an allocation or a call.
Owned ==
  /\ \A x \in leaked : prot[x] # "unmapped"
  /\ \A a \in allocs : a.addr % a.align = 0 /\ AreaPages(a) \subseteq Kept
  /\ \A a, b \in allocs : a # b => AreaPages(a) \cap AreaPages(b) = {}
  /\ \A t \in Thread : InFlight(t) \subseteq Kept
  /\ \A t \in Thread : \A a \in allocs : AreaPages(a) \cap InFlight(t) = {}
  /\ \A t, u \in Thread : t # u => InFlight(t) \cap InFlight(u) = {}
  /\ \A x \in Kept : (\E a \in allocs : x \in AreaPages(a)) \/ (\E t \in Thread : x \in InFlight(t))
  /\ reserved = Cardinality(Kept)

HiddenArea(h) == h.lo .. h.lo + h.n - 1

\* What the program needs is accessible and in its memory.
WrittenSafe ==
  \A u \in written : u \in content /\ prot[u \div PageSize] = "rw" /\ \E a \in allocs : u \in Area(a)

\* In what it gave up for a while every page that is not accessible lies inside
\* and will be made accessible again.
HiddenSafe ==
  /\ \A h \in hidden :
       /\ \E a \in allocs : HiddenArea(h) \subseteq Area(a)
       /\ HiddenArea(h) \cap written = {}
       /\ \A u \in HiddenArea(h) :
            \/ prot[u \div PageSize] = "rw"
            \/ /\ u \div PageSize \in PageAlignArea(TRUE, h.lo, h.n)
               /\ h.how = "reset" => option.reset_decommits
  /\ \A h, k \in hidden : h # k => HiddenArea(h) \cap HiddenArea(k) = {}

\* What a call that commits has mapped is accessible.
FlightSafe == \A t \in Thread : call[t].commit => \A x \in InFlight(t) : prot[x] = "rw"

DataSafe == WrittenSafe /\ HiddenSafe /\ FlightSafe

OsInv == OsTypeOK /\ CallFits /\ Owned /\ DataSafe
-----------------------------------------------------------------------------
(* Arithmetic of pages and alignments *)

\* A product with a smaller factor is smaller by the other factor at least.
LEMMA TimesLess ==
  ASSUME NEW q \in Nat, NEW r \in Nat, NEW d \in Nat, q < r
  PROVE  q * d + d <= r * d
<1> DEFINE k == r - q - 1
<1>1. k \in Nat /\ r = q + 1 + k
  OBVIOUS
<1>2. k * d \in Nat
  BY <1>1
<1>3. (q + 1 + k) * d = q * d + d + k * d
  BY <1>1
<1>4. q * d \in Nat
  OBVIOUS
<1> QED BY <1>1, <1>2, <1>3, <1>4

\* The quotient from below.
LEMMA DivRange ==
  ASSUME NEW x \in Nat, NEW d \in Nat \ {0}
  PROVE  x \div d \in Nat /\ (x \div d) * d <= x /\ x < (x \div d) * d + d
  OBVIOUS

\* The only quotient with these bounds.
LEMMA DivIs ==
  ASSUME NEW x \in Nat, NEW d \in Nat \ {0}, NEW q \in Nat, q * d <= x, x < q * d + d
  PROVE  x \div d = q
<1> DEFINE r == x \div d
<1>1. r \in Nat /\ r * d <= x /\ x < r * d + d
  BY DivRange
<1> HIDE DEF r
<1>2. ~(r < q)
  <2> SUFFICES ASSUME r < q PROVE FALSE
    OBVIOUS
  <2>1. r * d + d <= q * d
    BY <1>1, TimesLess
  <2> QED BY <2>1, <1>1
<1>3. ~(q < r)
  <2> SUFFICES ASSUME q < r PROVE FALSE
    OBVIOUS
  <2>1. q * d + d <= r * d
    BY <1>1, TimesLess
  <2> QED BY <2>1, <1>1
<1>4. r = q
  BY <1>1, <1>2, <1>3
<1> QED BY <1>4 DEF r

\* A multiple has no remainder.
LEMMA ModZero ==
  ASSUME NEW q \in Nat, NEW d \in Nat \ {0}
  PROVE  (q * d) % d = 0
  OBVIOUS

\* Aligning up goes to the next multiple.
LEMMA AlignsUp ==
  ASSUME NEW x \in Nat, NEW a \in Nat \ {0}
  PROVE  /\ AlignUp(x, a) \in Nat /\ x <= AlignUp(x, a) /\ AlignUp(x, a) < x + a
         /\ AlignUp(x, a) % a = 0
<1>1. x + a - 1 \in Nat
  OBVIOUS
<1> DEFINE y == x + a - 1
           q == y \div a
<1>2. q \in Nat /\ q * a <= y /\ y < q * a + a
  BY <1>1, DivRange
<1>3. AlignUp(x, a) = q * a
  BY DEF AlignUp
<1>4. q * a \in Nat
  BY <1>2
<1>5. (q * a) % a = 0
  BY <1>2, ModZero
<1> HIDE DEF q
<1> QED BY <1>2, <1>3, <1>4, <1>5

\* What is aligned is a multiple.
LEMMA Aligned ==
  ASSUME NEW x \in Nat, NEW a \in Nat \ {0}
  PROVE  /\ AlignUp(x, a) \in Nat /\ x <= AlignUp(x, a) /\ AlignUp(x, a) < x + a
         /\ AlignUp(x, a) = (AlignUp(x, a) \div a) * a
<1> DEFINE q == (x + a - 1) \div a
<1>2. q \in Nat /\ q * a <= x + a - 1 /\ x + a - 1 < q * a + a
  BY DivRange
<1>3. AlignUp(x, a) = q * a
  BY DEF AlignUp
<1>4. q * a \in Nat
  BY <1>2
<1> HIDE DEF q
<1>5. (q * a) \div a = q
  BY <1>2, <1>4, DivIs
<1> QED BY <1>2, <1>3, <1>4, <1>5

\* The pages of a run of pages are those that hold its units.
LEMMA PageOfUnit ==
  ASSUME NEW u \in Nat, NEW p \in Nat, NEW n \in Nat
  PROVE  u \in Units(p, n) <=> u \div PageSize \in Run(p, n)
<1> USE SpaceAssumption
<1> DEFINE q == u \div PageSize
<1>1. q \in Nat /\ q * PageSize <= u /\ u < q * PageSize + PageSize
  BY DivRange
<1>2. p * PageSize \in Nat /\ (p + n) * PageSize \in Nat /\ q * PageSize \in Nat
  BY <1>1
<1> HIDE DEF q
<1>3. ASSUME q < p PROVE u < p * PageSize
  BY <1>1, <1>2, <1>3, TimesLess
<1>4. ASSUME p <= q PROVE p * PageSize <= u
  BY <1>1, <1>2, <1>4, TimesLess
<1>5. ASSUME q < p + n PROVE u < (p + n) * PageSize
  BY <1>1, <1>2, <1>5, TimesLess
<1>6. ASSUME p + n <= q PROVE (p + n) * PageSize <= u
  BY <1>1, <1>2, <1>6, TimesLess
<1>7. u \in Units(p, n) <=> p * PageSize <= u /\ u < (p + n) * PageSize
  BY <1>2 DEF Units
<1>8. q \in Run(p, n) <=> p <= q /\ q < p + n
  BY <1>1 DEF Run
<1>9. (p * PageSize <= u /\ u < (p + n) * PageSize) <=> (p <= q /\ q < p + n)
  BY <1>1, <1>2, <1>3, <1>4, <1>5, <1>6
<1> QED BY <1>7, <1>8, <1>9 DEF q

\* The rounded size holds what was asked for.
LEMMA GoodSize ==
  ASSUME NEW req \in Nat \ {0}
  PROVE  GoodAllocSize(req) \in Nat \ {0} /\ req <= GoodAllocSize(req) * PageSize
<1> USE SpaceAssumption
<1> DEFINE m == AlignUp(req, PageSize)
           n == m \div PageSize
           g == GoodAllocSize(req)
<1>1. m \in Nat /\ req <= m /\ m = n * PageSize
  BY Aligned
<1>2. n \in Nat
  BY <1>1, DivRange
<1>3. g = IF n < GoodLimit THEN n ELSE AlignUp(n, GoodAlign)
  BY DEF GoodAllocSize
<1> HIDE DEF m, n, g
<1>4. g \in Nat /\ n <= g
  BY <1>2, <1>3, Aligned
<1>5. n # 0
  <2>1. 0 * PageSize = 0
    OBVIOUS
  <2> QED BY <1>1, <2>1
<1>6. n * PageSize <= g * PageSize
  BY <1>2, <1>4, TimesLess
<1>7. g * PageSize \in Nat /\ n * PageSize \in Nat
  BY <1>2, <1>4
<1> QED BY <1>1, <1>2, <1>4, <1>5, <1>6, <1>7 DEF g

\* The units of an allocation are in its pages.
LEMMA AreaInPages ==
  ASSUME NEW a, a.addr \in Nat, a.req \in Nat \ {0}, NEW u \in Area(a)
  PROVE  u \in Nat /\ u \div PageSize \in AreaPages(a)
<1> USE SpaceAssumption
<1>1. GoodAllocSize(a.req) \in Nat \ {0} /\ a.req <= GoodAllocSize(a.req) * PageSize
  BY GoodSize
<1> DEFINE g == GoodAllocSize(a.req)
<1> HIDE DEF g
<1>2. /\ a.addr * PageSize \in Nat /\ g * PageSize \in Nat
      /\ (a.addr + g) * PageSize = a.addr * PageSize + g * PageSize
  BY <1>1 DEF g
<1>3. u \in Nat /\ u \in Units(a.addr, g)
  BY <1>1, <1>2 DEF Area, Units, g
<1> QED BY <1>1, <1>3, PageOfUnit DEF AreaPages, g

\* A page inside an area has all its units in it, a page that an area touches
\* one of them.
LEMMA AlignedArea ==
  ASSUME NEW lo \in Nat, NEW n \in Nat \ {0}, NEW u \in Nat
  PROVE  /\ u \div PageSize \in PageAlignArea(TRUE, lo, n) => u \in lo .. lo + n - 1
         /\ u \in lo .. lo + n - 1 => u \div PageSize \in PageAlignArea(FALSE, lo, n)
         /\ PageAlignArea(TRUE, lo, n) \subseteq PageAlignArea(FALSE, lo, n)
<1> USE SpaceAssumption
<1> DEFINE q == u \div PageSize
           up(x) == AlignUp(x, PageSize) \div PageSize
           down(x) == AlignDown(x, PageSize) \div PageSize
<1>1. q \in Nat /\ q * PageSize <= u /\ u < q * PageSize + PageSize
  BY DivRange
<1>2. ASSUME NEW x \in Nat
      PROVE  up(x) \in Nat /\ x <= up(x) * PageSize /\ up(x) * PageSize < x + PageSize
  BY Aligned, DivRange
<1>3. ASSUME NEW x \in Nat
      PROVE  down(x) \in Nat /\ down(x) * PageSize <= x /\ x < down(x) * PageSize + PageSize
  <2> DEFINE d == x \div PageSize
  <2>1. d \in Nat /\ d * PageSize <= x /\ x < d * PageSize + PageSize
    BY DivRange
  <2>2. AlignDown(x, PageSize) = d * PageSize
    BY DEF AlignDown
  <2>3. d * PageSize \in Nat
    BY <2>1
  <2> HIDE DEF d
  <2>4. (d * PageSize) \div PageSize = d
    BY <2>1, <2>3, DivIs
  <2> QED BY <2>1, <2>2, <2>4
<1> DEFINE a == up(lo)
           b == down(lo + n)
           c == down(lo)
           e == up(lo + n)
<1>4. /\ a \in Nat /\ lo <= a * PageSize /\ a * PageSize < lo + PageSize
      /\ b \in Nat /\ b * PageSize <= lo + n /\ lo + n < b * PageSize + PageSize
      /\ c \in Nat /\ c * PageSize <= lo /\ lo < c * PageSize + PageSize
      /\ e \in Nat /\ lo + n <= e * PageSize /\ e * PageSize < lo + n + PageSize
  BY <1>2, <1>3
<1>5. /\ PageAlignArea(TRUE, lo, n) = a .. b - 1
      /\ PageAlignArea(FALSE, lo, n) = c .. e - 1
  BY DEF PageAlignArea
<1> HIDE DEF a, b, c, e, up, down, q
<1>6. /\ q * PageSize \in Nat /\ a * PageSize \in Nat /\ b * PageSize \in Nat
      /\ c * PageSize \in Nat /\ e * PageSize \in Nat
  BY <1>1, <1>4
<1>7. ASSUME q \in a .. b - 1 PROVE u \in lo .. lo + n - 1
  <2>1. a * PageSize <= q * PageSize
    BY <1>1, <1>4, <1>6, <1>7, TimesLess
  <2>2. q * PageSize + PageSize <= b * PageSize
    BY <1>1, <1>4, <1>6, <1>7, TimesLess
  <2> QED BY <1>1, <1>4, <1>6, <2>1, <2>2
<1>8. ASSUME u \in lo .. lo + n - 1 PROVE q \in c .. e - 1
  <2>1. ~(q < c)
    <3> SUFFICES ASSUME q < c PROVE FALSE
      OBVIOUS
    <3>1. q * PageSize + PageSize <= c * PageSize
      BY <1>1, <1>4, TimesLess
    <3> QED BY <1>1, <1>4, <1>6, <1>8, <3>1
  <2>2. ~(e <= q)
    <3> SUFFICES ASSUME e <= q PROVE FALSE
      OBVIOUS
    <3>1. e * PageSize <= q * PageSize
      BY <1>1, <1>4, <1>6, TimesLess
    <3> QED BY <1>1, <1>4, <1>6, <1>8, <3>1
  <2> QED BY <1>1, <1>4, <2>1, <2>2
<1>9. c <= a
  <2> SUFFICES ASSUME a < c PROVE FALSE
    BY <1>4
  <2>1. a * PageSize + PageSize <= c * PageSize
    BY <1>4, TimesLess
  <2> QED BY <1>4, <1>6, <2>1
<1>10. b <= e
  <2> SUFFICES ASSUME e < b PROVE FALSE
    BY <1>4
  <2>1. e * PageSize + PageSize <= b * PageSize
    BY <1>4, TimesLess
  <2> QED BY <1>4, <1>6, <2>1
<1>11. a .. b - 1 \subseteq c .. e - 1
  BY <1>4, <1>9, <1>10
<1> QED BY <1>5, <1>7, <1>8, <1>11 DEF q

\* Every page that an area touches holds one of its units.
LEMMA TouchedPage ==
  ASSUME NEW lo \in Nat, NEW n \in Nat \ {0}, NEW x \in PageAlignArea(FALSE, lo, n)
  PROVE  \E u \in lo .. lo + n - 1 : u \div PageSize = x
<1> USE SpaceAssumption
<1> DEFINE m == AlignDown(lo, PageSize)
           c == m \div PageSize
           k == AlignUp(lo + n, PageSize)
           e == k \div PageSize
           d == lo \div PageSize
<1>1. d \in Nat /\ d * PageSize <= lo /\ lo < d * PageSize + PageSize
  BY DivRange
<1>2. m = d * PageSize
  BY DEF AlignDown
<1>3. k \in Nat /\ k = e * PageSize /\ k < lo + n + PageSize
  <2> DEFINE y == lo + n
  <2>1. y \in Nat
    OBVIOUS
  <2> HIDE DEF y
  <2>2. /\ AlignUp(y, PageSize) \in Nat /\ AlignUp(y, PageSize) < y + PageSize
        /\ AlignUp(y, PageSize) = (AlignUp(y, PageSize) \div PageSize) * PageSize
    BY <2>1, Aligned
  <2> QED BY <2>2 DEF y
<1>4. e \in Nat
  BY <1>3, DivRange
<1>5. x \in c .. e - 1
  BY DEF PageAlignArea
<1> HIDE DEF d
<1>6. d * PageSize \in Nat
  BY <1>1
<1>7. c = d
  BY <1>1, <1>2, <1>6, DivIs
<1> HIDE DEF m, c, k, e
<1>8. x \in Nat /\ d <= x /\ x < e
  BY <1>1, <1>4, <1>5, <1>7
<1>9. CASE x = d
  BY <1>1, <1>9 DEF d
<1>10. CASE x # d
  <2>1. d * PageSize + PageSize <= x * PageSize
    BY <1>1, <1>8, <1>10, TimesLess
  <2>2. x * PageSize + PageSize <= e * PageSize
    BY <1>4, <1>8, TimesLess
  <2>3. x * PageSize \in Nat /\ e * PageSize \in Nat
    BY <1>4, <1>8
  <2>4. x * PageSize \in lo .. lo + n - 1
    BY <1>1, <1>3, <1>6, <2>1, <2>2, <2>3
  <2>5. (x * PageSize) \div PageSize = x
    BY <1>8, <2>3, DivIs
  <2> QED BY <2>4, <2>5
<1> QED BY <1>9, <1>10

-----------------------------------------------------------------------------
(* Mapping and unmapping *)

\* The pages of the address space are finitely many.
LEMMA KeptFinite == IsFiniteSet(Kept)
<1>1. IsFiniteSet(Pages)
  BY SpaceAssumption, FS_Interval DEF Pages
<1>2. Kept \in SUBSET Pages
  BY DEF Kept
<1> QED BY <1>1, <1>2, FS_Subset

\* A run of pages has as many pages as it says.
LEMMA RunSize ==
  ASSUME NEW p \in Nat, NEW n \in Nat
  PROVE  IsFiniteSet(Run(p, n)) /\ Cardinality(Run(p, n)) = n
<1>1. p \in Int /\ p + n - 1 \in Int
  OBVIOUS
<1>2. IsFiniteSet(p .. p + n - 1) /\ Cardinality(p .. p + n - 1) = IF p > p + n - 1 THEN 0 ELSE p + n - 1 - p + 1
  BY <1>1, FS_Interval
<1> QED BY <1>2 DEF Run

\* Pages that are unmapped are no longer kept, whether munmap succeeds or not,
\* and the statistic follows.
LEMMA MunmapKept ==
  ASSUME OsTypeOK, OptionOK, Owned, NEW R \in SUBSET Kept, Munmap(R)
  PROVE  /\ Kept' = Kept \ R
         /\ reserved' = Cardinality(Kept') /\ reserved' \in Nat
         /\ prot' \in [Pages -> {"unmapped", "none", "rw"}]
         /\ \A x \in Pages \ R : prot'[x] = prot[x]
         /\ leaked' \subseteq Pages /\ fails' \in 0 .. option.max_fails
         /\ \A x \in leaked' : prot'[x] # "unmapped"
<1>1. R \subseteq Pages /\ R \subseteq Kept
  BY DEF Kept
<1>2. Kept' = Kept \ R
  <2>1. CASE prot' = [x \in Pages |-> IF x \in R THEN "unmapped" ELSE prot[x]] /\ UNCHANGED leaked
    BY <2>1, <1>1 DEF Kept
  <2>2. CASE leaked' = leaked \cup R /\ UNCHANGED prot
    BY <2>2, <1>1 DEF Kept
  <2> QED BY <2>1, <2>2 DEF Munmap
<1>3. reserved' = Cardinality(Kept') /\ reserved' \in Nat
  <2>1. Kept \cap R = R
    BY <1>1
  <2>2. IsFiniteSet(Kept \ R) /\ Cardinality(Kept \ R) = Cardinality(Kept) - Cardinality(R)
    BY <2>1, KeptFinite, FS_Difference
  <2>3. Cardinality(Kept \ R) \in Nat
    BY <2>2, FS_CardinalityType
  <2> QED BY <2>2, <2>3, <1>2 DEF Munmap, Owned
<1>4. prot' \in [Pages -> {"unmapped", "none", "rw"}] /\ \A x \in Pages \ R : prot'[x] = prot[x]
  BY DEF Munmap, OsTypeOK
<1>5. leaked' \subseteq Pages /\ fails' \in 0 .. option.max_fails
  BY <1>1 DEF Munmap, OsTypeOK, OptionOK
<1>6. \A x \in leaked' : prot'[x] # "unmapped"
  <2>1. CASE prot' = [x \in Pages |-> IF x \in R THEN "unmapped" ELSE prot[x]] /\ UNCHANGED leaked
    BY <2>1, <1>1 DEF Kept, Owned, OsTypeOK
  <2>2. CASE leaked' = leaked \cup R /\ UNCHANGED prot
    BY <2>2, <1>1 DEF Kept, Owned
  <2> QED BY <2>1, <2>2 DEF Munmap
<1> QED BY <1>2, <1>3, <1>4, <1>5, <1>6

\* The memory that a call over-allocated: what it returns starts at the next
\* multiple of the alignment, and is followed by what it unmaps.
LEMMA OverParts ==
  ASSUME NEW p \in Nat, NEW align \in Nat \ {0}, NEW n \in Nat \ {0}
  PROVE  LET c == [p |-> p, align |-> align, size |-> n + align]
             q == AlignUp(p, align)
         IN  /\ q \in Nat /\ q % align = 0 /\ PreSize(c) \in 0 .. align - 1
             /\ Run(q, n) \cap PostRun(c) = {}
             /\ Run(p + PreSize(c), n + align - PreSize(c)) = Run(q, n) \cup PostRun(c)
             /\ Run(p, n + align) = Run(p, PreSize(c)) \cup Run(q, n) \cup PostRun(c)
             /\ Run(p, PreSize(c)) \cap (Run(q, n) \cup PostRun(c)) = {}
<1> DEFINE c == [p |-> p, align |-> align, size |-> n + align]
           q == AlignUp(p, align)
<1>1. q \in Nat /\ p <= q /\ q < p + align /\ q % align = 0
  BY AlignsUp
<1>2. PreSize(c) = q - p
  BY DEF PreSize
<1>3. PostRun(c) = Run(q + n, align - (q - p))
  <2>1. PostRun(c) = Run(p + (q - p) + (n + align) - align, align - (q - p))
    BY <1>2 DEF PostRun
  <2>2. p + (q - p) + (n + align) - align = q + n
    BY <1>1
  <2> QED BY <2>1, <2>2
<1> HIDE DEF q, c
<1>4. /\ Run(q, n) \cap Run(q + n, align - (q - p)) = {}
      /\ Run(p + (q - p), n + align - (q - p)) = Run(q, n) \cup Run(q + n, align - (q - p))
      /\ Run(p, n + align) = Run(p, q - p) \cup Run(q, n) \cup Run(q + n, align - (q - p))
      /\ Run(p, q - p) \cap (Run(q, n) \cup Run(q + n, align - (q - p))) = {}
  BY <1>1 DEF Run
<1>5. q - p \in 0 .. align - 1
  BY <1>1
<1> QED BY <1>1, <1>2, <1>3, <1>4, <1>5 DEF q, c

-----------------------------------------------------------------------------
(* Steps of a call that leave the pages alone *)

\* A step of one thread leaves what the other calls have.
LEMMA OtherCalls ==
  ASSUME OsTypeOK, NEW t \in Thread, NEW r \in OsCall, call' = [call EXCEPT ![t] = r]
  PROVE  /\ call' \in [Thread -> OsCall] /\ call'[t] = r
         /\ \A u \in Thread \ {t} : call'[u] = call[u] /\ InFlight(u)' = InFlight(u)
<1>1. /\ call' \in [Thread -> OsCall] /\ call'[t] = r
      /\ \A u \in Thread \ {t} : call'[u] = call[u]
  BY DEF OsTypeOK
<1>2. \A u \in Thread \ {t} : InFlight(u)' = InFlight(u)
  BY <1>1 DEF InFlight
<1> QED BY <1>1, <1>2

\* When no page, no area and nothing in flight changes the pages keep their owners.
LEMMA QuietKeeps ==
  ASSUME Owned, DataSafe, UNCHANGED <<option, prot, content, reserved, allocs, written, hidden, leaked>>,
         \A u \in Thread : InFlight(u)' = InFlight(u),
         \A u \in Thread : InFlight(u) = {} \/ call'[u].commit = call[u].commit
  PROVE  Owned' /\ DataSafe'
<1>1. Kept' = Kept
  BY DEF Kept
<1>2. Owned'
  BY <1>1 DEF Owned
<1>3. DataSafe'
  BY DEF DataSafe, WrittenSafe, HiddenSafe, FlightSafe, HiddenArea
<1> QED BY <1>2, <1>3

\* The call moves on, and has no pages before and after.
LEMMA CallMoves ==
  ASSUME OsTypeOK, Owned, DataSafe, CallFits, NEW t \in Thread, NEW r \in OsCall,
         call' = [call EXCEPT ![t] = r],
         UNCHANGED <<option, prot, content, reserved, allocs, written, hidden, leaked>>,
         call[t].pc \notin {"unmap", "pre", "post"}, r.pc \notin {"unmap", "pre", "post"},
         r.pc # "idle" => r.req > 0 /\ r.size = GoodAllocSize(r.req) + (IF r.over THEN r.align ELSE 0),
         r.pc = "less" => r.try_ok > 0
  PROVE  CallFits' /\ Owned' /\ DataSafe' /\ call' \in [Thread -> OsCall]
<1>1. /\ call' \in [Thread -> OsCall] /\ call'[t] = r
      /\ \A u \in Thread \ {t} : call'[u] = call[u] /\ InFlight(u)' = InFlight(u)
  BY OtherCalls
<1>2. CallFits'
  BY <1>1 DEF CallFits
<1>3. InFlight(t) = {} /\ InFlight(t)' = {}
  BY <1>1 DEF InFlight
<1>4. Owned' /\ DataSafe'
  BY <1>1, <1>3, QuietKeeps
<1> QED BY <1>1, <1>2, <1>4

\* _mi_os_alloc_aligned begins.
LEMMA OsAllocStep ==
  ASSUME OsInv, NEW t \in Thread, NEW req \in Nat \ {0}, NEW align \in Nat \ {0},
         NEW commit \in BOOLEAN, NEW large \in BOOLEAN, OsAlloc(t, req, align, commit, large),
         UNCHANGED <<option, prot, content, aligned_base, large_page_try_ok, reserved, allocs, written,
                     hidden, leaked, fails>>
  PROVE  OsInv'
<1> DEFINE r == [NoOsCall EXCEPT !.pc = "start", !.req = req, !.size = GoodAllocSize(req),
                   !.align = align, !.commit = commit, !.allow = large /\ commit]
<1>1. GoodAllocSize(req) \in Nat
  BY GoodSize
<1>0. NoOsCall \in OsCall
  BY CountAssumption DEF NoOsCall, OsCall
<1>2. r \in OsCall
  BY <1>0, <1>1 DEF OsCall
<1>3. call' = [call EXCEPT ![t] = r] /\ call[t].pc = "idle"
  BY DEF OsAlloc
<1>4. r.pc = "start" /\ r.req = req /\ r.size = GoodAllocSize(req) /\ ~r.over
  BY DEF NoOsCall
<1> HIDE DEF r
<1>5. CallFits' /\ Owned' /\ DataSafe' /\ call' \in [Thread -> OsCall]
  <2>1. r.pc \notin {"unmap", "pre", "post"} /\ call[t].pc \notin {"unmap", "pre", "post"}
    BY <1>3, <1>4
  <2>2. /\ r.pc # "idle" => r.req > 0 /\ r.size = GoodAllocSize(r.req) + (IF r.over THEN r.align ELSE 0)
        /\ r.pc = "less" => r.try_ok > 0
    BY <1>1, <1>4
  <2> QED BY <1>2, <1>3, <2>1, <2>2, CallMoves DEF OsInv
<1>6. OsTypeOK'
  BY <1>5 DEF OsInv, OsTypeOK
<1> QED BY <1>5, <1>6 DEF OsInv

\* The steps before mmap.
LEMMA BeforeMmap ==
  ASSUME OsInv, NEW t \in Thread, Start(t) \/ Less(t) \/ Hint(t) \/ Wrap(t) \/ Again(t)
  PROVE  OsInv'
<1> DEFINE c == call[t]
<1>0. /\ c \in OsCall /\ call \in [Thread -> OsCall]
      /\ c.pc # "idle" => c.req > 0 /\ c.size = GoodAllocSize(c.req) + (IF c.over THEN c.align ELSE 0)
      /\ c.pc = "less" => c.try_ok > 0
      /\ aligned_base \in Nat /\ large_page_try_ok \in 0 .. LargeTry
  BY DEF OsInv, CallFits, OsTypeOK
<1>h. HintStart \in Nat
  BY HintAssumption
<1>1. \E r \in OsCall :
        /\ call' = [call EXCEPT ![t] = r]
        /\ c.pc \in {"start", "less", "hint", "wrap", "again"}
        /\ r.pc \in {"less", "hint", "map", "wrap", "again"}
        /\ r.req = c.req /\ r.size = c.size /\ r.over = c.over /\ r.align = c.align
        /\ r.pc = "less" => r.try_ok > 0
  <2>1. CASE Start(t)
    <3>1. CASE ~(c.allow /\ UseLarge(c.size, c.align))
      <4> DEFINE r == [c EXCEPT !.pc = "hint", !.kind = "plain"]
      <4>1. r \in OsCall /\ call' = [call EXCEPT ![t] = r]
        BY <1>0, <2>1, <3>1 DEF Start, OsCall
      <4> QED BY <1>0, <2>1, <4>1 DEF Start, OsCall
    <3>2. CASE c.allow /\ UseLarge(c.size, c.align) /\ large_page_try_ok > 0
      <4> DEFINE r == [c EXCEPT !.pc = "less", !.try_ok = large_page_try_ok]
      <4>1. r \in OsCall /\ call' = [call EXCEPT ![t] = r]
        BY <1>0, <2>1, <3>2 DEF Start, OsCall
      <4> QED BY <1>0, <2>1, <3>2, <4>1 DEF Start, OsCall
    <3>3. CASE c.allow /\ UseLarge(c.size, c.align) /\ ~(large_page_try_ok > 0)
      <4> DEFINE r == [c EXCEPT !.pc = "hint", !.kind = "large"]
      <4>1. r \in OsCall /\ call' = [call EXCEPT ![t] = r]
        BY <1>0, <2>1, <3>3 DEF Start, OsCall
      <4> QED BY <1>0, <2>1, <4>1 DEF Start, OsCall
    <3> QED BY <3>1, <3>2, <3>3
  <2>2. CASE Less(t)
    <3> DEFINE r == [c EXCEPT !.pc = "hint", !.kind = "plain"]
    <3>1. r \in OsCall /\ call' = [call EXCEPT ![t] = r]
      BY <1>0, <2>2 DEF Less, OsCall
    <3> QED BY <1>0, <2>2, <3>1 DEF Less, OsCall
  <2>3. CASE Hint(t)
    <3>1. CASE c.align > SegmentSize \/ c.size % SegmentSize # 0
      <4> DEFINE r == [c EXCEPT !.pc = "map", !.hint = 0]
      <4>1. r \in OsCall /\ call' = [call EXCEPT ![t] = r]
        BY <1>0, <2>3, <3>1 DEF Hint, OsCall
      <4> QED BY <1>0, <2>3, <4>1 DEF Hint, OsCall
    <3>2. CASE ~(c.align > SegmentSize \/ c.size % SegmentSize # 0)
      <4> DEFINE r == [c EXCEPT !.hint = aligned_base,
                   !.pc = IF aligned_base = 0 \/ aligned_base > HintEnd THEN "wrap" ELSE "map"]
      <4>1. r \in OsCall /\ call' = [call EXCEPT ![t] = r]
        BY <1>0, <2>3, <3>2 DEF Hint, OsCall
      <4> QED BY <1>0, <2>3, <4>1, ZenonT(60) DEF Hint, OsCall
    <3> QED BY <3>1, <3>2
  <2>4. CASE Wrap(t)
    <3> DEFINE r == [c EXCEPT !.pc = "again"]
    <3>1. r \in OsCall /\ call' = [call EXCEPT ![t] = r]
      BY <1>0, <2>4 DEF Wrap, OsCall
    <3> QED BY <1>0, <2>4, <3>1 DEF Wrap, OsCall
  <2>5. CASE Again(t)
    <3> DEFINE r == [c EXCEPT !.pc = "map", !.hint = aligned_base]
    <3>1. r \in OsCall /\ call' = [call EXCEPT ![t] = r]
      BY <1>0, <2>5 DEF Again, OsCall
    <3> QED BY <1>0, <2>5, <3>1 DEF Again, OsCall
  <2> QED BY <2>1, <2>2, <2>3, <2>4, <2>5
<1>2. UNCHANGED <<option, prot, content, reserved, allocs, written, hidden, leaked, fails>>
  BY DEF Start, Less, Hint, Wrap, Again
<1>3. CallFits' /\ Owned' /\ DataSafe' /\ call' \in [Thread -> OsCall]
  BY <1>0, <1>1, <1>2, CallMoves, ZenonT(60) DEF OsInv
<1>4. aligned_base' \in Nat
  <2>1. c.size \in Nat
    BY <1>0 DEF OsCall
  <2> QED BY <1>0, <1>h, <2>1 DEF Start, Less, Hint, Wrap, Again
<1>5. large_page_try_ok' \in 0 .. LargeTry
  <2>1. CASE Less(t)
    BY <1>0, <2>1, CountAssumption DEF Less, TryLess, OsCall
  <2>2. CASE ~Less(t)
    BY <1>0, <2>2 DEF Start, Hint, Wrap, Again
  <2> QED BY <2>1, <2>2
<1>6. OsTypeOK'
  BY <1>2, <1>3, <1>4, <1>5 DEF OsInv, OsTypeOK
<1> QED BY <1>3, <1>6 DEF OsInv

-----------------------------------------------------------------------------
(* mmap, and unmapping around the aligned address *)

\* The pages of an allocation are kept, and all its units are in them.
LEMMA AreaKept ==
  ASSUME OsInv, NEW a \in allocs, NEW u \in Area(a)
  PROVE  u \in Nat /\ u \div PageSize \in AreaPages(a) /\ u \div PageSize \in Kept
<1>1. a.addr \in Nat /\ a.req \in Nat \ {0}
  BY DEF OsInv, OsTypeOK
<1>2. u \in Nat /\ u \div PageSize \in AreaPages(a)
  BY <1>1, AreaInPages
<1> QED BY <1>2 DEF OsInv, Owned

\* As long as the pages of the program's memory stay as they are its data is safe.
LEMMA AreasKeep ==
  ASSUME OsInv, UNCHANGED <<option, written, content, hidden>>, allocs \subseteq allocs',
         \A a \in allocs : \A x \in AreaPages(a) : prot'[x] = prot[x]
  PROVE  WrittenSafe' /\ HiddenSafe'
<1>1. \A a \in allocs : \A u \in Area(a) : prot'[u \div PageSize] = prot[u \div PageSize]
  BY AreaKept
<1>2. WrittenSafe'
  <2> SUFFICES ASSUME NEW u \in written
               PROVE  u \in content /\ prot'[u \div PageSize] = "rw" /\ \E a \in allocs' : u \in Area(a)
    BY DEF WrittenSafe
  <2> QED BY <1>1 DEF OsInv, DataSafe, WrittenSafe
<1>3. HiddenSafe'
  <2>1. ASSUME NEW h \in hidden
        PROVE  /\ \E a \in allocs' : HiddenArea(h) \subseteq Area(a)
               /\ HiddenArea(h) \cap written = {}
               /\ \A u \in HiddenArea(h) :
                    \/ prot'[u \div PageSize] = "rw"
                    \/ /\ u \div PageSize \in PageAlignArea(TRUE, h.lo, h.n)
                       /\ h.how = "reset" => option.reset_decommits
    <3>1. PICK a \in allocs : HiddenArea(h) \subseteq Area(a)
      BY DEF OsInv, DataSafe, HiddenSafe
    <3>2. \A u \in HiddenArea(h) : prot'[u \div PageSize] = prot[u \div PageSize]
      BY <1>1, <3>1
    <3> QED BY <3>1, <3>2 DEF OsInv, DataSafe, HiddenSafe
  <2>2. \A h, k \in hidden : h # k => HiddenArea(h) \cap HiddenArea(k) = {}
    BY DEF OsInv, DataSafe, HiddenSafe
  <2> QED BY <2>1, <2>2 DEF HiddenSafe, HiddenArea
<1> QED BY <1>2, <1>3

\* mmap gives pages that nobody has, or fails.
LEMMA MapStep ==
  ASSUME OsInv, OptionOK, NEW t \in Thread, Map(t)
  PROVE  OsInv'
<1> DEFINE c == call[t]
<1>0. /\ c \in OsCall /\ c.pc = "map" /\ InFlight(t) = {}
      /\ c.req > 0 /\ c.size = GoodAllocSize(c.req) + (IF c.over THEN c.align ELSE 0)
  BY DEF OsInv, CallFits, OsTypeOK, Map, InFlight
<1>u. UNCHANGED <<option, content, aligned_base, allocs, written, hidden, leaked, fails>>
  BY DEF Map
<1>1. ASSUME NEW p \in MmapPages(c), NEW l \in BOOLEAN, Mapped(t, p, l), UNCHANGED large_page_try_ok
      PROVE  OsInv'
  <2> DEFINE R == Run(p, c.size)
             r == [c EXCEPT !.p = p, !.is_large = l,
                     !.pc = IF c.over THEN "pre" ELSE IF p % c.align # 0 THEN "unmap" ELSE "post"]
  <2>1. p \in Nat /\ R \subseteq Pages /\ \A x \in R : prot[x] = "unmapped"
    BY DEF MmapPages, Unmapped, Pages
  <2>2. r \in OsCall /\ call' = [call EXCEPT ![t] = r]
    BY <1>0, <1>1, <2>1 DEF Mapped, OsCall
  <2>3. /\ r.size = c.size /\ r.req = c.req /\ r.over = c.over /\ r.align = c.align /\ r.p = p
        /\ r.commit = c.commit
        /\ r.pc = IF c.over THEN "pre" ELSE IF p % c.align # 0 THEN "unmap" ELSE "post"
    BY <1>0 DEF OsCall
  <2> HIDE DEF r
  <2>4. /\ call' \in [Thread -> OsCall] /\ call'[t] = r
        /\ \A u \in Thread \ {t} : call'[u] = call[u] /\ InFlight(u)' = InFlight(u)
    BY <2>2, OtherCalls DEF OsInv
  <2>5. InFlight(t)' = R
    BY <2>3, <2>4 DEF InFlight
  <2>6. prot' = [x \in Pages |-> IF x \in R THEN IF c.commit THEN "rw" ELSE "none" ELSE prot[x]]
    BY <1>1 DEF Mapped
  <2>7. Kept' = Kept \cup R /\ Kept \cap R = {}
    <3>1. \A x \in leaked : prot[x] # "unmapped"
      BY DEF OsInv, Owned
    <3> QED BY <1>u, <2>1, <2>6, <3>1 DEF Kept
  <2>8. \A x \in Kept \cup leaked : prot'[x] = prot[x]
    BY <2>1, <2>6, <2>7 DEF Kept, OsInv, OsTypeOK, Owned
  <2>9. reserved' = Cardinality(Kept') /\ reserved' \in Nat
    <3>1. c.size \in Nat
      BY <1>0 DEF OsCall
    <3>2. IsFiniteSet(R) /\ Cardinality(R) = c.size
      BY <2>1, <3>1, RunSize
    <3>3. IsFiniteSet(Kept) /\ Cardinality(Kept) \in Nat
      BY KeptFinite, FS_CardinalityType
    <3>4. Cardinality(Kept \cup R) = Cardinality(Kept) + c.size
      <4>1. Cardinality(Kept \cup R) = Cardinality(Kept) + Cardinality(R) - Cardinality(Kept \cap R)
        BY <3>2, <3>3, FS_Union
      <4>2. Cardinality(Kept \cap R) = 0
        BY <2>7, FS_EmptySet
      <4> QED BY <3>1, <3>2, <3>3, <4>1, <4>2
    <3>5. reserved' = reserved + c.size /\ reserved = Cardinality(Kept)
      BY <1>1 DEF Mapped, OsInv, Owned
    <3> QED BY <2>7, <3>1, <3>3, <3>4, <3>5
  <2>10. CallFits'
    BY <1>0, <2>3, <2>4 DEF OsInv, CallFits
  <2>11. Owned'
    <3>1. \A x \in leaked' : prot'[x] # "unmapped"
      BY <1>u, <2>8 DEF OsInv, Owned
    <3>2. \A a \in allocs' : a.addr % a.align = 0 /\ AreaPages(a) \subseteq Kept'
      BY <1>u, <2>7 DEF OsInv, Owned
    <3>3. \A u \in Thread : InFlight(u)' \subseteq Kept'
      BY <2>4, <2>5, <2>7 DEF OsInv, Owned
    <3>4. \A u \in Thread : \A a \in allocs' : AreaPages(a) \cap InFlight(u)' = {}
      BY <1>u, <2>4, <2>5, <2>7 DEF OsInv, Owned
    <3>5. \A u, w \in Thread : u # w => InFlight(u)' \cap InFlight(w)' = {}
      BY <2>4, <2>5, <2>7 DEF OsInv, Owned
    <3>6. \A x \in Kept' : (\E a \in allocs' : x \in AreaPages(a)) \/ (\E u \in Thread : x \in InFlight(u)')
      <4> SUFFICES ASSUME NEW x \in Kept, ~\E a \in allocs : x \in AreaPages(a)
                   PROVE  \E u \in Thread : x \in InFlight(u)'
        BY <1>u, <2>5, <2>7
      <4>1. PICK u \in Thread : x \in InFlight(u)
        BY DEF OsInv, Owned
      <4> QED BY <1>0, <2>4, <4>1
    <3>7. \A a, b \in allocs' : a # b => AreaPages(a) \cap AreaPages(b) = {}
      BY <1>u DEF OsInv, Owned
    <3> QED BY <2>9, <3>1, <3>2, <3>3, <3>4, <3>5, <3>6, <3>7 DEF Owned, AreaPages
  <2>12. DataSafe'
    <3>1. WrittenSafe' /\ HiddenSafe'
      BY <1>u, <2>8, AreasKeep DEF OsInv, Owned
    <3>2. ASSUME NEW u \in Thread, call'[u].commit, NEW x \in InFlight(u)' PROVE prot'[x] = "rw"
      <4>1. CASE u = t
        BY <2>1, <2>3, <2>4, <2>5, <2>6, <3>2, <4>1
      <4>2. CASE u # t
        BY <2>4, <2>8, <3>2, <4>2 DEF OsInv, Owned, DataSafe, FlightSafe
      <4> QED BY <4>1, <4>2
    <3> QED BY <3>1, <3>2 DEF DataSafe, FlightSafe
  <2>13. OsTypeOK'
    BY <1>1, <1>u, <2>4, <2>6, <2>9 DEF OsInv, OsTypeOK
  <2> QED BY <2>10, <2>11, <2>12, <2>13 DEF OsInv
<1>2. ASSUME NEW r \in OsCall, call' = [call EXCEPT ![t] = r], UNCHANGED <<prot, reserved>>,
             r.pc = "idle" \/ (r.pc = "hint" /\ r.size = c.size /\ r.req = c.req /\ r.over = c.over /\ r.align = c.align),
             large_page_try_ok' \in 0 .. LargeTry
      PROVE  OsInv'
  <2>1. CallFits' /\ Owned' /\ DataSafe' /\ call' \in [Thread -> OsCall]
    BY <1>0, <1>2, <1>u, CallMoves DEF OsInv
  <2>2. OsTypeOK'
    BY <1>2, <1>u, <2>1 DEF OsInv, OsTypeOK
  <2> QED BY <2>1, <2>2 DEF OsInv
<1>3. ASSUME large_page_try_ok' = LargeTry, call' = [call EXCEPT ![t].pc = "hint", ![t].kind = "plain"],
             UNCHANGED <<prot, reserved>>
      PROVE  OsInv'
  <2> DEFINE r == [c EXCEPT !.pc = "hint", !.kind = "plain"]
  <2>1. r \in OsCall /\ call' = [call EXCEPT ![t] = r]
    BY <1>0, <1>3 DEF OsCall
  <2>2. r.pc = "hint" /\ r.size = c.size /\ r.req = c.req /\ r.over = c.over /\ r.align = c.align
    BY <1>0 DEF OsCall
  <2>3. large_page_try_ok' \in 0 .. LargeTry
    BY <1>3, CountAssumption
  <2> HIDE DEF r
  <2> QED BY <1>2, <1>3, <2>1, <2>2, <2>3
<1>4. ASSUME call' = [call EXCEPT ![t] = NoOsCall], UNCHANGED <<prot, reserved, large_page_try_ok>>
      PROVE  OsInv'
  <2>1. NoOsCall \in OsCall /\ NoOsCall.pc = "idle"
    BY CountAssumption DEF NoOsCall, OsCall
  <2>2. large_page_try_ok' \in 0 .. LargeTry
    BY <1>4 DEF OsInv, OsTypeOK
  <2> QED BY <1>2, <1>4, <2>1, <2>2
<1> QED BY <1>1, <1>3, <1>4 DEF Map

\* A call that has unmapped what is not returned keeps the rest, and the others
\* keep what they have.
LEMMA UnmapOwned ==
  ASSUME OsInv, OptionOK, NEW t \in Thread, NEW R \in SUBSET InFlight(t), Munmap(R),
         NEW r \in OsCall, call' = [call EXCEPT ![t] = r], InFlight(t)' = InFlight(t) \ R,
         UNCHANGED <<option, allocs, written, content, hidden>>, r.commit = call[t].commit
  PROVE  Owned' /\ DataSafe'
<1>1. R \in SUBSET Kept
  BY DEF OsInv, Owned
<1>2. /\ Kept' = Kept \ R
      /\ reserved' = Cardinality(Kept') /\ reserved' \in Nat
      /\ prot' \in [Pages -> {"unmapped", "none", "rw"}]
      /\ \A x \in Pages \ R : prot'[x] = prot[x]
      /\ \A x \in leaked' : prot'[x] # "unmapped"
  BY <1>1, MunmapKept DEF OsInv
<1>3. /\ call' \in [Thread -> OsCall] /\ call'[t] = r
      /\ \A u \in Thread \ {t} : call'[u] = call[u] /\ InFlight(u)' = InFlight(u)
  BY OtherCalls DEF OsInv
<1>4. \A a \in allocs : AreaPages(a) \subseteq Kept /\ AreaPages(a) \cap R = {}
  BY DEF OsInv, Owned
<1>5. \A u \in Thread \ {t} : InFlight(u) \subseteq Kept /\ InFlight(u) \cap R = {}
  BY DEF OsInv, Owned
<1>6. Owned'
  <2>1. \A a \in allocs : a.addr % a.align = 0 /\ AreaPages(a) \subseteq Kept'
    BY <1>2, <1>4 DEF OsInv, Owned
  <2>2. \A u \in Thread : InFlight(u)' \subseteq Kept'
    BY <1>2, <1>3, <1>5 DEF OsInv, Owned
  <2>3. \A u \in Thread : InFlight(u)' \subseteq InFlight(u)
    BY <1>3
  <2>4. \A u \in Thread : \A a \in allocs : AreaPages(a) \cap InFlight(u)' = {}
    BY <2>3 DEF OsInv, Owned
  <2>5. \A u, w \in Thread : u # w => InFlight(u)' \cap InFlight(w)' = {}
    BY <2>3 DEF OsInv, Owned
  <2>6. \A x \in Kept' : (\E a \in allocs : x \in AreaPages(a)) \/ (\E u \in Thread : x \in InFlight(u)')
    <3> SUFFICES ASSUME NEW x \in Kept \ R, ~\E a \in allocs : x \in AreaPages(a)
                 PROVE  \E u \in Thread : x \in InFlight(u)'
      BY <1>2
    <3>1. PICK u \in Thread : x \in InFlight(u)
      BY DEF OsInv, Owned
    <3> QED BY <1>3, <3>1
  <2>7. \A a, b \in allocs : a # b => AreaPages(a) \cap AreaPages(b) = {}
    BY DEF OsInv, Owned
  <2> QED BY <1>2, <2>1, <2>2, <2>4, <2>5, <2>6, <2>7 DEF Owned, AreaPages
<1>7. WrittenSafe' /\ HiddenSafe'
  <2>1. \A a \in allocs : \A x \in AreaPages(a) : prot'[x] = prot[x]
    BY <1>2, <1>4 DEF Kept
  <2> QED BY <2>1, AreasKeep
<1>8. FlightSafe'
  <2> SUFFICES ASSUME NEW u \in Thread, call'[u].commit, NEW x \in InFlight(u)' PROVE prot'[x] = "rw"
    BY DEF FlightSafe
  <2>1. call[u].commit /\ x \in InFlight(u) /\ x \notin R
    BY <1>3, <1>5
  <2>2. x \in Pages
    BY <2>1 DEF OsInv, Owned, Kept
  <2> QED BY <1>2, <2>1, <2>2 DEF OsInv, DataSafe, FlightSafe
<1> QED BY <1>6, <1>7, <1>8 DEF DataSafe

\* The memory is not aligned: all of it is unmapped.
LEMMA UnmapStep ==
  ASSUME OsInv, OptionOK, NEW t \in Thread, Unmap(t)
  PROVE  OsInv'
<1> DEFINE c == call[t]
           R == Run(c.p, c.size)
           r == [c EXCEPT !.pc = "start", !.over = TRUE, !.allow = FALSE, !.size = c.size + c.align, !.p = 0]
<1>0. /\ c \in OsCall /\ c.pc = "unmap" /\ InFlight(t) = R
      /\ c.req > 0 /\ c.size = GoodAllocSize(c.req) /\ ~c.over
  <2>1. /\ c \in OsCall /\ c.pc = "unmap" /\ InFlight(t) = R
        /\ c.req > 0 /\ c.size = GoodAllocSize(c.req) + (IF c.over THEN c.align ELSE 0) /\ ~c.over
    BY DEF OsInv, CallFits, OsTypeOK, Unmap, InFlight
  <2>2. GoodAllocSize(c.req) \in Nat
    BY <2>1, GoodSize DEF OsCall
  <2> QED BY <2>1, <2>2
<1>1. r \in OsCall /\ call' = [call EXCEPT ![t] = r]
  <2>1. c.size + c.align \in Nat
    BY <1>0 DEF OsCall
  <2>2. r \in OsCall
    BY <1>0, <2>1 DEF OsCall
  <2>3. call' = [call EXCEPT ![t] = r]
    BY DEF Unmap
  <2> QED BY <2>2, <2>3
<1>2. /\ r.pc = "start" /\ r.over /\ r.size = c.size + c.align /\ r.req = c.req /\ r.align = c.align
      /\ r.commit = c.commit
  BY <1>0 DEF OsCall
<1> HIDE DEF r
<1>3. /\ call' \in [Thread -> OsCall] /\ call'[t] = r
      /\ \A u \in Thread \ {t} : call'[u] = call[u] /\ InFlight(u)' = InFlight(u)
  BY <1>1, OtherCalls DEF OsInv
<1>4. InFlight(t)' = InFlight(t) \ R
  BY <1>0, <1>2, <1>3 DEF InFlight
<1>u. Munmap(R) /\ UNCHANGED <<option, content, aligned_base, large_page_try_ok, allocs, written, hidden>>
  BY DEF Unmap
<1>5. Owned' /\ DataSafe'
  BY <1>0, <1>1, <1>2, <1>4, <1>u, UnmapOwned
<1>6. CallFits'
  BY <1>0, <1>2, <1>3 DEF OsInv, CallFits
<1>7. OsTypeOK'
  <2>1. R \in SUBSET Kept
    BY <1>0 DEF OsInv, Owned
  <2>2. /\ reserved' \in Nat /\ prot' \in [Pages -> {"unmapped", "none", "rw"}]
        /\ leaked' \subseteq Pages /\ fails' \in 0 .. option.max_fails
    BY <2>1, <1>u, MunmapKept DEF OsInv
  <2> QED BY <1>3, <1>u, <2>2 DEF OsInv, OsTypeOK
<1> QED BY <1>5, <1>6, <1>7 DEF OsInv

\* The pages before the aligned address are unmapped.
LEMMA PreStep ==
  ASSUME OsInv, OptionOK, NEW t \in Thread, Pre(t)
  PROVE  OsInv'
<1> DEFINE c == call[t]
           R == Run(c.p, PreSize(c))
           r == [c EXCEPT !.pc = "post"]
<1>0. /\ c \in OsCall /\ c.pc = "pre" /\ InFlight(t) = Run(c.p, c.size)
      /\ c.req > 0 /\ c.size = GoodAllocSize(c.req) + c.align /\ c.over
  BY DEF OsInv, CallFits, OsTypeOK, Pre, InFlight
<1>1. r \in OsCall /\ call' = [call EXCEPT ![t] = r]
  BY <1>0 DEF Pre, OsCall
<1>2. /\ r.pc = "post" /\ r.over /\ r.size = c.size /\ r.req = c.req /\ r.align = c.align
      /\ r.commit = c.commit /\ r.p = c.p
  BY <1>0 DEF OsCall
<1> HIDE DEF r
<1>3. /\ call' \in [Thread -> OsCall] /\ call'[t] = r
      /\ \A u \in Thread \ {t} : call'[u] = call[u] /\ InFlight(u)' = InFlight(u)
  BY <1>1, OtherCalls DEF OsInv
<1>4. R \subseteq InFlight(t) /\ InFlight(t)' = InFlight(t) \ R
  <2>1. GoodAllocSize(c.req) \in Nat \ {0} /\ c.p \in Nat /\ c.align \in Nat \ {0} /\ c.req \in Nat \ {0}
    BY <1>0, GoodSize DEF OsCall
  <2>2. AlignUp(c.p, c.align) \in Nat /\ c.p <= AlignUp(c.p, c.align) /\ AlignUp(c.p, c.align) < c.p + c.align
    BY <2>1, AlignsUp
  <2>3. PreSize(c) \in Nat /\ PreSize(c) < c.align
    BY <2>1, <2>2 DEF PreSize
  <2>4. InFlight(t)' = Run(c.p + PreSize(c), c.size - PreSize(c))
    BY <1>2, <1>3 DEF InFlight, PreSize
  <2> HIDE DEF c
  <2> QED BY <1>0, <2>1, <2>3, <2>4, SMTT(60) DEF Run
<1>u. Munmap(R) /\ UNCHANGED <<option, content, aligned_base, large_page_try_ok, allocs, written, hidden>>
  BY DEF Pre
<1>5. Owned' /\ DataSafe'
  BY <1>1, <1>2, <1>4, <1>u, UnmapOwned
<1>6. CallFits'
  BY <1>0, <1>2, <1>3 DEF OsInv, CallFits
<1>7. OsTypeOK'
  <2>1. R \in SUBSET Kept
    BY <1>4 DEF OsInv, Owned
  <2>2. /\ reserved' \in Nat /\ prot' \in [Pages -> {"unmapped", "none", "rw"}]
        /\ leaked' \subseteq Pages /\ fails' \in 0 .. option.max_fails
    BY <2>1, <1>u, MunmapKept DEF OsInv
  <2> QED BY <1>3, <1>u, <2>2 DEF OsInv, OsTypeOK
<1> QED BY <1>5, <1>6, <1>7 DEF OsInv

\* The program gets the memory at page q, and writes to it when it is committed.
LEMMA Delivered ==
  ASSUME OsInv, OptionOK, NEW t \in Thread, NEW q \in Nat, NEW R \in SUBSET Kept,
         Munmap(R), Done(t, q), UNCHANGED <<option, aligned_base, large_page_try_ok, hidden>>,
         call[t].pc = "post", q % call[t].align = 0,
         InFlight(t) = Run(q, GoodAllocSize(call[t].req)) \cup R,
         Run(q, GoodAllocSize(call[t].req)) \cap R = {}
  PROVE  OsInv'
<1> DEFINE c == call[t]
           n == [addr |-> q, req |-> c.req, align |-> c.align, large |-> c.is_large]
           U == q * PageSize .. q * PageSize + c.req - 1
<1>0. c \in OsCall /\ c.req \in Nat \ {0} /\ n.addr \in Nat
  BY DEF OsInv, CallFits, OsTypeOK, OsCall
<1>n. n \in [addr : Nat, req : Nat \ {0}, align : Nat \ {0}, large : BOOLEAN]
  BY <1>0 DEF OsCall
<1>1. AreaPages(n) = Run(q, GoodAllocSize(c.req)) /\ Area(n) = U
  BY DEF AreaPages, Area
<1>2. /\ Kept' = Kept \ R
      /\ reserved' = Cardinality(Kept') /\ reserved' \in Nat
      /\ prot' \in [Pages -> {"unmapped", "none", "rw"}]
      /\ \A x \in Pages \ R : prot'[x] = prot[x]
      /\ leaked' \subseteq Pages /\ fails' \in 0 .. option.max_fails
      /\ \A x \in leaked' : prot'[x] # "unmapped"
  BY MunmapKept DEF OsInv
<1>3. NoOsCall \in OsCall /\ NoOsCall.pc = "idle" /\ ~NoOsCall.commit
  BY CountAssumption DEF NoOsCall, OsCall
<1>4. allocs' = allocs \cup {n} /\ call' = [call EXCEPT ![t] = NoOsCall]
  BY DEF Done
<1>5. /\ call' \in [Thread -> OsCall] /\ call'[t] = NoOsCall
      /\ \A u \in Thread \ {t} : call'[u] = call[u] /\ InFlight(u)' = InFlight(u)
  BY <1>3, <1>4, OtherCalls DEF OsInv
<1>6. InFlight(t)' = {}
  BY <1>3, <1>5 DEF InFlight
<1>7. /\ AreaPages(n) \subseteq Kept \ R /\ AreaPages(n) \subseteq InFlight(t)
      /\ InFlight(t) = AreaPages(n) \cup R /\ R \subseteq InFlight(t)
  BY <1>1 DEF OsInv, Owned
<1>8. \A a \in allocs : AreaPages(a) \subseteq Kept \ R /\ AreaPages(a) \cap AreaPages(n) = {}
  BY <1>7 DEF OsInv, Owned
<1>9. \A u \in Thread \ {t} : InFlight(u) \subseteq Kept \ R /\ AreaPages(n) \cap InFlight(u) = {}
  BY <1>7 DEF OsInv, Owned
<1> HIDE DEF n
<1>10. Owned'
  <2>1. \A a \in allocs' : a.addr % a.align = 0 /\ AreaPages(a) \subseteq Kept'
    <3>1. n.addr % n.align = 0
      BY DEF n
    <3> QED BY <1>2, <1>4, <1>7, <1>8, <3>1 DEF OsInv, Owned
  <2>2. \A u \in Thread : InFlight(u)' \subseteq Kept'
    BY <1>2, <1>5, <1>6, <1>9
  <2>3. \A u \in Thread : \A a \in allocs' : AreaPages(a) \cap InFlight(u)' = {}
    BY <1>4, <1>5, <1>6, <1>9 DEF OsInv, Owned
  <2>4. \A u, w \in Thread : u # w => InFlight(u)' \cap InFlight(w)' = {}
    BY <1>5, <1>6 DEF OsInv, Owned
  <2>5. \A x \in Kept' : (\E a \in allocs' : x \in AreaPages(a)) \/ (\E u \in Thread : x \in InFlight(u)')
    <3> SUFFICES ASSUME NEW x \in Kept \ R, ~\E a \in allocs' : x \in AreaPages(a)
                 PROVE  \E u \in Thread : x \in InFlight(u)'
      BY <1>2
    <3>1. x \notin InFlight(t)
      BY <1>4, <1>7
    <3>2. PICK u \in Thread : x \in InFlight(u)
      BY <1>4 DEF OsInv, Owned
    <3> QED BY <1>5, <3>1, <3>2
  <2>6. \A a, b \in allocs' : a # b => AreaPages(a) \cap AreaPages(b) = {}
    BY <1>4, <1>8 DEF OsInv, Owned
  <2> QED BY <1>2, <2>1, <2>2, <2>3, <2>4, <2>5, <2>6 DEF Owned, AreaPages
<1>11. \A u \in Area(n) : u \in Nat /\ u \div PageSize \in AreaPages(n)
  BY <1>n, AreaInPages
<1>12. ASSUME NEW a \in allocs, NEW u \in Area(a)
       PROVE  u \notin U /\ prot'[u \div PageSize] = prot[u \div PageSize]
  <2>1. u \in Nat /\ u \div PageSize \in AreaPages(a) /\ u \div PageSize \in Kept
    BY AreaKept
  <2> QED BY <1>1, <1>2, <1>8, <1>11, <2>1 DEF Kept
<1>13. c.commit => \A u \in U : prot'[u \div PageSize] = "rw"
  <2> SUFFICES ASSUME c.commit, NEW u \in U PROVE prot'[u \div PageSize] = "rw"
    OBVIOUS
  <2>1. u \div PageSize \in AreaPages(n)
    BY <1>1, <1>11
  <2>2. u \div PageSize \in InFlight(t) /\ u \div PageSize \in Pages \ R
    BY <1>7, <2>1 DEF Kept
  <2> QED BY <1>2, <2>2 DEF OsInv, DataSafe, FlightSafe
<1>14. /\ written \subseteq written' /\ content \subseteq content'
       /\ c.commit => written' = written \cup U /\ content' = content \cup U
       /\ ~c.commit => written' = written /\ content' = content
  BY DEF Done
<1>15. WrittenSafe'
  <2> SUFFICES ASSUME NEW u \in written'
               PROVE  u \in content' /\ prot'[u \div PageSize] = "rw" /\ \E a \in allocs' : u \in Area(a)
    BY DEF WrittenSafe, Area
  <2>1. CASE u \in written
    BY <1>4, <1>12, <1>14, <2>1 DEF OsInv, DataSafe, WrittenSafe
  <2>2. CASE u \notin written
    BY <1>1, <1>4, <1>13, <1>14, <2>2
  <2> QED BY <2>1, <2>2
<1>16. HiddenSafe'
  <2>1. ASSUME NEW h \in hidden
        PROVE  /\ \E a \in allocs' : HiddenArea(h) \subseteq Area(a)
               /\ HiddenArea(h) \cap written' = {}
               /\ \A u \in HiddenArea(h) :
                    \/ prot'[u \div PageSize] = "rw"
                    \/ /\ u \div PageSize \in PageAlignArea(TRUE, h.lo, h.n)
                       /\ h.how = "reset" => option.reset_decommits
    <3>1. PICK a \in allocs : HiddenArea(h) \subseteq Area(a)
      BY DEF OsInv, DataSafe, HiddenSafe
    <3>2. \A u \in HiddenArea(h) : u \notin U /\ prot'[u \div PageSize] = prot[u \div PageSize]
      BY <1>12, <3>1
    <3>3. HiddenArea(h) \cap written = {}
      BY DEF OsInv, DataSafe, HiddenSafe
    <3> QED BY <1>4, <1>14, <3>1, <3>2, <3>3 DEF OsInv, DataSafe, HiddenSafe
  <2>2. \A h, k \in hidden : h # k => HiddenArea(h) \cap HiddenArea(k) = {}
    BY DEF OsInv, DataSafe, HiddenSafe
  <2> QED BY <2>1, <2>2, ZenonT(60) DEF HiddenSafe, HiddenArea, Area
<1>17. FlightSafe'
  <2> SUFFICES ASSUME NEW u \in Thread, call'[u].commit, NEW x \in InFlight(u)' PROVE prot'[x] = "rw"
    BY DEF FlightSafe
  <2>1. u # t /\ call[u].commit /\ x \in InFlight(u) /\ x \in Kept \ R
    BY <1>5, <1>6, <1>9
  <2> QED BY <1>2, <2>1 DEF OsInv, DataSafe, FlightSafe, Kept
<1>18. CallFits'
  BY <1>3, <1>5 DEF OsInv, CallFits
<1>19. OsTypeOK'
  <2>1. U \subseteq Units(1, PageCount)
    <3> SUFFICES ASSUME NEW u \in U PROVE u \in Units(1, PageCount)
      OBVIOUS
    <3>1. u \in Nat /\ u \div PageSize \in Pages
      BY <1>1, <1>7, <1>11 DEF Kept
    <3>2. Pages = Run(1, PageCount)
      BY SpaceAssumption DEF Pages, Run
    <3> QED BY <3>1, <3>2, SpaceAssumption, PageOfUnit
  <2>2. content' \subseteq Units(1, PageCount) /\ written' \subseteq Units(1, PageCount)
    BY <1>14, <2>1 DEF OsInv, OsTypeOK
  <2>3. allocs' \subseteq [addr : Nat, req : Nat \ {0}, align : Nat \ {0}, large : BOOLEAN]
    BY <1>4, <1>n DEF OsInv, OsTypeOK
  <2> QED BY <1>2, <1>5, <2>2, <2>3 DEF OsInv, OsTypeOK
<1> QED BY <1>10, <1>15, <1>16, <1>17, <1>18, <1>19 DEF OsInv, DataSafe

\* The call ends.
LEMMA PostStep ==
  ASSUME OsInv, OptionOK, NEW t \in Thread, Post(t)
  PROVE  OsInv'
<1> DEFINE c == call[t]
           n == GoodAllocSize(c.req)
<1>0. /\ c \in OsCall /\ c.pc = "post" /\ c.req \in Nat \ {0}
      /\ c.size = n + (IF c.over THEN c.align ELSE 0)
      /\ ~c.over => c.p % c.align = 0
      /\ c.p \in Nat /\ c.align \in Nat \ {0} /\ n \in Nat \ {0}
  <2>1. c \in OsCall /\ c.pc = "post" /\ c.req \in Nat \ {0}
    BY DEF OsInv, CallFits, OsTypeOK, Post, OsCall
  <2> QED BY <2>1, GoodSize DEF OsInv, CallFits, OsCall
<1>u. UNCHANGED <<option, aligned_base, large_page_try_ok, hidden>>
  BY DEF Post
<1>1. CASE ~c.over
  <2>1. InFlight(t) = Run(c.p, n)
    BY <1>0, <1>1 DEF InFlight
  <2>2. UNCHANGED <<reserved, prot, leaked, fails>> /\ Done(t, c.p)
    BY <1>1 DEF Post
  <2>3. Munmap({})
    <3>1. Cardinality({}) = 0 /\ reserved \in Nat
      BY FS_EmptySet DEF OsInv, OsTypeOK
    <3>2. prot = [x \in Pages |-> IF x \in {} THEN "unmapped" ELSE prot[x]]
      BY DEF OsInv, OsTypeOK
    <3> QED BY <2>2, <3>1, <3>2 DEF Munmap
  <2> HIDE DEF n
  <2> QED BY <1>0, <1>1, <1>u, <2>1, <2>2, <2>3, Delivered DEF n
<1>2. CASE c.over
  <2> DEFINE q == AlignUp(c.p, c.align)
             R == PostRun(c)
             d == [p |-> c.p, align |-> c.align, size |-> n + c.align]
  <2>1. Munmap(R) /\ Done(t, q)
    BY <1>2 DEF Post
  <2>2. c.size = n + c.align
    BY <1>0, <1>2
  <2>3. PreSize(d) = PreSize(c) /\ PostRun(d) = R
    BY <2>2 DEF PreSize, PostRun
  <2>4. InFlight(t) = Run(c.p + PreSize(c), n + c.align - PreSize(c))
    <3>1. InFlight(t) = Run(c.p + PreSize(c), c.size - PreSize(c))
      BY <1>0, <1>2, Zenon DEF InFlight
    <3>2. PreSize(c) \in Int
      <4> HIDE DEF c, n
      <4>1. AlignUp(c.p, c.align) \in Nat
        BY <1>0, AlignsUp
      <4> QED BY <1>0, <4>1 DEF PreSize
    <3>3. c.size - PreSize(c) = n + c.align - PreSize(c)
      BY <1>0, <2>2, <3>2
    <3> QED BY <3>1, <3>3
  <2>5. /\ q \in Nat /\ q % c.align = 0
        /\ Run(q, n) \cap PostRun(d) = {}
        /\ Run(c.p + PreSize(d), n + c.align - PreSize(d)) = Run(q, n) \cup PostRun(d)
    <3> HIDE DEF n, c
    <3> QED BY <1>0, OverParts
  <2>6. InFlight(t) = Run(q, n) \cup R /\ Run(q, n) \cap R = {}
    BY <2>3, <2>4, <2>5
  <2>7. R \in SUBSET Kept
    BY <2>6 DEF OsInv, Owned
  <2> HIDE DEF q, R, d, n
  <2> QED BY <1>0, <1>u, <2>1, <2>5, <2>6, <2>7, Delivered DEF n
<1> QED BY <1>1, <1>2

-----------------------------------------------------------------------------
(* What the program does with its memory *)

\* Memory is given back.
LEMMA OsFreeStep ==
  ASSUME OsInv, OptionOK, NEW a \in allocs, OsFree(a)
  PROVE  OsInv'
<1> DEFINE R == AreaPages(a)
<1>0. R \in SUBSET Kept
  BY DEF OsInv, Owned
<1>1. /\ allocs' = allocs \ {a} /\ written' = written \ Area(a)
      /\ content' = content \ Units(a.addr, GoodAllocSize(a.req))
      /\ hidden' = {h \in hidden : h.lo \notin Area(a)}
      /\ UNCHANGED <<option, aligned_base, large_page_try_ok, call>> /\ Munmap(R)
  BY DEF OsFree
<1>2. /\ Kept' = Kept \ R
      /\ reserved' = Cardinality(Kept') /\ reserved' \in Nat
      /\ prot' \in [Pages -> {"unmapped", "none", "rw"}]
      /\ \A x \in Pages \ R : prot'[x] = prot[x]
      /\ leaked' \subseteq Pages /\ fails' \in 0 .. option.max_fails
      /\ \A x \in leaked' : prot'[x] # "unmapped"
  BY <1>0, <1>1, MunmapKept DEF OsInv
<1>3. \A b \in allocs' : AreaPages(b) \subseteq Kept \ R
  BY <1>1 DEF OsInv, Owned
<1>4. \A u \in Thread : InFlight(u)' = InFlight(u) /\ InFlight(u) \subseteq Kept \ R
  BY <1>1 DEF OsInv, Owned, InFlight
<1>5. Owned'
  <2>1. \A b \in allocs' : b.addr % b.align = 0 /\ AreaPages(b) \subseteq Kept'
    BY <1>1, <1>2, <1>3 DEF OsInv, Owned
  <2>2. \A u \in Thread : InFlight(u)' \subseteq Kept'
    BY <1>2, <1>4
  <2>3. \A u \in Thread : \A b \in allocs' : AreaPages(b) \cap InFlight(u)' = {}
    BY <1>1, <1>4 DEF OsInv, Owned
  <2>4. \A u, w \in Thread : u # w => InFlight(u)' \cap InFlight(w)' = {}
    BY <1>4 DEF OsInv, Owned
  <2>5. \A x \in Kept' : (\E b \in allocs' : x \in AreaPages(b)) \/ (\E u \in Thread : x \in InFlight(u)')
    BY <1>1, <1>2, <1>4 DEF OsInv, Owned
  <2>6. \A b, d \in allocs' : b # d => AreaPages(b) \cap AreaPages(d) = {}
    BY <1>1 DEF OsInv, Owned
  <2> QED BY <1>2, <2>1, <2>2, <2>3, <2>4, <2>5, <2>6 DEF Owned, AreaPages
<1>6. ASSUME NEW b \in allocs', NEW u \in Area(b)
      PROVE  prot'[u \div PageSize] = prot[u \div PageSize] /\ u \notin Area(a)
             /\ u \notin Units(a.addr, GoodAllocSize(a.req))
  <2>1. u \in Nat /\ u \div PageSize \in AreaPages(b) /\ u \div PageSize \in Kept
    BY <1>1, <1>6, AreaKept
  <2>2. u \div PageSize \notin R
    BY <1>3, <2>1
  <2>3. u \notin Area(a)
    BY <2>2, AreaKept
  <2>4. a.addr \in Nat /\ GoodAllocSize(a.req) \in Nat
    BY GoodSize DEF OsInv, OsTypeOK
  <2>5. u \notin Units(a.addr, GoodAllocSize(a.req))
    BY <2>1, <2>2, <2>4, PageOfUnit DEF AreaPages
  <2> QED BY <1>2, <2>1, <2>2, <2>3, <2>5 DEF Kept
<1>7. WrittenSafe'
  <2> SUFFICES ASSUME NEW u \in written'
               PROVE  u \in content' /\ prot'[u \div PageSize] = "rw" /\ \E b \in allocs' : u \in Area(b)
    BY DEF WrittenSafe, Area
  <2>1. u \in content /\ prot[u \div PageSize] = "rw"
    BY <1>1 DEF OsInv, DataSafe, WrittenSafe
  <2>2. PICK b \in allocs' : u \in Area(b)
    BY <1>1 DEF OsInv, DataSafe, WrittenSafe
  <2> QED BY <1>1, <1>6, <2>1, <2>2
<1>8. HiddenSafe'
  <2>1. ASSUME NEW h \in hidden'
        PROVE  /\ \E b \in allocs' : HiddenArea(h) \subseteq Area(b)
               /\ HiddenArea(h) \cap written' = {}
               /\ \A u \in HiddenArea(h) :
                    \/ prot'[u \div PageSize] = "rw"
                    \/ /\ u \div PageSize \in PageAlignArea(TRUE, h.lo, h.n)
                       /\ h.how = "reset" => option.reset_decommits
    <3>1. h \in hidden /\ h.lo \in HiddenArea(h)
      BY <1>1 DEF OsInv, OsTypeOK, HiddenArea
    <3>2. PICK b \in allocs : HiddenArea(h) \subseteq Area(b)
      BY <3>1 DEF OsInv, DataSafe, HiddenSafe
    <3>3. b \in allocs'
      BY <1>1, <3>1, <3>2
    <3>4. \A u \in HiddenArea(h) : prot'[u \div PageSize] = prot[u \div PageSize]
      BY <1>6, <3>2, <3>3
    <3> QED BY <1>1, <3>1, <3>2, <3>3, <3>4 DEF OsInv, DataSafe, HiddenSafe
  <2>2. \A h, k \in hidden' : h # k => HiddenArea(h) \cap HiddenArea(k) = {}
    BY <1>1 DEF OsInv, DataSafe, HiddenSafe
  <2> QED BY <1>1, <2>1, <2>2 DEF HiddenSafe, HiddenArea, Area
<1>9. FlightSafe'
  <2> SUFFICES ASSUME NEW u \in Thread, call'[u].commit, NEW x \in InFlight(u)' PROVE prot'[x] = "rw"
    BY DEF FlightSafe
  <2>1. call[u].commit /\ x \in InFlight(u) /\ x \in Kept \ R
    BY <1>1, <1>4
  <2> QED BY <1>2, <2>1 DEF OsInv, DataSafe, FlightSafe, Kept
<1>10. CallFits'
  BY <1>1 DEF OsInv, CallFits
<1>11. OsTypeOK'
  BY <1>1, <1>2 DEF OsInv, OsTypeOK
<1> QED BY <1>5, <1>7, <1>8, <1>9, <1>10, <1>11 DEF OsInv, DataSafe

\* When the pages of an area change their access, no page is mapped or unmapped.
LEMMA AccessKeeps ==
  ASSUME OsInv, NEW a \in allocs, NEW R \in SUBSET AreaPages(a), NEW access \in {"none", "rw"},
         prot' = Protected(R, access) \/ UNCHANGED prot,
         UNCHANGED <<option, aligned_base, large_page_try_ok, reserved, call, allocs, leaked, fails>>
  PROVE  /\ Owned' /\ CallFits' /\ FlightSafe'
         /\ prot' \in [Pages -> {"unmapped", "none", "rw"}]
         /\ \A x \in Pages \ R : prot'[x] = prot[x]
         /\ \A x \in R : prot'[x] \in {prot[x], access}
<1>0. R \subseteq Kept
  BY DEF OsInv, Owned
<1>1. /\ prot' \in [Pages -> {"unmapped", "none", "rw"}]
      /\ \A x \in Pages \ R : prot'[x] = prot[x]
      /\ \A x \in R : prot'[x] \in {prot[x], access}
  BY <1>0 DEF Protected, OsInv, OsTypeOK, Kept
<1>2. Kept' = Kept
  BY <1>0, <1>1 DEF Kept
<1>3. \A u \in Thread : InFlight(u)' = InFlight(u)
  BY DEF InFlight
<1>4. Owned'
  <2>1. \A x \in leaked' : prot'[x] # "unmapped"
    BY <1>0, <1>1 DEF Kept, OsInv, Owned, OsTypeOK
  <2> QED BY <1>2, <1>3, <2>1 DEF OsInv, Owned, AreaPages
<1>5. CallFits'
  BY DEF OsInv, CallFits
<1>6. FlightSafe'
  <2> SUFFICES ASSUME NEW u \in Thread, call'[u].commit, NEW x \in InFlight(u)' PROVE prot'[x] = "rw"
    BY DEF FlightSafe
  <2>1. call[u].commit /\ x \in InFlight(u)
    BY <1>3
  <2>2. x \in Pages \ R
    BY <2>1 DEF OsInv, Owned, Kept
  <2> QED BY <1>1, <2>1, <2>2 DEF OsInv, DataSafe, FlightSafe
<1> QED BY <1>1, <1>4, <1>5, <1>6

\* The pages inside an area of an allocation, and those it touches, are the allocation's.
LEMMA AreaAligned ==
  ASSUME OsInv, NEW a \in allocs, NEW lo \in Nat, NEW n \in Nat \ {0}, lo .. lo + n - 1 \subseteq Area(a)
  PROVE  /\ PageAlignArea(TRUE, lo, n) \subseteq PageAlignArea(FALSE, lo, n)
         /\ PageAlignArea(FALSE, lo, n) \subseteq AreaPages(a)
<1>1. PageAlignArea(TRUE, lo, n) \subseteq PageAlignArea(FALSE, lo, n)
  BY AlignedArea
<1>2. ASSUME NEW x \in PageAlignArea(FALSE, lo, n) PROVE x \in AreaPages(a)
  <2>1. PICK u \in lo .. lo + n - 1 : u \div PageSize = x
    BY TouchedPage, ZenonT(60)
  <2> QED BY <2>1, AreaKept
<1> QED BY <1>1, <1>2

\* The units of an area are units of the address space.
LEMMA AreaUnits ==
  ASSUME OsInv, NEW a \in allocs
  PROVE  Area(a) \subseteq Units(1, PageCount) /\ Area(a) \subseteq Nat
<1> SUFFICES ASSUME NEW u \in Area(a) PROVE u \in Units(1, PageCount) /\ u \in Nat
  OBVIOUS
<1>1. u \in Nat /\ u \div PageSize \in Pages
  BY AreaKept DEF Kept
<1>2. Pages = Run(1, PageCount)
  BY SpaceAssumption DEF Pages, Run
<1> QED BY <1>1, <1>2, SpaceAssumption, PageOfUnit

\* An area in which the program gave up nothing shares no unit with what it hid.
LEMMA HiddenApart ==
  ASSUME NEW a, NEW lo, NEW n, FreeArea(a, lo, n), NEW h \in hidden
  PROVE  HiddenArea(h) \cap (lo .. lo + n - 1) = {}
BY DEF FreeArea, HiddenArea

\* An area is committed.
LEMMA CommitStep ==
  ASSUME OsInv, NEW a \in allocs, NEW lo \in Nat, NEW n \in Nat \ {0}, Commit(a, lo, n)
  PROVE  OsInv'
<1> DEFINE R == PageAlignArea(FALSE, lo, n)
           U == lo .. lo + n - 1
<1>1. /\ U \subseteq Area(a) /\ prot' = Protected(R, "rw")
      /\ written' = written \cup U /\ content' = content \cup U
      /\ UNCHANGED <<option, aligned_base, large_page_try_ok, reserved, call, allocs, hidden, leaked, fails>>
      /\ \A h \in hidden : HiddenArea(h) \cap U = {}
  BY HiddenApart DEF Commit, FreeArea
<1>2. R \in SUBSET AreaPages(a)
  BY <1>1, AreaAligned
<1>3. \A u \in U : u \div PageSize \in R
  BY <1>1, AreaUnits, AlignedArea
<1> HIDE DEF R, U
<1>4. /\ Owned' /\ CallFits' /\ FlightSafe'
      /\ prot' \in [Pages -> {"unmapped", "none", "rw"}]
      /\ \A x \in Pages \ R : prot'[x] = prot[x]
      /\ \A x \in R : prot'[x] \in {prot[x], "rw"}
  BY <1>1, <1>2, AccessKeeps
<1>5. R \subseteq Pages /\ \A x \in R : prot'[x] = "rw"
  BY <1>1, <1>2 DEF OsInv, Owned, Kept, Protected
<1>6. \A x \in Pages : prot[x] = "rw" => prot'[x] = "rw"
  BY <1>4, <1>5
<1>7. \A b \in allocs : \A u \in Area(b) : u \div PageSize \in Pages
  BY AreaKept DEF Kept
<1>8. WrittenSafe'
  <2> SUFFICES ASSUME NEW u \in written'
               PROVE  u \in content' /\ prot'[u \div PageSize] = "rw" /\ \E b \in allocs' : u \in Area(b)
    BY DEF WrittenSafe, Area
  <2>1. CASE u \in U
    BY <1>1, <1>3, <1>5, <2>1
  <2>2. CASE u \notin U
    <3>1. u \in written
      BY <1>1, <2>2
    <3> QED BY <1>1, <1>6, <1>7, <3>1 DEF OsInv, DataSafe, WrittenSafe
  <2> QED BY <2>1, <2>2
<1>9. HiddenSafe'
  <2>1. ASSUME NEW h \in hidden
        PROVE  /\ \E b \in allocs : HiddenArea(h) \subseteq Area(b)
               /\ HiddenArea(h) \cap written' = {}
               /\ \A u \in HiddenArea(h) :
                    \/ prot'[u \div PageSize] = "rw"
                    \/ /\ u \div PageSize \in PageAlignArea(TRUE, h.lo, h.n)
                       /\ h.how = "reset" => option.reset_decommits
    <3>1. PICK b \in allocs : HiddenArea(h) \subseteq Area(b)
      BY DEF OsInv, DataSafe, HiddenSafe
    <3> QED BY <1>1, <1>6, <1>7, <3>1 DEF OsInv, DataSafe, HiddenSafe
  <2>2. \A h, k \in hidden : h # k => HiddenArea(h) \cap HiddenArea(k) = {}
    BY DEF OsInv, DataSafe, HiddenSafe
  <2> QED BY <1>1, <2>1, <2>2 DEF HiddenSafe, HiddenArea, Area
<1>10. OsTypeOK'
  <2>1. U \subseteq Units(1, PageCount)
    BY <1>1, AreaUnits
  <2> QED BY <1>1, <1>4, <2>1 DEF OsInv, OsTypeOK
<1> QED BY <1>4, <1>8, <1>9, <1>10 DEF OsInv, DataSafe

\* A unit of the pages inside an area is a unit of the area.
LEMMA InsideUnits ==
  ASSUME OsInv, NEW lo \in Nat, NEW n \in Nat \ {0}, NEW u \in Nat
  PROVE  u \in UNION {Units(p, 1) : p \in PageAlignArea(TRUE, lo, n) \cap Pages} => u \in lo .. lo + n - 1
<1> SUFFICES ASSUME NEW p \in PageAlignArea(TRUE, lo, n) \cap Pages, u \in Units(p, 1)
             PROVE  u \in lo .. lo + n - 1
  OBVIOUS
<1>1. p \in Nat
  BY DEF Pages
<1>2. u \div PageSize \in Run(p, 1)
  BY <1>1, PageOfUnit
<1>3. u \div PageSize = p
  BY <1>1, <1>2 DEF Run
<1> QED BY <1>3, AlignedArea

\* An area is decommitted, reset or protected: what it loses lies inside of it.
LEMMA GiveUp ==
  ASSUME OsInv, NEW a \in allocs, NEW lo \in Nat, NEW n \in Nat \ {0}, FreeArea(a, lo, n),
         prot' = Protected(PageAlignArea(TRUE, lo, n), "none") \/ UNCHANGED prot,
         \/ content' = content \ UNION {Units(p, 1) : p \in PageAlignArea(TRUE, lo, n)}
         \/ UNCHANGED content,
         written' = written \ lo .. lo + n - 1,
         UNCHANGED <<option, aligned_base, large_page_try_ok, reserved, call, allocs, leaked, fails>>
  PROVE  /\ Owned' /\ CallFits' /\ FlightSafe' /\ WrittenSafe'
         /\ prot' \in [Pages -> {"unmapped", "none", "rw"}]
         /\ content' \subseteq content /\ written' \subseteq written
         /\ \A u \in Nat : u \div PageSize \in Pages /\ u \notin lo .. lo + n - 1 =>
              prot'[u \div PageSize] = prot[u \div PageSize]
<1> DEFINE R == PageAlignArea(TRUE, lo, n)
           U == lo .. lo + n - 1
<1>1. U \subseteq Area(a) /\ R \in SUBSET AreaPages(a)
  BY AreaAligned DEF FreeArea
<1>2. R \subseteq Pages
  BY <1>1 DEF OsInv, Owned, Kept
<1>3. \A u \in Nat : u \div PageSize \in R => u \in U
  BY AlignedArea
<1>4. \A u \in Nat : u \in UNION {Units(p, 1) : p \in R} => u \in U
  <2>1. R \cap Pages = R
    BY <1>2
  <2> QED BY <2>1, InsideUnits
<1> HIDE DEF R, U
<1>5. /\ Owned' /\ CallFits' /\ FlightSafe'
      /\ prot' \in [Pages -> {"unmapped", "none", "rw"}]
      /\ \A x \in Pages \ R : prot'[x] = prot[x]
  BY <1>1, AccessKeeps DEF R
<1>6. \A u \in Nat : u \div PageSize \in Pages /\ u \notin U => prot'[u \div PageSize] = prot[u \div PageSize]
  BY <1>3, <1>5
<1>7. content' \subseteq content /\ \A u \in content : u \in Nat /\ u \notin U => u \in content'
  BY <1>4 DEF R
<1>8. written' = written \ U
  BY DEF U
<1>9. WrittenSafe'
  <2> SUFFICES ASSUME NEW u \in written'
               PROVE  u \in content' /\ prot'[u \div PageSize] = "rw" /\ \E b \in allocs' : u \in Area(b)
    BY DEF WrittenSafe, Area
  <2>1. u \in written /\ u \notin U
    BY <1>8
  <2>2. PICK b \in allocs : u \in Area(b)
    BY <2>1 DEF OsInv, DataSafe, WrittenSafe
  <2>3. u \in Nat /\ u \div PageSize \in Pages
    BY <2>2, AreaKept DEF Kept
  <2> QED BY <1>6, <1>7, <2>1, <2>2, <2>3 DEF OsInv, DataSafe, WrittenSafe
<1> QED BY <1>5, <1>6, <1>7, <1>8, <1>9 DEF U

\* What is hidden elsewhere stays as it is.
LEMMA HiddenKeeps ==
  ASSUME OsInv, NEW lo, NEW n, NEW h \in hidden, HiddenArea(h) \cap (lo .. lo + n - 1) = {},
         \A u \in Nat : u \div PageSize \in Pages /\ u \notin lo .. lo + n - 1 =>
              prot'[u \div PageSize] = prot[u \div PageSize],
         UNCHANGED option
  PROVE  /\ \E b \in allocs : HiddenArea(h) \subseteq Area(b)
         /\ HiddenArea(h) \cap written = {}
         /\ \A u \in HiddenArea(h) :
              \/ prot'[u \div PageSize] = "rw"
              \/ /\ u \div PageSize \in PageAlignArea(TRUE, h.lo, h.n)
                 /\ h.how = "reset" => option'.reset_decommits
<1>1. PICK b \in allocs : HiddenArea(h) \subseteq Area(b)
  BY DEF OsInv, DataSafe, HiddenSafe
<1>2. \A u \in HiddenArea(h) : u \in Nat /\ u \div PageSize \in Pages /\ u \notin lo .. lo + n - 1
  BY <1>1, AreaKept DEF Kept
<1>3. \A u \in HiddenArea(h) : prot'[u \div PageSize] = prot[u \div PageSize]
  BY <1>2
<1> QED BY <1>1, <1>3 DEF OsInv, DataSafe, HiddenSafe

\* An area is decommitted.
LEMMA DecommitStep ==
  ASSUME OsInv, NEW a \in allocs, NEW lo \in Nat, NEW n \in Nat \ {0}, Decommit(a, lo, n)
  PROVE  OsInv'
<1>1. /\ FreeArea(a, lo, n)
      /\ prot' = Protected(PageAlignArea(TRUE, lo, n), "none")
      /\ content' = content \ UNION {Units(p, 1) : p \in PageAlignArea(TRUE, lo, n)}
      /\ written' = written \ lo .. lo + n - 1
      /\ UNCHANGED <<option, aligned_base, large_page_try_ok, reserved, call, allocs, leaked, fails>>
      /\ UNCHANGED hidden
  BY DEF Decommit, Decommitted
<1>2. /\ Owned' /\ CallFits' /\ FlightSafe' /\ WrittenSafe'
      /\ prot' \in [Pages -> {"unmapped", "none", "rw"}]
      /\ content' \subseteq content /\ written' \subseteq written
      /\ \A u \in Nat : u \div PageSize \in Pages /\ u \notin lo .. lo + n - 1 =>
           prot'[u \div PageSize] = prot[u \div PageSize]
  BY <1>1, GiveUp
<1>3. HiddenSafe'
  <2>1. ASSUME NEW h \in hidden
        PROVE  /\ \E b \in allocs : HiddenArea(h) \subseteq Area(b)
               /\ HiddenArea(h) \cap written = {}
               /\ \A u \in HiddenArea(h) :
                    \/ prot'[u \div PageSize] = "rw"
                    \/ /\ u \div PageSize \in PageAlignArea(TRUE, h.lo, h.n)
                       /\ h.how = "reset" => option'.reset_decommits
    <3>1. HiddenArea(h) \cap (lo .. lo + n - 1) = {}
      BY <1>1, HiddenApart
    <3> QED BY <1>1, <1>2, <3>1, HiddenKeeps
  <2>2. \A h, k \in hidden : h # k => HiddenArea(h) \cap HiddenArea(k) = {}
    BY DEF OsInv, DataSafe, HiddenSafe
  <2> QED BY <1>1, <1>2, <2>1, <2>2 DEF HiddenSafe, HiddenArea, Area
<1>4. OsTypeOK'
  BY <1>1, <1>2 DEF OsInv, OsTypeOK
<1> QED BY <1>2, <1>3, <1>4 DEF OsInv, DataSafe

\* An area is reset or protected.
LEMMA HideStep ==
  ASSUME OsInv, OptionOK, NEW a \in allocs, NEW lo \in Nat, NEW n \in Nat \ {0},
         NEW how \in {"reset", "protect"}, Hide(a, lo, n, how)
  PROVE  OsInv'
<1> DEFINE k == [lo |-> lo, n |-> n, how |-> how]
           U == lo .. lo + n - 1
<1>1. /\ FreeArea(a, lo, n) /\ U \subseteq written
      /\ prot' = Protected(PageAlignArea(TRUE, lo, n), "none") \/ UNCHANGED prot
      /\ \/ content' = content \ UNION {Units(p, 1) : p \in PageAlignArea(TRUE, lo, n)}
         \/ UNCHANGED content
      /\ how = "reset" /\ ~option.reset_decommits => UNCHANGED prot
      /\ written' = written \ U
      /\ hidden' = hidden \cup {k}
      /\ UNCHANGED <<option, aligned_base, large_page_try_ok, reserved, call, allocs, leaked, fails>>
  BY DEF Hide, ResetPages, Decommitted
<1>2. /\ Owned' /\ CallFits' /\ FlightSafe' /\ WrittenSafe'
      /\ prot' \in [Pages -> {"unmapped", "none", "rw"}]
      /\ content' \subseteq content /\ written' \subseteq written
      /\ \A u \in Nat : u \div PageSize \in Pages /\ u \notin lo .. lo + n - 1 =>
           prot'[u \div PageSize] = prot[u \div PageSize]
  BY <1>1, GiveUp
<1>3. ASSUME NEW h \in hidden PROVE HiddenArea(h) \cap U = {}
  BY <1>1, HiddenApart
<1>4. HiddenArea(k) = U /\ k.lo = lo /\ k.n = n /\ k.how = how
  BY DEF HiddenArea
<1> HIDE DEF k
<1>5. HiddenSafe'
  <2>1. ASSUME NEW h \in hidden
        PROVE  /\ \E b \in allocs : HiddenArea(h) \subseteq Area(b)
               /\ HiddenArea(h) \cap written = {}
               /\ \A u \in HiddenArea(h) :
                    \/ prot'[u \div PageSize] = "rw"
                    \/ /\ u \div PageSize \in PageAlignArea(TRUE, h.lo, h.n)
                       /\ h.how = "reset" => option'.reset_decommits
    BY <1>1, <1>2, <1>3, HiddenKeeps
  <2>2. \E b \in allocs : U \subseteq Area(b)
    BY <1>1 DEF FreeArea
  <2>3. ASSUME NEW u \in U
        PROVE  \/ prot'[u \div PageSize] = "rw"
               \/ /\ u \div PageSize \in PageAlignArea(TRUE, lo, n)
                  /\ how = "reset" => option'.reset_decommits
    <3>1. prot[u \div PageSize] = "rw" /\ \E b \in allocs : u \in Area(b)
      BY <1>1 DEF OsInv, DataSafe, WrittenSafe
    <3>2. u \div PageSize \in Pages
      BY <3>1, AreaKept DEF Kept
    <3>3. CASE u \div PageSize \in PageAlignArea(TRUE, lo, n)
      BY <1>1, <3>1, <3>3
    <3>4. CASE u \div PageSize \notin PageAlignArea(TRUE, lo, n)
      BY <1>1, <3>1, <3>2, <3>4 DEF Protected
    <3> QED BY <3>3, <3>4
  <2>4. \A h \in hidden' :
       /\ \E b \in allocs : HiddenArea(h) \subseteq Area(b)
       /\ HiddenArea(h) \cap written' = {}
       /\ \A u \in HiddenArea(h) :
            \/ prot'[u \div PageSize] = "rw"
            \/ /\ u \div PageSize \in PageAlignArea(TRUE, h.lo, h.n)
               /\ h.how = "reset" => option'.reset_decommits
    <3> SUFFICES ASSUME NEW h \in hidden'
                 PROVE  /\ \E b \in allocs : HiddenArea(h) \subseteq Area(b)
                        /\ HiddenArea(h) \cap written' = {}
                        /\ \A u \in HiddenArea(h) :
                             \/ prot'[u \div PageSize] = "rw"
                             \/ /\ u \div PageSize \in PageAlignArea(TRUE, h.lo, h.n)
                                /\ h.how = "reset" => option'.reset_decommits
      OBVIOUS
    <3>1. CASE h \in hidden
      BY <1>2, <2>1, <3>1
    <3>2. CASE h = k
      <4>1. HiddenArea(h) \cap written' = {}
        BY <1>1, <1>4, <3>2
      <4> QED BY <1>4, <2>2, <2>3, <3>2, <4>1
    <3> QED BY <1>1, <3>1, <3>2
  <2>5. \A h, j \in hidden' : h # j => HiddenArea(h) \cap HiddenArea(j) = {}
    BY <1>1, <1>3, <1>4 DEF OsInv, DataSafe, HiddenSafe
  <2> QED BY <1>1, <2>4, <2>5 DEF HiddenSafe, HiddenArea, Area
<1>6. OsTypeOK'
  <2>1. k \in [lo : Nat, n : Nat \ {0}, how : {"reset", "protect"}]
    BY DEF k
  <2> QED BY <1>1, <1>2, <2>1 DEF OsInv, OsTypeOK
<1> QED BY <1>2, <1>5, <1>6 DEF OsInv, DataSafe

\* A hidden area is used again.
LEMMA ShowStep ==
  ASSUME OsInv, OptionOK, NEW h \in hidden, Show(h)
  PROVE  OsInv'
<1> DEFINE R == PageAlignArea(TRUE, h.lo, h.n)
           U == h.lo .. h.lo + h.n - 1
<1>1. /\ prot' = Protected(R, "rw") \/ UNCHANGED prot
      /\ prot' = Protected(R, "rw") \/ (h.how = "reset" /\ ~option.reset_decommits)
      /\ written' = written \cup U /\ content' = content \cup U /\ hidden' = hidden \ {h}
      /\ UNCHANGED <<option, aligned_base, large_page_try_ok, reserved, call, allocs, leaked, fails>>
  BY DEF Show, UnresetPages
<1>2. h.lo \in Nat /\ h.n \in Nat \ {0} /\ HiddenArea(h) = U
  BY DEF OsInv, OsTypeOK, HiddenArea
<1>3. PICK a \in allocs : U \subseteq Area(a)
  BY <1>2 DEF OsInv, DataSafe, HiddenSafe
<1>4. R \in SUBSET AreaPages(a)
  BY <1>2, <1>3, AreaAligned
<1>5. /\ Owned' /\ CallFits' /\ FlightSafe'
      /\ prot' \in [Pages -> {"unmapped", "none", "rw"}]
      /\ \A x \in Pages \ R : prot'[x] = prot[x]
      /\ \A x \in R : prot'[x] \in {prot[x], "rw"}
  BY <1>1, <1>4, AccessKeeps, ZenonT(60)
<1>6. R \subseteq Pages
  BY <1>4 DEF OsInv, Owned, Kept
<1>7. \A x \in Pages : prot[x] = "rw" => prot'[x] = "rw"
  BY <1>5
<1>8. \A b \in allocs : \A u \in Area(b) : u \div PageSize \in Pages
  BY AreaKept DEF Kept
<1>9. \A u \in U : prot'[u \div PageSize] = "rw"
  <2> SUFFICES ASSUME NEW u \in U PROVE prot'[u \div PageSize] = "rw"
    OBVIOUS
  <2>1. CASE prot[u \div PageSize] = "rw"
    BY <1>3, <1>7, <1>8, <2>1
  <2>2. CASE prot[u \div PageSize] # "rw"
    <3>1. u \div PageSize \in R /\ (h.how = "reset" => option.reset_decommits)
      BY <1>2, <2>2 DEF OsInv, DataSafe, HiddenSafe
    <3>2. prot' = Protected(R, "rw")
      BY <1>1, <3>1
    <3> HIDE DEF R
    <3> QED BY <1>6, <3>1, <3>2 DEF Protected
  <2> QED BY <2>1, <2>2
<1> HIDE DEF R, U
<1>10. WrittenSafe'
  <2> SUFFICES ASSUME NEW u \in written'
               PROVE  u \in content' /\ prot'[u \div PageSize] = "rw" /\ \E b \in allocs' : u \in Area(b)
    BY DEF WrittenSafe, Area
  <2>1. CASE u \in U
    BY <1>1, <1>3, <1>9, <2>1
  <2>2. CASE u \notin U
    <3>1. u \in written
      BY <1>1, <2>2
    <3> QED BY <1>1, <1>7, <1>8, <3>1 DEF OsInv, DataSafe, WrittenSafe
  <2> QED BY <2>1, <2>2
<1>11. HiddenSafe'
  <2>1. ASSUME NEW k \in hidden'
        PROVE  /\ \E b \in allocs : HiddenArea(k) \subseteq Area(b)
               /\ HiddenArea(k) \cap written' = {}
               /\ \A u \in HiddenArea(k) :
                    \/ prot'[u \div PageSize] = "rw"
                    \/ /\ u \div PageSize \in PageAlignArea(TRUE, k.lo, k.n)
                       /\ k.how = "reset" => option.reset_decommits
    <3>0. k \in hidden /\ k # h
      BY <1>1
    <3>1. PICK b \in allocs : HiddenArea(k) \subseteq Area(b)
      BY <3>0 DEF OsInv, DataSafe, HiddenSafe
    <3>2. HiddenArea(k) \cap U = {}
      BY <1>2, <3>0 DEF OsInv, DataSafe, HiddenSafe
    <3>3. HiddenArea(k) \cap written' = {}
      BY <1>1, <3>0, <3>2 DEF OsInv, DataSafe, HiddenSafe
    <3>4. \A u \in HiddenArea(k) :
            \/ prot'[u \div PageSize] = "rw"
            \/ /\ u \div PageSize \in PageAlignArea(TRUE, k.lo, k.n)
               /\ k.how = "reset" => option.reset_decommits
      BY <1>7, <1>8, <3>0, <3>1 DEF OsInv, DataSafe, HiddenSafe
    <3> QED BY <3>1, <3>3, <3>4
  <2>2. \A k, j \in hidden' : k # j => HiddenArea(k) \cap HiddenArea(j) = {}
    BY <1>1 DEF OsInv, DataSafe, HiddenSafe
  <2> QED BY <1>1, <2>1, <2>2 DEF HiddenSafe, HiddenArea, Area
<1>12. OsTypeOK'
  <2>1. U \subseteq Units(1, PageCount)
    BY <1>3, AreaUnits
  <2> QED BY <1>1, <1>5, <2>1 DEF OsInv, OsTypeOK
<1> QED BY <1>5, <1>10, <1>11, <1>12 DEF OsInv, DataSafe

-----------------------------------------------------------------------------
(* All steps *)

\* The steps of a call keep the invariant.
LEMMA OsStepInv ==
  ASSUME OsInv, OptionOK, NEW t \in Thread, OsStep(t)
  PROVE  OsInv'
<1>1. CASE Start(t) \/ Less(t) \/ Hint(t) \/ Wrap(t) \/ Again(t)
  BY <1>1, BeforeMmap
<1>2. CASE Map(t)
  BY <1>2, MapStep
<1>3. CASE Unmap(t)
  BY <1>3, UnmapStep
<1>4. CASE Pre(t)
  BY <1>4, PreStep
<1>5. CASE Post(t)
  BY <1>5, PostStep
<1> QED BY <1>1, <1>2, <1>3, <1>4, <1>5 DEF OsStep

\* What the program does with its memory keeps the invariant.
LEMMA OsUseInv ==
  ASSUME OsInv, OptionOK, OsUse
  PROVE  OsInv'
<1>1. ASSUME NEW a \in allocs, OsFree(a) PROVE OsInv'
  BY <1>1, OsFreeStep
<1>2. ASSUME NEW a \in allocs, NEW r \in Areas(a),
             \/ Commit(a, r.lo, r.n) \/ Decommit(a, r.lo, r.n)
             \/ \E how \in {"reset", "protect"} : Hide(a, r.lo, r.n, how)
      PROVE  OsInv'
  <2>1. r.lo \in Nat /\ r.n \in Nat \ {0}
    <3>1. PICK lo \in Area(a), n \in 1 .. a.req : r = [lo |-> lo, n |-> n]
      BY DEF Areas
    <3>2. lo \in Nat
      BY AreaUnits
    <3>3. a.req \in Nat
      BY DEF OsInv, OsTypeOK
    <3> QED BY <3>1, <3>2, <3>3
  <2>2. CASE Commit(a, r.lo, r.n)
    BY <2>1, <2>2, CommitStep
  <2>3. CASE Decommit(a, r.lo, r.n)
    BY <2>1, <2>3, DecommitStep
  <2>4. ASSUME NEW how \in {"reset", "protect"}, Hide(a, r.lo, r.n, how) PROVE OsInv'
    BY <2>1, <2>4, HideStep
  <2> QED BY <1>2, <2>2, <2>3, <2>4
<1>3. ASSUME NEW h \in hidden, Show(h) PROVE OsInv'
  BY <1>3, ShowStep
<1> QED BY <1>1, <1>2, <1>3 DEF OsUse

\* A step that leaves the memory alone keeps the invariant.
LEMMA OsQuiet ==
  ASSUME OsInv, UNCHANGED osvars
  PROVE  OsInv'
<1>1. \A t \in Thread : InFlight(t)' = InFlight(t)
  BY DEF InFlight, osvars
<1>2. Owned' /\ DataSafe'
  BY <1>1, QuietKeeps DEF OsInv, osvars
<1>3. CallFits'
  BY DEF OsInv, CallFits, osvars
<1>4. OsTypeOK'
  BY DEF OsInv, OsTypeOK, osvars
<1> QED BY <1>2, <1>3, <1>4 DEF OsInv

\* The invariant holds at first.
LEMMA OsInitInv ==
  ASSUME OsInit, OptionOK
  PROVE  OsInv
<1>1. NoOsCall \in OsCall /\ NoOsCall.pc = "idle" /\ ~NoOsCall.commit
  BY CountAssumption DEF NoOsCall, OsCall
<1>2. \A t \in Thread : call[t] = NoOsCall /\ InFlight(t) = {}
  BY <1>1 DEF OsInit, InFlight
<1>3. OsTypeOK
  <2>1. prot \in [Pages -> {"unmapped", "none", "rw"}] /\ call \in [Thread -> OsCall]
    BY <1>1 DEF OsInit
  <2> QED BY <2>1, CountAssumption DEF OsInit, OsTypeOK, OptionOK
<1>4. Kept = {}
  BY DEF OsInit, Kept
<1>5. Owned
  BY <1>2, <1>4, FS_EmptySet DEF OsInit, Owned
<1>6. CallFits
  BY <1>1, <1>2 DEF CallFits
<1>7. DataSafe
  BY <1>1, <1>2 DEF OsInit, DataSafe, WrittenSafe, HiddenSafe, FlightSafe
<1> QED BY <1>3, <1>5, <1>6, <1>7 DEF OsInv

\* The invariant is enough: no page has two owners or none.
LEMMA OsInvMapped ==
  ASSUME OsInv
  PROVE  AllocsMapped
<1> DEFINE mapped == {x \in Pages : prot[x] # "unmapped"}
<1>1. mapped \ leaked = Kept
  BY DEF Kept
<1>2. leaked \subseteq mapped
  BY DEF OsInv, OsTypeOK, Owned
<1>3. mapped = (UNION {AreaPages(a) : a \in allocs}) \cup (UNION {InFlight(t) : t \in Thread}) \cup leaked
  <2>1. Kept \subseteq (UNION {AreaPages(a) : a \in allocs}) \cup (UNION {InFlight(t) : t \in Thread})
    <3> SUFFICES ASSUME NEW x \in Kept
                 PROVE  x \in (UNION {AreaPages(a) : a \in allocs}) \cup (UNION {InFlight(t) : t \in Thread})
      OBVIOUS
    <3>1. CASE \E a \in allocs : x \in AreaPages(a)
      BY <3>1
    <3>2. CASE \E t \in Thread : x \in InFlight(t)
      BY <3>2
    <3> QED BY <3>1, <3>2 DEF OsInv, Owned
  <2>2. UNION {AreaPages(a) : a \in allocs} \subseteq Kept
    BY DEF OsInv, Owned
  <2>3. UNION {InFlight(t) : t \in Thread} \subseteq Kept
    BY DEF OsInv, Owned
  <2> HIDE DEF mapped
  <2> QED BY <1>1, <1>2, <2>1, <2>2, <2>3
<1>4. reserved = Cardinality(mapped \ leaked)
  BY <1>1 DEF OsInv, Owned
<1>5. \A a \in allocs :
       /\ a.addr % a.align = 0
       /\ \A b \in allocs \ {a} : AreaPages(a) \cap AreaPages(b) = {}
       /\ \A t \in Thread : AreaPages(a) \cap InFlight(t) = {}
  BY DEF OsInv, Owned
<1> QED BY <1>3, <1>4, <1>5 DEF AllocsMapped

\* The invariant is enough: what the program wrote is kept.
LEMMA OsInvKept ==
  ASSUME OsInv
  PROVE  DataKept
BY DEF OsInv, DataSafe, WrittenSafe, DataKept


-----------------------------------------------------------------------------
(* The inductive invariant: arenas *)

ReserveLabel == {"claim", "swap", "page", "build", "add", "undo", "slot"}
ClaimedLabel == {"page", "build", "add", "undo", "slot"}     \* a range is claimed
SearchLabel == {"look", "read", "cas", "search", "dirty"}

\* What a call knows of its reservation: the range it claimed lies below the start
\* of the next one, and the arena that it made is in this range.
Reserves(t) ==
  LET c == acall[t] IN
  /\ c.pc \in ReserveLabel <=> c.todo # <<>>
  /\ c.pc \in ClaimedLabel => c.start > 0 /\ (c.pc # "page" => c.page > 0)
  /\ c.pc = "page" => c.page < c.todo[1].pages
  /\ c.pc = "build" => c.page <= c.todo[1].pages
  /\ c.pc \in {"page", "build"} => c.start + c.todo[1].pages <= mi_huge_start
  /\ c.pc \in {"add", "undo", "slot"} =>
       c.a \in 1 .. Len(arena) /\ arena[c.a].start = c.start /\ arena[c.a].pages = c.page

\* the threads that will take their increment back
Undoing == {t \in Thread : acall[t].pc = "undo"}

\* the count exceeds the array by the increments that will be taken back
CountExact ==
  /\ IsFiniteSet(Undoing)
  /\ \/ Undoing = {} /\ mi_arena_count <= MaxArenas
     \/ mi_arena_count = MaxArenas + Cardinality(Undoing)

\* The slots below the count are filled, or a thread is about to fill them.
Slots ==
  /\ \A i \in 1 .. MaxArenas :
       i <= mi_arena_count <=>
         mi_arenas[i] # NULL \/ \E t \in Thread : acall[t].pc = "slot" /\ acall[t].i + 1 = i
  /\ \A t \in Thread : acall[t].pc = "slot" =>
       /\ acall[t].i + 1 \in 1 .. MaxArenas /\ mi_arenas[acall[t].i + 1] = NULL
       /\ \A u \in Thread \ {t} : acall[u].pc = "slot" => acall[u].i # acall[t].i

\* the range of a reservation, the pages of it that are mapped, those of an arena
Address(t) == IF acall[t].pc \in {"page", "build"} THEN Run(acall[t].start, acall[t].todo[1].pages) ELSE {}
Held(t) == IF acall[t].pc \in ClaimedLabel THEN Run(acall[t].start, acall[t].page) ELSE {}
ArenaPages(a) == Run(arena[a].start, arena[a].pages)

\* Ranges are below the start of the next one and apart from each other.
Ranges ==
  /\ \A x \in huge : x < mi_huge_start
  /\ \A a \in 1 .. Len(arena) : \A x \in ArenaPages(a) : x < mi_huge_start
  /\ \A t, u \in Thread : t # u => Address(t) \cap Address(u) = {}
  /\ \A t \in Thread : \A a \in 1 .. Len(arena) : Address(t) \cap ArenaPages(a) = {}
  /\ \A a, b \in 1 .. Len(arena) : a # b => ArenaPages(a) \cap ArenaPages(b) = {}
Filled == {i \in 1 .. MaxArenas : mi_arenas[i] # NULL}
SlotPages(i) == ArenaPages(mi_arenas[i])

\* A huge page is lost, in an arena, or in the hands of a thread ...
HugeOwned == huge = lost \cup (UNION {SlotPages(i) : i \in Filled}) \cup (UNION {Held(t) : t \in Thread})

\* ... and has only one of these owners.
OnceOwned ==
  /\ \A t \in Thread : Held(t) \cap lost = {}
  /\ \A t, u \in Thread : t # u => Held(t) \cap Held(u) = {}
  /\ \A i \in Filled : SlotPages(i) \cap lost = {}
  /\ \A i \in Filled, t \in Thread : SlotPages(i) \cap Held(t) = {}
  /\ \A i, j \in Filled : i # j => SlotPages(i) \cap SlotPages(j) = {}

\* The pages of a range that are mapped are counted, but for the last one of a
\* loop that a timeout ended.
Counted(t) ==
  \A x \in huge \cap Address(t) :
    \/ x \in Held(t)
    \/ acall[t].pc = "build" /\ acall[t].todo[1].timed /\ x = acall[t].start + acall[t].page

ReserveInv ==
  /\ \A t \in Thread : Reserves(t) /\ Counted(t)
  /\ CountExact /\ Slots /\ Ranges /\ HugeOwned /\ OnceOwned

\* The bits behind the last block are always set, and a block that was written
\* to is dirty.
Records ==
  /\ \A a \in 1 .. Len(arena) :
       /\ \A b \in 0 .. arena[a].fields * FieldBits - 1 : b >= arena[a].blocks => b \in arena[a].inuse
       /\ arena[a].search_idx < arena[a].fields
       /\ arena[a].inuse \cup arena[a].dirty \subseteq 0 .. arena[a].fields * FieldBits - 1
  /\ \A p \in touched : p[1] \in 1 .. Len(arena) /\ p[2] \in arena[p[1]].dirty

\* the arena a is in the slot i
InSlot(i, a) == i \in 0 .. MaxArenas - 1 /\ a # NULL /\ mi_arenas[i + 1] = a

\* What a call knows of the arena it searches: the bits it is about to claim were
\* free in the field that it read, those it claimed are blocks and in use.
Searches(t) ==
  LET c == acall[t]
      n == BlockCount(c.req)
  IN
  /\ c.pc \in SearchLabel => c.req > 0
  /\ c.pc = "look" => c.i <= MaxArenas
  /\ c.pc \in SearchLabel \ {"look"} => InSlot(c.i, c.a)
  /\ c.pc \in {"read", "cas", "search"} => c.field < arena[c.a].fields
  /\ c.pc = "cas" => c.bit + n <= FieldBits /\ Mask(c.bit, n) \cap c.map = {}
  /\ c.pc \in {"search", "dirty"} =>
       Run(c.bit, n) \subseteq arena[c.a].inuse /\ c.bit + n <= arena[c.a].blocks

\* the blocks that a call claimed and has not handed out
Claims(t) ==
  IF acall[t].pc \in {"search", "dirty"}
    THEN {<<acall[t].a, b>> : b \in Run(acall[t].bit, BlockCount(acall[t].req))} ELSE {}

\* Memory in an arena is found with its id, its blocks are in use, and they are
\* nobody else's.
Memories ==
  \A m \in ablocks :
    /\ InSlot(SlotOf(m.memid), m.a)
    /\ BlockOf(m.memid) + BlockCount(m.req) <= arena[m.a].blocks
    /\ Run(BlockOf(m.memid), BlockCount(m.req)) \subseteq arena[m.a].inuse
    /\ m.is_zero => m.fresh
Apart ==
  /\ \A m, n \in ablocks : m # n => BlocksOf(m) \cap BlocksOf(n) = {}
  /\ \A t \in Thread : \A m \in ablocks : Claims(t) \cap BlocksOf(m) = {}
  /\ \A t, u \in Thread : t # u => Claims(t) \cap Claims(u) = {}

BlockInv == Records /\ (\A t \in Thread : Searches(t)) /\ Memories /\ Apart

\* what module Arena adds to the types
ArenaType ==
  /\ mi_huge_start \in Nat /\ huge \subseteq Nat \ {0} /\ lost \subseteq huge
  /\ mi_arena_count \in 0 .. MaxArenas + Cardinality(Thread)
  /\ mi_arenas \in [1 .. MaxArenas -> 0 .. Len(arena)]
  /\ arena \in Seq(Record)
  /\ acall \in [Thread -> ArenaCall]
  /\ ablocks \subseteq [memid : Nat, a : Nat, req : Nat \ {0}, is_zero : BOOLEAN, fresh : BOOLEAN]
  /\ touched \subseteq Nat \X Nat

ArenaInv == ArenaType /\ ReserveInv /\ BlockInv
Inv == option \in Options /\ OsInv /\ ArenaInv

-----------------------------------------------------------------------------
(* Sizes, and what a step leaves alone *)

\* What the options are.
LEMMA OptionFits ==
  ASSUME option \in Options
  PROVE  /\ OptionOK
         /\ option.threads \subseteq Thread
         /\ option.requests \subseteq Request /\ option.reserve \subseteq Reservation
         /\ option.garbage \subseteq SUBSET Nat
<1>1. option \in Option
  BY OptionAssumption
<1> QED BY <1>1 DEF Option, OptionOK

\* A request has at least one block.
LEMMA BlockCounts ==
  ASSUME NEW req \in Nat \ {0}
  PROVE  BlockCount(req) \in Nat \ {0}
<1> USE ArenaAssumption
<1> DEFINE m == AlignUp(req, BlockSize)
           n == m \div BlockSize
<1>1. m \in Nat /\ req <= m /\ m = n * BlockSize
  BY Aligned
<1> HIDE DEF m
<1>2. n \in Nat
  BY <1>1, DivRange
<1> HIDE DEF n
<1>3. n # 0
  <2>1. 0 * BlockSize = 0
    OBVIOUS
  <2> QED BY <1>1, <2>1
<1> QED BY <1>2, <1>3 DEF BlockCount, n, m

\* The call without a request.
LEMMA NoCallTyped ==
  /\ NoArenaCall \in ArenaCall
  /\ NoArenaCall.pc = "idle" /\ NoArenaCall.todo = <<>>
<1>1. <<>> \in Seq(Todo)
  BY EmptySeq
<1> QED BY <1>1 DEF NoArenaCall, ArenaCall

\* One call changes.
LEMMA OneCall ==
  ASSUME ArenaType, NEW t \in Thread, NEW r \in ArenaCall, acall' = [acall EXCEPT ![t] = r]
  PROVE  /\ acall' \in [Thread -> ArenaCall] /\ acall'[t] = r
         /\ \A u \in Thread \ {t} : acall'[u] = acall[u]
BY DEF ArenaType

\* The arenas keep their pages.
SamePages ==
  /\ Len(arena') = Len(arena)
  /\ \A a \in 1 .. Len(arena) : arena'[a].start = arena[a].start /\ arena'[a].pages = arena[a].pages

\* One arena changes.
LEMMA OneArena ==
  ASSUME ArenaType, NEW a \in 1 .. Len(arena), NEW r \in Record, arena' = [arena EXCEPT ![a] = r]
  PROVE  /\ arena' \in Seq(Record) /\ Len(arena') = Len(arena) /\ arena'[a] = r
         /\ \A b \in 1 .. Len(arena) : b # a => arena'[b] = arena[b]
BY ExceptSeq DEF ArenaType

\* A record of the arenas.
LEMMA ArenaRecord ==
  ASSUME ArenaType, NEW a \in 1 .. Len(arena)
  PROVE  arena[a] \in Record /\ Len(arena) \in Nat
BY ElementOfSeq, LenProperties DEF ArenaType

\* What is in a slot is an arena.
LEMMA SlotArena ==
  ASSUME ArenaType, NEW i, NEW a, InSlot(i, a)
  PROVE  i + 1 \in 1 .. MaxArenas /\ a \in 1 .. Len(arena)
<1>1. i + 1 \in 1 .. MaxArenas
  BY ArenaAssumption DEF InSlot
<1>2. a \in 0 .. Len(arena) /\ a # 0
  BY <1>1 DEF InSlot, ArenaType, NULL
<1>3. Len(arena) \in Nat
  BY LenProperties DEF ArenaType
<1> QED BY <1>1, <1>2, <1>3

\* A call that has claimed nothing changes: the reservations are as before.
LEMMA ReserveKeeps ==
  ASSUME ArenaType, ReserveInv, SamePages,
         UNCHANGED <<mi_huge_start, huge, lost, mi_arenas, mi_arena_count>>,
         \A u \in Thread :
           \/ acall'[u] = acall[u]
           \/ /\ acall[u].pc \notin ClaimedLabel /\ acall'[u].pc \notin ClaimedLabel
              /\ acall'[u].pc \in ReserveLabel <=> acall'[u].todo # <<>>
  PROVE  ReserveInv'
<1>1. \A a \in 1 .. Len(arena) : ArenaPages(a)' = ArenaPages(a)
  BY DEF SamePages, ArenaPages
<1>2. \A u \in Thread : Address(u)' = Address(u) /\ Held(u)' = Held(u)
  BY DEF Address, Held, ClaimedLabel
<1>3. ASSUME NEW u \in Thread PROVE Reserves(u)'
  <2>1. Reserves(u)
    BY DEF ReserveInv
  <2>2. CASE acall'[u] = acall[u]
    BY <2>1, <2>2 DEF Reserves, SamePages
  <2>3. CASE acall'[u] # acall[u]
    BY <2>3 DEF Reserves, ClaimedLabel
  <2> QED BY <2>2, <2>3
<1>4. CountExact'
  <2>1. Undoing' = Undoing
    BY DEF Undoing, ClaimedLabel
  <2> QED BY <2>1 DEF ReserveInv, CountExact
<1>5. Slots'
  <2>1. \A u \in Thread : acall'[u].pc = "slot" <=> acall[u].pc = "slot"
    BY DEF ClaimedLabel
  <2>2. \A u \in Thread : acall[u].pc = "slot" => acall'[u] = acall[u]
    BY DEF ClaimedLabel
  <2> QED BY <2>1, <2>2 DEF ReserveInv, Slots
<1>6. Ranges'
  BY <1>1, <1>2 DEF ReserveInv, Ranges, SamePages
<1>7. HugeOwned' /\ OnceOwned'
  <2>1. \A i \in 1 .. MaxArenas : mi_arenas[i] # NULL => mi_arenas[i] \in 1 .. Len(arena)
    BY ArenaRecord, LenProperties DEF ArenaType, NULL
  <2>2. Filled' = Filled /\ \A i \in Filled : SlotPages(i)' = SlotPages(i)
    BY <2>1, <1>1 DEF Filled, SlotPages
  <2>3. HugeOwned' /\ OnceOwned'
    BY <1>2, <2>2 DEF ReserveInv, HugeOwned, OnceOwned
  <2> QED BY <2>3
<1>8. ASSUME NEW u \in Thread PROVE Counted(u)'
  <2>1. CASE acall'[u] = acall[u]
    BY <1>2, <2>1 DEF ReserveInv, Counted
  <2>2. CASE acall'[u] # acall[u]
    <3>1. Address(u)' = {}
      BY <2>2 DEF Address, ClaimedLabel
    <3> QED BY <3>1 DEF Counted
  <2> QED BY <2>1, <2>2
<1> QED BY <1>3, <1>4, <1>5, <1>6, <1>7, <1>8 DEF ReserveInv

\* Arenas are added, and no call gets or gives blocks: the blocks are as before.
LEMMA BlocksKeep ==
  ASSUME ArenaType, BlockInv, Records',
         \A a \in 1 .. Len(arena) : arena'[a] = arena[a],
         \A i \in 1 .. MaxArenas : mi_arenas[i] # NULL => mi_arenas'[i] = mi_arenas[i],
         UNCHANGED <<ablocks, touched>>,
         \A u \in Thread :
           \/ acall'[u] = acall[u]
           \/ /\ acall[u].pc \notin {"search", "dirty"} /\ acall'[u].pc \notin {"search", "dirty"}
              /\ Searches(u)'
  PROVE  BlockInv'
<1>1. ASSUME NEW i, NEW a, InSlot(i, a)
      PROVE  InSlot(i, a)' /\ a \in 1 .. Len(arena) /\ arena'[a] = arena[a]
  BY <1>1, SlotArena DEF InSlot
<1>2. ASSUME NEW u \in Thread PROVE Searches(u)'
  <2>1. Searches(u)
    BY DEF BlockInv
  <2>2. CASE acall'[u] = acall[u]
    BY <1>1, <2>1, <2>2 DEF Searches, SearchLabel
  <2> QED BY <2>2
<1>3. Memories'
  BY <1>1 DEF BlockInv, Memories
<1>4. \A u \in Thread : Claims(u)' = Claims(u)
  BY DEF Claims
<1>5. Apart'
  BY <1>4 DEF BlockInv, Apart, BlocksOf
<1> QED BY <1>2, <1>3, <1>5 DEF BlockInv

\* Nothing changes.
LEMMA ArenaQuiet ==
  ASSUME ArenaInv, UNCHANGED avars
  PROVE  ArenaInv'
<1>1. SamePages
  BY DEF SamePages, avars
<1>2. ReserveInv'
  BY <1>1, ReserveKeeps DEF ArenaInv, avars
<1>3. BlockInv'
  <2>1. Records'
    BY DEF ArenaInv, BlockInv, Records, avars
  <2> QED BY <2>1, BlocksKeep DEF ArenaInv, avars
<1>4. ArenaType'
  BY DEF ArenaInv, ArenaType, avars
<1> QED BY <1>2, <1>3, <1>4 DEF ArenaInv

\* One call moves on, without a range or blocks before and after.
LEMMA CallOnly ==
  ASSUME ArenaInv, NEW t \in Thread, NEW r \in ArenaCall, acall' = [acall EXCEPT ![t] = r],
         UNCHANGED <<mi_huge_start, huge, lost, mi_arenas, mi_arena_count, arena, ablocks, touched>>,
         acall[t].pc \notin ClaimedLabel \cup {"search", "dirty"},
         r.pc \notin ClaimedLabel \cup {"search", "dirty"},
         r.pc \in ReserveLabel <=> r.todo # <<>>,
         Searches(t)'
  PROVE  ArenaInv'
<1>1. /\ acall' \in [Thread -> ArenaCall] /\ acall'[t] = r
      /\ \A u \in Thread \ {t} : acall'[u] = acall[u]
  BY OneCall DEF ArenaInv
<1>2. SamePages
  BY DEF SamePages
<1>3. ReserveInv'
  <2>1. \A u \in Thread :
           \/ acall'[u] = acall[u]
           \/ /\ acall[u].pc \notin ClaimedLabel /\ acall'[u].pc \notin ClaimedLabel
              /\ acall'[u].pc \in ReserveLabel <=> acall'[u].todo # <<>>
    BY <1>1
  <2> QED BY <1>2, <2>1, ReserveKeeps DEF ArenaInv
<1>4. BlockInv'
  <2>1. Records'
    BY DEF ArenaInv, BlockInv, Records
  <2>2. \A u \in Thread :
           \/ acall'[u] = acall[u]
           \/ /\ acall[u].pc \notin {"search", "dirty"} /\ acall'[u].pc \notin {"search", "dirty"}
              /\ Searches(u)'
    BY <1>1
  <2> QED BY <2>1, <2>2, BlocksKeep DEF ArenaInv
<1>5. ArenaType'
  BY <1>1 DEF ArenaInv, ArenaType
<1> QED BY <1>3, <1>4, <1>5 DEF ArenaInv

\* A call that does not search says nothing of an arena.
LEMMA NoSearch ==
  ASSUME NEW t \in Thread, acall'[t].pc \notin SearchLabel
  PROVE  Searches(t)'
BY DEF Searches, SearchLabel

-----------------------------------------------------------------------------
(* Reserving huge pages *)

\* mi_reserve_huge_os_pages_at and mi_reserve_huge_os_pages_interleave begin.
LEMMA ReserveStart ==
  ASSUME ArenaInv, NEW t \in Thread, NEW pages \in Nat, NEW node \in Int, NEW nodes \in Nat,
         NEW timed \in BOOLEAN,
         \/ ReserveAt(t, pages, node, timed)
         \/ nodes # 0 /\ Interleave(t, pages, nodes, timed)
  PROVE  ArenaInv'
<1>0. acall[t].pc = "idle"
  BY DEF ReserveAt, Interleave, Idle
<1>1. UNCHANGED <<mi_huge_start, huge, lost, mi_arenas, mi_arena_count, arena, ablocks, touched>>
  BY DEF ReserveAt, Interleave
<1> DEFINE T == Todo
<1>2. ASSUME NEW todo \in Seq(T), todo # <<>>,
             acall' = [acall EXCEPT ![t] = [NoArenaCall EXCEPT !.pc = "claim", !.todo = todo]]
      PROVE  ArenaInv'
  <2> DEFINE r == [NoArenaCall EXCEPT !.pc = "claim", !.todo = todo]
  <2>1. r \in ArenaCall /\ r.pc = "claim" /\ r.todo = todo
    BY NoCallTyped DEF ArenaCall
  <2> HIDE DEF r
  <2>2. acall' = [acall EXCEPT ![t] = r]
    BY <1>2 DEF r
  <2>3. acall'[t] = r
    BY <2>1, <2>2, OneCall DEF ArenaInv
  <2>4. Searches(t)'
    BY <2>1, <2>3, NoSearch DEF SearchLabel
  <2>5. /\ r.pc \notin ClaimedLabel \cup {"search", "dirty"}
        /\ acall[t].pc \notin ClaimedLabel \cup {"search", "dirty"}
        /\ r.pc \in ReserveLabel <=> r.todo # <<>>
    BY <1>0, <1>2, <2>1 DEF ClaimedLabel, ReserveLabel
  <2> QED BY <1>1, <2>1, <2>2, <2>4, <2>5, CallOnly
<1>3. CASE pages = 0
  <2>1. UNCHANGED acall
    BY <1>3 DEF ReserveAt, Interleave
  <2> QED BY <1>1, <2>1, ArenaQuiet DEF avars
<1>4. ASSUME pages # 0, ReserveAt(t, pages, node, timed) PROVE ArenaInv'
  <2> DEFINE e == [pages |-> pages, node |-> IF node >= 0 THEN node % NumaCount ELSE -1, timed |-> timed]
  <2>1. e \in T
    BY <1>4, ArenaAssumption DEF Todo
  <2>2. acall' = [acall EXCEPT ![t] = [NoArenaCall EXCEPT !.pc = "claim", !.todo = <<e>>]]
    BY <1>4 DEF ReserveAt
  <2> HIDE DEF e, T
  <2>3. <<e>> \in Seq(T) /\ <<e>> # <<>>
    BY <2>1
  <2> QED BY <1>2, <2>2, <2>3
<1>5. ASSUME pages # 0, nodes # 0, Interleave(t, pages, nodes, timed) PROVE ArenaInv'
  <2> DEFINE k == IF pages < nodes THEN pages ELSE nodes
             s == [j \in 1 .. k |-> [pages |-> NodePages(pages, nodes, j - 1), node |-> (j - 1) % NumaCount,
                                      timed |-> timed]]
  <2>1. acall' = [acall EXCEPT ![t] = [NoArenaCall EXCEPT !.pc = "claim", !.todo = s]]
    BY <1>5 DEF Interleave
  <2>2. k \in Nat \ {0}
    BY <1>5
  <2>3. ASSUME NEW j \in 1 .. k
        PROVE  [pages |-> NodePages(pages, nodes, j - 1), node |-> (j - 1) % NumaCount, timed |-> timed] \in T
    <3>1. (j - 1) % NumaCount \in Int
      BY <2>2, ArenaAssumption
    <3>2. NodePages(pages, nodes, j - 1) \in Nat \ {0}
      <4> DEFINE q == pages \div nodes
                 m == pages % nodes
      <4>1. q \in Nat /\ q * nodes <= pages /\ pages < q * nodes + nodes
        BY <1>5, DivRange
      <4>2. m \in Nat
        BY <1>5
      <4>3. CASE pages < nodes
        <5>1. q = 0 /\ m = pages
          BY <1>5, <4>3
        <5> HIDE DEF q, m
        <5>2. j - 1 < m
          BY <2>2, <4>3, <5>1
        <5> QED BY <4>1, <4>2, <5>1, <5>2 DEF NodePages, q, m
      <4>4. CASE ~(pages < nodes)
        <5>1. q # 0
          <6>1. 0 * nodes = 0
            OBVIOUS
          <6> HIDE DEF q
          <6> QED BY <4>1, <4>4, <6>1
        <5> HIDE DEF q, m
        <5> QED BY <4>1, <4>2, <5>1 DEF NodePages, q, m
      <4> QED BY <4>3, <4>4
    <3> QED BY <3>1, <3>2 DEF Todo
  <2> HIDE DEF k, T
  <2>4. s \in Seq(T) /\ Len(s) = k
    BY <2>2, <2>3
  <2>5. s # <<>>
    BY <2>2, <2>4
  <2> HIDE DEF s
  <2> QED BY <1>2, <2>1, <2>4, <2>5
<1> QED BY <1>3, <1>4, <1>5

\* The start of the next range is read.
LEMMA ClaimStep ==
  ASSUME ArenaInv, NEW t \in Thread, Claim(t)
  PROVE  ArenaInv'
<1> DEFINE r == [acall[t] EXCEPT !.pc = "swap", !.start = mi_huge_start]
<1>1. acall[t] \in ArenaCall /\ acall[t].pc = "claim" /\ acall[t].todo # <<>>
  BY DEF Claim, ArenaInv, ArenaType, ReserveInv, Reserves, ReserveLabel
<1>2. r \in ArenaCall /\ r.pc = "swap" /\ r.todo = acall[t].todo
  BY <1>1 DEF ArenaCall, ArenaInv, ArenaType
<1>3. acall' = [acall EXCEPT ![t] = r]
  BY DEF Claim
<1>4. UNCHANGED <<mi_huge_start, huge, lost, mi_arenas, mi_arena_count, arena, ablocks, touched>>
  BY DEF Claim
<1> HIDE DEF r
<1>5. acall'[t] = r
  BY <1>2, <1>3, OneCall DEF ArenaInv
<1>6. Searches(t)'
  BY <1>2, <1>5, NoSearch DEF SearchLabel
<1>7. /\ r.pc \notin ClaimedLabel \cup {"search", "dirty"}
      /\ acall[t].pc \notin ClaimedLabel \cup {"search", "dirty"}
      /\ r.pc \in ReserveLabel <=> r.todo # <<>>
  BY <1>1, <1>2 DEF ClaimedLabel, ReserveLabel
<1> QED BY <1>2, <1>3, <1>4, <1>6, <1>7, CallOnly

\* A run of pages and its beginning.
LEMMA RunBounds ==
  ASSUME NEW s \in Nat, NEW p \in Nat, NEW n \in Nat, NEW h \in Nat
  PROVE  /\ p <= n => Run(s, p) \subseteq Run(s, n)
         /\ s + n <= h => \A x \in Run(s, n) : x < h
         /\ \A x \in Run(s, n) : s <= x /\ x \in Nat
         /\ Run(s, 0) = {} /\ Run(s, p + 1) = Run(s, p) \cup {s + p}
BY DEF Run

\* A reservation that is not done has a first part.
LEMMA FirstTodo ==
  ASSUME ArenaInv, NEW t \in Thread, acall[t].pc \in ReserveLabel
  PROVE  /\ acall[t] \in ArenaCall /\ acall[t].todo # <<>>
         /\ acall[t].todo[1] \in Todo
<1>1. acall[t] \in ArenaCall /\ acall[t].todo # <<>>
  BY DEF ArenaInv, ArenaType, ReserveInv, Reserves
<1>2. acall[t].todo \in Seq(Todo)
  BY <1>1 DEF ArenaCall
<1>3. Len(acall[t].todo) \in Nat \ {0}
  BY <1>1, <1>2, EmptySeq
<1>4. 1 \in 1 .. Len(acall[t].todo)
  BY <1>3
<1> QED BY <1>1, <1>2, <1>4, ElementOfSeq

\* A page that is mapped belongs to one call only.
LEMMA HeldApart ==
  ASSUME ArenaInv, NEW t \in Thread
  PROVE  /\ acall[t].pc \in {"page", "build"} => Held(t) \subseteq Address(t)
         /\ \A u \in Thread : u # t => Held(t) \cap Address(u) = {}
         /\ Held(t) \subseteq huge /\ \A x \in Address(t) : x < mi_huge_start
<1> DEFINE c == acall[t]
<1>1. acall[t].pc \in {"page", "build"} => Held(t) \subseteq Address(t) /\ \A x \in Address(t) : x < mi_huge_start
  <2> SUFFICES ASSUME c.pc \in {"page", "build"}
               PROVE  Held(t) \subseteq Address(t) /\ \A x \in Address(t) : x < mi_huge_start
    OBVIOUS
  <2>1. /\ c \in ArenaCall /\ c.todo[1].pages \in Nat \ {0}
        /\ c.page <= c.todo[1].pages /\ c.start + c.todo[1].pages <= mi_huge_start
    <3>1. c \in ArenaCall /\ c.todo[1] \in Todo
      BY FirstTodo DEF ReserveLabel
    <3>2. Reserves(t)
      BY DEF ArenaInv, ReserveInv
    <3> QED BY <3>1, <3>2, SMTT(60) DEF Reserves, ArenaCall, Todo
  <2>2. c.start \in Nat /\ c.page \in Nat /\ mi_huge_start \in Nat
    BY <2>1 DEF ArenaCall, ArenaInv, ArenaType
  <2>3. Held(t) = Run(c.start, c.page) /\ Address(t) = Run(c.start, c.todo[1].pages)
    BY DEF Held, Address, ClaimedLabel
  <2> HIDE DEF c
  <2> QED BY <2>1, <2>2, <2>3, RunBounds, Z3
<1>2. acall[t].pc \in {"add", "undo", "slot"} => Held(t) = ArenaPages(acall[t].a) /\ acall[t].a \in 1 .. Len(arena)
  BY DEF ArenaInv, ReserveInv, Reserves, Held, ArenaPages, ClaimedLabel
<1>3. acall[t].pc \notin ClaimedLabel => Held(t) = {}
  BY DEF Held
<1>4. acall[t].pc \notin {"page", "build"} => Address(t) = {}
  BY DEF Address
<1>5. Held(t) \subseteq huge
  BY DEF ArenaInv, ReserveInv, HugeOwned
<1>6. ASSUME NEW u \in Thread, u # t PROVE Held(t) \cap Address(u) = {}
  <2>1. CASE acall[t].pc \in {"page", "build"}
    BY <1>1, <1>6, <2>1 DEF ArenaInv, ReserveInv, Ranges
  <2>2. CASE acall[t].pc \in {"add", "undo", "slot"}
    BY <1>2, <1>6, <2>2 DEF ArenaInv, ReserveInv, Ranges
  <2>3. CASE acall[t].pc \notin ClaimedLabel
    BY <1>3, <2>3
  <2> QED BY <2>1, <2>2, <2>3 DEF ClaimedLabel
<1> QED BY <1>1, <1>4, <1>5, <1>6

\* What a call knows stays true while others move the start and add arenas.
LEMMA OthersReserve ==
  ASSUME ArenaInv, NEW u \in Thread, acall'[u] = acall[u],
         mi_huge_start' \in Nat, mi_huge_start <= mi_huge_start',
         \A a \in 1 .. Len(arena) : a \in 1 .. Len(arena') /\ arena'[a] = arena[a]
  PROVE  Reserves(u)'
<1>1. Reserves(u)
  BY DEF ArenaInv, ReserveInv
<1>2. acall[u].pc \in {"page", "build"} =>
        acall[u].start \in Nat /\ acall[u].todo[1].pages \in Nat
  <2> SUFFICES ASSUME acall[u].pc \in {"page", "build"}
               PROVE  acall[u].start \in Nat /\ acall[u].todo[1].pages \in Nat
    OBVIOUS
  <2>1. acall[u] \in ArenaCall /\ acall[u].todo[1] \in Todo
    BY FirstTodo DEF ReserveLabel
  <2> QED BY <2>1 DEF ArenaCall, Todo
<1>3. mi_huge_start \in Nat
  BY DEF ArenaInv, ArenaType
<1> QED BY <1>1, <1>2, <1>3 DEF Reserves

\* The reservations do not disturb the blocks.
LEMMA ReserveBlocks ==
  ASSUME ArenaInv, NEW t \in Thread, acall[t].pc \in ReserveLabel, acall'[t].pc \notin SearchLabel,
         \A u \in Thread \ {t} : acall'[u] = acall[u],
         \A a \in 1 .. Len(arena) : arena'[a] = arena[a], Records',
         \A i \in 1 .. MaxArenas : mi_arenas[i] # NULL => mi_arenas'[i] = mi_arenas[i],
         UNCHANGED <<ablocks, touched>>
  PROVE  BlockInv'
<1>1. Searches(t)'
  BY NoSearch
<1>2. \A u \in Thread :
         \/ acall'[u] = acall[u]
         \/ /\ acall[u].pc \notin {"search", "dirty"} /\ acall'[u].pc \notin {"search", "dirty"}
            /\ Searches(u)'
  BY <1>1 DEF ReserveLabel, SearchLabel
<1> QED BY <1>2, BlocksKeep DEF ArenaInv

\* No thread comes to or from the end of mi_arena_add.
LEMMA SlotsKeep ==
  ASSUME ArenaInv, UNCHANGED <<mi_arenas, mi_arena_count>>, NEW t \in Thread,
         \A u \in Thread \ {t} : acall'[u] = acall[u],
         acall[t].pc \notin {"undo", "slot"}, acall'[t].pc \notin {"undo", "slot"}
  PROVE  CountExact' /\ Slots'
<1>1. \A u \in Thread :
         \/ acall'[u] = acall[u]
         \/ acall[u].pc \notin {"undo", "slot"} /\ acall'[u].pc \notin {"undo", "slot"}
  OBVIOUS
<1>2. Undoing' = Undoing
  BY <1>1 DEF Undoing
<1>3. CountExact'
  BY <1>2 DEF ArenaInv, ReserveInv, CountExact
<1>4. \A u \in Thread : acall'[u].pc = "slot" <=> acall[u].pc = "slot"
  BY <1>1
<1>5. \A u \in Thread : acall[u].pc = "slot" => acall'[u] = acall[u]
  BY <1>1
<1>6. Slots'
  BY <1>4, <1>5 DEF ArenaInv, ReserveInv, Slots
<1> QED BY <1>3, <1>6

\* The arenas and their pages stay as they are.
LEMMA ArenasKeep ==
  ASSUME ArenaInv, UNCHANGED arena
  PROVE  /\ \A a \in 1 .. Len(arena) : ArenaPages(a)' = ArenaPages(a)
         /\ \A a \in 1 .. Len(arena) : arena'[a] = arena[a]
         /\ UNCHANGED mi_arenas => Filled' = Filled /\ \A i \in Filled : SlotPages(i)' = SlotPages(i)
         /\ UNCHANGED touched => Records'
BY DEF ArenaPages, Filled, SlotPages, ArenaInv, BlockInv, Records

\* A call without a reservation knows nothing of one.
LEMMA IdleReserves ==
  ASSUME NEW t \in Thread, acall'[t].pc \notin ReserveLabel, acall'[t].todo = <<>>
  PROVE  Reserves(t)'
BY DEF Reserves, ReserveLabel, ClaimedLabel

\* A range that is being mapped.
LEMMA RangeReserves ==
  ASSUME NEW t \in Thread, NEW n, acall'[t].pc \in {"page", "build"}, acall'[t].todo # <<>>,
         acall'[t].start > 0, acall'[t].todo[1].pages = n, acall'[t].start + n <= mi_huge_start',
         acall'[t].pc = "page" => acall'[t].page < n,
         acall'[t].pc = "build" => acall'[t].page > 0 /\ acall'[t].page <= n
  PROVE  Reserves(t)'
BY DEF Reserves, ReserveLabel, ClaimedLabel

\* The pages of the ranges of other threads stay counted.
LEMMA OthersCounted ==
  ASSUME ArenaInv, NEW u \in Thread, acall'[u] = acall[u],
         \A x \in huge' \cap Address(u) : x \in huge
  PROVE  Counted(u)'
<1>1. Counted(u)
  BY DEF ArenaInv, ReserveInv
<1>2. Address(u)' = Address(u) /\ Held(u)' = Held(u)
  BY DEF Address, Held
<1> QED BY <1>1, <1>2 DEF Counted

\* A call without a range has no pages to count.
LEMMA NoRange ==
  ASSUME NEW t \in Thread, Address(t)' \cap huge' = {}
  PROVE  Counted(t)'
BY DEF Counted

\* A page has one owner after thread t mapped the pages in G, none of which was
\* mapped before, and gave some of those it held away.
LEMMA OwnedMoves ==
  ASSUME ArenaInv, NEW t \in Thread, NEW G, G \cap huge = {},
         Filled' = Filled, \A i \in Filled : SlotPages(i)' = SlotPages(i),
         \A u \in Thread \ {t} : Held(u)' = Held(u),
         Held(t)' \subseteq Held(t) \cup G,
         lost' \subseteq lost \cup ((Held(t) \cup G) \ Held(t)')
  PROVE  OnceOwned'
<1>1. OnceOwned /\ HugeOwned /\ lost \subseteq huge
  BY DEF ArenaInv, ReserveInv, ArenaType
<1>2. /\ \A i \in Filled : SlotPages(i) \subseteq huge
      /\ \A u \in Thread : Held(u) \subseteq huge
  BY <1>1 DEF HugeOwned
<1>3. \A u \in Thread : Held(u)' \cap lost' = {}
  <2>1. Held(t)' \cap lost' = {}
    BY <1>1, <1>2 DEF OnceOwned
  <2>2. ASSUME NEW u \in Thread \ {t} PROVE Held(u)' \cap lost' = {}
    BY <1>1, <1>2 DEF OnceOwned
  <2> QED BY <2>1, <2>2
<1>4. \A u, v \in Thread : u # v => Held(u)' \cap Held(v)' = {}
  <2>1. ASSUME NEW u \in Thread \ {t} PROVE Held(u)' \cap Held(t)' = {}
    BY <1>1, <1>2 DEF OnceOwned
  <2>2. ASSUME NEW u \in Thread \ {t}, NEW v \in Thread \ {t}, u # v PROVE Held(u)' \cap Held(v)' = {}
    BY <1>1, <2>2 DEF OnceOwned
  <2> QED BY <2>1, <2>2
<1>5. \A i \in Filled : SlotPages(i) \cap lost' = {}
  BY <1>1, <1>2 DEF OnceOwned
<1>6. \A i \in Filled, u \in Thread : SlotPages(i) \cap Held(u)' = {}
  <2>1. ASSUME NEW i \in Filled PROVE SlotPages(i) \cap Held(t)' = {}
    BY <1>1, <1>2 DEF OnceOwned
  <2>2. ASSUME NEW i \in Filled, NEW u \in Thread \ {t} PROVE SlotPages(i) \cap Held(u)' = {}
    BY <1>1 DEF OnceOwned
  <2> QED BY <2>1, <2>2
<1>7. \A i, j \in Filled : i # j => SlotPages(i) \cap SlotPages(j) = {}
  BY <1>1 DEF OnceOwned
<1> QED BY <1>3, <1>4, <1>5, <1>6, <1>7 DEF OnceOwned

\* The end of the range is swapped in: the range is behind all that were claimed.
LEMMA SwapStep ==
  ASSUME ArenaInv, NEW t \in Thread, Swap(t)
  PROVE  ArenaInv'
<1> DEFINE c == acall[t]
           start == IF c.start = 0 THEN 1 ELSE c.start
           n == c.todo[1].pages
<1>1. c \in ArenaCall /\ c.pc = "swap" /\ c.todo # <<>> /\ n \in Nat \ {0}
  BY FirstTodo DEF Swap, ReserveLabel, Todo
<1>2. UNCHANGED <<osvars, huge, lost, mi_arenas, mi_arena_count, arena, ablocks, touched>>
  BY DEF Swap
<1>3. CASE ~Swapped(t)
  <2> DEFINE r == [c EXCEPT !.pc = "claim"]
  <2>1. r \in ArenaCall /\ r.pc = "claim" /\ r.todo = c.todo
    BY <1>1 DEF ArenaCall
  <2>2. acall' = [acall EXCEPT ![t] = r] /\ UNCHANGED mi_huge_start
    BY <1>3 DEF Swap
  <2> HIDE DEF r
  <2>3. acall'[t] = r
    BY <2>1, <2>2, OneCall DEF ArenaInv
  <2>4. Searches(t)'
    BY <2>1, <2>3, NoSearch DEF SearchLabel
  <2>5. /\ r.pc \notin ClaimedLabel \cup {"search", "dirty"}
        /\ acall[t].pc \notin ClaimedLabel \cup {"search", "dirty"}
        /\ r.pc \in ReserveLabel <=> r.todo # <<>>
    BY <1>1, <2>1 DEF ClaimedLabel, ReserveLabel
  <2> QED BY <1>2, <2>1, <2>2, <2>4, <2>5, CallOnly
<1>4. CASE Swapped(t)
  <2> DEFINE r == [c EXCEPT !.pc = "page", !.start = start, !.page = 0]
  <2>1. start \in Nat /\ start > 0 /\ mi_huge_start <= start /\ mi_huge_start \in Nat
    BY <1>1, <1>4, SMTT(60) DEF Swapped, ArenaCall, ArenaInv, ArenaType
  <2>2. acall' = [acall EXCEPT ![t] = r] /\ mi_huge_start' = start + n
    BY <1>4 DEF Swap
  <2>3. r \in ArenaCall /\ r.pc = "page" /\ r.start = start /\ r.page = 0 /\ r.todo = c.todo
    BY <1>1, <2>1 DEF ArenaCall
  <2> HIDE DEF r, start, n
  <2>4. /\ acall' \in [Thread -> ArenaCall] /\ acall'[t] = r
        /\ \A u \in Thread \ {t} : acall'[u] = acall[u]
    BY <2>2, <2>3, OneCall DEF ArenaInv
  <2>5. mi_huge_start' \in Nat /\ mi_huge_start < mi_huge_start' /\ mi_huge_start <= mi_huge_start'
    BY <1>1, <2>1, <2>2
  <2>6. \A a \in 1 .. Len(arena) : ArenaPages(a)' = ArenaPages(a) /\ a \in 1 .. Len(arena') /\ arena'[a] = arena[a]
    BY <1>2, ArenasKeep
  <2>7. \A u \in Thread : Reserves(u)'
    <3>1. ASSUME NEW u \in Thread, u # t PROVE Reserves(u)'
      BY <2>4, <2>5, <2>6, <3>1, OthersReserve
    <3>2. Reserves(t)'
      BY <1>1, <2>1, <2>2, <2>3, <2>4, SMTT(60) DEF Reserves, ReserveLabel, ClaimedLabel, n
    <3> QED BY <3>1, <3>2
  <2>8. CountExact' /\ Slots'
    BY <1>1, <1>2, <2>3, <2>4, SlotsKeep
  <2>9. \A u \in Thread \ {t} : Address(u)' = Address(u) /\ Held(u)' = Held(u)
    BY <2>4 DEF Address, Held
  <2>10. Address(t)' = Run(start, n) /\ Held(t)' = Run(start, 0)
    BY <2>3, <2>4 DEF Address, Held, ClaimedLabel, n
  <2>11. (\A x \in Address(t)' : ~(x < mi_huge_start)) /\ Held(t)' = {} /\ Held(t) = {}
    <3>1. \A x \in Run(start, n) : start <= x /\ x \in Nat
      BY <1>1, <2>1, RunBounds DEF n
    <3>2. Run(start, 0) = {}
      BY <2>1, RunBounds
    <3>3. Held(t) = {}
      BY <1>1 DEF Held, ClaimedLabel
    <3> QED BY <2>1, <2>10, <3>1, <3>2, <3>3
  <2>12. Ranges'
    <3>1. \A x \in huge : x < mi_huge_start /\ x < mi_huge_start'
      BY <2>1, <2>5 DEF ArenaInv, ArenaType, ReserveInv, Ranges
    <3>2. \A a \in 1 .. Len(arena) : \A x \in ArenaPages(a) : x < mi_huge_start /\ x < mi_huge_start'
      <4> SUFFICES ASSUME NEW a \in 1 .. Len(arena), NEW x \in ArenaPages(a)
                   PROVE  x < mi_huge_start /\ x < mi_huge_start'
        OBVIOUS
      <4>1. x \in Int
        BY ArenaRecord DEF ArenaInv, ArenaPages, Run, Record
      <4> QED BY <2>1, <2>5, <4>1 DEF ArenaInv, ReserveInv, Ranges
    <3>3. \A u \in Thread : \A x \in Address(u) : x < mi_huge_start
      BY HeldApart
    <3>5. \A u, v \in Thread : u # v => Address(u)' \cap Address(v)' = {}
      BY <2>9, <2>11, <3>3 DEF ArenaInv, ReserveInv, Ranges
    <3>6. \A u \in Thread : \A a \in 1 .. Len(arena) : Address(u)' \cap ArenaPages(a) = {}
      BY <2>9, <2>11, <3>2 DEF ArenaInv, ReserveInv, Ranges
    <3>7. \A a, b \in 1 .. Len(arena) : a # b => ArenaPages(a) \cap ArenaPages(b) = {}
      BY DEF ArenaInv, ReserveInv, Ranges
    <3> QED BY <1>2, <2>6, <3>1, <3>2, <3>5, <3>6, <3>7 DEF Ranges
  <2>13. HugeOwned' /\ OnceOwned'
    <3>1. \A u \in Thread : Held(u)' = Held(u)
      BY <2>9, <2>11
    <3>2. Filled' = Filled /\ \A i \in Filled : SlotPages(i)' = SlotPages(i)
      BY <1>2, ArenasKeep
    <3>3. HugeOwned'
      BY <1>2, <3>1, <3>2 DEF ArenaInv, ReserveInv, HugeOwned
    <3>4. PICK G : G = {}
      OBVIOUS
    <3>5. G \cap huge = {} /\ Held(t)' \subseteq Held(t) \cup G /\ lost' \subseteq lost \cup ((Held(t) \cup G) \ Held(t)')
      BY <1>2, <3>1, <3>4
    <3>6. OnceOwned'
      BY <3>1, <3>2, <3>5, OwnedMoves
    <3> QED BY <3>3, <3>6
  <2>16. \A u \in Thread : Counted(u)'
    <3>1. ASSUME NEW u \in Thread, u # t PROVE Counted(u)'
      BY <1>2, <2>4, <3>1, OthersCounted
    <3>2. \A x \in huge : x < mi_huge_start
      BY DEF ArenaInv, ReserveInv, Ranges
    <3>3. Address(t)' \cap huge' = {}
      BY <1>2, <2>11, <3>2
    <3> QED BY <3>1, <3>3, NoRange
  <2>14. BlockInv'
    <3>1. Records'
      BY <1>2, ArenasKeep
    <3>2. acall[t].pc \in ReserveLabel /\ acall'[t].pc \notin SearchLabel
      BY <1>1, <2>3, <2>4 DEF ReserveLabel, SearchLabel
    <3> QED BY <1>2, <2>4, <2>6, <3>1, <3>2, ReserveBlocks
  <2>15. ArenaType'
    BY <1>2, <2>4, <2>5 DEF ArenaInv, ArenaType
  <2> QED BY <2>7, <2>8, <2>12, <2>13, <2>14, <2>15, <2>16 DEF ArenaInv, ReserveInv
<1> QED BY <1>3, <1>4

\* The next huge page of the range is mapped, or the loop ends.
LEMMA HugePageStep ==
  ASSUME ArenaInv, NEW t \in Thread, HugePage(t)
  PROVE  ArenaInv'
<1> DEFINE c == acall[t]
           n == c.todo[1].pages
<1>1. /\ c \in ArenaCall /\ c.pc = "page" /\ c.todo # <<>> /\ n \in Nat \ {0}
      /\ c.start \in Nat \ {0} /\ c.page \in Nat /\ c.page < n /\ c.start + n <= mi_huge_start
      /\ mi_huge_start \in Nat
  <2>1. c \in ArenaCall /\ c.pc = "page" /\ c.todo # <<>> /\ n \in Nat \ {0}
    BY FirstTodo DEF HugePage, ReserveLabel, Todo
  <2>2. Reserves(t)
    BY DEF ArenaInv, ReserveInv
  <2>3. c.start > 0 /\ c.page < n /\ c.start + n <= mi_huge_start
    BY <2>1, <2>2 DEF Reserves, ClaimedLabel
  <2>4. c.start \in Nat /\ c.page \in Nat /\ mi_huge_start \in Nat
    BY <2>1 DEF ArenaCall, ArenaInv, ArenaType
  <2> QED BY <2>1, <2>3, <2>4
<1>2. UNCHANGED <<osvars, mi_huge_start, mi_arenas, mi_arena_count, arena, ablocks, touched>>
  BY DEF HugePage
<1>3. Address(t) = Run(c.start, n) /\ Held(t) = Run(c.start, c.page)
  BY <1>1 DEF Address, Held, ClaimedLabel
<1>4. \A a \in 1 .. Len(arena) : ArenaPages(a)' = ArenaPages(a) /\ a \in 1 .. Len(arena') /\ arena'[a] = arena[a]
  BY <1>2, ArenasKeep
<1>5. Filled' = Filled /\ (\A i \in Filled : SlotPages(i)' = SlotPages(i)) /\ Records'
  BY <1>2, ArenasKeep
<1>7. \A x \in Address(t) : x \in Nat \ {0} /\ x < mi_huge_start
  <2>1. Address(t) = Run(c.start, n)
    BY <1>3
  <2> HIDE DEF c, n
  <2> QED BY <1>1, <2>1, RunBounds
<1>10. \A x \in huge \cap Address(t) : x \in Held(t)
  BY <1>1 DEF ArenaInv, ReserveInv, Counted
<1>6. ASSUME NEW r \in ArenaCall, acall' = [acall EXCEPT ![t] = r],
             \/ r.pc \in {"page", "build"} /\ r.start = c.start /\ r.todo = c.todo
             \/ r = NoArenaCall,
             r.pc = "page" => r.page < n,
             r.pc = "build" => r.page > 0 /\ r.page <= n,
             NEW G, G \cap huge = {}, G \subseteq Address(t), huge' = huge \cup G,
             Held(t) \subseteq Held(t)', Held(t)' \subseteq Held(t) \cup G,
             lost' \cup Held(t)' = lost \cup Held(t) \cup G,
             lost' \subseteq lost \cup ((Held(t) \cup G) \ Held(t)'),
             Counted(t)'
      PROVE  ArenaInv'
  <2> HIDE DEF n
  <2>1. /\ acall' \in [Thread -> ArenaCall] /\ acall'[t] = r
        /\ \A u \in Thread \ {t} : acall'[u] = acall[u]
    BY <1>6, OneCall DEF ArenaInv
  <2>2. r.pc \in {"page", "build", "idle"} /\ (r.pc = "idle" => r = NoArenaCall)
    BY <1>6, NoCallTyped
  <2>3. \A u \in Thread : Reserves(u)'
    <3>1. mi_huge_start' \in Nat /\ mi_huge_start <= mi_huge_start'
      BY <1>1, <1>2
    <3>2. ASSUME NEW u \in Thread, u # t PROVE Reserves(u)'
      BY <1>4, <2>1, <3>1, <3>2, OthersReserve
    <3>3. ASSUME r = NoArenaCall PROVE Reserves(t)'
      <4>1. acall'[t].pc \notin ReserveLabel /\ acall'[t].todo = <<>>
        BY <2>1, <3>3, NoCallTyped DEF ReserveLabel
      <4> QED BY <4>1, IdleReserves
    <3>4. ASSUME r # NoArenaCall PROVE Reserves(t)'
      <4>1. /\ acall'[t].pc \in {"page", "build"} /\ acall'[t].todo # <<>>
            /\ acall'[t].start > 0 /\ acall'[t].todo[1].pages = n
            /\ acall'[t].start + n <= mi_huge_start'
        BY <1>1, <1>2, <1>6, <2>1, <3>4 DEF n
      <4>2. /\ acall'[t].pc = "page" => acall'[t].page < n
            /\ acall'[t].pc = "build" => acall'[t].page > 0 /\ acall'[t].page <= n
        BY <1>6, <2>1
      <4> QED BY <4>1, <4>2, RangeReserves
    <3> QED BY <3>2, <3>3, <3>4
  <2>4. CountExact' /\ Slots'
    <3>1. acall[t].pc \notin {"undo", "slot"} /\ acall'[t].pc \notin {"undo", "slot"}
      BY <1>1, <2>1, <2>2
    <3> QED BY <1>2, <2>1, <3>1, SlotsKeep
  <2>5. \A u \in Thread \ {t} : Address(u)' = Address(u) /\ Held(u)' = Held(u)
    BY <2>1 DEF Address, Held
  <2>6. Address(t)' \in {Address(t), {}}
    <3>1. CASE r = NoArenaCall
      BY <2>1, <3>1, NoCallTyped DEF Address
    <3>2. CASE r # NoArenaCall
      BY <1>3, <1>6, <2>1, <3>2 DEF Address, n
    <3> QED BY <3>1, <3>2
  <2>7. Ranges'
    <3>1. \A x \in huge' : x < mi_huge_start
      BY <1>6, <1>7 DEF ArenaInv, ReserveInv, Ranges
    <3>2. \A u \in Thread : Address(u)' \subseteq Address(u)
      BY <2>5, <2>6
    <3>4. \A u, v \in Thread : u # v => Address(u)' \cap Address(v)' = {}
      BY <3>2 DEF ArenaInv, ReserveInv, Ranges
    <3>5. \A u \in Thread : \A a \in 1 .. Len(arena) : Address(u)' \cap ArenaPages(a) = {}
      BY <3>2 DEF ArenaInv, ReserveInv, Ranges
    <3> QED BY <1>2, <1>4, <3>1, <3>4, <3>5 DEF ArenaInv, ReserveInv, Ranges
  <2>8. HugeOwned'
    <3>1. huge = lost \cup (UNION {SlotPages(i) : i \in Filled}) \cup (UNION {Held(u) : u \in Thread})
      BY DEF ArenaInv, ReserveInv, HugeOwned
    <3>2. UNION {Held(u)' : u \in Thread} = (UNION {Held(u) : u \in Thread}) \cup Held(t)'
      BY <1>6, <2>5
    <3>3. Held(t) \subseteq UNION {Held(u) : u \in Thread}
      OBVIOUS
    <3>4. UNION {SlotPages(i)' : i \in Filled'} = UNION {SlotPages(i) : i \in Filled}
      BY <1>5
    <3>5. huge' = lost' \cup (UNION {SlotPages(i) : i \in Filled}) \cup (UNION {Held(u)' : u \in Thread})
      <4> DEFINE S == UNION {SlotPages(i) : i \in Filled}
                 H == UNION {Held(u) : u \in Thread}
                 Hn == UNION {Held(u)' : u \in Thread}
      <4>1. huge = lost \cup S \cup H /\ Hn = H \cup Held(t)' /\ Held(t) \subseteq H
        BY <3>1, <3>2, <3>3
      <4> HIDE DEF S, H, Hn
      <4> QED BY <1>6, <4>1 DEF S, H, Hn
    <3> QED BY <3>4, <3>5 DEF HugeOwned
  <2>11. OnceOwned'
    BY <1>5, <1>6, <2>5, OwnedMoves
  <2>12. \A u \in Thread : Counted(u)'
    <3>1. ASSUME NEW u \in Thread, u # t PROVE Counted(u)'
      <4>1. Address(t) \cap Address(u) = {}
        BY <3>1 DEF ArenaInv, ReserveInv, Ranges
      <4>2. \A x \in huge' \cap Address(u) : x \in huge
        BY <1>6, <4>1
      <4> QED BY <2>1, <3>1, <4>2, OthersCounted
    <3> QED BY <1>6, <3>1
  <2>9. BlockInv'
    <3>1. acall[t].pc \in ReserveLabel /\ acall'[t].pc \notin SearchLabel
      BY <1>1, <2>1, <2>2 DEF ReserveLabel, SearchLabel
    <3> QED BY <1>2, <1>4, <1>5, <2>1, <3>1, ReserveBlocks
  <2>10. ArenaType'
    <3>1. lost' \subseteq huge' /\ huge' \subseteq Nat \ {0}
      <4>1. Held(t) \subseteq huge
        BY HeldApart
      <4>2. lost \subseteq huge /\ huge \subseteq Nat \ {0}
        BY DEF ArenaInv, ArenaType
      <4> QED BY <1>6, <1>7, <4>1, <4>2
    <3> QED BY <1>2, <2>1, <3>1 DEF ArenaInv, ArenaType
  <2> QED BY <2>3, <2>4, <2>7, <2>8, <2>9, <2>10, <2>11, <2>12 DEF ArenaInv, ReserveInv
<1>8. ASSUME c.start + c.page \notin huge, huge' = huge \cup {c.start + c.page}, UNCHANGED lost,
             acall' = [acall EXCEPT ![t].page = @ + 1,
                                    ![t].pc = IF c.page + 1 = n THEN "build" ELSE "page"]
      PROVE  ArenaInv'
  <2> DEFINE q == IF c.page + 1 = n THEN "build" ELSE "page"
             r == [c EXCEPT !.page = c.page + 1, !.pc = q]
             G == {c.start + c.page}
  <2>0. q \in {"page", "build"} /\ (q = "page" => c.page + 1 # n) /\ c.page + 1 \in Nat
    BY <1>1
  <2>2. acall' = [acall EXCEPT ![t] = r]
    BY <1>1, <1>8 DEF ArenaInv, ArenaType
  <2> HIDE DEF q
  <2>1. r \in ArenaCall
    BY <1>1, <2>0 DEF ArenaCall
  <2>3. r.pc = q /\ r.start = c.start /\ r.todo = c.todo /\ r.page = c.page + 1
    BY <1>1 DEF ArenaCall
  <2>4. r.pc \in {"page", "build"} /\ (r.pc = "page" => r.page < n)
    BY <1>1, <2>0, <2>3
  <2>5. acall'[t] = r
    BY <2>1, <2>2, OneCall DEF ArenaInv
  <2> HIDE DEF r
  <2>14. Address(t)' = Address(t)
    BY <1>3, <2>3, <2>4, <2>5 DEF Address
  <2> HIDE DEF n
  <2>6. Held(t)' = Run(c.start, c.page + 1)
    BY <2>3, <2>4, <2>5 DEF Held, ClaimedLabel
  <2>7. Held(t)' = Held(t) \cup G /\ Held(t)' \subseteq Address(t)
    <3> HIDE DEF c
    <3>1. c.page + 1 \in Nat /\ c.page + 1 <= n /\ c.start \in Nat /\ c.page \in Nat
      BY <1>1
    <3> QED BY <1>1, <1>3, <2>6, <3>1, RunBounds, Z3
  <2>9. r.page > 0 /\ r.page <= n
    BY <1>1, <2>3
  <2>10. G \cap huge = {} /\ huge' = huge \cup G /\ UNCHANGED lost
    BY <1>8
  <2> HIDE DEF G
  <2>11. Counted(t)'
    BY <1>10, <2>7, <2>10, <2>14 DEF Counted
  <2>12. /\ Held(t) \subseteq Held(t)' /\ Held(t)' \subseteq Held(t) \cup G /\ G \subseteq Address(t)
         /\ lost' \cup Held(t)' = lost \cup Held(t) \cup G
         /\ lost' \subseteq lost \cup ((Held(t) \cup G) \ Held(t)')
    BY <2>7, <2>10
  <2> HIDE DEF c
  <2> QED BY <1>6, <2>1, <2>2, <2>3, <2>4, <2>9, <2>10, <2>11, <2>12, ZenonT(60) DEF c
<1>9. ASSUME NEW G, acall' = [acall EXCEPT ![t] = Leave(c)],
             \A x \in G : x = c.start + c.page /\ c.todo[1].timed,
             G \cap huge = {}, G \subseteq Address(t), huge' = huge \cup G, lost' = lost \cup G
      PROVE  ArenaInv'
  <2>1. Held(t) \subseteq huge
    BY HeldApart
  <2>4. Held(t)' = Held(t) =>
          /\ Held(t) \subseteq Held(t)' /\ Held(t)' \subseteq Held(t) \cup G
          /\ lost' \cup Held(t)' = lost \cup Held(t) \cup G
          /\ lost' \subseteq lost \cup ((Held(t) \cup G) \ Held(t)')
    BY <1>9, <2>1
  <2>2. CASE c.page = 0
    <3>1. acall' = [acall EXCEPT ![t] = NoArenaCall]
      BY <1>9, <2>2 DEF Leave
    <3>2. acall'[t] = NoArenaCall
      BY <3>1, OneCall, NoCallTyped DEF ArenaInv
    <3>3. Held(t)' = {} /\ Address(t)' = {}
      BY <3>2, NoCallTyped DEF Held, Address, ClaimedLabel
    <3>4. Held(t) = {}
      BY <1>1, <1>3, <2>2, RunBounds
    <3>5. Counted(t)'
      BY <3>3, NoRange
    <3> HIDE DEF c, n
    <3> QED BY <1>6, <1>9, <2>4, <3>1, <3>3, <3>4, <3>5, NoCallTyped DEF c, n
  <2>3. CASE c.page # 0
    <3> DEFINE r == [c EXCEPT !.pc = "build"]
    <3>1. r \in ArenaCall /\ r.pc = "build" /\ r.start = c.start /\ r.todo = c.todo /\ r.page = c.page
      BY <1>1 DEF ArenaCall
    <3>2. acall' = [acall EXCEPT ![t] = r]
      BY <1>9, <2>3 DEF Leave
    <3> HIDE DEF r
    <3>3. acall'[t] = r
      BY <3>1, <3>2, OneCall DEF ArenaInv
    <3>4. Held(t)' = Held(t) /\ Address(t)' = Address(t)
      BY <1>3, <3>1, <3>3 DEF Held, Address, ClaimedLabel
    <3>5. Counted(t)'
      <4>1. /\ acall'[t].pc = "build" /\ acall'[t].todo = c.todo
            /\ acall'[t].start = c.start /\ acall'[t].page = c.page
        BY <3>1, <3>3
      <4>2. \A x \in huge' \cap Address(t) :
              x \in Held(t) \/ (c.todo[1].timed /\ x = c.start + c.page)
        BY <1>9, <1>10
      <4> HIDE DEF c, n
      <4> QED BY <3>4, <4>1, <4>2 DEF Counted
    <3> HIDE DEF n
    <3>6. r.page > 0 /\ r.page <= n
      BY <1>1, <2>3, <3>1
    <3> HIDE DEF c
    <3> QED BY <1>6, <1>9, <2>4, <3>1, <3>2, <3>4, <3>5, <3>6, ZenonT(60) DEF c
  <2> QED BY <2>2, <2>3
<1>11. c.start + c.page \in Address(t)
  <2>1. Address(t) = Run(c.start, n)
    BY <1>3
  <2> HIDE DEF c, n
  <2> QED BY <1>1, <2>1 DEF Run
<1>12. CASE /\ c.start + c.page \notin huge /\ huge' = huge \cup {c.start + c.page} /\ c.todo[1].timed
            /\ lost' = lost \cup {c.start + c.page} /\ acall' = [acall EXCEPT ![t] = Leave(c)]
  <2>1. PICK G : G = {c.start + c.page}
    OBVIOUS
  <2> HIDE DEF c
  <2> QED BY <1>9, <1>11, <1>12, <2>1 DEF c
<1>13. CASE acall' = [acall EXCEPT ![t] = Leave(c)] /\ UNCHANGED <<huge, lost>>
  <2>1. PICK G : G = {}
    OBVIOUS
  <2> HIDE DEF c
  <2> QED BY <1>9, <1>13, <2>1 DEF c
<1> QED BY <1>8, <1>12, <1>13 DEF HugePage

\* The fields of an arena hold its blocks.
LEMMA FieldsHold ==
  ASSUME NEW blocks \in Nat \ {0}
  PROVE  LET fields == (blocks + FieldBits - 1) \div FieldBits
         IN  fields \in Nat \ {0} /\ blocks <= fields * FieldBits /\ fields * FieldBits \in Nat
<1> USE ArenaAssumption
<1> DEFINE f == (blocks + FieldBits - 1) \div FieldBits
<1>1. AlignUp(blocks, FieldBits) \in Nat /\ blocks <= AlignUp(blocks, FieldBits)
  BY Aligned
<1>2. AlignUp(blocks, FieldBits) = f * FieldBits
  BY DEF AlignUp
<1>3. f \in Nat
  <2>1. blocks + FieldBits - 1 \in Nat
    OBVIOUS
  <2> QED BY <2>1, DivRange
<1> HIDE DEF f
<1>4. f # 0
  <2>1. 0 * FieldBits = 0
    OBVIOUS
  <2> QED BY <1>1, <1>2, <2>1
<1> QED BY <1>1, <1>2, <1>3, <1>4 DEF f

\* The arena of the range is made: its pages are those that were mapped.
LEMMA ArenaMade ==
  ASSUME ArenaInv, NEW t \in Thread, acall[t].pc = "build", NEW rec \in Record,
         rec.start = acall[t].start, rec.pages = acall[t].page,
         \A b \in 0 .. rec.fields * FieldBits - 1 : b >= rec.blocks => b \in rec.inuse,
         rec.search_idx < rec.fields,
         rec.inuse \cup rec.dirty \subseteq 0 .. rec.fields * FieldBits - 1,
         arena' = Append(arena, rec),
         acall' = [acall EXCEPT ![t].pc = "add", ![t].a = Len(arena) + 1],
         UNCHANGED <<mi_huge_start, huge, lost, mi_arenas, mi_arena_count, ablocks, touched>>
  PROVE  ArenaInv'
<1>2. Len(arena) \in Nat
  BY LenProperties DEF ArenaInv, ArenaType
<1>0. PICK k \in Nat \ {0} : k = Len(arena) + 1
  BY <1>2
<1> DEFINE c == acall[t]
           r == [c EXCEPT !.pc = "add", !.a = k]
<1>1. /\ c \in ArenaCall /\ c.todo # <<>> /\ c.start > 0 /\ c.page > 0
      /\ c.start \in Nat /\ c.page \in Nat
  <2>1. c \in ArenaCall /\ c.todo # <<>>
    BY FirstTodo DEF ReserveLabel
  <2>2. Reserves(t)
    BY DEF ArenaInv, ReserveInv
  <2> QED BY <2>1, <2>2 DEF Reserves, ClaimedLabel, ArenaCall
<1>3. /\ arena' \in Seq(Record) /\ Len(arena') = k /\ arena'[k] = rec
      /\ \A a \in 1 .. Len(arena) : arena'[a] = arena[a]
  BY <1>0, AppendProperties DEF ArenaInv, ArenaType
<1>4. r \in ArenaCall /\ r.pc = "add" /\ r.a = k /\ r.start = c.start /\ r.page = c.page /\ r.todo = c.todo
  BY <1>1 DEF ArenaCall
<1>5. acall' = [acall EXCEPT ![t] = r]
  BY <1>0, <1>1 DEF ArenaInv, ArenaType
<1> HIDE DEF r
<1>6. /\ acall' \in [Thread -> ArenaCall] /\ acall'[t] = r
      /\ \A u \in Thread \ {t} : acall'[u] = acall[u]
  BY <1>4, <1>5, OneCall DEF ArenaInv
<1>7. k \in Nat \ {0} /\ k \in 1 .. Len(arena') /\ \A a \in 1 .. Len(arena) : a \in 1 .. Len(arena') /\ a # k
  BY <1>0, <1>2, <1>3
<1>8. \A a \in 1 .. Len(arena') : a = k \/ a \in 1 .. Len(arena)
  BY <1>0, <1>2, <1>3
<1>9. \A u \in Thread : Reserves(u)'
  <2>1. mi_huge_start' \in Nat /\ mi_huge_start <= mi_huge_start'
    BY DEF ArenaInv, ArenaType
  <2>2. ASSUME NEW u \in Thread, u # t PROVE Reserves(u)'
    BY <1>3, <1>6, <1>7, <2>1, <2>2, OthersReserve
  <2>3. Reserves(t)'
    <3>1. /\ acall'[t].pc = "add" /\ acall'[t].todo # <<>> /\ acall'[t].start > 0 /\ acall'[t].page > 0
          /\ acall'[t].a \in 1 .. Len(arena') /\ arena'[acall'[t].a].start = acall'[t].start
          /\ arena'[acall'[t].a].pages = acall'[t].page
      BY <1>1, <1>3, <1>4, <1>6, <1>7
    <3> QED BY <3>1 DEF Reserves, ReserveLabel, ClaimedLabel
  <2> QED BY <2>2, <2>3
<1>10. CountExact' /\ Slots'
  <2>1. acall'[t].pc \notin {"undo", "slot"}
    BY <1>4, <1>6
  <2> QED BY <1>6, <2>1, SlotsKeep
<1>11. \A a \in 1 .. Len(arena) : ArenaPages(a)' = ArenaPages(a)
  BY <1>3 DEF ArenaPages
<1>12. \A u \in Thread : Held(u)' = Held(u)
  BY <1>4, <1>6 DEF Held, ClaimedLabel
<1>13. /\ \A u \in Thread \ {t} : Address(u)' = Address(u)
       /\ Address(t)' = {}
  BY <1>4, <1>6 DEF Address
<1>14. ArenaPages(k)' = Held(t)
  BY <1>3 DEF ArenaPages, Held, ClaimedLabel
<1>15. /\ Held(t) \subseteq Address(t) /\ Held(t) \subseteq huge
       /\ \A u \in Thread : u # t => Held(t) \cap Address(u) = {}
  BY HeldApart
<1>16. Ranges'
  <2>1. \A a \in 1 .. Len(arena') : \A x \in ArenaPages(a)' : x < mi_huge_start
    BY <1>8, <1>11, <1>14, <1>15 DEF ArenaInv, ReserveInv, Ranges
  <2>2. \A u \in Thread : \A a \in 1 .. Len(arena') : Address(u)' \cap ArenaPages(a)' = {}
    BY <1>8, <1>11, <1>13, <1>14, <1>15 DEF ArenaInv, ReserveInv, Ranges
  <2>3. \A a, b \in 1 .. Len(arena') : a # b => ArenaPages(a)' \cap ArenaPages(b)' = {}
    <3>1. \A a \in 1 .. Len(arena) : ArenaPages(a) \cap Held(t) = {}
      BY <1>15 DEF ArenaInv, ReserveInv, Ranges
    <3>2. \A a, b \in 1 .. Len(arena) : a # b => ArenaPages(a) \cap ArenaPages(b) = {}
      BY DEF ArenaInv, ReserveInv, Ranges
    <3> QED BY <1>8, <1>11, <1>14, <3>1, <3>2
  <2>4. \A u, v \in Thread : u # v => Address(u)' \cap Address(v)' = {}
    BY <1>13 DEF ArenaInv, ReserveInv, Ranges
  <2> QED BY <1>13, <2>1, <2>2, <2>3, <2>4 DEF ArenaInv, ReserveInv, Ranges
<1>17. HugeOwned' /\ OnceOwned' /\ \A u \in Thread : Counted(u)'
  <2>1. \A i \in Filled : mi_arenas[i] \in 1 .. Len(arena)
    BY <1>2 DEF Filled, ArenaInv, ArenaType, NULL
  <2>2. Filled' = Filled /\ \A i \in Filled : SlotPages(i)' = SlotPages(i)
    BY <1>11, <2>1 DEF Filled, SlotPages
  <2>3. HugeOwned'
    BY <1>12, <2>2 DEF ArenaInv, ReserveInv, HugeOwned
  <2>4. OnceOwned'
    BY <1>12, <2>2 DEF ArenaInv, ReserveInv, OnceOwned
  <2>5. ASSUME NEW u \in Thread, u # t PROVE Counted(u)'
    BY <1>6, <2>5, OthersCounted
  <2>6. Counted(t)'
    BY <1>13, NoRange
  <2> QED BY <2>3, <2>4, <2>5, <2>6
<1>18. BlockInv'
  <2>1. Records'
    <3>1. ASSUME NEW a \in 1 .. Len(arena')
          PROVE  /\ \A b \in 0 .. arena'[a].fields * FieldBits - 1 : b >= arena'[a].blocks => b \in arena'[a].inuse
                 /\ arena'[a].search_idx < arena'[a].fields
                 /\ arena'[a].inuse \cup arena'[a].dirty \subseteq 0 .. arena'[a].fields * FieldBits - 1
      <4>1. CASE a = k
        BY <1>3, <4>1
      <4>2. CASE a \in 1 .. Len(arena)
        BY <1>3, <4>2 DEF ArenaInv, BlockInv, Records
      <4> QED BY <1>8, <4>1, <4>2
    <3>2. \A p \in touched' : p[1] \in 1 .. Len(arena') /\ p[2] \in arena'[p[1]].dirty
      BY <1>3, <1>7 DEF ArenaInv, BlockInv, Records
    <3> QED BY <3>1, <3>2 DEF Records
  <2>2. acall[t].pc \in ReserveLabel /\ acall'[t].pc \notin SearchLabel
    BY <1>4, <1>6 DEF ReserveLabel, SearchLabel
  <2> QED BY <1>3, <1>6, <2>1, <2>2, ReserveBlocks
<1>19. ArenaType'
  <2>1. mi_arenas' \in [1 .. MaxArenas -> 0 .. Len(arena')]
    BY <1>0, <1>2, <1>3 DEF ArenaInv, ArenaType
  <2> QED BY <1>3, <1>6, <2>1 DEF ArenaInv, ArenaType
<1> QED BY <1>9, <1>10, <1>16, <1>17, <1>18, <1>19 DEF ArenaInv, ReserveInv

\* There is no memory for the arena: one of its pages is freed, the others are lost.
LEMMA BuildFails ==
  ASSUME ArenaInv, NEW t \in Thread, acall[t].pc = "build", FreeHugePages(t),
         acall' = [acall EXCEPT ![t] = NoArenaCall],
         UNCHANGED <<mi_huge_start, arena, mi_arenas, mi_arena_count, ablocks, touched>>
  PROVE  ArenaInv'
<1> DEFINE c == acall[t]
<1>1. /\ c \in ArenaCall /\ c.todo # <<>> /\ c.start > 0 /\ c.page > 0
      /\ c.start \in Nat /\ c.page \in Nat
  <2>1. c \in ArenaCall /\ c.todo # <<>>
    BY FirstTodo DEF ReserveLabel
  <2>2. Reserves(t)
    BY DEF ArenaInv, ReserveInv
  <2> QED BY <2>1, <2>2 DEF Reserves, ClaimedLabel, ArenaCall
<1>2. Held(t) = Run(c.start, c.page) /\ c.start \in Held(t)
  BY <1>1 DEF Held, ClaimedLabel, Run
<1>3. huge' = huge \ {c.start} /\ lost' = lost \cup (Held(t) \ {c.start})
  BY <1>2 DEF FreeHugePages
<1>4. /\ Held(t) \subseteq Address(t) /\ Held(t) \subseteq huge
      /\ \A u \in Thread : u # t => Held(t) \cap Address(u) = {}
  BY HeldApart
<1>5. c.start \notin lost
  BY <1>2 DEF ArenaInv, ReserveInv, OnceOwned
<1>6. \A i \in Filled : c.start \notin SlotPages(i)
  <2> SUFFICES ASSUME NEW i \in Filled PROVE c.start \notin SlotPages(i)
    OBVIOUS
  <2>1. mi_arenas[i] \in 1 .. Len(arena)
    BY LenProperties DEF Filled, ArenaInv, ArenaType, NULL
  <2> QED BY <1>2, <1>4, <2>1 DEF ArenaInv, ReserveInv, Ranges, SlotPages
<1>7. \A u \in Thread : u # t => c.start \notin Held(u)
  BY <1>2, <1>4, HeldApart
<1>8. /\ acall' \in [Thread -> ArenaCall] /\ acall'[t] = NoArenaCall
      /\ \A u \in Thread \ {t} : acall'[u] = acall[u]
  BY NoCallTyped, OneCall DEF ArenaInv
<1>9. Held(t)' = {} /\ Address(t)' = {}
  BY <1>8, NoCallTyped DEF Held, Address, ClaimedLabel
<1>10. \A u \in Thread \ {t} : Held(u)' = Held(u) /\ Address(u)' = Address(u)
  BY <1>8 DEF Held, Address
<1>11. \A a \in 1 .. Len(arena) : ArenaPages(a)' = ArenaPages(a) /\ a \in 1 .. Len(arena') /\ arena'[a] = arena[a]
  BY ArenasKeep
<1>12. \A u \in Thread : Reserves(u)'
  <2>1. mi_huge_start' \in Nat /\ mi_huge_start <= mi_huge_start'
    BY DEF ArenaInv, ArenaType
  <2>2. ASSUME NEW u \in Thread, u # t PROVE Reserves(u)'
    BY <1>8, <1>11, <2>1, <2>2, OthersReserve
  <2>3. Reserves(t)'
    <3>1. acall'[t].pc \notin ReserveLabel /\ acall'[t].todo = <<>>
      BY <1>8, NoCallTyped DEF ReserveLabel
    <3> QED BY <3>1, IdleReserves
  <2> QED BY <2>2, <2>3
<1>13. CountExact' /\ Slots'
  BY <1>8, NoCallTyped, SlotsKeep
<1>14. Ranges'
  <2>2. \A u, v \in Thread : u # v => Address(u)' \cap Address(v)' = {}
    BY <1>9, <1>10 DEF ArenaInv, ReserveInv, Ranges
  <2>3. \A u \in Thread : \A a \in 1 .. Len(arena) : Address(u)' \cap ArenaPages(a) = {}
    BY <1>9, <1>10 DEF ArenaInv, ReserveInv, Ranges
  <2> QED BY <1>3, <1>11, <2>2, <2>3 DEF ArenaInv, ReserveInv, Ranges
<1>18. OnceOwned' /\ \A u \in Thread : Counted(u)'
  <2>1. Filled' = Filled /\ \A i \in Filled : SlotPages(i)' = SlotPages(i)
    BY ArenasKeep
  <2>2. PICK G : G = {}
    OBVIOUS
  <2>3. G \cap huge = {} /\ Held(t)' \subseteq Held(t) \cup G /\ lost' \subseteq lost \cup ((Held(t) \cup G) \ Held(t)')
    BY <1>3, <1>9, <2>2
  <2>4. OnceOwned'
    BY <1>10, <2>1, <2>3, OwnedMoves
  <2>5. ASSUME NEW u \in Thread, u # t PROVE Counted(u)'
    BY <1>3, <1>8, <2>5, OthersCounted
  <2>6. Counted(t)'
    BY <1>9, NoRange
  <2> QED BY <2>4, <2>5, <2>6
<1>15. HugeOwned'
  <2>1. Filled' = Filled /\ \A i \in Filled : SlotPages(i)' = SlotPages(i)
    BY ArenasKeep
  <2> DEFINE S == UNION {SlotPages(i) : i \in Filled}
             H == UNION {Held(u) : u \in Thread \ {t}}
  <2>2. huge = lost \cup S \cup H \cup Held(t)
    <3>1. UNION {Held(u) : u \in Thread} = H \cup Held(t)
      OBVIOUS
    <3> HIDE DEF S, H
    <3> QED BY <3>1 DEF ArenaInv, ReserveInv, HugeOwned, S
  <2>3. c.start \notin S
    BY <1>6
  <2>4. c.start \notin H
    BY <1>7
  <2>5. UNION {Held(u)' : u \in Thread} = H
    BY <1>9, <1>10
  <2>6. UNION {SlotPages(i)' : i \in Filled'} = S
    BY <2>1
  <2> HIDE DEF S, H, c
  <2>7. huge' = lost' \cup S \cup H
    BY <1>2, <1>3, <1>5, <2>2, <2>3, <2>4
  <2> QED BY <2>5, <2>6, <2>7 DEF HugeOwned
<1>16. BlockInv'
  <2>1. Records'
    BY ArenasKeep
  <2>2. acall[t].pc \in ReserveLabel /\ acall'[t].pc \notin SearchLabel
    BY <1>8, NoCallTyped DEF ReserveLabel, SearchLabel
  <2> QED BY <1>8, <1>11, <2>1, <2>2, ReserveBlocks
<1>17. ArenaType'
  <2>1. lost' \subseteq huge' /\ huge' \subseteq Nat \ {0}
    BY <1>3, <1>4, <1>5 DEF ArenaInv, ArenaType
  <2> QED BY <1>8, <2>1 DEF ArenaInv, ArenaType
<1> QED BY <1>12, <1>13, <1>14, <1>15, <1>16, <1>17, <1>18 DEF ArenaInv, ReserveInv

\* The arena is made, or not.
LEMMA BuildStep ==
  ASSUME ArenaInv, option \in Options, NEW t \in Thread, Build(t)
  PROVE  ArenaInv'
<1> DEFINE c == acall[t]
           blocks == c.page * HugeBlocks
           fields == (blocks + FieldBits - 1) \div FieldBits
           rec(i, d) == [start |-> c.start, pages |-> c.page, blocks |-> blocks,
               fields |-> fields, node |-> c.todo[1].node, search_idx |-> 0,
               inuse |-> Leftover(blocks, fields) \cup (i \cap 0 .. blocks - 1),
               dirty |-> d \cap 0 .. blocks - 1]
<1>1. c.pc = "build" /\ UNCHANGED <<mi_huge_start, mi_arenas, mi_arena_count, ablocks, touched>>
  BY DEF Build
<1>2. /\ c \in ArenaCall /\ c.todo[1].node \in Int
      /\ c.start \in Nat \ {0} /\ c.page \in Nat \ {0}
  <2>1. c \in ArenaCall /\ c.todo[1] \in Todo
    BY <1>1, FirstTodo DEF ReserveLabel
  <2>2. c.start > 0 /\ c.page > 0
    BY <1>1 DEF ArenaInv, ReserveInv, Reserves, ClaimedLabel
  <2>3. c.start \in Nat /\ c.page \in Nat
    BY <2>1 DEF ArenaCall
  <2> QED BY <2>1, <2>2, <2>3 DEF Todo
<1>3. blocks \in Nat \ {0}
  <2> HIDE DEF c
  <2>1. blocks \in Nat
    BY <1>2, ArenaAssumption
  <2>2. 1 * HugeBlocks <= blocks
    <3>1. CASE c.page = 1
      BY <3>1, ArenaAssumption
    <3>2. CASE 1 < c.page
      <4>1. 1 * HugeBlocks + HugeBlocks <= c.page * HugeBlocks
        BY <1>2, <3>2, ArenaAssumption, TimesLess
      <4> QED BY <4>1, <2>1, ArenaAssumption
    <3> QED BY <1>2, <3>1, <3>2
  <2> HIDE DEF blocks
  <2> QED BY <2>1, <2>2, ArenaAssumption
<1> HIDE DEF blocks
<1>4. fields \in Nat \ {0} /\ blocks <= fields * FieldBits /\ fields * FieldBits \in Nat
  BY <1>3, FieldsHold
<1> HIDE DEF fields
<1>5. ASSUME NEW i \in option.garbage, NEW d \in option.garbage
      PROVE  /\ rec(i, d) \in Record
             /\ \A b \in 0 .. fields * FieldBits - 1 : b >= blocks => b \in rec(i, d).inuse
             /\ rec(i, d).inuse \cup rec(i, d).dirty \subseteq 0 .. fields * FieldBits - 1
  <2>1. i \subseteq Nat /\ d \subseteq Nat
    BY OptionFits
  <2>2. Leftover(blocks, fields) \subseteq Nat
    BY <1>3, <1>4 DEF Leftover
  <2>3. rec(i, d).inuse = Leftover(blocks, fields) \cup (i \cap 0 .. blocks - 1)
        /\ rec(i, d).dirty = d \cap 0 .. blocks - 1
    OBVIOUS
  <2>4. rec(i, d) \in Record
    BY <1>2, <1>3, <1>4, <2>1, <2>2 DEF Record
  <2>5. \A b \in 0 .. fields * FieldBits - 1 : b >= blocks => b \in Leftover(blocks, fields)
    BY <1>3, <1>4 DEF Leftover
  <2>6. Leftover(blocks, fields) \subseteq 0 .. fields * FieldBits - 1
        /\ 0 .. blocks - 1 \subseteq 0 .. fields * FieldBits - 1
    BY <1>3, <1>4 DEF Leftover
  <2> HIDE DEF rec
  <2> QED BY <2>3, <2>4, <2>5, <2>6
<1>6. ASSUME NEW i \in option.garbage, NEW d \in option.garbage,
             arena' = Append(arena, rec(i, d)),
             acall' = [acall EXCEPT ![t].pc = "add", ![t].a = Len(arena) + 1],
             UNCHANGED <<huge, lost>>
      PROVE  ArenaInv'
  <2>1. /\ rec(i, d).start = c.start /\ rec(i, d).pages = c.page /\ rec(i, d).blocks = blocks
        /\ rec(i, d).fields = fields /\ rec(i, d).search_idx = 0 /\ 0 < fields
    BY <1>4
  <2> HIDE DEF rec
  <2> QED BY <1>1, <1>5, <1>6, <2>1, ArenaMade
<1>7. ASSUME FreeHugePages(t), acall' = [acall EXCEPT ![t] = NoArenaCall], UNCHANGED arena
      PROVE  ArenaInv'
  BY <1>1, <1>7, BuildFails
<1> QED BY <1>6, <1>7 DEF Build, blocks, fields

\* The count with its bound.
LEMMA CountBound ==
  ASSUME NEW U \in SUBSET Thread, NEW k \in Nat,
         (U = {} /\ k <= MaxArenas) \/ k = MaxArenas + Cardinality(U)
  PROVE  k \in 0 .. MaxArenas + Cardinality(Thread)
<1>1. Cardinality(U) <= Cardinality(Thread) /\ Cardinality(Thread) \in Nat /\ Cardinality(U) \in Nat
  <2>1. IsFiniteSet(U) /\ Cardinality(U) <= Cardinality(Thread)
    BY ThreadAssumption, FS_Subset
  <2> QED BY <2>1, ThreadAssumption, FS_CardinalityType
<1> QED BY <1>1, ArenaAssumption

\* The pages and ranges are as before when the calls keep theirs.
LEMMA RangesKeep ==
  ASSUME ArenaInv, UNCHANGED <<mi_huge_start, huge, lost, arena>>,
         \A u \in Thread : Address(u)' \subseteq Address(u)
  PROVE  Ranges'
<1>1. \A a \in 1 .. Len(arena) : ArenaPages(a)' = ArenaPages(a)
  BY ArenasKeep
<1>3. \A u, v \in Thread : u # v => Address(u)' \cap Address(v)' = {}
  BY DEF ArenaInv, ReserveInv, Ranges
<1>4. \A u \in Thread : \A a \in 1 .. Len(arena) : Address(u)' \cap ArenaPages(a) = {}
  BY DEF ArenaInv, ReserveInv, Ranges
<1> QED BY <1>1, <1>3, <1>4 DEF ArenaInv, ReserveInv, Ranges

\* A slot is taken.
LEMMA AddStep ==
  ASSUME ArenaInv, NEW t \in Thread, Add(t)
  PROVE  ArenaInv'
<1> DEFINE c == acall[t]
<1>0. mi_arena_count \in Nat
  BY ThreadAssumption, FS_CardinalityType, ArenaAssumption DEF ArenaInv, ArenaType
<1>1. PICK k \in Nat : k = mi_arena_count
  BY <1>0
<1> DEFINE q == IF k >= MaxArenas THEN "undo" ELSE "slot"
           r == [c EXCEPT !.i = k, !.pc = q]
<1>2. /\ c \in ArenaCall /\ c.pc = "add" /\ c.todo # <<>>
      /\ UNCHANGED <<osvars, mi_huge_start, huge, lost, mi_arenas, arena, ablocks, touched>>
  BY FirstTodo DEF Add, ReserveLabel
<1>3. q \in {"undo", "slot"} /\ (q = "undo" <=> k >= MaxArenas) /\ mi_arena_count' = k + 1
  BY <1>1 DEF Add
<1>4. acall' = [acall EXCEPT ![t] = r]
  BY <1>1, <1>2 DEF Add, ArenaInv, ArenaType
<1> HIDE DEF q
<1>5. r \in ArenaCall /\ r.pc = q /\ r.i = k /\ r.a = c.a /\ r.start = c.start /\ r.page = c.page /\ r.todo = c.todo
  BY <1>2, <1>3 DEF ArenaCall
<1> HIDE DEF r
<1>6. /\ acall' \in [Thread -> ArenaCall] /\ acall'[t] = r
      /\ \A u \in Thread \ {t} : acall'[u] = acall[u]
  BY <1>4, <1>5, OneCall DEF ArenaInv
<1>7. \A a \in 1 .. Len(arena) : a \in 1 .. Len(arena') /\ arena'[a] = arena[a]
  BY <1>2
<1>8. \A u \in Thread : Reserves(u)'
  <2>1. mi_huge_start' \in Nat /\ mi_huge_start <= mi_huge_start'
    BY <1>2 DEF ArenaInv, ArenaType
  <2>2. ASSUME NEW u \in Thread, u # t PROVE Reserves(u)'
    BY <1>6, <1>7, <2>1, <2>2, OthersReserve
  <2>3. Reserves(t)'
    <3>1. Reserves(t)
      BY DEF ArenaInv, ReserveInv
    <3>2. /\ c.start > 0 /\ c.page > 0
          /\ c.a \in 1 .. Len(arena) /\ arena[c.a].start = c.start /\ arena[c.a].pages = c.page
      BY <1>2, <3>1 DEF Reserves, ClaimedLabel
    <3>3. /\ acall'[t].pc \in {"undo", "slot"} /\ acall'[t].todo # <<>> /\ acall'[t].start > 0 /\ acall'[t].page > 0
          /\ acall'[t].a \in 1 .. Len(arena') /\ arena'[acall'[t].a].start = acall'[t].start
          /\ arena'[acall'[t].a].pages = acall'[t].page
      BY <1>2, <1>3, <1>5, <1>6, <3>2
    <3> QED BY <3>3 DEF Reserves, ReserveLabel, ClaimedLabel
  <2> QED BY <2>2, <2>3
<1>9. CountExact'
  <2>1. CASE k >= MaxArenas
    <3>1. Undoing' = Undoing \cup {t} /\ t \notin Undoing
      BY <1>2, <1>3, <1>5, <1>6, <2>1 DEF Undoing
    <3>2. IsFiniteSet(Undoing') /\ Cardinality(Undoing') = Cardinality(Undoing) + 1
      BY <3>1, FS_AddElement DEF ArenaInv, ReserveInv, CountExact
    <3>3. Undoing = {} => Cardinality(Undoing) = 0
      BY FS_EmptySet
    <3>4. Cardinality(Undoing) \in Nat
      BY FS_CardinalityType DEF ArenaInv, ReserveInv, CountExact
    <3> QED BY <1>1, <1>3, <3>2, <3>3, <3>4, <2>1, ArenaAssumption DEF ArenaInv, ReserveInv, CountExact
  <2>2. CASE ~(k >= MaxArenas)
    <3>1. Undoing' = Undoing
      BY <1>2, <1>3, <1>5, <1>6, <2>2 DEF Undoing
    <3>2. Cardinality(Undoing) \in Nat
      BY FS_CardinalityType DEF ArenaInv, ReserveInv, CountExact
    <3> QED BY <1>1, <1>3, <2>2, <3>1, <3>2, ArenaAssumption DEF ArenaInv, ReserveInv, CountExact
  <2> QED BY <2>1, <2>2
<1>10. Slots'
  <2> USE ArenaAssumption
  <2>0. \A u \in Thread : acall[u].pc = "slot" => u # t /\ acall'[u] = acall[u] /\ acall[u].i + 1 <= k /\ acall[u].i \in Nat
    <3> SUFFICES ASSUME NEW u \in Thread, acall[u].pc = "slot"
                 PROVE  u # t /\ acall'[u] = acall[u] /\ acall[u].i + 1 <= k /\ acall[u].i \in Nat
      OBVIOUS
    <3>1. acall[u].i + 1 \in 1 .. MaxArenas
      BY DEF ArenaInv, ReserveInv, Slots
    <3>2. acall[u].i \in Nat
      BY DEF ArenaInv, ArenaType, ArenaCall
    <3>3. acall[u].i + 1 <= mi_arena_count
      BY <3>1 DEF ArenaInv, ReserveInv, Slots
    <3> QED BY <1>1, <1>2, <1>6, <3>2, <3>3
  <2>1. \A i \in 1 .. MaxArenas :
          i <= k <=> mi_arenas[i] # NULL \/ \E u \in Thread : acall[u].pc = "slot" /\ acall[u].i + 1 = i
    BY <1>1 DEF ArenaInv, ReserveInv, Slots
  <2>2. CASE k >= MaxArenas
    <3>1. \A u \in Thread : acall'[u].pc = "slot" <=> acall[u].pc = "slot"
      BY <1>2, <1>3, <1>5, <1>6, <2>2
    <3>2. \A i \in 1 .. MaxArenas : i <= k /\ i <= k + 1
      BY <2>2
    <3>3. \A i \in 1 .. MaxArenas :
            i <= mi_arena_count' <=>
              mi_arenas'[i] # NULL \/ \E u \in Thread : acall'[u].pc = "slot" /\ acall'[u].i + 1 = i
      BY <1>2, <1>3, <2>0, <2>1, <3>1, <3>2
    <3>4. \A u \in Thread : acall'[u].pc = "slot" =>
             /\ acall'[u].i + 1 \in 1 .. MaxArenas /\ mi_arenas'[acall'[u].i + 1] = NULL
             /\ \A v \in Thread \ {u} : acall'[v].pc = "slot" => acall'[v].i # acall'[u].i
      BY <1>2, <2>0, <3>1 DEF ArenaInv, ReserveInv, Slots
    <3> QED BY <3>3, <3>4 DEF Slots
  <2>3. CASE ~(k >= MaxArenas)
    <3>1. acall'[t].pc = "slot" /\ acall'[t].i = k
      BY <1>3, <1>5, <1>6, <2>3
    <3>2. \A u \in Thread : acall'[u].pc = "slot" <=> u = t \/ acall[u].pc = "slot"
      BY <1>2, <1>6, <3>1
    <3>3. k + 1 \in 1 .. MaxArenas /\ ~(k + 1 <= k)
      BY <2>3
    <3>4. mi_arenas[k + 1] = NULL
      BY <2>1, <3>3
    <3>5. \A i \in 1 .. MaxArenas :
            i <= mi_arena_count' <=>
              mi_arenas'[i] # NULL \/ \E u \in Thread : acall'[u].pc = "slot" /\ acall'[u].i + 1 = i
      <4> SUFFICES ASSUME NEW i \in 1 .. MaxArenas
                   PROVE  i <= k + 1 <=>
                            mi_arenas[i] # NULL \/ \E u \in Thread : acall'[u].pc = "slot" /\ acall'[u].i + 1 = i
        BY <1>2, <1>3
      <4>1. CASE i = k + 1
        BY <3>1, <4>1
      <4>2. CASE i # k + 1
        <5>1. i <= k + 1 <=> i <= k
          BY <4>2
        <5>2. (\E u \in Thread : acall'[u].pc = "slot" /\ acall'[u].i + 1 = i)
                <=> \E u \in Thread : acall[u].pc = "slot" /\ acall[u].i + 1 = i
          BY <2>0, <3>1, <3>2, <4>2
        <5> QED BY <2>1, <5>1, <5>2
      <4> QED BY <4>1, <4>2
    <3>6. ASSUME NEW u \in Thread, acall'[u].pc = "slot"
          PROVE  /\ acall'[u].i + 1 \in 1 .. MaxArenas /\ mi_arenas'[acall'[u].i + 1] = NULL
                 /\ \A v \in Thread \ {u} : acall'[v].pc = "slot" => acall'[v].i # acall'[u].i
      <4>1. CASE u = t
        <5>1. \A v \in Thread \ {t} : acall'[v].pc = "slot" => acall'[v].i # k
          BY <2>0, <3>2
        <5> QED BY <1>2, <3>1, <3>3, <3>4, <4>1, <5>1
      <4>2. CASE u # t
        <5>1. acall[u].pc = "slot" /\ acall'[u] = acall[u] /\ acall[u].i # k
          BY <2>0, <3>2, <3>6, <4>2
        <5>2. \A v \in Thread \ {u} : acall'[v].pc = "slot" => acall'[v].i # acall[u].i
          BY <2>0, <3>1, <3>2, <5>1 DEF ArenaInv, ReserveInv, Slots
        <5> QED BY <1>2, <5>1, <5>2 DEF ArenaInv, ReserveInv, Slots
      <4> QED BY <4>1, <4>2
    <3> QED BY <3>5, <3>6 DEF Slots
  <2> QED BY <2>2, <2>3
<1>11. \A u \in Thread : Address(u)' = Address(u) /\ Held(u)' = Held(u)
  BY <1>2, <1>3, <1>5, <1>6 DEF Address, Held, ClaimedLabel
<1>12. Ranges'
  BY <1>2, <1>11, RangesKeep
<1>13. HugeOwned' /\ OnceOwned' /\ \A u \in Thread : Counted(u)'
  <2>1. Filled' = Filled /\ \A i \in Filled : SlotPages(i)' = SlotPages(i)
    BY <1>2, ArenasKeep
  <2>2. HugeOwned'
    BY <1>2, <1>11, <2>1 DEF ArenaInv, ReserveInv, HugeOwned
  <2>3. OnceOwned'
    BY <1>2, <1>11, <2>1 DEF ArenaInv, ReserveInv, OnceOwned
  <2>4. ASSUME NEW u \in Thread, u # t PROVE Counted(u)'
    BY <1>2, <1>6, <2>4, OthersCounted
  <2>5. Address(t)' = {}
    BY <1>3, <1>5, <1>6 DEF Address
  <2> QED BY <2>2, <2>3, <2>4, <2>5, NoRange
<1>14. BlockInv'
  <2>1. Records'
    BY <1>2, ArenasKeep
  <2>2. acall[t].pc \in ReserveLabel /\ acall'[t].pc \notin SearchLabel
    BY <1>2, <1>3, <1>5, <1>6 DEF ReserveLabel, SearchLabel
  <2> QED BY <1>2, <1>6, <1>7, <2>1, <2>2, ReserveBlocks
<1>15. ArenaType'
  <2>1. mi_arena_count' \in 0 .. MaxArenas + Cardinality(Thread)
    <3>1. Undoing' \in SUBSET Thread
      BY DEF Undoing
    <3>2. k + 1 \in Nat /\ mi_arena_count' = k + 1
      BY <1>3
    <3> QED BY <1>9, <3>1, <3>2, CountBound DEF CountExact
  <2> QED BY <1>2, <1>6, <2>1 DEF ArenaInv, ArenaType
<1> QED BY <1>8, <1>9, <1>10, <1>12, <1>13, <1>14, <1>15 DEF ArenaInv, ReserveInv

\* The reservation is done, or its next part begins.
LEMMA ReservedCall ==
  ASSUME ArenaInv, NEW t \in Thread, acall[t].pc \in ReserveLabel, acall' = Reserved(t)
  PROVE  /\ acall' \in [Thread -> ArenaCall] /\ acall'[t].pc \in {"idle", "claim"}
         /\ acall'[t].pc \in ReserveLabel <=> acall'[t].todo # <<>>
         /\ \A u \in Thread \ {t} : acall'[u] = acall[u]
         /\ Reserves(t)' /\ Address(t)' = {} /\ Held(t)' = {}
<1> DEFINE c == acall[t]
           T == Todo
           e == [NoArenaCall EXCEPT !.pc = "claim", !.todo = Tail(c.todo)]
           r == IF Len(c.todo) = 1 THEN NoArenaCall ELSE e
<1>1. c \in ArenaCall /\ c.todo # <<>> /\ c.todo \in Seq(T)
  BY FirstTodo DEF ArenaCall
<1>2. acall' = [acall EXCEPT ![t] = r]
  BY DEF Reserved, ArenaInv, ArenaType
<1>3. Len(c.todo) \in Nat \ {0}
  BY <1>1, EmptySeq
<1>4. Tail(c.todo) \in Seq(T) /\ (Len(c.todo) # 1 => Tail(c.todo) # <<>>)
  <2>1. Tail(c.todo) \in Seq(T) /\ Len(Tail(c.todo)) = Len(c.todo) - 1
    BY <1>1, HeadTailProperties
  <2> DEFINE s == Tail(c.todo)
             k == Len(c.todo)
  <2>2. s = <<>> => Len(s) = 0
    BY EmptySeq
  <2>3. k \in Nat \ {0} /\ Len(s) = k - 1 /\ s \in Seq(T)
    BY <1>3, <2>1
  <2> HIDE DEF s, k
  <2>4. k # 1 => s # <<>>
    BY <2>2, <2>3
  <2> QED BY <2>3, <2>4 DEF s, k
<1>5. e \in ArenaCall /\ e.pc = "claim" /\ e.todo = Tail(c.todo)
  BY <1>4, NoCallTyped DEF ArenaCall
<1> HIDE DEF e
<1>6. /\ r \in ArenaCall /\ r.pc \in {"idle", "claim"}
      /\ r.pc \in ReserveLabel <=> r.todo # <<>>
  <2>1. CASE Len(c.todo) = 1
    BY <2>1, NoCallTyped DEF ReserveLabel
  <2>2. CASE Len(c.todo) # 1
    BY <1>4, <1>5, <2>2 DEF ReserveLabel
  <2> QED BY <2>1, <2>2
<1> HIDE DEF r
<1>7. /\ acall' \in [Thread -> ArenaCall] /\ acall'[t] = r
      /\ \A u \in Thread \ {t} : acall'[u] = acall[u]
  BY <1>2, <1>6, OneCall DEF ArenaInv
<1>8. Reserves(t)' /\ Address(t)' = {} /\ Held(t)' = {}
  BY <1>6, <1>7 DEF Reserves, ClaimedLabel, Address, Held
<1> QED BY <1>6, <1>7, <1>8

\* There was no slot: the count is taken back, and the pages are lost.
LEMMA UndoStep ==
  ASSUME ArenaInv, NEW t \in Thread, Undo(t)
  PROVE  ArenaInv'
<1> DEFINE c == acall[t]
<1>1. /\ c.pc = "undo" /\ mi_arena_count' = mi_arena_count - 1
      /\ lost' = lost \cup Held(t) /\ acall' = Reserved(t)
      /\ UNCHANGED <<osvars, mi_huge_start, huge, mi_arenas, arena, ablocks, touched>>
  BY DEF Undo, Undone, Held, ClaimedLabel
<1>2. /\ acall' \in [Thread -> ArenaCall] /\ acall'[t].pc \in {"idle", "claim"}
      /\ \A u \in Thread \ {t} : acall'[u] = acall[u]
      /\ Reserves(t)' /\ Address(t)' = {} /\ Held(t)' = {}
  BY <1>1, ReservedCall DEF ReserveLabel
<1>3. \A a \in 1 .. Len(arena) : ArenaPages(a)' = ArenaPages(a) /\ a \in 1 .. Len(arena') /\ arena'[a] = arena[a]
  BY <1>1, ArenasKeep
<1>4. \A u \in Thread : Reserves(u)'
  <2>1. mi_huge_start' \in Nat /\ mi_huge_start <= mi_huge_start'
    BY <1>1 DEF ArenaInv, ArenaType
  <2>2. ASSUME NEW u \in Thread, u # t PROVE Reserves(u)'
    BY <1>2, <1>3, <2>1, <2>2, OthersReserve
  <2> QED BY <1>2, <2>2
<1>5. t \in Undoing /\ Undoing' = Undoing \ {t}
  BY <1>1, <1>2 DEF Undoing
<1>6. /\ IsFiniteSet(Undoing') /\ Cardinality(Undoing') = Cardinality(Undoing) - 1
      /\ Cardinality(Undoing') \in Nat
  BY <1>5, FS_RemoveElement, FS_CardinalityType DEF ArenaInv, ReserveInv, CountExact
<1>7. Cardinality(Undoing) \in Nat
  BY FS_CardinalityType DEF ArenaInv, ReserveInv, CountExact
<1>8. mi_arena_count = MaxArenas + Cardinality(Undoing)
  BY <1>5 DEF ArenaInv, ReserveInv, CountExact
<1>9. mi_arena_count' = MaxArenas + Cardinality(Undoing')
  BY <1>1, <1>6, <1>7, <1>8, ArenaAssumption
<1>10. CountExact'
  BY <1>6, <1>9 DEF CountExact
<1>11. \A u \in Thread \ {t} : Held(u)' = Held(u) /\ Address(u)' = Address(u)
  BY <1>2 DEF Held, Address
<1>12. Slots'
  <2>1. \A u \in Thread : acall'[u].pc = "slot" <=> acall[u].pc = "slot"
    BY <1>1, <1>2
  <2>2. \A u \in Thread : acall[u].pc = "slot" => acall'[u] = acall[u]
    BY <1>1, <1>2
  <2>3. \A i \in 1 .. MaxArenas : i <= mi_arena_count' /\ i <= mi_arena_count
    BY <1>6, <1>7, <1>8, <1>9, ArenaAssumption
  <2>4. \A i \in 1 .. MaxArenas :
          mi_arenas[i] # NULL \/ \E u \in Thread : acall[u].pc = "slot" /\ acall[u].i + 1 = i
    BY <2>3 DEF ArenaInv, ReserveInv, Slots
  <2>5. \A i \in 1 .. MaxArenas :
          i <= mi_arena_count' <=>
            mi_arenas'[i] # NULL \/ \E u \in Thread : acall'[u].pc = "slot" /\ acall'[u].i + 1 = i
    BY <1>1, <2>1, <2>2, <2>3, <2>4
  <2>6. \A u \in Thread : acall'[u].pc = "slot" =>
          /\ acall'[u].i + 1 \in 1 .. MaxArenas /\ mi_arenas'[acall'[u].i + 1] = NULL
          /\ \A v \in Thread \ {u} : acall'[v].pc = "slot" => acall'[v].i # acall'[u].i
    BY <1>1, <2>1, <2>2 DEF ArenaInv, ReserveInv, Slots
  <2> QED BY <2>5, <2>6 DEF Slots
<1>13. Held(t) \subseteq huge /\ \A u \in Thread : u # t => Held(t) \cap Address(u) = {}
  BY HeldApart
<1>14. Ranges'
  <2>2. \A u, v \in Thread : u # v => Address(u)' \cap Address(v)' = {}
    BY <1>2, <1>11 DEF ArenaInv, ReserveInv, Ranges
  <2>3. \A u \in Thread : \A a \in 1 .. Len(arena) : Address(u)' \cap ArenaPages(a) = {}
    BY <1>2, <1>11 DEF ArenaInv, ReserveInv, Ranges
  <2> QED BY <1>1, <1>3, <2>2, <2>3 DEF ArenaInv, ReserveInv, Ranges
<1>18. OnceOwned' /\ \A u \in Thread : Counted(u)'
  <2>1. Filled' = Filled /\ \A i \in Filled : SlotPages(i)' = SlotPages(i)
    BY <1>1, ArenasKeep
  <2>2. PICK G : G = {}
    OBVIOUS
  <2>3. G \cap huge = {} /\ Held(t)' \subseteq Held(t) \cup G /\ lost' \subseteq lost \cup ((Held(t) \cup G) \ Held(t)')
    BY <1>1, <1>2, <2>2
  <2>4. OnceOwned'
    BY <1>11, <2>1, <2>3, OwnedMoves
  <2>5. ASSUME NEW u \in Thread, u # t PROVE Counted(u)'
    BY <1>1, <1>2, <2>5, OthersCounted
  <2> QED BY <1>2, <2>4, <2>5, NoRange
<1>15. HugeOwned'
  <2>1. Filled' = Filled /\ \A i \in Filled : SlotPages(i)' = SlotPages(i)
    BY <1>1, ArenasKeep
  <2>2. UNION {Held(u) : u \in Thread} = (UNION {Held(u)' : u \in Thread}) \cup Held(t)
    BY <1>2, <1>11
  <2> QED BY <1>1, <2>1, <2>2 DEF ArenaInv, ReserveInv, HugeOwned
<1>16. BlockInv'
  <2>1. Records'
    BY <1>1, ArenasKeep
  <2>2. acall[t].pc \in ReserveLabel /\ acall'[t].pc \notin SearchLabel
    BY <1>1, <1>2 DEF ReserveLabel, SearchLabel
  <2> QED BY <1>1, <1>2, <1>3, <2>1, <2>2, ReserveBlocks
<1>17. ArenaType'
  <2>1. mi_arena_count' \in 0 .. MaxArenas + Cardinality(Thread)
    <3>1. Undoing' \in SUBSET Thread
      BY DEF Undoing
    <3>2. mi_arena_count' \in Nat
      BY <1>6, <1>9, ArenaAssumption
    <3> QED BY <1>9, <3>1, <3>2, CountBound
  <2>2. lost' \subseteq huge'
    BY <1>1, <1>13 DEF ArenaInv, ArenaType
  <2> QED BY <1>1, <1>2, <2>1, <2>2 DEF ArenaInv, ArenaType
<1> QED BY <1>4, <1>10, <1>12, <1>14, <1>15, <1>16, <1>17, <1>18 DEF ArenaInv, ReserveInv

\* The arena is put in its slot.
LEMMA SlotStep ==
  ASSUME ArenaInv, NEW t \in Thread, Slot(t)
  PROVE  ArenaInv'
<1> USE ArenaAssumption
<1> DEFINE c == acall[t]
<1>0. PICK k, a : k = acall[t].i + 1 /\ a = acall[t].a
  OBVIOUS
<1>1. /\ c.pc = "slot" /\ mi_arenas' = [mi_arenas EXCEPT ![k] = a] /\ acall' = Reserved(t)
      /\ UNCHANGED <<osvars, mi_huge_start, huge, lost, mi_arena_count, arena, ablocks, touched>>
  BY <1>0 DEF Slot
<1>2. /\ acall' \in [Thread -> ArenaCall] /\ acall'[t].pc \in {"idle", "claim"}
      /\ \A u \in Thread \ {t} : acall'[u] = acall[u]
      /\ Reserves(t)' /\ Address(t)' = {} /\ Held(t)' = {}
  BY <1>1, ReservedCall DEF ReserveLabel
<1>3. k \in 1 .. MaxArenas /\ mi_arenas[k] = NULL
  BY <1>0, <1>1 DEF ArenaInv, ReserveInv, Slots
<1>4. a \in 1 .. Len(arena) /\ ArenaPages(a) = Held(t) /\ Len(arena) \in Nat
  <2>1. Reserves(t) /\ Len(arena) \in Nat
    BY LenProperties DEF ArenaInv, ArenaType, ReserveInv
  <2> QED BY <1>0, <1>1, <2>1 DEF Reserves, ClaimedLabel, ArenaPages, Held
<1>5. /\ mi_arenas' \in [1 .. MaxArenas -> 0 .. Len(arena)] /\ mi_arenas'[k] = a /\ a # NULL
      /\ \A i \in 1 .. MaxArenas : i # k => mi_arenas'[i] = mi_arenas[i]
  BY <1>1, <1>3, <1>4 DEF ArenaInv, ArenaType, NULL
<1>6. \A b \in 1 .. Len(arena) : ArenaPages(b)' = ArenaPages(b) /\ b \in 1 .. Len(arena') /\ arena'[b] = arena[b]
  BY <1>1, ArenasKeep
<1>7. \A u \in Thread : Reserves(u)'
  <2>1. mi_huge_start' \in Nat /\ mi_huge_start <= mi_huge_start'
    BY <1>1 DEF ArenaInv, ArenaType
  <2>2. ASSUME NEW u \in Thread, u # t PROVE Reserves(u)'
    BY <1>2, <1>6, <2>1, <2>2, OthersReserve
  <2> QED BY <1>2, <2>2
<1>8. CountExact'
  <2>1. Undoing' = Undoing
    BY <1>1, <1>2 DEF Undoing
  <2> QED BY <1>1, <2>1 DEF ArenaInv, ReserveInv, CountExact
<1>9. Slots'
  <2>1. \A u \in Thread : acall'[u].pc = "slot" <=> u # t /\ acall[u].pc = "slot"
    BY <1>1, <1>2
  <2>2. \A u \in Thread : u # t => acall'[u] = acall[u]
    BY <1>2
  <2>3. \A u \in Thread : u # t /\ acall[u].pc = "slot" => acall[u].i + 1 \in 1 .. MaxArenas /\ acall[u].i + 1 # k
    <3> SUFFICES ASSUME NEW u \in Thread, u # t, acall[u].pc = "slot"
                 PROVE  acall[u].i + 1 \in 1 .. MaxArenas /\ acall[u].i + 1 # k
      OBVIOUS
    <3>1. acall[u].i \in Nat /\ acall[t].i \in Nat
      BY DEF ArenaInv, ArenaType, ArenaCall
    <3>2. acall[u].i + 1 \in 1 .. MaxArenas /\ acall[u].i # acall[t].i
      BY <1>1 DEF ArenaInv, ReserveInv, Slots
    <3> QED BY <1>0, <3>1, <3>2
  <2>4. \A i \in 1 .. MaxArenas :
          i <= mi_arena_count' <=>
            mi_arenas'[i] # NULL \/ \E u \in Thread : acall'[u].pc = "slot" /\ acall'[u].i + 1 = i
    <3> SUFFICES ASSUME NEW i \in 1 .. MaxArenas
                 PROVE  i <= mi_arena_count <=>
                          mi_arenas'[i] # NULL \/ \E u \in Thread : acall'[u].pc = "slot" /\ acall'[u].i + 1 = i
      BY <1>1
    <3>1. i <= mi_arena_count <=>
            mi_arenas[i] # NULL \/ \E u \in Thread : acall[u].pc = "slot" /\ acall[u].i + 1 = i
      BY DEF ArenaInv, ReserveInv, Slots
    <3>2. CASE i = k
      BY <1>0, <1>1, <1>5, <3>1, <3>2
    <3>3. CASE i # k
      <4>1. (\E u \in Thread : acall'[u].pc = "slot" /\ acall'[u].i + 1 = i)
              <=> \E u \in Thread : acall[u].pc = "slot" /\ acall[u].i + 1 = i
        BY <1>0, <2>1, <2>2, <3>3
      <4> QED BY <1>5, <3>1, <3>3, <4>1
    <3> QED BY <3>2, <3>3
  <2>5. \A u \in Thread : acall'[u].pc = "slot" =>
          /\ acall'[u].i + 1 \in 1 .. MaxArenas /\ mi_arenas'[acall'[u].i + 1] = NULL
          /\ \A v \in Thread \ {u} : acall'[v].pc = "slot" => acall'[v].i # acall'[u].i
    <3> SUFFICES ASSUME NEW u \in Thread, acall'[u].pc = "slot"
                 PROVE  /\ acall'[u].i + 1 \in 1 .. MaxArenas /\ mi_arenas'[acall'[u].i + 1] = NULL
                        /\ \A v \in Thread \ {u} : acall'[v].pc = "slot" => acall'[v].i # acall'[u].i
      OBVIOUS
    <3>1. u # t /\ acall[u].pc = "slot" /\ acall'[u] = acall[u]
      BY <2>1, <2>2
    <3>2. mi_arenas'[acall[u].i + 1] = NULL
      BY <1>5, <2>3, <3>1 DEF ArenaInv, ReserveInv, Slots
    <3>3. \A v \in Thread \ {u} : acall'[v].pc = "slot" => acall'[v].i # acall[u].i
      BY <2>1, <2>2, <3>1 DEF ArenaInv, ReserveInv, Slots
    <3> QED BY <2>3, <3>1, <3>2, <3>3
  <2> QED BY <2>4, <2>5 DEF Slots
<1>10. \A u \in Thread \ {t} : Held(u)' = Held(u) /\ Address(u)' = Address(u)
  BY <1>2 DEF Held, Address
<1>11. Ranges'
  <2>1. \A u \in Thread : Address(u)' \subseteq Address(u)
    BY <1>2, <1>10
  <2> QED BY <1>1, <2>1, RangesKeep
<1>12. HugeOwned' /\ OnceOwned'
  <2>1. Filled' = Filled \cup {k} /\ \A i \in Filled : i # k
    BY <1>3, <1>5 DEF Filled
  <2>2. \A i \in Filled : mi_arenas'[i] = mi_arenas[i] /\ mi_arenas[i] \in 1 .. Len(arena)
    BY <1>4, <1>5, <2>1 DEF Filled, ArenaInv, ArenaType, NULL
  <2>3. \A i \in Filled : SlotPages(i)' = SlotPages(i)
    BY <1>1, <2>2 DEF SlotPages, ArenaPages
  <2>4. SlotPages(k)' = Held(t)
    BY <1>1, <1>4, <1>5 DEF SlotPages, ArenaPages
  <2>5. UNION {SlotPages(i)' : i \in Filled'} = (UNION {SlotPages(i) : i \in Filled}) \cup Held(t)
    BY <2>1, <2>3, <2>4
  <2>6. UNION {Held(u) : u \in Thread} = (UNION {Held(u)' : u \in Thread}) \cup Held(t)
    BY <1>2, <1>10
  <2>7. huge = lost \cup (UNION {SlotPages(i) : i \in Filled}) \cup (UNION {Held(u) : u \in Thread})
    BY DEF ArenaInv, ReserveInv, HugeOwned
  <2>8. HugeOwned'
    BY <1>1, <2>5, <2>6, <2>7 DEF HugeOwned
  <2>9. OnceOwned'
    <3>1. OnceOwned
      BY DEF ArenaInv, ReserveInv
    <3>2. \A u \in Thread : Held(u)' \cap lost' = {}
      BY <1>1, <1>2, <1>10, <3>1 DEF OnceOwned
    <3>3. \A u, v \in Thread : u # v => Held(u)' \cap Held(v)' = {}
      BY <1>2, <1>10, <3>1 DEF OnceOwned
    <3>4. \A i \in Filled' : SlotPages(i)' \cap lost' = {}
      BY <1>1, <2>1, <2>3, <2>4, <3>1 DEF OnceOwned
    <3>5. \A i \in Filled', u \in Thread : SlotPages(i)' \cap Held(u)' = {}
      BY <1>2, <1>10, <2>1, <2>3, <2>4, <3>1 DEF OnceOwned
    <3>6. \A i, j \in Filled' : i # j => SlotPages(i)' \cap SlotPages(j)' = {}
      BY <2>1, <2>3, <2>4, <3>1 DEF OnceOwned
    <3> QED BY <3>2, <3>3, <3>4, <3>5, <3>6 DEF OnceOwned
  <2> QED BY <2>8, <2>9
<1>15. \A u \in Thread : Counted(u)'
  <2>1. ASSUME NEW u \in Thread, u # t PROVE Counted(u)'
    BY <1>1, <1>2, <2>1, OthersCounted
  <2> QED BY <1>2, <2>1, NoRange
<1>13. BlockInv'
  <2>1. Records'
    BY <1>1, ArenasKeep
  <2>2. acall[t].pc \in ReserveLabel /\ acall'[t].pc \notin SearchLabel
    BY <1>1, <1>2 DEF ReserveLabel, SearchLabel
  <2>3. \A i \in 1 .. MaxArenas : mi_arenas[i] # NULL => mi_arenas'[i] = mi_arenas[i]
    BY <1>3, <1>5
  <2> QED BY <1>1, <1>2, <1>6, <2>1, <2>2, <2>3, ReserveBlocks
<1>14. ArenaType'
  BY <1>1, <1>2, <1>5 DEF ArenaInv, ArenaType
<1> QED BY <1>7, <1>8, <1>9, <1>11, <1>12, <1>13, <1>14, <1>15 DEF ArenaInv, ReserveInv

-----------------------------------------------------------------------------
(* Allocating *)

\* A set of numbers that is not empty has a least one.
LEMMA LeastNumber ==
  ASSUME NEW S \in SUBSET Nat, S # {}
  PROVE  \E x \in S : \A y \in S : x <= y
<1> DEFINE R == {ss \in Nat \X Nat : ss[1] < ss[2]}
<1>1. R = OpToRel(<, Nat)
  BY Zenon DEF OpToRel
<1>2. IsWellFoundedOn(R, Nat)
  BY <1>1, NatLessThanWellFounded, Zenon
<1>3. PICK x \in S : \A y \in S : ~ (<<y, x>> \in R)
  <2> HIDE DEF R
  <2> QED BY <1>2, WFMin, Zenon
<1>4. \A y \in S : ~ (y < x)
  BY <1>3
<1> QED BY <1>4

\* A place that is found is in the field and free.
LEMMA FitLemma ==
  ASSUME NEW map, NEW n \in Nat, NEW b \in Nat, FirstFit(map, n, b) < FieldBits
  PROVE  /\ FirstFit(map, n, b) \in Nat /\ FirstFit(map, n, b) + n <= FieldBits
         /\ Mask(FirstFit(map, n, b), n) \cap map = {}
<1> USE ArenaAssumption
<1> DEFINE F == {x \in b .. FieldBits - n : Mask(x, n) \cap map = {}}
           f == IF F = {} THEN FieldBits ELSE CHOOSE x \in F : \A y \in F : x <= y
<1>0. f = FirstFit(map, n, b)
  BY DEF FirstFit
<1>1. F \in SUBSET Nat
  OBVIOUS
<1>2. F # {}
  <2> SUFFICES ASSUME F = {} PROVE FALSE
    OBVIOUS
  <2>1. f = FieldBits
    OBVIOUS
  <2> QED BY <1>0, <2>1
<1>3. \E x \in F : \A y \in F : x <= y
  <2> HIDE DEF F
  <2> QED BY <1>1, <1>2, LeastNumber
<1>4. f \in F
  <2> HIDE DEF F
  <2> QED BY <1>2, <1>3
<1> HIDE DEF f
<1> QED BY <1>0, <1>4

\* The program asks for memory: the arenas are searched first.
LEMMA AllocStep ==
  ASSUME OsInv, ArenaInv, NEW t \in Thread, NEW req \in Nat \ {0}, NEW align \in Nat \ {0},
         NEW commit \in BOOLEAN, NEW large \in BOOLEAN, NEW node \in Nat,
         Alloc(t, req, align, commit, large, node)
  PROVE  OsInv' /\ ArenaInv'
<1>0. /\ acall[t].pc = "idle"
      /\ UNCHANGED <<mi_huge_start, huge, lost, mi_arenas, mi_arena_count, arena, ablocks, touched>>
      /\ UNCHANGED <<option, prot, content, aligned_base, large_page_try_ok, reserved, allocs, written,
                     hidden, leaked, fails>>
  BY DEF Alloc, Idle
<1>1. ASSUME UNCHANGED call,
             acall' = [acall EXCEPT ![t] = [NoArenaCall EXCEPT !.pc = "look", !.req = req,
                 !.align = align, !.commit = commit, !.large = large, !.node = node]]
      PROVE  OsInv' /\ ArenaInv'
  <2> DEFINE r == [NoArenaCall EXCEPT !.pc = "look", !.req = req,
                     !.align = align, !.commit = commit, !.large = large, !.node = node]
  <2>1. r \in ArenaCall /\ r.pc = "look" /\ r.req = req /\ r.i = 0 /\ r.todo = <<>>
    <3>1. NoArenaCall \in ArenaCall /\ NoArenaCall.i = 0 /\ NoArenaCall.todo = <<>>
      BY NoCallTyped DEF NoArenaCall
    <3> QED BY <3>1, ZenonT(60) DEF ArenaCall
  <2> HIDE DEF r
  <2>2. acall' = [acall EXCEPT ![t] = r]
    BY <1>1 DEF r
  <2>3. acall'[t] = r
    BY <2>1, <2>2, OneCall DEF ArenaInv
  <2>4. Searches(t)'
    BY <2>1, <2>3, ArenaAssumption DEF Searches, SearchLabel
  <2>5. /\ r.pc \notin ClaimedLabel \cup {"search", "dirty"}
        /\ acall[t].pc \notin ClaimedLabel \cup {"search", "dirty"}
        /\ r.pc \in ReserveLabel <=> r.todo # <<>>
    BY <1>0, <2>1 DEF ClaimedLabel, ReserveLabel
  <2>6. OsInv'
    BY <1>0, <1>1, OsQuiet DEF osvars
  <2> QED BY <1>0, <2>1, <2>2, <2>4, <2>5, <2>6, CallOnly
<1>2. ASSUME OsAlloc(t, req, align, commit, large), UNCHANGED acall
      PROVE  OsInv' /\ ArenaInv'
  <2>1. OsInv'
    BY <1>0, <1>2, OsAllocStep
  <2>2. ArenaInv'
    BY <1>0, <1>2, ArenaQuiet DEF avars
  <2> QED BY <2>1, <2>2
<1> QED BY <1>1, <1>2 DEF Alloc

\* The next slot is looked at, or the memory comes from the OS.
LEMMA LookStep ==
  ASSUME OsInv, ArenaInv, NEW t \in Thread, Look(t)
  PROVE  OsInv' /\ ArenaInv'
<1> USE ArenaAssumption
<1> DEFINE c == acall[t]
           end == c.i = MaxArenas \/ mi_arenas[c.i + 1] = NULL
<1>0. /\ c.pc = "look" /\ c \in ArenaCall /\ c.req > 0 /\ c.i <= MaxArenas /\ c.i \in Nat /\ c.todo = <<>>
      /\ UNCHANGED <<mi_huge_start, huge, lost, mi_arenas, mi_arena_count, arena, ablocks, touched>>
      /\ UNCHANGED <<option, prot, content, aligned_base, large_page_try_ok, reserved, allocs, written,
                     hidden, leaked, fails>>
  <2>1. c.pc = "look" /\ c \in ArenaCall
    BY DEF Look, ArenaInv, ArenaType
  <2>2. Searches(t) /\ Reserves(t)
    BY DEF ArenaInv, BlockInv, ReserveInv
  <2>3. c.req > 0 /\ c.i <= MaxArenas
    BY <2>1, <2>2 DEF Searches, SearchLabel
  <2>4. c.todo = <<>>
    BY <2>1, <2>2 DEF Reserves, ReserveLabel
  <2>5. c.i \in Nat
    BY <2>1 DEF ArenaCall
  <2> QED BY <2>1, <2>3, <2>4, <2>5 DEF Look
<1>1. ASSUME NEW r \in ArenaCall, acall' = [acall EXCEPT ![t] = r], r.pc \in {"look", "read", "idle"},
             r.todo = <<>>, Searches(t)'
      PROVE  ArenaInv'
  <2>1. /\ r.pc \notin ClaimedLabel \cup {"search", "dirty"}
        /\ acall[t].pc \notin ClaimedLabel \cup {"search", "dirty"}
        /\ r.pc \in ReserveLabel <=> r.todo # <<>>
    BY <1>0, <1>1 DEF ClaimedLabel, ReserveLabel
  <2> QED BY <1>0, <1>1, <2>1, CallOnly
<1>2. UNCHANGED call => OsInv'
  BY <1>0, OsQuiet DEF osvars
<1>3. ASSUME ~end PROVE OsInv' /\ ArenaInv'
  <2> DEFINE a == mi_arenas[c.i + 1]
             f == [c EXCEPT !.pc = "read", !.a = a, !.visited = 0, !.field = arena[a].search_idx]
             g == [c EXCEPT !.i = c.i + 1]
             r == IF Suitable(c, arena[a]) THEN f ELSE g
  <2>1. acall' = [acall EXCEPT ![t] = r] /\ UNCHANGED call
    BY <1>0, <1>3 DEF Look
  <2>2. c.i \in 0 .. MaxArenas - 1 /\ c.i + 1 \in Nat /\ c.i + 1 <= MaxArenas
    BY <1>0, <1>3
  <2>3. InSlot(c.i, a)
    BY <1>3, <2>2 DEF InSlot
  <2>4. a \in 1 .. Len(arena) /\ arena[a] \in Record /\ a \in Nat
    <3>1. a \in 1 .. Len(arena)
      BY <2>3, SlotArena DEF ArenaInv
    <3> QED BY <3>1, ArenaRecord DEF ArenaInv
  <2>5. arena[a].search_idx \in Nat /\ arena[a].search_idx < arena[a].fields
    BY <2>4 DEF Record, ArenaInv, BlockInv, Records
  <2> HIDE DEF a
  <2>6. /\ f \in ArenaCall /\ f.pc = "read" /\ f.a = a /\ f.i = c.i /\ f.field = arena[a].search_idx
        /\ f.req = c.req /\ f.todo = c.todo
    BY <1>0, <2>4, <2>5 DEF ArenaCall
  <2>7. g \in ArenaCall /\ g.pc = "look" /\ g.i = c.i + 1 /\ g.req = c.req /\ g.todo = c.todo
    BY <1>0, <2>2 DEF ArenaCall
  <2> HIDE DEF f, g
  <2>8. r \in ArenaCall /\ r.pc \in {"look", "read"} /\ r.todo = <<>> /\ r.req > 0
    BY <1>0, <2>6, <2>7
  <2>9. r.pc = "look" => r.i <= MaxArenas
    BY <2>2, <2>6, <2>7
  <2>10. r.pc = "read" => InSlot(r.i, r.a) /\ r.field < arena[r.a].fields
    BY <2>3, <2>5, <2>6, <2>7
  <2> HIDE DEF r
  <2>11. acall'[t] = r
    BY <2>1, <2>8, OneCall DEF ArenaInv
  <2>12. Searches(t)'
    BY <1>0, <2>8, <2>9, <2>10, <2>11 DEF Searches, SearchLabel, InSlot
  <2> QED BY <1>1, <1>2, <2>1, <2>8, <2>12
<1>4. ASSUME end, ~c.remote PROVE OsInv' /\ ArenaInv'
  <2> DEFINE r == [c EXCEPT !.remote = TRUE, !.i = 0]
  <2>1. acall' = [acall EXCEPT ![t] = r] /\ UNCHANGED call
    BY <1>0, <1>4 DEF Look, ArenaInv, ArenaType
  <2>2. r \in ArenaCall /\ r.pc = "look" /\ r.i = 0 /\ r.req = c.req /\ r.todo = <<>>
    BY <1>0 DEF ArenaCall
  <2> HIDE DEF r
  <2>3. acall'[t] = r
    BY <2>1, <2>2, OneCall, ZenonT(60) DEF ArenaInv
  <2>4. Searches(t)'
    <3>1. r.req > 0 /\ r.i = 0 /\ r.pc = "look"
      <4>1. c.req > 0 /\ r.req = c.req /\ r.i = 0 /\ r.pc = "look"
        BY <1>0, <2>2, Zenon
      <4> QED BY <4>1
    <3>2. 0 <= MaxArenas
      OBVIOUS
    <3> QED BY <2>3, <3>1, <3>2 DEF Searches, SearchLabel
  <2> QED BY <1>1, <1>2, <2>1, <2>2, <2>4
<1>5. ASSUME end, c.remote PROVE OsInv' /\ ArenaInv'
  <2>1. acall' = [acall EXCEPT ![t] = NoArenaCall] /\ OsAlloc(t, c.req, c.align, c.commit, c.large)
    BY <1>5 DEF Look
  <2>2. c.req \in Nat \ {0} /\ c.align \in Nat \ {0} /\ c.commit \in BOOLEAN /\ c.large \in BOOLEAN
    BY <1>0 DEF ArenaCall
  <2>3. OsInv'
    BY <1>0, <2>1, <2>2, OsAllocStep
  <2>4. acall'[t] = NoArenaCall
    BY <2>1, NoCallTyped, OneCall DEF ArenaInv
  <2>5. Searches(t)'
    BY <2>4, NoCallTyped, NoSearch DEF SearchLabel
  <2>6. ArenaInv'
    BY <1>1, <2>1, <2>5, NoCallTyped
  <2> QED BY <2>3, <2>6
<1> QED BY <1>3, <1>4, <1>5

-----------------------------------------------------------------------------
(* Searching an arena *)

\* What a call that searches an arena knows.
LEMMA SearchFacts ==
  ASSUME ArenaInv, NEW t \in Thread, acall[t].pc \in SearchLabel \ {"look"}
  PROVE  /\ acall[t] \in ArenaCall /\ acall[t].req \in Nat \ {0} /\ acall[t].todo = <<>>
         /\ BlockCount(acall[t].req) \in Nat \ {0}
         /\ InSlot(acall[t].i, acall[t].a) /\ acall[t].a \in 1 .. Len(arena)
         /\ arena[acall[t].a] \in Record /\ Searches(t)
<1>1. acall[t] \in ArenaCall
  BY DEF ArenaInv, ArenaType
<1>2. Searches(t) /\ Reserves(t)
  BY DEF ArenaInv, BlockInv, ReserveInv
<1>3. acall[t].todo = <<>>
  BY <1>2 DEF Reserves, ReserveLabel, SearchLabel
<1>4. acall[t].req \in Nat /\ acall[t].req > 0
  BY <1>1, <1>2 DEF Searches, ArenaCall
<1>5. InSlot(acall[t].i, acall[t].a)
  BY <1>2 DEF Searches
<1>6. acall[t].a \in 1 .. Len(arena)
  BY <1>5, SlotArena DEF ArenaInv
<1>7. arena[acall[t].a] \in Record
  BY <1>6, ArenaRecord DEF ArenaInv
<1>8. BlockCount(acall[t].req) \in Nat \ {0}
  BY <1>4, BlockCounts
<1> QED BY <1>1, <1>2, <1>3, <1>4, <1>5, <1>6, <1>7, <1>8

\* The search goes on in the field as it was read, in the next field or the next
\* arena.
LEMMA ScanStep ==
  ASSUME ArenaInv, NEW t \in Thread, acall[t].pc \in {"read", "cas"}, NEW from \in Nat, Scan(t, from),
         UNCHANGED <<mi_huge_start, huge, lost, mi_arenas, mi_arena_count, arena, ablocks, touched>>
  PROVE  ArenaInv'
<1> USE ArenaAssumption
<1> DEFINE c == acall[t]
           a == arena[c.a]
           n == BlockCount(c.req)
           map == FieldMap(a, c.field)
           b == FirstFit(map, n, from)
           found == [c EXCEPT !.pc = "cas", !.map = map, !.bit = b]
           next == (c.field + 1) % a.fields
           field == [c EXCEPT !.pc = "read", !.visited = c.visited + 1, !.field = next]
           slot == [c EXCEPT !.pc = "look", !.i = c.i + 1]
           r == IF b < FieldBits THEN found ELSE IF c.visited + 1 < a.fields THEN field ELSE slot
<1>1. acall' = [acall EXCEPT ![t] = r]
  BY DEF Scan, ArenaInv, ArenaType
<1>2. /\ c \in ArenaCall /\ c.req \in Nat \ {0} /\ c.todo = <<>> /\ n \in Nat \ {0}
      /\ InSlot(c.i, c.a) /\ a \in Record /\ c.field < a.fields
  BY SearchFacts DEF SearchLabel, Searches
<1>3. map \subseteq Bits
  BY DEF FieldMap
<1>4. b < FieldBits => b \in Nat /\ b + n <= FieldBits /\ Mask(b, n) \cap map = {}
  BY <1>2, FitLemma
<1> HIDE DEF map, b, n
<1>5. b < FieldBits => /\ found \in ArenaCall /\ found.pc = "cas" /\ found.map = map /\ found.bit = b
                       /\ found.req = c.req /\ found.todo = c.todo /\ found.i = c.i /\ found.a = c.a
                       /\ found.field = c.field
  BY <1>2, <1>3, <1>4 DEF ArenaCall
<1>6. a.fields \in Nat \ {0} /\ c.field \in Nat /\ c.visited \in Nat
  BY <1>2 DEF Record, ArenaCall
<1>7. next \in Nat /\ next < a.fields
  BY <1>6
<1> HIDE DEF next
<1>8. /\ field \in ArenaCall /\ field.pc = "read" /\ field.req = c.req /\ field.todo = c.todo
      /\ field.i = c.i /\ field.a = c.a /\ field.field < a.fields
  <2>1. c.visited + 1 \in Nat
    BY <1>6
  <2> QED BY <1>2, <1>7, <2>1 DEF ArenaCall
<1>9. /\ slot \in ArenaCall /\ slot.pc = "look" /\ slot.req = c.req /\ slot.todo = c.todo
      /\ slot.i <= MaxArenas
  <2>1. c.i + 1 \in Nat /\ c.i + 1 <= MaxArenas
    BY <1>2 DEF InSlot
  <2> QED BY <1>2, <2>1 DEF ArenaCall
<1> HIDE DEF found, field, slot
<1>10. r \in ArenaCall /\ r.pc \in {"cas", "read", "look"} /\ r.req = c.req /\ r.todo = <<>>
  BY <1>2, <1>5, <1>8, <1>9
<1>11. r.pc = "look" => r.i <= MaxArenas
  BY <1>5, <1>8, <1>9
<1>12. r.pc # "look" => r.i = c.i /\ r.a = c.a /\ r.field < a.fields
  BY <1>2, <1>5, <1>8, <1>9
<1>13. r.pc = "cas" => r.bit + n <= FieldBits /\ Mask(r.bit, n) \cap r.map = {}
  BY <1>4, <1>5, <1>8, <1>9
<1> HIDE DEF r
<1>14. acall'[t] = r
  BY <1>1, <1>10, OneCall DEF ArenaInv
<1>15. Searches(t)'
  BY <1>2, <1>10, <1>11, <1>12, <1>13, <1>14 DEF Searches, SearchLabel, InSlot, n
<1>16. /\ r.pc \notin ClaimedLabel \cup {"search", "dirty"}
       /\ c.pc \notin ClaimedLabel \cup {"search", "dirty"}
       /\ r.pc \in ReserveLabel <=> r.todo # <<>>
  BY <1>10 DEF ClaimedLabel, ReserveLabel
<1> QED BY <1>1, <1>10, <1>15, <1>16, CallOnly

\* A field is read.
LEMMA ReadStep ==
  ASSUME ArenaInv, NEW t \in Thread, ReadField(t)
  PROVE  ArenaInv'
BY ScanStep DEF ReadField

\* The calls and the blocks are as before but for one arena's bits, that grow.
LEMMA BitsGrow ==
  ASSUME ArenaType, Records, NEW a \in 1 .. Len(arena), NEW r \in Record,
         arena' = [arena EXCEPT ![a] = r],
         \A f \in {"start", "pages", "blocks", "fields", "node"} : r[f] = arena[a][f],
         arena[a].inuse \subseteq r.inuse, arena[a].dirty \subseteq r.dirty,
         r.inuse \cup r.dirty \subseteq 0 .. r.fields * FieldBits - 1, r.search_idx < r.fields,
         \A p \in touched' : p \in touched \/ (p[1] = a /\ p[2] \in r.dirty)
  PROVE  /\ arena' \in Seq(Record) /\ SamePages /\ Records'
         /\ \A b \in 1 .. Len(arena) : /\ arena[b].inuse \subseteq arena'[b].inuse
                                       /\ arena'[b].blocks = arena[b].blocks
                                       /\ arena'[b].fields = arena[b].fields
<1>1. /\ arena' \in Seq(Record) /\ Len(arena') = Len(arena) /\ arena'[a] = r
      /\ \A b \in 1 .. Len(arena) : b # a => arena'[b] = arena[b]
  BY OneArena
<1>2. /\ r.start = arena[a].start /\ r.pages = arena[a].pages /\ r.blocks = arena[a].blocks
      /\ r.fields = arena[a].fields
  <2>1. arena[a] \in Record
    BY ArenaRecord
  <2> QED BY <2>1 DEF Record
<1>3. SamePages
  BY <1>1, <1>2 DEF SamePages
<1>4. Records'
  <2>1. ASSUME NEW d \in 1 .. Len(arena')
        PROVE  /\ \A b \in 0 .. arena'[d].fields * FieldBits - 1 : b >= arena'[d].blocks => b \in arena'[d].inuse
               /\ arena'[d].search_idx < arena'[d].fields
               /\ arena'[d].inuse \cup arena'[d].dirty \subseteq 0 .. arena'[d].fields * FieldBits - 1
    <3>1. CASE d = a
      BY <1>1, <1>2, <3>1 DEF Records
    <3>2. CASE d # a
      BY <1>1, <3>2 DEF Records
    <3> QED BY <3>1, <3>2
  <2>2. \A p \in touched' : p[1] \in 1 .. Len(arena') /\ p[2] \in arena'[p[1]].dirty
    BY <1>1 DEF Records
  <2> QED BY <2>1, <2>2 DEF Records
<1> QED BY <1>1, <1>2, <1>3, <1>4

\* A call that does not change still knows what it did of its arena.
LEMMA SearchesKeep ==
  ASSUME ArenaType, UNCHANGED mi_arenas, NEW u \in Thread, Searches(u), acall'[u] = acall[u],
         \A b \in 1 .. Len(arena) : arena'[b].blocks = arena[b].blocks /\ arena'[b].fields = arena[b].fields,
         acall[u].pc \in {"search", "dirty"} =>
           Run(acall[u].bit, BlockCount(acall[u].req)) \subseteq arena'[acall[u].a].inuse
  PROVE  Searches(u)'
<1>1. \A i, a : InSlot(i, a) => InSlot(i, a)' /\ a \in 1 .. Len(arena)
  BY SlotArena DEF InSlot
<1> QED BY <1>1 DEF Searches, SearchLabel

\* A search takes a step in which the reservations stay.
LEMMA ReserveKeepsSearch ==
  ASSUME ArenaInv, NEW t \in Thread, NEW r \in ArenaCall, acall' = [acall EXCEPT ![t] = r], SamePages,
         UNCHANGED <<mi_huge_start, huge, lost, mi_arenas, mi_arena_count>>,
         acall[t].pc \in SearchLabel, r.pc \in SearchLabel \cup {"idle"}, r.todo = <<>>
  PROVE  ReserveInv'
<1>1. /\ acall'[t] = r /\ \A u \in Thread \ {t} : acall'[u] = acall[u]
  BY OneCall DEF ArenaInv
<1>2. \A u \in Thread :
           \/ acall'[u] = acall[u]
           \/ /\ acall[u].pc \notin ClaimedLabel /\ acall'[u].pc \notin ClaimedLabel
              /\ acall'[u].pc \in ReserveLabel <=> acall'[u].todo # <<>>
  BY <1>1 DEF SearchLabel, ClaimedLabel, ReserveLabel
<1> QED BY <1>2, ReserveKeeps DEF ArenaInv

\* A call that does not change keeps the blocks it claimed.
LEMMA ClaimsKeep ==
  ASSUME NEW u, acall'[u] = acall[u]
  PROVE  Claims(u)' = Claims(u)
BY DEF Claims

\* The blocks a call claimed are in use in its arena.
LEMMA ClaimsInUse ==
  ASSUME ArenaInv, NEW u \in Thread
  PROVE  \A p \in Claims(u) : p[2] \in arena[p[1]].inuse
<1>1. Searches(u)
  BY DEF ArenaInv, BlockInv
<1> QED BY <1>1 DEF Claims, Searches

\* Bits are set and no memory is given back: what is known of memory stays.
LEMMA MemoriesKeep ==
  ASSUME ArenaInv, UNCHANGED <<mi_arenas, ablocks>>,
         \A b \in 1 .. Len(arena) : arena[b].inuse \subseteq arena'[b].inuse /\ arena'[b].blocks = arena[b].blocks
  PROVE  Memories'
<1>1. \A m \in ablocks : InSlot(SlotOf(m.memid), m.a)' /\ m.a \in 1 .. Len(arena)
  <2>1. \A m \in ablocks : InSlot(SlotOf(m.memid), m.a)
    BY DEF ArenaInv, BlockInv, Memories
  <2> QED BY <2>1, SlotArena DEF InSlot, ArenaInv
<1> QED BY <1>1 DEF ArenaInv, BlockInv, Memories

\* The bits are claimed: they were free in the field, so they are nobody's and blocks.
LEMMA ClaimBitsStep ==
  ASSUME ArenaInv, NEW t \in Thread, ClaimBits(t)
  PROVE  ArenaInv'
<1> USE ArenaAssumption
<1>0. PICK c, k, a, n, first : /\ c = acall[t] /\ k = c.a /\ a = arena[k] /\ n = BlockCount(c.req)
                               /\ first = c.field * FieldBits + c.bit
  OBVIOUS
<1>1. /\ c.pc = "cas" /\ c \in ArenaCall /\ c.req \in Nat \ {0} /\ c.todo = <<>> /\ n \in Nat \ {0}
      /\ InSlot(c.i, k) /\ k \in 1 .. Len(arena) /\ a \in Record /\ Searches(t)
  <2>1. c.pc = "cas"
    BY <1>0 DEF ClaimBits
  <2> QED BY <1>0, <2>1, SearchFacts DEF SearchLabel
<1>2. c.field < a.fields /\ c.bit + n <= FieldBits /\ Mask(c.bit, n) \cap c.map = {}
  BY <1>0, <1>1 DEF Searches
<1>3. CASE ~SameMap(t)
  <2>1. Scan(t, c.bit) /\ UNCHANGED arena /\ c.bit \in Nat
    BY <1>0, <1>1, <1>3 DEF ClaimBits, ArenaCall
  <2> QED BY <1>0, <1>1, <2>1, ScanStep DEF ClaimBits
<1>4. CASE SameMap(t)
  <2> DEFINE R == Run(first, n)
             r == [c EXCEPT !.pc = "search", !.bit = first]
             q == [a EXCEPT !.inuse = a.inuse \cup R]
  <2>1. /\ arena' = [arena EXCEPT ![k] = q] /\ acall' = [acall EXCEPT ![t] = r]
        /\ UNCHANGED <<mi_huge_start, huge, lost, mi_arenas, mi_arena_count, ablocks, touched>>
    BY <1>0, <1>1, <1>4 DEF ClaimBits, ArenaInv, ArenaType
  <2>2. /\ c.field \in Nat /\ c.bit \in Nat /\ a.fields \in Nat /\ a.blocks \in Nat
        /\ c.field * FieldBits \in Nat /\ a.fields * FieldBits \in Nat /\ first \in Nat
        /\ first = c.field * FieldBits + c.bit
    <3>1. c.field \in Nat /\ c.bit \in Nat /\ a.fields \in Nat /\ a.blocks \in Nat
      BY <1>1 DEF ArenaCall, Record
    <3>2. c.field * FieldBits \in Nat /\ a.fields * FieldBits \in Nat
      BY <3>1
    <3> QED BY <1>0, <3>1, <3>2
  <2>3. c.field * FieldBits + FieldBits <= a.fields * FieldBits
    BY <1>2, <2>2, TimesLess
  <2> DEFINE x == c.field * FieldBits
             y == a.fields * FieldBits
  <2>22. x \in Nat /\ y \in Nat /\ first = x + c.bit /\ x + FieldBits <= y
    BY <2>2, <2>3
  <2> HIDE DEF x, y
  <2>23. /\ c.bit \in Nat /\ first \in Nat /\ a.blocks \in Nat /\ n \in Nat \ {0}
         /\ c.bit + n <= FieldBits /\ FieldBits \in Nat
    BY <1>1, <1>2, <2>2
  <2>4. R \subseteq 0 .. y - 1
    <3> SUFFICES ASSUME NEW b \in first .. first + n - 1 PROVE b \in 0 .. y - 1
      BY DEF Run
    <3>1. b \in Int /\ b >= 0 /\ b < first + n
      BY <2>23
    <3>2. first + n <= y
      BY <2>22, <2>23
    <3> QED BY <2>22, <2>23, <3>1, <3>2
  <2>5. R \cap a.inuse = {}
    <3> SUFFICES ASSUME NEW b \in R, b \in a.inuse PROVE FALSE
      OBVIOUS
    <3> DEFINE j == b - x
    <3>1. j \in Mask(c.bit, n) /\ j \in Bits /\ x + j = b
      <4>1. b \in Int /\ first <= b /\ b < first + n
        BY <2>23 DEF Run
      <4>2. j \in Int /\ x + j = b
        BY <2>22, <4>1
      <4> HIDE DEF j
      <4>3. c.bit <= j /\ j < c.bit + n
        BY <2>22, <2>23, <4>1, <4>2
      <4> QED BY <2>23, <4>2, <4>3 DEF Mask, Bits
    <3>2. FieldMap(a, c.field) = c.map
      BY <1>0, <1>4 DEF SameMap
    <3> HIDE DEF j
    <3>3. j \in c.map
      BY <3>1, <3>2 DEF FieldMap, x
    <3> QED BY <1>2, <3>1, <3>3
  <2>6. first + n <= a.blocks
    <3> DEFINE b == first + n - 1
    <3>1. b \in R
      BY <1>1, <2>2 DEF Run
    <3>2. b \in 0 .. y - 1 /\ b \notin a.inuse
      BY <2>4, <2>5, <3>1
    <3>3. ~(b >= a.blocks)
      <4>1. \A d \in 0 .. y - 1 : d >= a.blocks => d \in a.inuse
        BY <1>0, <1>1 DEF ArenaInv, BlockInv, Records, y
      <4> QED BY <3>2, <4>1
    <3>4. b \in Int /\ b + 1 = first + n
      BY <2>23
    <3> HIDE DEF b
    <3> QED BY <2>23, <3>3, <3>4
  <2>7. /\ q \in Record /\ \A f \in {"start", "pages", "blocks", "fields", "node"} : q[f] = a[f]
        /\ q.inuse = a.inuse \cup R /\ q.dirty = a.dirty /\ q.search_idx = a.search_idx
    <3>1. R \subseteq Nat
      BY <2>4
    <3> HIDE DEF R
    <3> QED BY <1>1, <3>1 DEF Record
  <2>8. r \in ArenaCall /\ r.pc = "search" /\ r.bit = first /\ r.req = c.req /\ r.todo = <<>>
        /\ r.i = c.i /\ r.a = k /\ r.field = c.field
    BY <1>0, <1>1, <2>2 DEF ArenaCall
  <2> HIDE DEF R, r, q
  <2>9. q.inuse \cup q.dirty \subseteq 0 .. q.fields * FieldBits - 1 /\ q.search_idx < q.fields
    <3>1. a.inuse \cup a.dirty \subseteq 0 .. a.fields * FieldBits - 1 /\ a.search_idx < a.fields
      BY <1>0, <1>1 DEF ArenaInv, BlockInv, Records
    <3>2. q.fields = a.fields
      BY <2>7
    <3> QED BY <2>4, <2>7, <3>1, <3>2 DEF y
  <2>10. /\ arena' \in Seq(Record) /\ SamePages /\ Records'
         /\ \A b \in 1 .. Len(arena) : /\ arena[b].inuse \subseteq arena'[b].inuse
                                       /\ arena'[b].blocks = arena[b].blocks
                                       /\ arena'[b].fields = arena[b].fields
    <3>1. ArenaType /\ Records /\ k \in 1 .. Len(arena) /\ a = arena[k]
      BY <1>0, <1>1 DEF ArenaInv, BlockInv
    <3>2. a.inuse \subseteq q.inuse /\ a.dirty \subseteq q.dirty
      BY <2>7
    <3> QED BY <2>1, <2>7, <2>9, <3>1, <3>2, BitsGrow
  <2>11. arena'[k] = q
    BY <1>1, <2>1, <2>7, OneArena DEF ArenaInv
  <2>12. /\ acall' \in [Thread -> ArenaCall] /\ acall'[t] = r
         /\ \A u \in Thread \ {t} : acall'[u] = acall[u]
    BY <2>1, <2>8, OneCall DEF ArenaInv
  <2>13. ReserveInv'
    BY <1>0, <1>1, <2>1, <2>8, <2>10, ReserveKeepsSearch DEF SearchLabel
  <2>14. ASSUME NEW u \in Thread PROVE Searches(u)'
    <3>1. CASE u = t
      <4>1. InSlot(c.i, k)'
        BY <1>1, <2>1 DEF InSlot
      <4>2. c.field < q.fields /\ first + n <= q.blocks /\ R \subseteq q.inuse
        BY <1>2, <2>6, <2>7
      <4> QED BY <1>0, <1>1, <2>8, <2>11, <2>12, <3>1, <4>1, <4>2 DEF Searches, SearchLabel, R
    <3>2. CASE u # t
      <4>1. Searches(u) /\ acall'[u] = acall[u]
        BY <2>12, <3>2 DEF ArenaInv, BlockInv
      <4>2. acall[u].pc \in {"search", "dirty"} =>
              Run(acall[u].bit, BlockCount(acall[u].req)) \subseteq arena'[acall[u].a].inuse
        <5> SUFFICES ASSUME acall[u].pc \in {"search", "dirty"}
                     PROVE  Run(acall[u].bit, BlockCount(acall[u].req)) \subseteq arena'[acall[u].a].inuse
          OBVIOUS
        <5>1. acall[u].a \in 1 .. Len(arena)
          BY SearchFacts DEF SearchLabel
        <5> QED BY <2>10, <4>1, <5>1 DEF Searches
      <4> QED BY <2>1, <2>10, <4>1, <4>2, SearchesKeep DEF ArenaInv
    <3> QED BY <3>1, <3>2
  <2>15. Memories'
    BY <2>1, <2>10, MemoriesKeep
  <2>16. Claims(t)' = {<<k, b>> : b \in R} /\ \A u \in Thread \ {t} : Claims(u)' = Claims(u)
    <3>1. Claims(t)' = {<<k, b>> : b \in R}
      BY <1>0, <2>8, <2>12 DEF Claims, R
    <3> QED BY <2>12, <3>1, ClaimsKeep
  <2>17. Claims(t) = {}
    BY <1>0, <1>1 DEF Claims
  <2>18. \A u \in Thread : u # t => Claims(t)' \cap Claims(u) = {}
    <3>1. \A u \in Thread : \A p \in Claims(u) : p[2] \in arena[p[1]].inuse
      BY ClaimsInUse
    <3> QED BY <1>0, <2>5, <2>16, <3>1
  <2>19. \A m \in ablocks : Claims(t)' \cap BlocksOf(m) = {}
    <3>1. \A m \in ablocks : \A p \in BlocksOf(m) : p[2] \in arena[p[1]].inuse
      BY DEF ArenaInv, BlockInv, Memories, BlocksOf
    <3> QED BY <1>0, <2>5, <2>16, <3>1
  <2>20. Apart'
    BY <2>1, <2>16, <2>18, <2>19 DEF ArenaInv, BlockInv, Apart, BlocksOf
  <2>21. ArenaType'
    <3>1. Len(arena') = Len(arena)
      BY <2>10 DEF SamePages
    <3> QED BY <2>1, <2>10, <2>12, <3>1 DEF ArenaInv, ArenaType
  <2> QED BY <2>10, <2>13, <2>14, <2>15, <2>20, <2>21 DEF ArenaInv, BlockInv
<1> QED BY <1>3, <1>4

\* The next search starts in the field of this one.
LEMMA SearchIdxStep ==
  ASSUME ArenaInv, NEW t \in Thread, SearchIdx(t)
  PROVE  ArenaInv'
<1> USE ArenaAssumption
<1>0. PICK c, k, a : c = acall[t] /\ k = c.a /\ a = arena[k]
  OBVIOUS
<1>1. /\ c.pc = "search" /\ c \in ArenaCall /\ c.todo = <<>>
      /\ InSlot(c.i, k) /\ k \in 1 .. Len(arena) /\ a \in Record /\ Searches(t) /\ c.field < a.fields
  <2>1. c.pc = "search"
    BY <1>0 DEF SearchIdx
  <2>2. /\ c \in ArenaCall /\ c.todo = <<>>
        /\ InSlot(c.i, k) /\ k \in 1 .. Len(arena) /\ a \in Record /\ Searches(t)
    BY <1>0, <2>1, SearchFacts DEF SearchLabel
  <2>3. c.field < a.fields
    BY <1>0, <2>1, <2>2 DEF Searches
  <2> QED BY <2>1, <2>2, <2>3
<1> DEFINE r == [c EXCEPT !.pc = "dirty"]
           q == [a EXCEPT !.search_idx = c.field]
<1>2. /\ arena' = [arena EXCEPT ![k] = q] /\ acall' = [acall EXCEPT ![t] = r]
      /\ UNCHANGED <<mi_huge_start, huge, lost, mi_arenas, mi_arena_count, ablocks, touched>>
  BY <1>0, <1>1 DEF SearchIdx, ArenaInv, ArenaType
<1>3. /\ q \in Record /\ \A f \in {"start", "pages", "blocks", "fields", "node"} : q[f] = a[f]
      /\ q.inuse = a.inuse /\ q.dirty = a.dirty /\ q.search_idx = c.field
  BY <1>1 DEF Record, ArenaCall
<1>4. /\ r \in ArenaCall /\ r.pc = "dirty" /\ r.bit = c.bit /\ r.req = c.req /\ r.todo = <<>>
      /\ r.i = c.i /\ r.a = k
  BY <1>0, <1>1, ZenonT(60) DEF ArenaCall
<1> HIDE DEF r, q
<1>5. q.inuse \cup q.dirty \subseteq 0 .. q.fields * FieldBits - 1 /\ q.search_idx < q.fields
  <2>1. a.inuse \cup a.dirty \subseteq 0 .. a.fields * FieldBits - 1
    BY <1>0, <1>1 DEF ArenaInv, BlockInv, Records
  <2>2. q.fields = a.fields
    BY <1>3
  <2> QED BY <1>1, <1>3, <2>1, <2>2
<1>6. /\ arena' \in Seq(Record) /\ SamePages /\ Records'
      /\ \A b \in 1 .. Len(arena) : /\ arena[b].inuse \subseteq arena'[b].inuse
                                    /\ arena'[b].blocks = arena[b].blocks
                                    /\ arena'[b].fields = arena[b].fields
  <2>1. ArenaType /\ Records /\ k \in 1 .. Len(arena) /\ a = arena[k]
    BY <1>0, <1>1 DEF ArenaInv, BlockInv
  <2>2. a.inuse \subseteq q.inuse /\ a.dirty \subseteq q.dirty
    BY <1>3
  <2> QED BY <1>2, <1>3, <1>5, <2>1, <2>2, BitsGrow
<1>7. /\ acall' \in [Thread -> ArenaCall] /\ acall'[t] = r
      /\ \A u \in Thread \ {t} : acall'[u] = acall[u]
  BY <1>2, <1>4, OneCall DEF ArenaInv
<1>8. ReserveInv'
  BY <1>0, <1>1, <1>2, <1>4, <1>6, ReserveKeepsSearch DEF SearchLabel
<1>9. ASSUME NEW u \in Thread PROVE Searches(u)'
  <2>1. Searches(u)
    BY DEF ArenaInv, BlockInv
  <2>2. acall[u].pc \in {"search", "dirty"} =>
          Run(acall[u].bit, BlockCount(acall[u].req)) \subseteq arena'[acall[u].a].inuse
    <3> SUFFICES ASSUME acall[u].pc \in {"search", "dirty"}
                 PROVE  Run(acall[u].bit, BlockCount(acall[u].req)) \subseteq arena'[acall[u].a].inuse
      OBVIOUS
    <3>1. acall[u].a \in 1 .. Len(arena)
      BY SearchFacts DEF SearchLabel
    <3> QED BY <1>6, <2>1, <3>1 DEF Searches
  <2>3. CASE u # t
    BY <1>2, <1>6, <1>7, <2>1, <2>2, <2>3, SearchesKeep DEF ArenaInv
  <2>4. CASE u = t
    <3>1. InSlot(c.i, k)' /\ arena'[k].blocks = a.blocks
      BY <1>0, <1>1, <1>2, <1>6 DEF InSlot
    <3>2. Run(c.bit, BlockCount(c.req)) \subseteq arena'[k].inuse /\ c.bit + BlockCount(c.req) <= a.blocks /\ c.req > 0
      BY <1>0, <1>1, <2>1, <2>2, <2>4 DEF Searches, SearchLabel
    <3> QED BY <1>4, <1>7, <2>4, <3>1, <3>2 DEF Searches, SearchLabel
  <2> QED BY <2>3, <2>4
<1>10. Memories'
  BY <1>2, <1>6, MemoriesKeep
<1>11. \A u \in Thread : Claims(u)' = Claims(u)
  <2>1. Claims(t)' = Claims(t)
    BY <1>0, <1>1, <1>4, <1>7 DEF Claims
  <2> QED BY <1>7, <2>1, ClaimsKeep
<1>12. Apart'
  BY <1>2, <1>11 DEF ArenaInv, BlockInv, Apart, BlocksOf
<1>13. ArenaType'
  <2>1. Len(arena') = Len(arena)
    BY <1>6 DEF SamePages
  <2> QED BY <1>2, <1>6, <1>7, <2>1 DEF ArenaInv, ArenaType
<1> QED BY <1>6, <1>8, <1>9, <1>10, <1>12, <1>13 DEF ArenaInv, BlockInv

\* The id of a memory has the slot of its arena, which fits in 8 bits, and its
\* first block.
LEMMA ArenaIdParts ==
  ASSUME NEW i \in 0 .. MaxArenas - 1, NEW block \in Nat
  PROVE  /\ ArenaId(i, block) \in Nat
         /\ SlotOf(ArenaId(i, block)) = i /\ BlockOf(ArenaId(i, block)) = block
<1>1. (i + 1) % 256 = i + 1 /\ i + 1 \in 1 .. 254
  BY ArenaAssumption
<1>2. ArenaId(i, block) = block * 256 + (i + 1)
  BY <1>1 DEF ArenaId
<1>3. (block * 256 + (i + 1)) % 256 = i + 1 /\ (block * 256 + (i + 1)) \div 256 = block
  BY <1>1
<1> QED BY <1>1, <1>2, <1>3 DEF SlotOf, BlockOf

\* The blocks become memory of the program.
LEMMA DirtyStep ==
  ASSUME ArenaInv, NEW t \in Thread, Dirty(t)
  PROVE  ArenaInv'
<1> USE ArenaAssumption
<1>0. PICK c, k, a, n : c = acall[t] /\ k = c.a /\ a = arena[k] /\ n = BlockCount(c.req)
  OBVIOUS
<1> DEFINE R == Run(c.bit, n)
           r == NoArenaCall
           q == [a EXCEPT !.dirty = a.dirty \cup R]
<1>18. PICK m : m = [memid |-> ArenaId(c.i, c.bit), a |-> k, req |-> c.req, is_zero |-> IsZero(c, R),
                     fresh |-> \A b \in R : <<k, b>> \notin touched]
  OBVIOUS
<1>1. /\ c.pc = "dirty" /\ c \in ArenaCall /\ c.todo = <<>> /\ c.req \in Nat \ {0} /\ n \in Nat \ {0}
      /\ InSlot(c.i, k) /\ k \in 1 .. Len(arena) /\ a \in Record
      /\ R \subseteq a.inuse /\ c.bit + n <= a.blocks /\ c.bit \in Nat
  <2>1. c.pc = "dirty"
    BY <1>0 DEF Dirty
  <2>2. /\ c \in ArenaCall /\ c.todo = <<>> /\ c.req \in Nat \ {0} /\ n \in Nat \ {0}
        /\ InSlot(c.i, k) /\ k \in 1 .. Len(arena) /\ a \in Record /\ Searches(t)
    BY <1>0, <2>1, SearchFacts DEF SearchLabel
  <2>3. R \subseteq a.inuse /\ c.bit + n <= a.blocks
    BY <1>0, <2>1, <2>2 DEF Searches
  <2>4. c.bit \in Nat
    BY <2>2 DEF ArenaCall
  <2> QED BY <2>1, <2>2, <2>3, <2>4
<1>2. /\ arena' = [arena EXCEPT ![k] = q] /\ acall' = [acall EXCEPT ![t] = r]
      /\ ablocks' = ablocks \cup {m} /\ touched' = touched \cup {<<k, b>> : b \in R}
      /\ UNCHANGED <<mi_huge_start, huge, lost, mi_arenas, mi_arena_count>>
  BY <1>0, <1>1, <1>18 DEF Dirty, ArenaInv, ArenaType
<1>3. /\ q \in Record /\ \A f \in {"start", "pages", "blocks", "fields", "node"} : q[f] = a[f]
      /\ q.inuse = a.inuse /\ q.dirty = a.dirty \cup R /\ q.search_idx = a.search_idx
  <2>1. R \subseteq Nat
    BY <1>1 DEF Run
  <2> HIDE DEF R
  <2> QED BY <1>1, <2>1 DEF Record
<1>4. ArenaId(c.i, c.bit) \in Nat /\ SlotOf(ArenaId(c.i, c.bit)) = c.i /\ BlockOf(ArenaId(c.i, c.bit)) = c.bit
  BY <1>1, ArenaIdParts DEF InSlot
<1>5. m.memid = ArenaId(c.i, c.bit) /\ m.a = k /\ m.req = c.req /\ BlocksOf(m) = {<<k, b>> : b \in R}
  BY <1>0, <1>4, <1>18 DEF BlocksOf
<1>6. m \in [memid : Nat, a : Nat, req : Nat \ {0}, is_zero : BOOLEAN, fresh : BOOLEAN]
  <2>1. IsZero(c, R) \in BOOLEAN /\ (\A b \in R : <<k, b>> \notin touched) \in BOOLEAN
    BY DEF IsZero
  <2>2. k \in Nat
    BY <1>1
  <2> QED BY <1>1, <1>4, <1>18, <2>1, <2>2
<1>7. m.is_zero => m.fresh
  <2> SUFFICES ASSUME IsZero(c, R), NEW b \in R, <<k, b>> \in touched PROVE FALSE
    BY <1>18
  <2>1. b \in a.dirty
    BY <1>0 DEF ArenaInv, BlockInv, Records
  <2> QED BY <1>0, <2>1 DEF IsZero
<1> HIDE DEF R, q
<1>8. q.inuse \cup q.dirty \subseteq 0 .. q.fields * FieldBits - 1 /\ q.search_idx < q.fields
  <2>1. a.inuse \cup a.dirty \subseteq 0 .. a.fields * FieldBits - 1 /\ a.search_idx < a.fields
    BY <1>0, <1>1 DEF ArenaInv, BlockInv, Records
  <2>2. q.fields = a.fields
    BY <1>3
  <2> QED BY <1>1, <1>3, <2>1, <2>2
<1>9. /\ arena' \in Seq(Record) /\ SamePages /\ Records'
      /\ \A b \in 1 .. Len(arena) : /\ arena[b].inuse \subseteq arena'[b].inuse
                                    /\ arena'[b].blocks = arena[b].blocks
                                    /\ arena'[b].fields = arena[b].fields
  <2>1. ArenaType /\ Records /\ k \in 1 .. Len(arena) /\ a = arena[k]
    BY <1>0, <1>1 DEF ArenaInv, BlockInv
  <2>2. a.inuse \subseteq q.inuse /\ a.dirty \subseteq q.dirty
    BY <1>3
  <2>3. \A p \in touched' : p \in touched \/ (p[1] = k /\ p[2] \in q.dirty)
    BY <1>2, <1>3
  <2>4. \A f \in {"start", "pages", "blocks", "fields", "node"} : q[f] = arena[k][f]
    BY <1>3, <2>1
  <2>5. arena[k].inuse \subseteq q.inuse /\ arena[k].dirty \subseteq q.dirty
    BY <2>1, <2>2
  <2> QED BY <1>2, <1>3, <1>8, <2>1, <2>3, <2>4, <2>5, BitsGrow, ZenonT(60)
<1>10. r \in ArenaCall /\ r.pc = "idle" /\ r.todo = <<>>
  BY NoCallTyped
<1> HIDE DEF r
<1>11. /\ acall' \in [Thread -> ArenaCall] /\ acall'[t] = r
       /\ \A u \in Thread \ {t} : acall'[u] = acall[u]
  BY <1>2, <1>10, OneCall DEF ArenaInv
<1>12. ReserveInv'
  BY <1>0, <1>1, <1>2, <1>9, <1>10, ReserveKeepsSearch DEF SearchLabel
<1>13. ASSUME NEW u \in Thread PROVE Searches(u)'
  <2>1. CASE u = t
    BY <1>10, <1>11, <2>1, NoSearch DEF SearchLabel
  <2>2. CASE u # t
    <3>1. Searches(u) /\ acall'[u] = acall[u]
      BY <1>11, <2>2 DEF ArenaInv, BlockInv
    <3>2. acall[u].pc \in {"search", "dirty"} =>
            Run(acall[u].bit, BlockCount(acall[u].req)) \subseteq arena'[acall[u].a].inuse
      <4> SUFFICES ASSUME acall[u].pc \in {"search", "dirty"}
                   PROVE  Run(acall[u].bit, BlockCount(acall[u].req)) \subseteq arena'[acall[u].a].inuse
        OBVIOUS
      <4>1. acall[u].a \in 1 .. Len(arena)
        BY SearchFacts DEF SearchLabel
      <4> QED BY <1>9, <3>1, <4>1 DEF Searches
    <3> QED BY <1>2, <1>9, <3>1, <3>2, SearchesKeep DEF ArenaInv
  <2> QED BY <2>1, <2>2
<1>14. Memories'
  <2>1. \A b \in 1 .. Len(arena) : arena[b].inuse \subseteq arena'[b].inuse /\ arena'[b].blocks = arena[b].blocks
    BY <1>9
  <2>2. ASSUME NEW x \in ablocks
        PROVE  /\ InSlot(SlotOf(x.memid), x.a)'
               /\ BlockOf(x.memid) + BlockCount(x.req) <= arena'[x.a].blocks
               /\ Run(BlockOf(x.memid), BlockCount(x.req)) \subseteq arena'[x.a].inuse
               /\ x.is_zero => x.fresh
    <3>1. /\ InSlot(SlotOf(x.memid), x.a)
          /\ BlockOf(x.memid) + BlockCount(x.req) <= arena[x.a].blocks
          /\ Run(BlockOf(x.memid), BlockCount(x.req)) \subseteq arena[x.a].inuse
          /\ x.is_zero => x.fresh
      BY DEF ArenaInv, BlockInv, Memories
    <3>2. x.a \in 1 .. Len(arena) /\ InSlot(SlotOf(x.memid), x.a)'
      BY <1>2, <3>1, SlotArena DEF ArenaInv, InSlot
    <3> QED BY <2>1, <3>1, <3>2
  <2>3. /\ InSlot(SlotOf(m.memid), m.a)'
        /\ BlockOf(m.memid) + BlockCount(m.req) <= arena'[m.a].blocks
        /\ Run(BlockOf(m.memid), BlockCount(m.req)) \subseteq arena'[m.a].inuse
    <3>1. InSlot(c.i, k)'
      BY <1>1, <1>2 DEF InSlot
    <3>2. a.inuse \subseteq arena'[k].inuse /\ arena'[k].blocks = a.blocks
      BY <1>0, <1>1, <1>9
    <3> QED BY <1>0, <1>1, <1>4, <1>5, <3>1, <3>2 DEF R
  <2> QED BY <1>2, <1>7, <2>2, <2>3 DEF Memories
<1>15. Claims(t)' = {} /\ Claims(t) = BlocksOf(m) /\ \A u \in Thread \ {t} : Claims(u)' = Claims(u)
  <2>1. Claims(t)' = {}
    BY <1>10, <1>11 DEF Claims
  <2>2. Claims(t) = BlocksOf(m)
    BY <1>0, <1>1, <1>5 DEF Claims, R
  <2> QED BY <1>11, <2>1, <2>2, ClaimsKeep
<1>16. Apart'
  <2>1. \A u \in Thread : Claims(u)' = {} \/ (u # t /\ Claims(u)' = Claims(u))
    BY <1>15
  <2>2. \A x \in ablocks : BlocksOf(m) \cap BlocksOf(x) = {}
    BY <1>15 DEF ArenaInv, BlockInv, Apart
  <2>3. \A x, y \in ablocks' : x # y => BlocksOf(x) \cap BlocksOf(y) = {}
    BY <1>2, <2>2 DEF ArenaInv, BlockInv, Apart
  <2>4. \A u \in Thread : \A x \in ablocks' : Claims(u)' \cap BlocksOf(x) = {}
    BY <1>2, <1>15, <2>1 DEF ArenaInv, BlockInv, Apart
  <2>5. \A u, v \in Thread : u # v => Claims(u)' \cap Claims(v)' = {}
    BY <2>1 DEF ArenaInv, BlockInv, Apart
  <2> QED BY <2>3, <2>4, <2>5 DEF Apart, BlocksOf
<1>17. ArenaType'
  <2>1. Len(arena') = Len(arena)
    BY <1>9 DEF SamePages
  <2>2. touched' \subseteq Nat \X Nat
    <3>1. \A b \in R : b \in Nat /\ k \in Nat
      BY <1>1 DEF Record
    <3> QED BY <1>2, <3>1 DEF ArenaInv, ArenaType
  <2> QED BY <1>2, <1>6, <1>9, <1>11, <2>1, <2>2 DEF ArenaInv, ArenaType
<1> QED BY <1>9, <1>12, <1>13, <1>14, <1>16, <1>17 DEF ArenaInv, BlockInv

\* Memory goes back to its arena: the blocks of others stay in use.
LEMMA FreeStep ==
  ASSUME ArenaInv, NEW m \in ablocks, Free(m)
  PROVE  ArenaInv'
<1> USE ArenaAssumption
<1>0. PICK k, a, first, n : k = m.a /\ a = arena[k] /\ first = BlockOf(m.memid) /\ n = BlockCount(m.req)
  OBVIOUS
<1> DEFINE R == Run(first, n)
           q == [a EXCEPT !.inuse = a.inuse \ R]
<1>1. /\ mi_arenas[SlotOf(m.memid) + 1] = k /\ k \in 1 .. Len(arena) /\ a \in Record
      /\ first + n <= a.blocks /\ first \in Nat /\ n \in Nat /\ R \subseteq a.inuse
  <2>1. InSlot(SlotOf(m.memid), k) /\ first + n <= a.blocks /\ R \subseteq a.inuse
    BY <1>0 DEF ArenaInv, BlockInv, Memories
  <2>2. k \in 1 .. Len(arena)
    BY <2>1, SlotArena DEF ArenaInv
  <2>3. a \in Record
    BY <1>0, <2>2, ArenaRecord DEF ArenaInv
  <2>4. m.memid \in Nat /\ m.req \in Nat \ {0}
    BY DEF ArenaInv, ArenaType
  <2>5. first \in Nat
    BY <1>0, <2>4 DEF BlockOf
  <2>6. n \in Nat
    BY <1>0, <2>4, BlockCounts
  <2> QED BY <2>1, <2>2, <2>3, <2>5, <2>6 DEF InSlot
<1>2. /\ arena' = [arena EXCEPT ![k] = q] /\ ablocks' = ablocks \ {m}
      /\ UNCHANGED <<mi_huge_start, huge, lost, mi_arenas, mi_arena_count, acall, touched>>
  BY <1>0, <1>1 DEF Free, ArenaInv, ArenaType
<1>3. /\ q \in Record /\ q.start = a.start /\ q.pages = a.pages /\ q.blocks = a.blocks /\ q.fields = a.fields
      /\ q.inuse = a.inuse \ R /\ q.dirty = a.dirty /\ q.search_idx = a.search_idx
  BY <1>1 DEF Record
<1>4. \A b \in R : b < a.blocks
  <2>1. a.blocks \in Nat
    BY <1>1 DEF Record
  <2> QED BY <1>1, <2>1 DEF Run
<1> HIDE DEF R, q
<1>5. /\ arena' \in Seq(Record) /\ Len(arena') = Len(arena) /\ arena'[k] = q
      /\ \A b \in 1 .. Len(arena) : b # k => arena'[b] = arena[b]
  BY <1>1, <1>2, <1>3, OneArena DEF ArenaInv
<1>6. SamePages
  BY <1>0, <1>3, <1>5 DEF SamePages
<1>7. ReserveInv'
  BY <1>2, <1>6, ReserveKeeps DEF ArenaInv
<1>8. Records'
  <2>1. ASSUME NEW d \in 1 .. Len(arena')
        PROVE  /\ \A b \in 0 .. arena'[d].fields * FieldBits - 1 : b >= arena'[d].blocks => b \in arena'[d].inuse
               /\ arena'[d].search_idx < arena'[d].fields
               /\ arena'[d].inuse \cup arena'[d].dirty \subseteq 0 .. arena'[d].fields * FieldBits - 1
    <3>1. CASE d = k
      <4> DEFINE y == a.fields * FieldBits
      <4>1. /\ \A b \in 0 .. y - 1 : b >= a.blocks => b \in a.inuse
            /\ a.search_idx < a.fields /\ a.inuse \cup a.dirty \subseteq 0 .. y - 1
        BY <1>0, <1>1 DEF ArenaInv, BlockInv, Records
      <4>2. arena'[d].fields * FieldBits = y
        BY <1>3, <1>5, <3>1
      <4> HIDE DEF y
      <4>3. \A b \in 0 .. y - 1 : b >= a.blocks => b \in q.inuse
        <5> SUFFICES ASSUME NEW b \in 0 .. y - 1, b >= a.blocks PROVE b \in q.inuse
          OBVIOUS
        <5>1. a.blocks \in Nat /\ b \in Int
          BY <1>1 DEF Record
        <5>2. b \notin R
          BY <1>4, <5>1
        <5> QED BY <1>3, <4>1, <5>2
      <4> QED BY <1>3, <1>5, <3>1, <4>1, <4>2, <4>3
    <3>2. CASE d # k
      BY <1>5, <3>2 DEF ArenaInv, BlockInv, Records
    <3> QED BY <3>1, <3>2
  <2>2. \A p \in touched' : p[1] \in 1 .. Len(arena') /\ p[2] \in arena'[p[1]].dirty
    BY <1>0, <1>2, <1>3, <1>5 DEF ArenaInv, BlockInv, Records
  <2> QED BY <2>1, <2>2 DEF Records
<1>9. \A b \in 1 .. Len(arena) : arena'[b].blocks = arena[b].blocks /\ arena'[b].fields = arena[b].fields
  BY <1>0, <1>3, <1>5
<1>10. BlocksOf(m) = {<<k, b>> : b \in R}
  BY <1>0 DEF BlocksOf, R
<1>11. ASSUME NEW u \in Thread PROVE Searches(u)'
  <2>1. Searches(u) /\ acall'[u] = acall[u]
    BY <1>2 DEF ArenaInv, BlockInv
  <2>2. ASSUME acall[u].pc \in {"search", "dirty"}
        PROVE  Run(acall[u].bit, BlockCount(acall[u].req)) \subseteq arena'[acall[u].a].inuse
    <3> DEFINE U == Run(acall[u].bit, BlockCount(acall[u].req))
    <3>1. acall[u].a \in 1 .. Len(arena) /\ U \subseteq arena[acall[u].a].inuse
      BY <2>1, <2>2, SearchFacts DEF SearchLabel, Searches
    <3>2. Claims(u) = {<<acall[u].a, b>> : b \in U}
      BY <2>2 DEF Claims
    <3>3. Claims(u) \cap BlocksOf(m) = {}
      BY DEF ArenaInv, BlockInv, Apart
    <3> HIDE DEF U
    <3>4. acall[u].a = k => U \cap R = {}
      <4> SUFFICES ASSUME acall[u].a = k, NEW b \in U, b \in R PROVE FALSE
        OBVIOUS
      <4>1. <<k, b>> \in Claims(u) /\ <<k, b>> \in BlocksOf(m)
        BY <1>10, <3>2
      <4> QED BY <3>3, <4>1
    <3>5. U \subseteq arena'[acall[u].a].inuse
      BY <1>0, <1>3, <1>5, <3>1, <3>4
    <3> QED BY <3>5 DEF U
  <2> QED BY <1>2, <1>9, <2>1, <2>2, SearchesKeep DEF ArenaInv
<1>12. Memories'
  <2>1. ASSUME NEW x \in ablocks, x # m
        PROVE  /\ InSlot(SlotOf(x.memid), x.a)'
               /\ BlockOf(x.memid) + BlockCount(x.req) <= arena'[x.a].blocks
               /\ Run(BlockOf(x.memid), BlockCount(x.req)) \subseteq arena'[x.a].inuse
               /\ x.is_zero => x.fresh
    <3> DEFINE U == Run(BlockOf(x.memid), BlockCount(x.req))
    <3>1. /\ InSlot(SlotOf(x.memid), x.a)
          /\ BlockOf(x.memid) + BlockCount(x.req) <= arena[x.a].blocks
          /\ U \subseteq arena[x.a].inuse
          /\ x.is_zero => x.fresh
      BY DEF ArenaInv, BlockInv, Memories
    <3>2. x.a \in 1 .. Len(arena) /\ InSlot(SlotOf(x.memid), x.a)'
      BY <1>2, <3>1, SlotArena DEF ArenaInv, InSlot
    <3>3. BlocksOf(x) = {<<x.a, b>> : b \in U}
      BY DEF BlocksOf
    <3>4. BlocksOf(x) \cap BlocksOf(m) = {}
      BY <2>1 DEF ArenaInv, BlockInv, Apart
    <3> HIDE DEF U
    <3>5. x.a = k => U \cap R = {}
      <4> SUFFICES ASSUME x.a = k, NEW b \in U, b \in R PROVE FALSE
        OBVIOUS
      <4>1. <<k, b>> \in BlocksOf(x) /\ <<k, b>> \in BlocksOf(m)
        BY <1>10, <3>3
      <4> QED BY <3>4, <4>1
    <3>6. U \subseteq arena'[x.a].inuse
      BY <1>0, <1>3, <1>5, <3>1, <3>2, <3>5
    <3> QED BY <1>9, <3>1, <3>2, <3>6 DEF U
  <2> QED BY <1>2, <2>1 DEF Memories
<1>13. \A u \in Thread : Claims(u)' = Claims(u)
  BY <1>2 DEF Claims
<1>14. Apart'
  BY <1>2, <1>13 DEF ArenaInv, BlockInv, Apart, BlocksOf
<1>15. ArenaType'
  BY <1>2, <1>5 DEF ArenaInv, ArenaType
<1> QED BY <1>7, <1>8, <1>11, <1>12, <1>14, <1>15 DEF ArenaInv, BlockInv

-----------------------------------------------------------------------------
(* The invariant holds *)

\* There is no arena, no call and no memory at the start.
LEMMA InitInv == Init => Inv
<1> USE ArenaAssumption, ThreadAssumption
<1> SUFFICES ASSUME Init PROVE Inv
  OBVIOUS
<1>1. /\ mi_huge_start = 0 /\ huge = {} /\ lost = {} /\ mi_arena_count = 0 /\ arena = <<>>
      /\ mi_arenas = [i \in 1 .. MaxArenas |-> NULL] /\ acall = [t \in Thread |-> NoArenaCall]
      /\ ablocks = {} /\ touched = {}
  BY DEF Init
<1>2. \A t \in Thread : acall[t] = NoArenaCall /\ acall[t].pc = "idle" /\ acall[t].todo = <<>>
  BY <1>1, NoCallTyped
<1>3. option \in Options /\ OsInv
  BY OptionFits, OsInitInv DEF Init
<1>4. Len(arena) = 0 /\ arena \in Seq(Record)
  BY <1>1, EmptySeq
<1>5. ArenaType
  <2>1. Cardinality(Thread) \in Nat
    BY FS_CardinalityType
  <2>2. mi_arenas \in [1 .. MaxArenas -> 0 .. Len(arena)]
    BY <1>1, <1>4 DEF NULL
  <2>3. acall \in [Thread -> ArenaCall]
    BY <1>1, NoCallTyped
  <2> QED BY <1>1, <1>4, <2>1, <2>2, <2>3 DEF ArenaType
<1>6. \A t \in Thread : Reserves(t)
  BY <1>2 DEF Reserves, ReserveLabel, ClaimedLabel
<1>7. CountExact
  <2>1. Undoing = {}
    BY <1>2 DEF Undoing
  <2> QED BY <1>1, <2>1, FS_EmptySet DEF CountExact
<1>8. Slots
  BY <1>1, <1>2 DEF Slots
<1>9. \A t \in Thread : Address(t) = {} /\ Held(t) = {} /\ Claims(t) = {}
  BY <1>2 DEF Address, Held, Claims, ClaimedLabel
<1>10. Ranges
  BY <1>1, <1>4, <1>9 DEF Ranges
<1>11. HugeOwned /\ OnceOwned /\ \A t \in Thread : Counted(t)
  <2>1. Filled = {}
    BY <1>1 DEF Filled
  <2> QED BY <1>1, <1>9, <2>1 DEF HugeOwned, OnceOwned, Counted
<1>12. Records
  BY <1>1, <1>4 DEF Records
<1>13. \A t \in Thread : Searches(t)
  BY <1>2 DEF Searches, SearchLabel
<1>14. Memories /\ Apart
  BY <1>1, <1>9 DEF Memories, Apart
<1> QED BY <1>3, <1>5, <1>6, <1>7, <1>8, <1>10, <1>11, <1>12, <1>13, <1>14 DEF Inv, ArenaInv, ReserveInv, BlockInv

\* A step of a thread in an arena.
LEMMA ArenaStepInv ==
  ASSUME Inv, NEW t \in option.threads, ArenaStep(t)
  PROVE  Inv'
<1>0. t \in Thread /\ option \in Options /\ OsInv /\ ArenaInv
  BY OptionFits DEF Inv
<1>1. CASE Look(t)
  <2>1. OsInv' /\ ArenaInv'
    BY <1>0, <1>1, LookStep
  <2>2. UNCHANGED option
    BY <1>1 DEF Look
  <2> QED BY <1>0, <2>1, <2>2 DEF Inv
<1>2. CASE Claim(t) \/ Swap(t) \/ HugePage(t) \/ Build(t) \/ Add(t) \/ Undo(t) \/ Slot(t)
  <2>1. UNCHANGED osvars
    BY <1>2 DEF Claim, Swap, HugePage, Build, Add, Undo, Slot
  <2>2. ArenaInv'
    BY <1>0, <1>2, ClaimStep, SwapStep, HugePageStep, BuildStep, AddStep, UndoStep, SlotStep
  <2> QED BY <1>0, <2>1, <2>2, OsQuiet DEF Inv, osvars
<1>3. CASE ReadField(t) \/ ClaimBits(t) \/ SearchIdx(t) \/ Dirty(t)
  <2>1. UNCHANGED osvars
    BY <1>3 DEF ReadField, ClaimBits, SearchIdx, Dirty
  <2>2. ArenaInv'
    BY <1>0, <1>3, ReadStep, ClaimBitsStep, SearchIdxStep, DirtyStep
  <2> QED BY <1>0, <2>1, <2>2, OsQuiet DEF Inv, osvars
<1> QED BY <1>1, <1>2, <1>3 DEF ArenaStep

\* Every step keeps the invariant.
LEMMA NextInv == Inv /\ [Next]_vars => Inv'
<1> SUFFICES ASSUME Inv, [Next]_vars PROVE Inv'
  OBVIOUS
<1>0. /\ option \in Options /\ OsInv /\ ArenaInv /\ OptionOK /\ option.threads \subseteq Thread
      /\ option.requests \subseteq Request /\ option.reserve \subseteq Reservation
  BY OptionFits DEF Inv
<1>1. ASSUME NEW t \in option.threads, NEW r \in option.requests,
             Alloc(t, r.req, r.align, r.commit, r.large, r.node)
      PROVE  Inv'
  <2>1. /\ r.req \in Nat \ {0} /\ r.align \in Nat \ {0} /\ r.commit \in BOOLEAN /\ r.large \in BOOLEAN
        /\ r.node \in Nat
    BY <1>0 DEF Request
  <2>2. OsInv' /\ ArenaInv'
    BY <1>0, <1>1, <2>1, AllocStep
  <2>3. UNCHANGED option
    BY <1>1 DEF Alloc
  <2> QED BY <1>0, <2>2, <2>3 DEF Inv
<1>2. ASSUME NEW t \in option.threads, NEW r \in option.reserve,
             IF r.nodes = 0 THEN ReserveAt(t, r.pages, r.node, r.timed)
                              ELSE Interleave(t, r.pages, r.nodes, r.timed)
      PROVE  Inv'
  <2>1. r.pages \in Nat /\ r.node \in Int /\ r.nodes \in Nat /\ r.timed \in BOOLEAN
    BY <1>0 DEF Reservation
  <2>2. ArenaInv'
    BY <1>0, <1>2, <2>1, ReserveStart
  <2>3. UNCHANGED osvars
    BY <1>2 DEF ReserveAt, Interleave
  <2> QED BY <1>0, <2>2, <2>3, OsQuiet DEF Inv, osvars
<1>3. ASSUME NEW t \in option.threads, ArenaStep(t) PROVE Inv'
  BY <1>3, ArenaStepInv
<1>4. ASSUME NEW t \in option.threads, OsStep(t), UNCHANGED avars PROVE Inv'
  <2>1. OsInv'
    BY <1>0, <1>4, OsStepInv, Z3
  <2>2. UNCHANGED option
    BY <1>4, Zenon DEF OsStep, Start, Less, Hint, Wrap, Map, Again, Unmap, Pre, Post, Done, Mapped
  <2> QED BY <1>0, <1>4, <2>1, <2>2, ArenaQuiet DEF Inv
<1>5. ASSUME OsUse, UNCHANGED avars PROVE Inv'
  <2>1. OsInv'
    BY <1>0, <1>5, OsUseInv
  <2>2. UNCHANGED option
    BY <1>5 DEF OsUse, OsFree, Commit, Decommit, Hide, Show
  <2> QED BY <1>0, <1>5, <2>1, <2>2, ArenaQuiet DEF Inv
<1>6. ASSUME NEW m \in ablocks, Free(m) PROVE Inv'
  <2>1. ArenaInv' /\ UNCHANGED osvars
    BY <1>0, <1>6, FreeStep DEF Free
  <2> QED BY <1>0, <2>1, OsQuiet DEF Inv, osvars
<1>7. ASSUME UNCHANGED vars PROVE Inv'
  BY <1>0, <1>7, ArenaQuiet, OsQuiet DEF Inv, vars, osvars
<1> QED BY <1>1, <1>2, <1>3, <1>4, <1>5, <1>6, <1>7 DEF Next

\* The invariant has the types.
LEMMA InvTypes == Inv => ArenaTypeOK
<1> SUFFICES ASSUME Inv PROVE ArenaTypeOK
  OBVIOUS
<1>1. option \in Options /\ OsTypeOK /\ ArenaType /\ Records
  BY DEF Inv, OsInv, ArenaInv, BlockInv
<1>2. \A a \in 1 .. Len(arena) :
        arena[a].search_idx \in 0 .. arena[a].fields - 1
          /\ arena[a].inuse \cup arena[a].dirty \subseteq 0 .. arena[a].fields * FieldBits - 1
  <2> SUFFICES ASSUME NEW a \in 1 .. Len(arena)
               PROVE  arena[a].search_idx \in 0 .. arena[a].fields - 1
      BY <1>1 DEF Records
  <2>1. arena[a] \in Record /\ arena[a].search_idx < arena[a].fields
    BY <1>1, ArenaRecord DEF Records
  <2> QED BY <2>1 DEF Record
<1> QED BY <1>1, <1>2 DEF ArenaTypeOK, ArenaType

\* The ranges are apart.
LEMMA InvDisjoint == Inv => HugeDisjoint
<1> SUFFICES ASSUME Inv PROVE HugeDisjoint
  OBVIOUS
<1>1. Ranges /\ Len(arena) \in Nat
  BY LenProperties DEF Inv, ArenaInv, ArenaType, ReserveInv
<1> DEFINE range(t) == IF acall[t].pc \in {"page", "build"} THEN Run(acall[t].start, acall[t].todo[1].pages) ELSE {}
           pages(a) == Run(arena[a].start, arena[a].pages)
<1>2. \A t \in Thread : range(t) = Address(t)
  BY DEF Address
<1>3. \A a \in 1 .. Len(arena) : pages(a) = ArenaPages(a)
  BY DEF ArenaPages
<1> HIDE DEF range, pages
<1>4. \A t \in Thread, u \in Thread : t # u => range(t) \cap range(u) = {}
  BY <1>1, <1>2 DEF Ranges
<1>5. \A a \in 1 .. Len(arena) : \A t \in Thread : range(t) \cap pages(a) = {}
  BY <1>1, <1>2, <1>3 DEF Ranges
<1>6. \A a \in 1 .. Len(arena) : \A b \in 1 .. a - 1 : pages(a) \cap pages(b) = {}
  <2> SUFFICES ASSUME NEW a \in 1 .. Len(arena), NEW b \in 1 .. a - 1 PROVE pages(a) \cap pages(b) = {}
    OBVIOUS
  <2>1. b \in 1 .. Len(arena) /\ a # b
    BY <1>1
  <2> QED BY <1>1, <1>3, <2>1 DEF Ranges
<1> QED BY <1>4, <1>5, <1>6 DEF HugeDisjoint, range, pages

\* When no reservation is under way no thread has a slot to fill or to give back,
\* and none holds a huge page.
LEMMA NoneReserves ==
  ASSUME Inv, \A t \in Thread : acall[t].todo = <<>>
  PROVE  Undoing = {} /\ \A t \in Thread : acall[t].pc # "slot" /\ Held(t) = {}
<1>1. \A t \in Thread : acall[t].pc \notin ReserveLabel
  BY DEF Inv, ArenaInv, ReserveInv, Reserves
<1> QED BY <1>1 DEF Undoing, Held, ReserveLabel, ClaimedLabel

\* When no reservation is under way the slots are filled, each by its own arena:
\* arenas have pages, and slots have none in common.
LEMMA InvSlots == Inv => SlotsFilled
<1> USE ArenaAssumption
<1> SUFFICES ASSUME Inv, \A t \in Thread : acall[t].todo = <<>>
             PROVE  /\ mi_arena_count <= MaxArenas
                    /\ \A i \in 1 .. MaxArenas : mi_arenas[i] # NULL <=> i <= mi_arena_count
                    /\ \A i, j \in 1 .. mi_arena_count : i # j => mi_arenas[i] # mi_arenas[j]
  BY DEF SlotsFilled
<1>1. ArenaType /\ CountExact /\ Slots /\ OnceOwned
  BY DEF Inv, ArenaInv, ReserveInv
<1>2. Undoing = {} /\ \A t \in Thread : acall[t].pc # "slot"
  BY NoneReserves
<1>3. mi_arena_count <= MaxArenas
  <2>1. Cardinality(Undoing) = 0
    BY <1>2, FS_EmptySet
  <2> QED BY <1>1, <1>2, <2>1 DEF CountExact
<1>4. \A i \in 1 .. MaxArenas : mi_arenas[i] # NULL <=> i <= mi_arena_count
  BY <1>1, <1>2 DEF Slots
<1>5. ASSUME NEW i \in 1 .. mi_arena_count, NEW j \in 1 .. mi_arena_count, i # j
      PROVE  mi_arenas[i] # mi_arenas[j]
  <2>1. i \in Filled /\ j \in Filled
    <3>1. mi_arena_count \in Int
      BY <1>1 DEF ArenaType
    <3>2. i \in 1 .. MaxArenas /\ j \in 1 .. MaxArenas /\ i <= mi_arena_count /\ j <= mi_arena_count
      BY <1>3, <3>1
    <3> QED BY <1>4, <3>2 DEF Filled
  <2>2. SlotPages(i) \cap SlotPages(j) = {}
    BY <1>1, <1>5, <2>1 DEF OnceOwned
  <2>3. mi_arenas[i] \in 1 .. Len(arena)
    BY <1>1, <2>1 DEF ArenaType, Filled, NULL
  <2>4. arena[mi_arenas[i]].start \in Nat \ {0} /\ arena[mi_arenas[i]].pages \in Nat \ {0}
    <3>1. arena[mi_arenas[i]] \in Record
      BY <1>1, <2>3, ArenaRecord
    <3> QED BY <3>1 DEF Record
  <2>5. arena[mi_arenas[i]].start \in SlotPages(i)
    BY <2>4 DEF SlotPages, ArenaPages, Run
  <2> QED BY <2>2, <2>5 DEF SlotPages
<1> QED BY <1>3, <1>4, <1>5

\* What is mapped was counted, given up, or is in the arena of a slot.
LEMMA InvCounted == Inv => HugeCounted
<1> SUFFICES ASSUME Inv PROVE HugeCounted
  OBVIOUS
<1>1. ArenaInv /\ HugeOwned /\ OnceOwned /\ \A t \in Thread : Counted(t)
  BY DEF Inv, ArenaInv, ReserveInv
<1>2. ASSUME NEW t \in Thread, acall[t].pc = "build"
      PROVE  /\ Run(acall[t].start, acall[t].page) \subseteq huge
             /\ \A x \in huge \cap Run(acall[t].start, acall[t].todo[1].pages) :
                  \/ x \in Run(acall[t].start, acall[t].page)
                  \/ acall[t].todo[1].timed /\ x = acall[t].start + acall[t].page
  <2>1. Held(t) = Run(acall[t].start, acall[t].page) /\ Address(t) = Run(acall[t].start, acall[t].todo[1].pages)
    BY <1>2 DEF Held, Address, ClaimedLabel
  <2>2. Held(t) \subseteq huge
    BY <1>1, HeldApart
  <2> QED BY <1>1, <2>1, <2>2 DEF Counted
<1>3. ASSUME \A t \in Thread : acall[t].todo = <<>>
      PROVE  huge \ lost = UNION {SlotPages(i) : i \in Filled}
  <2>1. UNION {Held(t) : t \in Thread} = {}
    BY <1>3, NoneReserves
  <2>2. huge = lost \cup UNION {SlotPages(i) : i \in Filled}
    BY <1>1, <2>1 DEF HugeOwned
  <2>3. lost \cap UNION {SlotPages(i) : i \in Filled} = {}
    BY <1>1 DEF OnceOwned
  <2> QED BY <2>2, <2>3
<1>4. UNION {SlotPages(i) : i \in Filled}
        = UNION {Run(arena[mi_arenas[i]].start, arena[mi_arenas[i]].pages) :
                   i \in {j \in 1 .. MaxArenas : mi_arenas[j] # NULL}}
  BY DEF SlotPages, ArenaPages, Filled
<1> QED BY <1>2, <1>3, <1>4 DEF HugeCounted

\* Memory in an arena has its blocks alone, in pages that are mapped.
LEMMA InvBlocks == Inv => ArenaBlocks
<1> SUFFICES ASSUME Inv, NEW m \in ablocks
             PROVE  /\ mi_arenas[SlotOf(m.memid) + 1] = m.a
                    /\ BlocksOf(m) \subseteq {<<m.a, b>> : b \in 0 .. arena[m.a].blocks - 1}
                    /\ Run(arena[m.a].start, arena[m.a].pages) \subseteq huge
                    /\ Run(BlockOf(m.memid), BlockCount(m.req)) \subseteq arena[m.a].inuse
                    /\ \A n \in ablocks \ {m} : BlocksOf(m) \cap BlocksOf(n) = {}
                    /\ m.is_zero => m.fresh
  BY DEF ArenaBlocks
<1>1. ArenaType /\ HugeOwned /\ Memories /\ Apart
  BY DEF Inv, ArenaInv, ReserveInv, BlockInv
<1>2. /\ InSlot(SlotOf(m.memid), m.a)
      /\ BlockOf(m.memid) + BlockCount(m.req) <= arena[m.a].blocks
      /\ Run(BlockOf(m.memid), BlockCount(m.req)) \subseteq arena[m.a].inuse
      /\ m.is_zero => m.fresh
  BY <1>1 DEF Memories
<1>3. \A n \in ablocks \ {m} : BlocksOf(m) \cap BlocksOf(n) = {}
  BY <1>1 DEF Apart
<1>4. BlocksOf(m) \subseteq {<<m.a, b>> : b \in 0 .. arena[m.a].blocks - 1}
  <2>1. m.memid \in Nat /\ m.req \in Nat \ {0}
    BY <1>1 DEF ArenaType
  <2>2. BlockOf(m.memid) \in Nat
    BY <2>1 DEF BlockOf
  <2>3. BlockCount(m.req) \in Nat
    BY <2>1, BlockCounts
  <2>4. arena[m.a].blocks \in Nat
    <3>1. m.a \in 1 .. Len(arena)
      BY <1>1, <1>2, SlotArena
    <3> QED BY <1>1, <3>1, ArenaRecord DEF Record
  <2>5. Run(BlockOf(m.memid), BlockCount(m.req)) \subseteq 0 .. arena[m.a].blocks - 1
    BY <1>2, <2>2, <2>3, <2>4 DEF Run
  <2> QED BY <2>5 DEF BlocksOf
<1>5. Run(arena[m.a].start, arena[m.a].pages) \subseteq huge
  <2>1. SlotOf(m.memid) + 1 \in Filled /\ mi_arenas[SlotOf(m.memid) + 1] = m.a
    BY <1>1, <1>2, SlotArena DEF InSlot, Filled
  <2>2. SlotPages(SlotOf(m.memid) + 1) \subseteq huge
    BY <1>1, <2>1 DEF HugeOwned
  <2> QED BY <2>1, <2>2 DEF SlotPages, ArenaPages
<1> QED BY <1>2, <1>3, <1>4, <1>5 DEF InSlot

-----------------------------------------------------------------------------
(* The theorems *)

\* Every state has the invariant: what calls know of the ranges, slots and bits
\* they work on, whose the huge pages and the pages from mmap are.
THEOREM ArenaInvariant == Spec => []Inv
<1>1. Init => Inv
  BY InitInv
<1>2. Inv /\ [Next]_vars => Inv'
  BY NextInv
<1> QED BY <1>1, <1>2, PTL DEF Spec

\* Every variable has its type: the search index and the bits of an arena stay
\* within its fields, the count within what threads may add (arena.c:255-267).
THEOREM ArenaTypes == Spec => []ArenaTypeOK
<1>1. Inv => ArenaTypeOK
  BY InvTypes
<1> QED BY <1>1, ArenaInvariant, PTL

\* Memory in an arena has its blocks alone, in huge pages that are mapped, is
\* found with its id, and was never written to when it is said to be zero
\* (arena.c:105-134, 289-315).
THEOREM ArenaBlocksAlone == Spec => []ArenaBlocks
<1>1. Inv => ArenaBlocks
  BY InvBlocks
<1> QED BY <1>1, ArenaInvariant, PTL

\* The address ranges of reservations and of arenas never overlap (os.c:992-1015).
THEOREM HugeRangesDisjoint == Spec => []HugeDisjoint
<1>1. Inv => HugeDisjoint
  BY InvDisjoint
<1> QED BY <1>1, ArenaInvariant, PTL

\* The loops over the arenas see every one: when no reservation is under way the
\* slots below the count are those in use, each by an arena of its own
\* (arena.c:255-267).
THEOREM ArenaSlotsFilled == Spec => []SlotsFilled
<1>1. Inv => SlotsFilled
  BY InvSlots
<1> QED BY <1>1, ArenaInvariant, PTL

\* However the loop over huge pages ends, an arena is made of pages that are mapped,
\* and those of its range that are mapped are in it but for the one before a
\* timeout; no huge page is in two arenas, or in an arena and given up
\* (os.c:1037-1074, arena.c:283-312).
THEOREM ArenaHugeCounted == Spec => []HugeCounted
<1>1. Inv => HugeCounted
  BY InvCounted
<1> QED BY <1>1, ArenaInvariant, PTL

\* What is mapped and is not in an arena is an allocation's, a call's that is under
\* way, or was leaked by a munmap that failed (os.c:182-210, 583-623).
THEOREM OsAllocsMapped == Spec => []AllocsMapped
<1>1. Inv => AllocsMapped
  BY OsInvMapped DEF Inv
<1> QED BY <1>1, ArenaInvariant, PTL

\* Decommitting and resetting areas never touches data of the program
\* (os.c:651-667, 688-741).
THEOREM OsDataKept == Spec => []DataKept
<1>1. Inv => DataKept
  BY OsInvKept DEF Inv
<1> QED BY <1>1, ArenaInvariant, PTL

=============================================================================
