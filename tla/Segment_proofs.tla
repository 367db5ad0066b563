--------------------------- MODULE Segment_proofs ---------------------------
(***************************************************************************)
(* The invariants of module Segment, in every state and for every value    *)
(* of its constants.                                                       *)
(*                                                                         *)
(* FieldsInv is the inductive invariant the others rest on: what memory    *)
(* without a segment looks like, the counters of a segment, who has it,    *)
(* what its pages' info can be, that the cache and the free queues have    *)
(* segments of their thread, what the running call has in hand, and the    *)
(* count of a thread.  On top of it, each inductive together with it:      *)
(*   QueueExact  the free queues at every step of a call                   *)
(*   ResetsOwn   the delayed resets, of pages whose memory may be reset    *)
(*   NotLost     who takes care of a segment that is empty or abandoned    *)
(*   MemoryInv   the memory behind a page, by its info and the options     *)
(* A page is looked at through lemmas on one segment (FieldsSame,          *)
(* FieldsClaim, FieldsReclaim ...): an action changes one segment, or the  *)
(* reset info of many, and leaves the others alone.                        *)
(***************************************************************************)
EXTENDS Segment, TLAPS, FiniteSetTheorems, SequenceTheorems

(***************************************************************************)
(* Lemmas about the queues: what Without leaves of a sequence.             *)
(***************************************************************************)

\* The ranks of the indices of a finite set count it through, without a gap and
\* in order.
LEMMA RankIsBijection ==
  ASSUME NEW n \in Nat, NEW K \in SUBSET (1 .. n)
  PROVE  /\ IsFiniteSet(K) /\ Cardinality(K) \in Nat
         /\ \A i \in K : Rank(K, i) \in 1 .. Cardinality(K)
         /\ \A i, j \in K : i < j => Rank(K, i) < Rank(K, j)
         /\ \A m \in 1 .. Cardinality(K) : \E i \in K : Rank(K, i) = m
<1> DEFINE Below(i) == {j \in K : j <= i}
           f == [i \in K |-> Rank(K, i)]
           C == Cardinality(K)
<1>1. IsFiniteSet(K) /\ C \in Nat
  <2>1. IsFiniteSet(1 .. n)
    BY FS_Interval
  <2>2. IsFiniteSet(K)
    BY <2>1, FS_Subset
  <2> QED
    BY <2>2, FS_CardinalityType
<1>2. ASSUME NEW i \in K
      PROVE  Rank(K, i) \in 1 .. C
  <2>1. Below(i) \in SUBSET K /\ i \in Below(i)
    OBVIOUS
  <2>2. IsFiniteSet(Below(i)) /\ Cardinality(Below(i)) <= C
    BY <1>1, <2>1, FS_Subset
  <2>3. Cardinality(Below(i)) \in Nat /\ Cardinality(Below(i)) # 0
    BY <2>1, <2>2, FS_CardinalityType, FS_EmptySet
  <2> QED
    BY <1>1, <2>2, <2>3 DEF Rank
<1>3. ASSUME NEW i \in K, NEW j \in K, i < j
      PROVE  Rank(K, i) < Rank(K, j)
  <2>1. Below(i) \in SUBSET Below(j) /\ j \in Below(j) /\ j \notin Below(i)
    <3>1. \A a \in K : a \in Int
      OBVIOUS
    <3>2. \A a \in K : a <= i => a <= j
      BY <1>3, <3>1
    <3>3. j <= j /\ ~(j <= i)
      BY <1>3, <3>1
    <3> QED
      BY <3>2, <3>3
  <2>2. IsFiniteSet(Below(j)) /\ Below(i) # Below(j)
    BY <1>1, <2>1, FS_Subset
  <2>3. Cardinality(Below(i)) <= Cardinality(Below(j)) /\ Cardinality(Below(i)) # Cardinality(Below(j))
    BY <2>1, <2>2, FS_Subset
  <2> QED
    BY <1>2, <2>3 DEF Rank
<1>4. f \in Injection(K, 1 .. C)
  <2>1. f \in [K -> 1 .. C]
    BY <1>2
  <2>2. ASSUME NEW i \in K, NEW j \in K, f[i] = f[j]
        PROVE  i = j
    <3>1. ~(i < j) /\ ~(j < i)
      BY <1>2, <1>3, <2>2
    <3> QED
      BY <3>1
  <2> QED
    BY <2>1, <2>2 DEF Injection, IsInjective
<1>5. f \in Surjection(K, 1 .. C)
  <2>1. IsFiniteSet(1 .. C) /\ Cardinality(1 .. C) = C
    BY <1>1, FS_Interval
  <2> QED
    BY <1>4, <2>1, FS_Injection
<1>6. ASSUME NEW m \in 1 .. C
      PROVE  \E i \in K : Rank(K, i) = m
  BY <1>5 DEF Surjection
<1> QED
  BY <1>1, <1>2, <1>3, <1>6

\* What Without leaves: some indices in their order, those of the elements that
\* are not taken out.
LEMMA WithoutIs ==
  ASSUME NEW T, NEW q \in Seq(T), NEW S
  PROVE  \E f \in [1 .. Len(Without(q, S)) -> DOMAIN q] :
           /\ Without(q, S) \in Seq(T)
           /\ DOMAIN Without(q, S) = 1 .. Len(Without(q, S))
           /\ \A n \in DOMAIN Without(q, S) : Without(q, S)[n] = q[f[n]] /\ q[f[n]] \notin S
           /\ \A m, n \in DOMAIN Without(q, S) : f[m] = f[n] => m = n
           /\ \A i \in DOMAIN q : q[i] \notin S => \E n \in DOMAIN Without(q, S) : f[n] = i
<1> DEFINE K == {i \in DOMAIN q : q[i] \notin S}
           C == Cardinality(K)
           f == [n \in 1 .. C |-> CHOOSE i \in K : Rank(K, i) = n]
           w == Without(q, S)
<1>1. DOMAIN q = 1 .. Len(q) /\ Len(q) \in Nat /\ K \in SUBSET (1 .. Len(q))
  OBVIOUS
<1>2. /\ C \in Nat
      /\ \A i \in K : Rank(K, i) \in 1 .. C
      /\ \A m \in 1 .. C : \E i \in K : Rank(K, i) = m
      /\ \A i, j \in K : i < j => Rank(K, i) < Rank(K, j)
  <2> HIDE DEF K
  <2> QED
    BY <1>1, RankIsBijection
<1>3. \A n \in 1 .. C : f[n] \in K /\ Rank(K, f[n]) = n
  <2> HIDE DEF K
  <2> QED
    BY <1>2
<1>4. w = [n \in 1 .. C |-> q[f[n]]]
  BY DEF Without
<1>5. \A n \in 1 .. C : q[f[n]] \in T /\ q[f[n]] \notin S /\ f[n] \in DOMAIN q
  <2>1. \A i \in K : q[i] \in T /\ q[i] \notin S /\ i \in DOMAIN q
    BY <1>1
  <2> HIDE DEF f, K, C
  <2> QED
    BY <1>3, <2>1
<1>6. w \in Seq(T) /\ Len(w) = C /\ DOMAIN w = 1 .. C
  <2> HIDE DEF f, C, w
  <2> QED
    BY <1>2, <1>4, <1>5
<1>7. ASSUME NEW i \in K
      PROVE  \E n \in 1 .. C : f[n] = i
  <2> DEFINE n == Rank(K, i)
  <2>1. n \in 1 .. C
    BY <1>2
  <2>2. f[n] \in K /\ Rank(K, f[n]) = Rank(K, i)
    BY <1>3, <2>1
  <2>3. ~(f[n] < i) /\ ~(i < f[n])
    <3> HIDE DEF f, n, K, C
    <3>1. Rank(K, i) \in Int /\ Rank(K, f[n]) \in Int
      BY <1>2, <2>2
    <3> QED
      BY <1>2, <2>2, <3>1
  <2>4. f[n] \in Int /\ i \in Int
    BY <1>1, <2>2
  <2> HIDE DEF f, n, K, C
  <2> QED
    BY <2>1, <2>3, <2>4
<1>8. f \in [1 .. C -> DOMAIN q]
  BY <1>3
<1>9. \A m, n \in 1 .. C : f[m] = f[n] => m = n
  <2> HIDE DEF f, C, K
  <2> QED
    BY <1>3
<1>10. \A n \in 1 .. C : w[n] = q[f[n]] /\ q[f[n]] \notin S
  <2> HIDE DEF f, C, K, w
  <2> QED
    BY <1>4, <1>5
<1>11. \A i \in DOMAIN q : q[i] \notin S => \E n \in 1 .. C : f[n] = i
  BY <1>7
<1> HIDE DEF f, C, K, w
<1>12. f \in [1 .. Len(w) -> DOMAIN q]
  BY <1>6, <1>8
<1>13. /\ w \in Seq(T) /\ DOMAIN w = 1 .. Len(w)
       /\ \A n \in DOMAIN w : w[n] = q[f[n]] /\ q[f[n]] \notin S
       /\ \A m, n \in DOMAIN w : f[m] = f[n] => m = n
       /\ \A i \in DOMAIN q : q[i] \notin S => \E n \in DOMAIN w : f[n] = i
  BY <1>6, <1>9, <1>10, <1>11
<1> QED
  BY <1>12, <1>13 DEF w


\* The same without the index: what is left, and that nothing is there twice
\* that was not.
LEMMA WithoutKeeps ==
  ASSUME NEW T, NEW q \in Seq(T), NEW S
  PROVE  /\ Without(q, S) \in Seq(T)
         /\ \A n \in DOMAIN Without(q, S) :
              Without(q, S)[n] \notin S /\ \E i \in DOMAIN q : Without(q, S)[n] = q[i]
         /\ \A i \in DOMAIN q : q[i] \notin S => \E n \in DOMAIN Without(q, S) : Without(q, S)[n] = q[i]
         /\ (\A i, j \in DOMAIN q : q[i] = q[j] => i = j) =>
              \A m, n \in DOMAIN Without(q, S) : Without(q, S)[m] = Without(q, S)[n] => m = n
<1> DEFINE w == Without(q, S)
<1>1. PICK f \in [1 .. Len(w) -> DOMAIN q] :
           /\ w \in Seq(T) /\ DOMAIN w = 1 .. Len(w)
           /\ \A n \in DOMAIN w : w[n] = q[f[n]] /\ q[f[n]] \notin S
           /\ \A m, n \in DOMAIN w : f[m] = f[n] => m = n
           /\ \A i \in DOMAIN q : q[i] \notin S => \E n \in DOMAIN w : f[n] = i
  BY WithoutIs
<1> HIDE DEF w
<1>2. \A n \in DOMAIN w : f[n] \in DOMAIN q
  BY <1>1
<1>3. \A n \in DOMAIN w : w[n] \notin S /\ \E i \in DOMAIN q : w[n] = q[i]
  BY <1>1, <1>2
<1>4. \A i \in DOMAIN q : q[i] \notin S => \E n \in DOMAIN w : w[n] = q[i]
  BY <1>1
<1>5. (\A i, j \in DOMAIN q : q[i] = q[j] => i = j) =>
         \A m, n \in DOMAIN w : w[m] = w[n] => m = n
  BY <1>1, <1>2
<1> QED
  BY <1>1, <1>3, <1>4, <1>5 DEF w

-----------------------------------------------------------------------------
(***************************************************************************)
(* The inductive invariant.                                                *)
(***************************************************************************)
Orphans(s) == {p \in InUse(s) : page[s][p].heap = NULL}
Owned(t) == {s \in Segment : thread_id[s] = t}

\* The fields of a segment, whatever the thread that works on it does: nothing
\* is left in memory that was given back, the counters count the pages,
\* a segment without a thread is in the abandoned list or huge, and the heap of
\* a page is of the thread of its segment.
SegmentFields(s) ==
  /\ ~mapped[s] => /\ thread_id[s] = NULL /\ kind[s] = "small" /\ page[s] = NoPages
                   /\ ~mem_is_fixed[s] /\ s \notin abandoned_list
  /\ mapped[s] => used[s] = Cardinality(InUse(s))
  /\ mapped[s] /\ kind[s] # "huge" => abandoned[s] = Cardinality(Orphans(s))
  /\ mapped[s] /\ kind[s] # "huge" => (thread_id[s] = NULL <=> s \in abandoned_list)
  /\ kind[s] = "huge" => s \notin abandoned_list
  /\ \A p \in Unit :
       /\ page[s][p].in_use => p \in Pages(s) /\ page[s][p].committed /\ ~page[s][p].reset
       /\ page[s][p].heap # NULL =>
            page[s][p].in_use /\ kind[s] # "huge" /\ page[s][p].heap = thread_id[s]

\* A cached segment is its thread's, empty, and in the cache once.
CacheOwn == \A t \in Thread : \A i \in DOMAIN cache[t] :
  /\ thread_id[cache[t][i]] = t /\ kind[cache[t][i]] # "huge" /\ InUse(cache[t][i]) = {}
  /\ \A j \in DOMAIN cache[t] : cache[t][i] = cache[t][j] => i = j

\* A queue of free pages has segments of its thread and kind.
QueueOwn == \A t \in Thread, k \in Queued : \A i \in DOMAIN free_queue[t][k] :
  /\ thread_id[free_queue[t][k][i]] = t /\ kind[free_queue[t][k][i]] = k
  /\ ~Cached(free_queue[t][k][i])

\* What the running call has in hand at each of its steps.
Freeing    == {"delay_free", "clear", "free"}
Abandoning == {"delay_abandon", "abandon"}
Role ==
  /\ pc = "claim" => /\ mapped[cur.s] /\ ~Cached(cur.s)
                     /\ kind[cur.s] # "huge" => thread_id[cur.s] = me
  /\ pc \in Freeing \cup Abandoning => thread_id[cur.s] = me /\ ~Cached(cur.s)
  /\ pc \in {"delay_free", "clear"} =>
       cur.p \in InUse(cur.s) /\ (kind[cur.s] # "huge" => page[cur.s][cur.p].heap # NULL)
  /\ pc = "free" => InUse(cur.s) = {}
  /\ pc \in Abandoning => kind[cur.s] # "huge" /\ InUse(cur.s) # {} /\ Orphans(cur.s) = InUse(cur.s)
  /\ pc = "try" \/ (pc \in Freeing /\ cur.ret = "try") => cur.k # "huge"
  /\ pc # "idle" => status[me] # "gone"
  /\ \A s \in Segment : kind[s] = "huge" /\ thread_id[s] # NULL => pc \in Freeing /\ s = cur.s

\* tld->count counts the segments of the thread
CountOwned == \A t \in Thread : count[t] = Cardinality(Owned(t))

FieldsInv ==
  /\ TypeOK
  /\ \A s \in Segment : SegmentFields(s)
  /\ CacheOwn /\ QueueOwn /\ Role /\ CountOwned

-----------------------------------------------------------------------------
(***************************************************************************)
(* Lemmas about segments.                                                  *)
(***************************************************************************)

\* There are units, and no more pages than units.
LEMMA CapacityFacts ==
  /\ Units \in Nat \ {0}
  /\ \A k \in PageKind : Capacity[k] \in 1 .. Units
  /\ 0 \in Unit /\ Unit = 0 .. Units - 1
<1>1. Units \in Nat \ {0}
  BY CapacityAssumption DEF PageKind, Units
<1>2. ASSUME NEW k \in PageKind
      PROVE  Capacity[k] \in 1 .. Units
  <2> DEFINE c == Capacity[k]
  <2>1. c \in Nat \ {0} /\ Units % c = 0
    BY CapacityAssumption
  <2> HIDE DEF c
  <2>2. CASE c > Units
    <3>1. Units % c = Units
      BY <1>1, <2>1, <2>2
    <3> QED
      BY <1>1, <2>1, <3>1
  <2> QED
    BY <1>1, <2>1, <2>2 DEF c
<1> QED
  BY <1>1, <1>2 DEF Unit

\* The pages of a segment are some of the units, and those in use, and those of
\* them without a heap, are finite sets.
LEMMA PageSets ==
  ASSUME TypeOK, NEW s \in Segment
  PROVE  /\ kind[s] \in PageKind /\ Capacity[kind[s]] \in 1 .. Units
         /\ Pages(s) = 0 .. Capacity[kind[s]] - 1
         /\ Pages(s) \subseteq Unit /\ 0 \in Pages(s)
         /\ IsFiniteSet(Pages(s)) /\ Cardinality(Pages(s)) = Capacity[kind[s]]
         /\ IsFiniteSet(InUse(s)) /\ Cardinality(InUse(s)) \in Nat /\ InUse(s) \subseteq Pages(s)
         /\ IsFiniteSet(Orphans(s)) /\ Cardinality(Orphans(s)) \in Nat /\ Orphans(s) \subseteq InUse(s)
<1>1. kind[s] \in PageKind
  BY DEF TypeOK
<1>2. Capacity[kind[s]] \in 1 .. Units /\ Units \in Nat \ {0} /\ Unit = 0 .. Units - 1
  BY <1>1, CapacityFacts
<1>3. Pages(s) = 0 .. Capacity[kind[s]] - 1 /\ Pages(s) \subseteq Unit /\ 0 \in Pages(s)
  BY <1>2 DEF Pages
<1>4. IsFiniteSet(Pages(s)) /\ Cardinality(Pages(s)) = Capacity[kind[s]]
  <2> DEFINE c == Capacity[kind[s]]
  <2>1. c \in Nat \ {0} /\ Pages(s) = 0 .. c - 1
    BY <1>2, <1>3
  <2> HIDE DEF c
  <2>2. 0 \in Int /\ c - 1 \in Int
    BY <2>1
  <2>3. IsFiniteSet(0 .. c - 1) /\ Cardinality(0 .. c - 1) = IF 0 > c - 1 THEN 0 ELSE (c - 1) - 0 + 1
    BY <2>2, FS_Interval
  <2> QED
    BY <2>1, <2>3 DEF c
<1>5. InUse(s) \in SUBSET Pages(s)
  BY DEF InUse
<1>6. IsFiniteSet(InUse(s)) /\ Cardinality(InUse(s)) \in Nat
  <2>1. IsFiniteSet(InUse(s))
    BY <1>4, <1>5, FS_Subset
  <2> QED
    BY <2>1, FS_CardinalityType
<1>7. Orphans(s) \in SUBSET InUse(s)
  BY DEF Orphans
<1>8. IsFiniteSet(Orphans(s)) /\ Cardinality(Orphans(s)) \in Nat
  <2>1. IsFiniteSet(Orphans(s))
    BY <1>6, <1>7, FS_Subset
  <2> QED
    BY <2>1, FS_CardinalityType
<1> QED
  BY <1>1, <1>2, <1>3, <1>4, <1>5, <1>6, <1>7, <1>8

\* The segments of a thread are finitely many.
LEMMA OwnedFinite ==
  ASSUME NEW t
  PROVE  IsFiniteSet(Owned(t)) /\ Cardinality(Owned(t)) \in Nat
<1>1. IsFiniteSet(Owned(t))
  <2>1. Owned(t) \in SUBSET Segment
    BY DEF Owned
  <2> QED
    BY <2>1, SegmentAssumption, FS_Subset
<1> QED
  BY <1>1, FS_CardinalityType

\* what a step that resets memory may do to the pages of a segment
OnlyResets(s) == \A p \in Unit :
  \/ page'[s][p] = page[s][p]
  \/ /\ ~page[s][p].in_use /\ page[s][p].committed
     /\ page'[s][p] = [page[s][p] EXCEPT !.reset = TRUE]

\* a step that leaves a segment alone but for resets
Kept(s) ==
  /\ OnlyResets(s)
  /\ used'[s] = used[s] /\ abandoned'[s] = abandoned[s] /\ thread_id'[s] = thread_id[s]
  /\ kind'[s] = kind[s] /\ mapped'[s] = mapped[s] /\ mem_is_fixed'[s] = mem_is_fixed[s]
  /\ (s \in abandoned_list)' <=> s \in abandoned_list

\* Such a step keeps its pages in use and its fields.
LEMMA KeptPages ==
  ASSUME TypeOK, TypeOK', NEW s \in Segment, OnlyResets(s), kind'[s] = kind[s]
  PROVE  /\ Pages(s)' = Pages(s) /\ InUse(s)' = InUse(s) /\ Orphans(s)' = Orphans(s)
         /\ \A p \in Unit : /\ page'[s][p].in_use = page[s][p].in_use
                            /\ page'[s][p].heap = page[s][p].heap
                            /\ page'[s][p].committed = page[s][p].committed
                            /\ page[s][p].in_use => page'[s][p] = page[s][p]
<1>1. Pages(s)' = Pages(s) /\ Pages(s) \subseteq Unit
  BY PageSets DEF Pages
<1>2. \A p \in Unit : page[s][p] \in Page
  BY DEF TypeOK
<1>3. \A p \in Unit : /\ page'[s][p].in_use = page[s][p].in_use
                      /\ page'[s][p].heap = page[s][p].heap
                      /\ page'[s][p].committed = page[s][p].committed
                      /\ page[s][p].in_use => page'[s][p] = page[s][p]
  BY <1>2 DEF OnlyResets, Page
<1>4. InUse(s)' = InUse(s)
  BY <1>1, <1>3 DEF InUse
<1>5. InUse(s) \subseteq Unit
  BY <1>1 DEF InUse
<1>6. Orphans(s)' = Orphans(s)
  BY <1>3, <1>4, <1>5 DEF Orphans
<1> QED
  BY <1>1, <1>3, <1>4, <1>6

\* A segment that is left alone keeps its fields.
LEMMA KeptFields ==
  ASSUME TypeOK, TypeOK', NEW s \in Segment, Kept(s), SegmentFields(s)
  PROVE  SegmentFields(s)'
<1>1. /\ Pages(s)' = Pages(s) /\ InUse(s)' = InUse(s) /\ Orphans(s)' = Orphans(s)
      /\ \A p \in Unit : /\ page'[s][p].in_use = page[s][p].in_use
                         /\ page'[s][p].heap = page[s][p].heap
                         /\ page'[s][p].committed = page[s][p].committed
                         /\ page[s][p].in_use => page'[s][p] = page[s][p]
  BY KeptPages DEF Kept
<1>2. ~mapped[s] => page'[s] = page[s]
  <2> SUFFICES ASSUME ~mapped[s]
               PROVE  page'[s] = page[s]
    OBVIOUS
  <2>1. \A p \in Unit : ~page[s][p].committed
    BY DEF SegmentFields, NoPages, FreePage
  <2>2. \A p \in Unit : page'[s][p] = page[s][p]
    BY <2>1 DEF Kept, OnlyResets
  <2>3. page[s] \in [Unit -> Page] /\ page'[s] \in [Unit -> Page]
    BY DEF TypeOK
  <2> QED
    BY <2>2, <2>3
<1>3. \A p \in Unit :
        /\ page'[s][p].in_use => p \in Pages(s)' /\ page'[s][p].committed /\ ~page'[s][p].reset
        /\ page'[s][p].heap # NULL =>
             page'[s][p].in_use /\ kind'[s] # "huge" /\ page'[s][p].heap = thread_id'[s]
  BY <1>1 DEF Kept, SegmentFields
<1> QED
  BY <1>1, <1>2, <1>3 DEF Kept, SegmentFields

-----------------------------------------------------------------------------
(***************************************************************************)
(* Type correctness.                                                       *)
(***************************************************************************)

\* the types of the elements of the queues
LEMMA QueueTypes ==
  ASSUME TypeOK, NEW t \in Thread
  PROVE  /\ cache[t] \in Seq(Segment) /\ pages_reset[t] \in Seq(Entry)
         /\ DOMAIN cache[t] = 1 .. Len(cache[t]) /\ Len(cache[t]) \in Nat
         /\ DOMAIN pages_reset[t] = 1 .. Len(pages_reset[t]) /\ Len(pages_reset[t]) \in Nat
         /\ \A i \in DOMAIN cache[t] : cache[t][i] \in Segment
         /\ \A i \in DOMAIN pages_reset[t] : pages_reset[t][i] \in Entry
         /\ \A k \in Queued : /\ free_queue[t][k] \in Seq(Segment)
                              /\ DOMAIN free_queue[t][k] = 1 .. Len(free_queue[t][k])
                              /\ Len(free_queue[t][k]) \in Nat
                              /\ \A i \in DOMAIN free_queue[t][k] : free_queue[t][k][i] \in Segment
<1>1. /\ cache[t] \in Seq(Segment) /\ pages_reset[t] \in Seq(Entry)
      /\ \A k \in Queued : free_queue[t][k] \in Seq(Segment)
  BY DEF TypeOK
<1>2. \A S : \A q \in Seq(S) : DOMAIN q = 1 .. Len(q) /\ Len(q) \in Nat /\ \A i \in DOMAIN q : q[i] \in S
  OBVIOUS
<1> QED
  BY <1>1, <1>2

\* The parts of the state that a step sets for a page, a segment or a thread
\* keep their types.
LEMMA TypeParts ==
  ASSUME TypeOK
  PROVE  /\ \A s \in Segment : \A pg \in [Unit -> Page] : [page EXCEPT ![s] = pg] \in [Segment -> [Unit -> Page]]
         /\ \A s \in Segment : \A b \in SUBSET Unit : [backed EXCEPT ![s] = b] \in [Segment -> SUBSET Unit]
         /\ \A t \in Thread : \A q \in Seq(Entry) : [pages_reset EXCEPT ![t] = q] \in [Thread -> Seq(Entry)]
         /\ \A t \in Thread : \A q \in Seq(Segment) : [cache EXCEPT ![t] = q] \in [Thread -> Seq(Segment)]
         /\ \A c, p : UnitsIn(c, p) \subseteq Unit
         /\ \A s \in Segment : \A P : AllUnits(s, P) \subseteq Unit
         /\ \A s \in Segment : \A P : ResetMemory(s, P) \subseteq Unit
         /\ FreePage \in Page /\ NoPages \in [Unit -> Page] /\ NoCall \in Call
         /\ \A k, c : c \in BOOLEAN => NewPages(k, c) \in [Unit -> Page]
<1>1. /\ \A s \in Segment : \A pg \in [Unit -> Page] : [page EXCEPT ![s] = pg] \in [Segment -> [Unit -> Page]]
      /\ \A s \in Segment : \A b \in SUBSET Unit : [backed EXCEPT ![s] = b] \in [Segment -> SUBSET Unit]
      /\ \A t \in Thread : \A q \in Seq(Entry) : [pages_reset EXCEPT ![t] = q] \in [Thread -> Seq(Entry)]
      /\ \A t \in Thread : \A q \in Seq(Segment) : [cache EXCEPT ![t] = q] \in [Thread -> Seq(Segment)]
  BY DEF TypeOK
<1>2. \A c, p : UnitsIn(c, p) \subseteq Unit
  BY DEF UnitsIn
<1>3. \A s \in Segment : \A P : AllUnits(s, P) \subseteq Unit
  BY <1>2 DEF AllUnits, UnitsOf
<1>4. \A s \in Segment : \A P : ResetMemory(s, P) \subseteq Unit
  BY DEF ResetMemory, TypeOK
<1>5. FreePage \in Page /\ NoPages \in [Unit -> Page]
  BY DEF FreePage, NoPages, Page
<1>6. NoCall \in Call
  BY CapacityFacts DEF NoCall, Call, PageKind
<1>7. \A k, c : c \in BOOLEAN => NewPages(k, c) \in [Unit -> Page]
  BY DEF NewPages, FreePage, Page
<1> QED
  BY <1>1, <1>2, <1>3, <1>4, <1>5, <1>6, <1>7

\* mi_segment_remove_from_free_queue and mi_segment_insert_in_free_queue
LEMMA QueueStepType ==
  ASSUME TypeOK, NEW t \in Thread, NEW s \in Segment
  PROVE  /\ Dequeue(t, s) => free_queue' \in [Thread -> [Queued -> Seq(Segment)]]
         /\ Enqueue(t, s) /\ kind[s] \in Queued => free_queue' \in [Thread -> [Queued -> Seq(Segment)]]
         /\ \A S : Without(pages_reset[t], S) \in Seq(Entry)
<1>1. \A k \in Queued : free_queue[t][k] \in Seq(Segment)
  BY QueueTypes
<1>2. \A k \in Queued : Without(free_queue[t][k], {s}) \in Seq(Segment) /\ Append(free_queue[t][k], s) \in Seq(Segment)
  BY <1>1, WithoutKeeps
<1>3. Dequeue(t, s) => free_queue' \in [Thread -> [Queued -> Seq(Segment)]]
  <2> DEFINE new == [k \in Queued |->
               IF k = kind[s] THEN Without(free_queue[t][k], {s}) ELSE free_queue[t][k]]
  <2>1. new \in [Queued -> Seq(Segment)]
    BY <1>1, <1>2
  <2>2. Dequeue(t, s) => free_queue' = [free_queue EXCEPT ![t] = new]
    BY DEF Dequeue, TypeOK
  <2> HIDE DEF new
  <2> QED
    BY <2>1, <2>2 DEF TypeOK
<1>4. Enqueue(t, s) /\ kind[s] \in Queued => free_queue' \in [Thread -> [Queued -> Seq(Segment)]]
  BY <1>2 DEF Enqueue, TypeOK
<1>5. \A S : Without(pages_reset[t], S) \in Seq(Entry)
  BY QueueTypes, WithoutKeeps
<1> QED
  BY <1>3, <1>4, <1>5

\* Counted from the last one, the elements of a set of units have each place of
\* 1 .. Cardinality(K) once.
LEMMA RankFromLast ==
  ASSUME NEW K \in SUBSET Unit
  PROVE  /\ IsFiniteSet(K) /\ Cardinality(K) \in Nat
         /\ \A i \in 1 .. Cardinality(K) : \E p \in K : Cardinality({q \in K : q > p}) = i - 1
         /\ \A p \in K : \E i \in 1 .. Cardinality(K) : Cardinality({q \in K : q > p}) = i - 1
         /\ \A p, r \in K : Cardinality({q \in K : q > p}) = Cardinality({q \in K : q > r}) => p = r
<1> DEFINE Above(p) == {q \in K : q > p}
           C == Cardinality(K)
           f == [p \in K |-> Cardinality(Above(p)) + 1]
<1>1. \A p \in K : p \in Int
  BY CapacityFacts
<1>2. IsFiniteSet(K) /\ C \in Nat
  <2>1. Units - 1 \in Int /\ 0 \in Int /\ Unit = 0 .. Units - 1
    BY CapacityFacts
  <2>2. IsFiniteSet(Unit)
    BY <2>1, FS_Interval
  <2>3. IsFiniteSet(K)
    BY <2>2, FS_Subset
  <2> QED
    BY <2>3, FS_CardinalityType
<1>3. ASSUME NEW p \in K
      PROVE  IsFiniteSet(Above(p)) /\ Cardinality(Above(p)) \in 0 .. C - 1
  <2>1. Above(p) \in SUBSET K /\ p \notin Above(p)
    BY <1>1
  <2>2. IsFiniteSet(Above(p)) /\ Cardinality(Above(p)) <= C /\ (C = Cardinality(Above(p)) => K = Above(p))
    BY <1>2, <2>1, FS_Subset
  <2>3. Cardinality(Above(p)) \in Nat /\ Cardinality(Above(p)) # C
    BY <2>1, <2>2, FS_CardinalityType
  <2> QED
    BY <1>2, <2>2, <2>3
<1>4. ASSUME NEW p \in K, NEW r \in K, p < r
      PROVE  Cardinality(Above(p)) # Cardinality(Above(r))
  <2>1. Above(r) \in SUBSET Above(p) /\ r \in Above(p) /\ r \notin Above(r)
    <3>1. \A a \in K : a > r => a > p
      BY <1>1, <1>4
    <3>2. r > p /\ ~(r > r)
      BY <1>1, <1>4
    <3> QED
      BY <3>1, <3>2
  <2>2. IsFiniteSet(Above(p)) /\ Above(p) # Above(r)
    BY <1>3, <2>1
  <2> QED
    BY <2>1, <2>2, FS_Subset
<1>5. \A p, r \in K : Cardinality(Above(p)) = Cardinality(Above(r)) => p = r
  <2> SUFFICES ASSUME NEW p \in K, NEW r \in K, Cardinality(Above(p)) = Cardinality(Above(r))
               PROVE  p = r
    OBVIOUS
  <2>1. ~(p < r) /\ ~(r < p)
    BY <1>4
  <2> QED
    BY <1>1, <2>1
<1>10. \A p \in K : f[p] = Cardinality(Above(p)) + 1 /\ f[p] \in 1 .. C /\ Cardinality(Above(p)) \in Int
  BY <1>2, <1>3
<1>6. f \in Injection(K, 1 .. C)
  <2>1. \A p \in K : f[p] = Cardinality(Above(p)) + 1 /\ f[p] \in 1 .. C /\ Cardinality(Above(p)) \in Int
    BY <1>10
  <2>2. f \in [K -> 1 .. C]
    BY <2>1
  <2>3. \A p, r \in K : f[p] = f[r] => p = r
    <3> HIDE DEF f, Above, C
    <3> QED
      BY <1>5, <2>1
  <2> QED
    BY <2>2, <2>3 DEF Injection, IsInjective
<1>7. f \in Surjection(K, 1 .. C)
  <2>1. IsFiniteSet(1 .. C) /\ Cardinality(1 .. C) = C
    BY <1>2, FS_Interval
  <2> QED
    BY <1>2, <1>6, <2>1, FS_Injection
<1>8. \A i \in 1 .. C : \E p \in K : Cardinality(Above(p)) = i - 1
  <2> SUFFICES ASSUME NEW i \in 1 .. C
               PROVE  \E p \in K : Cardinality(Above(p)) = i - 1
    OBVIOUS
  <2>1. PICK p \in K : f[p] = i
    BY <1>7 DEF Surjection
  <2> HIDE DEF f, Above, C
  <2> QED
    BY <1>10, <2>1
<1>9. \A p \in K : \E i \in 1 .. C : Cardinality(Above(p)) = i - 1
  <2> SUFFICES ASSUME NEW p \in K
               PROVE  \E i \in 1 .. C : Cardinality(Above(p)) = i - 1
    OBVIOUS
  <2> HIDE DEF f, Above, C
  <2>1. f[p] \in 1 .. C /\ Cardinality(Above(p)) = f[p] - 1
    BY <1>2, <1>10
  <2> QED
    BY <2>1
<1> QED
  BY <1>2, <1>5, <1>8, <1>9

\* The entries of pages P: one for each.
LEMMA EntriesForAre ==
  ASSUME TypeOK, NEW s \in Segment, NEW P \in SUBSET Unit
  PROVE  /\ EntriesFor(s, P) \in Seq(Entry)
         /\ \A i \in DOMAIN EntriesFor(s, P) : EntriesFor(s, P)[i].s = s /\ EntriesFor(s, P)[i].p \in P
         /\ \A i, j \in DOMAIN EntriesFor(s, P) : EntriesFor(s, P)[i].p = EntriesFor(s, P)[j].p => i = j
<1> DEFINE C == Cardinality(P)
           up(p) == Cardinality({q \in P : q > p})
           at(i) == CHOOSE p \in P : up(p) = i - 1
           en == EntriesFor(s, P)
<1>1. C \in Nat /\ \A i \in 1 .. C : \E p \in P : up(p) = i - 1
  BY RankFromLast
<1>2. \A i \in 1 .. C : at(i) \in P /\ up(at(i)) = i - 1
  <2> HIDE DEF C, up
  <2> QED
    BY <1>1
<1>3. \A i, j \in 1 .. C : at(i) = at(j) => i = j
  <2> SUFFICES ASSUME NEW i \in 1 .. C, NEW j \in 1 .. C, at(i) = at(j)
               PROVE  i = j
    OBVIOUS
  <2>1. up(at(i)) = i - 1 /\ up(at(j)) = j - 1
    BY <1>2
  <2> HIDE DEF at, up, C
  <2>2. i - 1 = j - 1
    BY <2>1
  <2> QED
    BY <1>1, <2>2
<1>4. en = [i \in 1 .. C |-> [s |-> s, late |-> 0 - option.reset_delay, p |-> at(i)]]
  BY DEF EntriesFor
<1>5. 0 - option.reset_delay \in Int
  BY DEF TypeOK, Option
<1> HIDE DEF at, C, en, up
<1>6. DOMAIN en = 1 .. C /\ \A i \in 1 .. C : en[i] = [s |-> s, late |-> 0 - option.reset_delay, p |-> at(i)]
  BY <1>4
<1>11. \A i \in 1 .. C : at(i) \in P /\ at(i) \in Unit
  BY <1>2
<1>7. \A i \in 1 .. C : en[i] \in Entry
  BY <1>5, <1>6, <1>11 DEF Entry
<1>8. en \in Seq(Entry)
  BY <1>1, <1>4, <1>6, <1>7
<1>9. \A i \in DOMAIN en : en[i].s = s /\ en[i].p \in P
  BY <1>6, <1>11
<1>10. \A i, j \in DOMAIN en : en[i].p = en[j].p => i = j
  BY <1>3, <1>6
<1> QED
  BY <1>8, <1>9, <1>10 DEF en

\* mi_pages_reset_add
LEMMA ResetAddType ==
  ASSUME TypeOK, NEW t \in Thread, NEW s \in Segment, NEW P \in SUBSET Unit,
         NEW pg \in [Unit -> Page], ResetAdd(t, s, P, pg)
  PROVE  /\ page' \in [Segment -> [Unit -> Page]] /\ backed' \in [Segment -> SUBSET Unit]
         /\ pages_reset' \in [Thread -> Seq(Entry)]
<1> DEFINE ok == ToReset(s, P, pg)
           new == [p \in Unit |-> IF p \in ok THEN [pg[p] EXCEPT !.reset = TRUE] ELSE pg[p]]
<1>1. CASE option.reset_delay = 0
  <2>1. new \in [Unit -> Page]
    BY DEF Page
  <2>2. /\ page' = [page EXCEPT ![s] = new]
        /\ backed' = [backed EXCEPT ![s] = ResetMemory(s, ok)]
        /\ pages_reset' = pages_reset
    BY <1>1 DEF ResetAdd
  <2>3. ResetMemory(s, ok) \in SUBSET Unit
    BY TypeParts
  <2> HIDE DEF new
  <2>4. page' \in [Segment -> [Unit -> Page]]
    BY <2>1, <2>2, TypeParts
  <2>5. backed' \in [Segment -> SUBSET Unit]
    BY <2>2, <2>3, TypeParts
  <2> QED
    BY <2>2, <2>4, <2>5 DEF TypeOK
<1>2. CASE option.reset_delay # 0
  <2>1. ok \in SUBSET Unit
    BY DEF ToReset
  <2>2. EntriesFor(s, ok) \o pages_reset[t] \in Seq(Entry)
    BY <2>1, QueueTypes, EntriesForAre
  <2>3. /\ page' = [page EXCEPT ![s] = pg]
        /\ pages_reset' = [pages_reset EXCEPT ![t] = EntriesFor(s, ok) \o @]
        /\ backed' = backed
    BY <1>2 DEF ResetAdd
  <2> HIDE DEF ok
  <2>4. pages_reset' \in [Thread -> Seq(Entry)]
    BY <2>2, <2>3, TypeParts
  <2>5. page' \in [Segment -> [Unit -> Page]]
    BY <2>3, TypeParts
  <2> QED
    BY <2>3, <2>4, <2>5 DEF TypeOK
<1> QED
  BY <1>1, <1>2

\* mi_segment_reclaim: what it does to the segment, and to the queue
ReclaimFields(t, s, F) ==
  /\ thread_id' = [thread_id EXCEPT ![s] = t]
  /\ Track(t, 1)
  /\ abandoned_list' = abandoned_list \ {s}
  /\ abandoned' = [abandoned EXCEPT ![s] = @ - Cardinality(InUse(s))]
  /\ used' = [used EXCEPT ![s] = @ - Cardinality(F)]
  /\ ResetAdd(t, s, F, [p \in Unit |->
       IF p \in F THEN [page[s][p] EXCEPT !.in_use = FALSE, !.heap = NULL]
       ELSE IF p \in InUse(s) THEN [page[s][p] EXCEPT !.heap = t] ELSE page[s][p]])
  /\ UNCHANGED <<option, kind, mem_is_fixed, mapped, known, cache, status>>
ReclaimQueue(t, s) ==
  IF kind[s] \in Queued /\ used'[s] < Capacity[kind[s]] THEN Enqueue(t, s) ELSE UNCHANGED free_queue

\* the ways a step that reclaims segment s goes on
FreedEmpty(s, F) ==
  /\ F = InUse(s) /\ UNCHANGED free_queue
  /\ pc' = "free"
  /\ \/ pc = "try" /\ cur' = [cur EXCEPT !.s = s, !.force = FALSE, !.ret = "try"]
     \/ /\ pc = "try" /\ cur' = [cur EXCEPT !.s = s, !.force = FALSE, !.ret = "fresh"]
        /\ option.late_frees
     \/ pc = "reclaim_all" /\ cur' = [cur EXCEPT !.s = s, !.force = FALSE, !.ret = "reclaim_all"]
TookPage(s, F) ==
  /\ F # InUse(s) /\ ReclaimQueue(me, s) /\ pc = "try"
  /\ kind[s] = cur.k /\ pc' = "delay_alloc" /\ cur' = [cur EXCEPT !.s = NULL]
TookSegment(s, F) ==
  /\ F # InUse(s) /\ ReclaimQueue(me, s) /\ pc = "try"
  /\ kind[s] = cur.k /\ cur.k \in Queued /\ pc' = "claim"
  /\ F # {} \/ InUse(s) # Pages(s)
  /\ cur' = [cur EXCEPT !.s =
               Head(IF free_queue[me][cur.k] = <<>> THEN <<s>> ELSE free_queue[me][cur.k])]
PassedBy(s, F) ==
  /\ F # InUse(s) /\ ReclaimQueue(me, s)
  /\ pc \in {"try", "reclaim_all"} /\ pc' = pc /\ cur' = cur
  /\ pc = "try" => option.late_frees \/ kind[s] # cur.k \/ (F = {} /\ InUse(s) = Pages(s))
ReclaimStep(s, F) ==
  /\ ReclaimFields(me, s, F) /\ me' = me
  /\ FreedEmpty(s, F) \/ TookPage(s, F) \/ TookSegment(s, F) \/ PassedBy(s, F)

\* Every step of the loops of mi_segment_try_reclaim and _mi_abandoned_reclaim_all
\* that takes a segment is one of these.
LEMMA ReclaimSteps ==
  ASSUME TypeOK
  PROVE  /\ TryReclaim => \E s \in abandoned_list : \E F \in SUBSET InUse(s) :
                            ReclaimStep(s, F)
         /\ ReclaimAll => \/ \E s \in abandoned_list : \E F \in SUBSET InUse(s) : ReclaimStep(s, F)
                          \/ /\ pc = "reclaim_all" /\ abandoned_list = {} /\ Finish
                             /\ UNCHANGED <<option, segment, memory, abandoned_list, tld>>
<1>1. ASSUME TryReclaim
      PROVE  \E s \in abandoned_list : \E F \in SUBSET InUse(s) : ReclaimStep(s, F)
  <2>1. pc = "try" /\ me' = me
    BY <1>1 DEF TryReclaim
  <2> DEFINE Empty(s, F, E) == E = InUse(s) /\ Reclaim(me, s, F, "try", FALSE)
             Fits(s, F, E) ==
               /\ E # InUse(s) /\ kind[s] = cur.k
               /\ \E reclaimed \in BOOLEAN :
                 /\ reclaimed => F # InUse(s)
                 /\ ~reclaimed => F # {} \/ InUse(s) # Pages(s)
                 /\ Reclaim(me, s, F, "fresh",
                      /\ pc' = IF reclaimed THEN "delay_alloc" ELSE "claim"
                      /\ cur' = [cur EXCEPT !.s =
                           IF reclaimed THEN NULL
                           ELSE Head(IF free_queue[me][cur.k] = <<>> THEN <<s>> ELSE free_queue[me][cur.k])])
             Passes(s, F, E) ==
               /\ E # InUse(s)
               /\ kind[s] # cur.k \/ (E = {} /\ InUse(s) = Pages(s))
               /\ Reclaim(me, s, F, "try", pc' = "try" /\ UNCHANGED cur)
             Way(s, F, E) == Empty(s, F, E) \/ Fits(s, F, E) \/ Passes(s, F, E)
  <2>2. PICK s \in abandoned_list : \E F \in SUBSET InUse(s) :
          \E E \in (IF option.late_frees THEN SUBSET F ELSE {F}) : Way(s, F, E)
    BY <1>1, ZenonT(60) DEF TryReclaim
  <2>9. PICK F \in SUBSET InUse(s) :
          \E E \in (IF option.late_frees THEN SUBSET F ELSE {F}) : Way(s, F, E)
    BY <2>2
  <2>3. PICK E \in (IF option.late_frees THEN SUBSET F ELSE {F}) : Way(s, F, E)
    BY <2>9
  <2>4. E \subseteq F /\ (E = F \/ option.late_frees)
    BY <2>3
  <2>5. CASE Empty(s, F, E)
    <3>1. ReclaimFields(me, s, F)
      BY <2>5 DEF Reclaim, ReclaimFields
    <3>2. F = InUse(s) /\ pc' = "free" /\ cur' = [cur EXCEPT !.s = s, !.force = FALSE, !.ret = "try"]
          /\ UNCHANGED free_queue
      BY <2>5 DEF Reclaim
    <3> QED
      BY <2>1, <3>1, <3>2 DEF ReclaimStep, FreedEmpty
  <2>6. CASE Fits(s, F, E)
    <3>5. PICK reclaimed \in BOOLEAN :
                    /\ reclaimed => F # InUse(s)
                    /\ ~reclaimed => F # {} \/ InUse(s) # Pages(s)
                    /\ Reclaim(me, s, F, "fresh",
                         /\ pc' = IF reclaimed THEN "delay_alloc" ELSE "claim"
                         /\ cur' = [cur EXCEPT !.s =
                              IF reclaimed THEN NULL
                              ELSE Head(IF free_queue[me][cur.k] = <<>> THEN <<s>> ELSE free_queue[me][cur.k])])
      BY <2>6
    <3>1. ReclaimFields(me, s, F)
      BY <3>5 DEF Reclaim, ReclaimFields
    <3>2. CASE F = InUse(s)
      <4>1. pc' = "free" /\ cur' = [cur EXCEPT !.s = s, !.force = FALSE, !.ret = "fresh"]
            /\ UNCHANGED free_queue
        BY <2>6, <3>5, <3>2 DEF Reclaim
      <4> QED
        BY <2>1, <2>4, <2>6, <3>5, <3>1, <3>2, <4>1 DEF ReclaimStep, FreedEmpty
    <3>3. CASE F # InUse(s)
      <4>1. /\ pc' = IF reclaimed THEN "delay_alloc" ELSE "claim"
            /\ cur' = [cur EXCEPT !.s =
                 IF reclaimed THEN NULL
                 ELSE Head(IF free_queue[me][cur.k] = <<>> THEN <<s>> ELSE free_queue[me][cur.k])]
            /\ ReclaimQueue(me, s)
        BY <2>6, <3>5, <3>3 DEF Reclaim, ReclaimQueue
      <4>2. CASE reclaimed
        BY <2>1, <2>6, <3>5, <3>1, <3>3, <4>1, <4>2 DEF ReclaimStep, TookPage
      <4>3. CASE ~reclaimed
        <5>1. cur.k \in Queued
          <6>1. SUFFICES ASSUME cur.k \notin Queued
                         PROVE  FALSE
            OBVIOUS
          <6>2. Pages(s) = {0}
            BY <2>6, <3>5, <6>1, CapacityAssumption DEF TypeOK, Call, PageKind, Queued, Pages
          <6>3. InUse(s) \subseteq {0}
            BY <6>2 DEF InUse
          <6> QED
            BY <2>6, <3>5, <3>3, <4>3, <6>2, <6>3
        <5> QED
          BY <2>1, <2>6, <3>5, <3>1, <3>3, <4>1, <4>3, <5>1 DEF ReclaimStep, TookSegment
      <4> QED
        BY <4>2, <4>3
    <3> QED
      BY <3>2, <3>3
  <2>7. CASE Passes(s, F, E)
    <3>1. ReclaimFields(me, s, F)
      BY <2>7 DEF Reclaim, ReclaimFields
    <3>2. CASE F = InUse(s)
      <4>1. pc' = "free" /\ cur' = [cur EXCEPT !.s = s, !.force = FALSE, !.ret = "try"]
            /\ UNCHANGED free_queue
        BY <2>7, <3>2 DEF Reclaim
      <4> QED
        BY <2>1, <3>1, <3>2, <4>1 DEF ReclaimStep, FreedEmpty
    <3>3. CASE F # InUse(s)
      <4>1. pc' = "try" /\ cur' = cur /\ ReclaimQueue(me, s)
        BY <2>7, <3>3 DEF Reclaim, ReclaimQueue
      <4> QED
        BY <2>1, <2>4, <2>7, <3>1, <3>3, <4>1 DEF ReclaimStep, PassedBy
    <3> QED
      BY <3>2, <3>3
  <2> HIDE DEF Empty, Fits, Passes
  <2> QED
    BY <2>3, <2>5, <2>6, <2>7
<1>2. ASSUME ReclaimAll
      PROVE  \/ \E s \in abandoned_list : \E F \in SUBSET InUse(s) : ReclaimStep(s, F)
             \/ /\ pc = "reclaim_all" /\ abandoned_list = {} /\ Finish
                /\ UNCHANGED <<option, segment, memory, abandoned_list, tld>>
  <2>1. CASE (\E s \in abandoned_list : \E F \in SUBSET InUse(s) :
                Reclaim(me, s, F, "reclaim_all", UNCHANGED <<pc, cur>>)) /\ UNCHANGED me
    <3>6. PICK s \in abandoned_list : \E F \in SUBSET InUse(s) :
                Reclaim(me, s, F, "reclaim_all", UNCHANGED <<pc, cur>>)
      BY <2>1
    <3>1. PICK F \in SUBSET InUse(s) : Reclaim(me, s, F, "reclaim_all", UNCHANGED <<pc, cur>>)
      BY <3>6
    <3>2. pc = "reclaim_all" /\ me' = me
      BY <1>2, <2>1 DEF ReclaimAll
    <3>3. ReclaimFields(me, s, F)
      BY <3>1 DEF Reclaim, ReclaimFields
    <3>4. CASE F = InUse(s)
      <4>1. pc' = "free" /\ cur' = [cur EXCEPT !.s = s, !.force = FALSE, !.ret = "reclaim_all"]
            /\ UNCHANGED free_queue
        BY <3>1, <3>4 DEF Reclaim
      <4> QED
        BY <3>2, <3>3, <3>4, <4>1 DEF ReclaimStep, FreedEmpty
    <3>5. CASE F # InUse(s)
      <4>1. pc' = pc /\ cur' = cur /\ ReclaimQueue(me, s)
        BY <3>1, <3>5 DEF Reclaim, ReclaimQueue
      <4> QED
        BY <3>2, <3>3, <3>5, <4>1 DEF ReclaimStep, PassedBy
    <3> QED
      BY <3>4, <3>5
  <2>2. CASE ~(\E s \in abandoned_list : \E F \in SUBSET InUse(s) :
                Reclaim(me, s, F, "reclaim_all", UNCHANGED <<pc, cur>>)) \/ me' # me
    BY <1>2, <2>2 DEF ReclaimAll
  <2> QED
    BY <2>1, <2>2
<1> QED
  BY <1>1, <1>2

\* An abandoned segment: it is mapped and not huge, nobody has it, and all
\* its pages in use are counted as abandoned.
LEMMA AbandonedIs ==
  ASSUME TypeOK, NEW s \in Segment, SegmentFields(s), s \in abandoned_list
  PROVE  /\ mapped[s] /\ kind[s] # "huge" /\ thread_id[s] = NULL
         /\ Orphans(s) = InUse(s)
         /\ used[s] = Cardinality(InUse(s)) /\ abandoned[s] = Cardinality(InUse(s))
<1>1. mapped[s] /\ kind[s] # "huge" /\ thread_id[s] = NULL
  BY DEF SegmentFields
<1>2. InUse(s) \subseteq Unit
  BY PageSets
<1>3. \A p \in InUse(s) : page[s][p].heap = NULL
  BY <1>1, <1>2 DEF SegmentFields
<1>4. Orphans(s) = InUse(s)
  BY <1>3 DEF Orphans
<1> QED
  BY <1>1, <1>4 DEF SegmentFields

\* mi_segments_track_size of one segment more or less
LEMMA TrackType ==
  ASSUME TypeOK, NEW t \in Thread, NEW n \in Int, Track(t, n), count[t] + n \in Nat
  PROVE  count' \in [Thread -> Nat] /\ peak_count' \in [Thread -> Nat]
BY DEF TypeOK, Track

\* mi_segment_reclaim keeps the types of what it counts and passes on.
LEMMA ReclaimType ==
  ASSUME TypeOK, NEW t \in Thread, NEW s \in abandoned_list, NEW F \in SUBSET InUse(s),
         s \in Segment, SegmentFields(s), ReclaimFields(t, s, F)
  PROVE  /\ thread_id' \in [Segment -> Thread \cup {NULL}]
         /\ count' \in [Thread -> Nat] /\ peak_count' \in [Thread -> Nat]
         /\ abandoned_list' \subseteq Segment
         /\ abandoned' \in [Segment -> Nat] /\ used' \in [Segment -> Nat]
         /\ page' \in [Segment -> [Unit -> Page]] /\ backed' \in [Segment -> SUBSET Unit]
         /\ pages_reset' \in [Thread -> Seq(Entry)]
<1> DEFINE pg == [p \in Unit |->
       IF p \in F THEN [page[s][p] EXCEPT !.in_use = FALSE, !.heap = NULL]
       ELSE IF p \in InUse(s) THEN [page[s][p] EXCEPT !.heap = t] ELSE page[s][p]]
<1>1. /\ InUse(s) \subseteq Unit /\ IsFiniteSet(InUse(s)) /\ Cardinality(InUse(s)) \in Nat
      /\ used[s] = Cardinality(InUse(s)) /\ abandoned[s] = Cardinality(InUse(s))
  BY PageSets, AbandonedIs
<1>2. IsFiniteSet(F) /\ Cardinality(F) <= Cardinality(InUse(s))
  BY <1>1, FS_Subset
<1>3. Cardinality(F) \in Nat
  BY <1>2, FS_CardinalityType
<1>4. used[s] - Cardinality(F) \in Nat /\ abandoned[s] - Cardinality(InUse(s)) \in Nat
  BY <1>1, <1>2, <1>3
<1>5. abandoned' \in [Segment -> Nat] /\ used' \in [Segment -> Nat]
  BY <1>4 DEF TypeOK, ReclaimFields
<1>6. count[t] + 1 \in Nat
  BY DEF TypeOK
<1>7. count' \in [Thread -> Nat] /\ peak_count' \in [Thread -> Nat]
  <2>1. Track(t, 1)
    BY Zenon DEF ReclaimFields
  <2> QED
    BY <1>6, <2>1, 1 \in Int, TrackType
<1>8. thread_id' \in [Segment -> Thread \cup {NULL}] /\ abandoned_list' \subseteq Segment
  BY DEF TypeOK, ReclaimFields
<1>9. pg \in [Unit -> Page]
  <2>1. \A p \in Unit : page[s][p] \in Page
    BY DEF TypeOK
  <2> QED
    BY <2>1 DEF Page
<1>10. ResetAdd(t, s, F, pg)
  BY DEF ReclaimFields
<1> HIDE DEF pg
<1>11. F \in SUBSET Unit
  BY <1>1
<1>12. /\ page' \in [Segment -> [Unit -> Page]] /\ backed' \in [Segment -> SUBSET Unit]
       /\ pages_reset' \in [Thread -> Seq(Entry)]
  BY <1>9, <1>10, <1>11, ResetAddType
<1> QED
  BY <1>5, <1>7, <1>8, <1>12

\* mi_segment_os_free of segments of the thread: the count goes down by their
\* number, which is that of its segments that are left.
LEMMA OsFreeCount ==
  ASSUME TypeOK, CountOwned, NEW t \in Thread, NEW S \in SUBSET Owned(t), NEW pg, NEW bk,
         OsFree(t, S, pg, bk)
  PROVE  /\ thread_id' \in [Segment -> Thread \cup {NULL}]
         /\ count' \in [Thread -> Nat] /\ CountOwned'
<1>1. thread_id' = [s \in Segment |-> IF s \in S THEN NULL ELSE thread_id[s]]
      /\ count' = [count EXCEPT ![t] = @ - Cardinality(S)]
  BY DEF OsFree
<1>2. IsFiniteSet(Owned(t)) /\ Cardinality(Owned(t)) \in Nat
  BY OwnedFinite
<1>3. IsFiniteSet(S) /\ Cardinality(S) <= Cardinality(Owned(t)) /\ Cardinality(S) \in Nat
  <2>1. IsFiniteSet(S) /\ Cardinality(S) <= Cardinality(Owned(t))
    BY <1>2, FS_Subset
  <2> QED
    BY <2>1, FS_CardinalityType
<1>4. Cardinality(Owned(t) \ S) = Cardinality(Owned(t)) - Cardinality(S)
  <2>1. Owned(t) \cap S = S
    OBVIOUS
  <2>2. Cardinality(Owned(t) \ S) = Cardinality(Owned(t)) - Cardinality(Owned(t) \cap S)
    BY <1>2, FS_Difference
  <2> QED
    BY <2>1, <2>2
<1>5. Owned(t)' = Owned(t) \ S
  BY <1>1, NULLAssumption DEF Owned
<1>6. \A r \in Thread : r # t => Owned(r)' = Owned(r)
  BY <1>1, NULLAssumption DEF Owned
<1>7. count' \in [Thread -> Nat]
  BY <1>1, <1>2, <1>3 DEF TypeOK, CountOwned
<1>8. ASSUME NEW r \in Thread
      PROVE  count'[r] = Cardinality(Owned(r)')
  <2>1. CASE r = t
    BY <1>1, <1>4, <1>5, <2>1 DEF TypeOK, CountOwned
  <2>2. CASE r # t
    BY <1>1, <1>6, <2>2 DEF TypeOK, CountOwned
  <2> QED
    BY <2>1, <2>2
<1>9. CountOwned'
  BY <1>8 DEF CountOwned
<1>10. thread_id' \in [Segment -> Thread \cup {NULL}]
  BY <1>1 DEF TypeOK
<1> QED
  BY <1>7, <1>9, <1>10

\* mi_segment_os_free keeps the types of the fields.
LEMMA OsFreeType ==
  ASSUME TypeOK, NEW t \in Thread, NEW S,
         NEW pg \in [Segment -> [Unit -> Page]], NEW bk \in [Segment -> SUBSET Unit], OsFree(t, S, pg, bk)
  PROVE  /\ mapped' \in [Segment -> BOOLEAN] /\ kind' \in [Segment -> PageKind]
         /\ mem_is_fixed' \in [Segment -> BOOLEAN]
         /\ page' \in [Segment -> [Unit -> Page]] /\ backed' \in [Segment -> SUBSET Unit]
<1>1. page' = [s \in Segment |-> IF s \in S THEN NoPages ELSE pg[s]] /\ backed' = bk
  BY DEF OsFree
<1>2. page' \in [Segment -> [Unit -> Page]]
  BY <1>1, TypeParts
<1>3. mapped' \in [Segment -> BOOLEAN] /\ mem_is_fixed' \in [Segment -> BOOLEAN]
  BY DEF OsFree, TypeOK
<1>4. kind' \in [Segment -> PageKind]
  BY DEF OsFree, TypeOK, PageKind
<1> QED
  BY <1>1, <1>2, <1>3, <1>4

\* the pages and the memory of a segment that is reset when it is given up
LEMMA PagesResetType ==
  ASSUME TypeOK, NEW s \in Segment, NEW force \in BOOLEAN
  PROVE  /\ PagesReset(s, force) \in [Segment -> [Unit -> Page]]
         /\ MemoryReset(s, force) \in [Segment -> SUBSET Unit]
         /\ \A r \in Segment : r # s => PagesReset(s, force)[r] = page[r] /\ MemoryReset(s, force)[r] = backed[r]
         /\ \A p \in Unit : PagesReset(s, force)[s][p] =
              IF force /\ p \in Removed(s) /\ Resettable(s, p) THEN [page[s][p] EXCEPT !.reset = TRUE]
                                                               ELSE page[s][p]
         /\ MemoryReset(s, force)[s] =
              IF force THEN ResetMemory(s, {p \in Removed(s) : Resettable(s, p)}) ELSE backed[s]
<1> DEFINE pg == [p \in Unit |->
      IF force /\ p \in Removed(s) /\ Resettable(s, p) THEN [page[s][p] EXCEPT !.reset = TRUE]
                                                       ELSE page[s][p]]
           b == IF force THEN ResetMemory(s, {p \in Removed(s) : Resettable(s, p)}) ELSE backed[s]
<1>1. \A p \in Unit : page[s][p] \in Page
  BY DEF TypeOK
<1>2. pg \in [Unit -> Page]
  BY <1>1 DEF Page
<1>3. PagesReset(s, force) = [page EXCEPT ![s] = pg] /\ MemoryReset(s, force) = [backed EXCEPT ![s] = b]
  BY DEF PagesReset, MemoryReset, TypeOK
<1>4. b \in SUBSET Unit
  BY TypeParts DEF TypeOK
<1>5. \A p \in Unit : pg[p] =
         IF force /\ p \in Removed(s) /\ Resettable(s, p) THEN [page[s][p] EXCEPT !.reset = TRUE]
                                                          ELSE page[s][p]
  OBVIOUS
<1>6. b = IF force THEN ResetMemory(s, {p \in Removed(s) : Resettable(s, p)}) ELSE backed[s]
  OBVIOUS
<1> HIDE DEF pg, b
<1>7. /\ [page EXCEPT ![s] = pg][s] = pg /\ [backed EXCEPT ![s] = b][s] = b
      /\ \A r \in Segment : r # s => [page EXCEPT ![s] = pg][r] = page[r] /\ [backed EXCEPT ![s] = b][r] = backed[r]
  BY DEF TypeOK
<1>8. [page EXCEPT ![s] = pg] \in [Segment -> [Unit -> Page]] /\ [backed EXCEPT ![s] = b] \in [Segment -> SUBSET Unit]
  BY <1>2, <1>4, TypeParts
<1> QED
  BY <1>3, <1>5, <1>6, <1>7, <1>8

\* The entries up to Waiting(t) stay in the queue, and those behind it have expired.
LEMMA WaitingIs ==
  ASSUME TypeOK, NEW t \in Thread
  PROVE  /\ Waiting(t) \in 0 .. Len(pages_reset[t])
         /\ \A i \in DOMAIN pages_reset[t] : pages_reset[t][i].late < 0 => i <= Waiting(t)
<1> DEFINE n == Len(pages_reset[t])
           K == {i \in DOMAIN pages_reset[t] : pages_reset[t][i].late < 0}
<1>1. n \in Nat /\ DOMAIN pages_reset[t] = 1 .. n /\ K \in SUBSET (1 .. n)
  BY QueueTypes
<1>2. Waiting(t) = IF K = {} THEN 0 ELSE CHOOSE i \in K : \A j \in K : j <= i
  BY DEF Waiting
<1>3. CASE K = {}
  BY <1>1, <1>2, <1>3
<1>4. CASE K # {}
  <2> HIDE DEF K, n
  <2>1. PICK i \in K : Rank(K, i) = Cardinality(K)
    <3>1. /\ IsFiniteSet(K) /\ Cardinality(K) \in Nat
          /\ \A m \in 1 .. Cardinality(K) : \E j \in K : Rank(K, j) = m
      BY <1>1, RankIsBijection
    <3>2. Cardinality(K) # 0
      BY <1>4, <3>1, FS_EmptySet
    <3>3. Cardinality(K) \in 1 .. Cardinality(K)
      BY <3>1, <3>2
    <3> QED
      BY <3>1, <3>3
  <2>2. \A j \in K : j <= i
    <3>1. /\ \A j \in K : Rank(K, j) \in 1 .. Cardinality(K)
          /\ \A j \in K : i < j => Rank(K, i) < Rank(K, j)
          /\ Cardinality(K) \in Nat
      BY <1>1, RankIsBijection
    <3>2. \A j \in K : ~(i < j)
      BY <2>1, <3>1
    <3>3. \A j \in K : j \in Int
      BY <1>1
    <3> QED
      BY <3>2, <3>3
  <2>3. Waiting(t) \in K /\ \A j \in K : j <= Waiting(t)
    BY <1>2, <1>4, <2>2
  <2>4. \A j \in DOMAIN pages_reset[t] : pages_reset[t][j].late < 0 => j \in K
    BY DEF K
  <2>5. Waiting(t) \in 0 .. n
    <3>1. \A j \in 1 .. n : j \in 0 .. n
      BY <1>1
    <3>2. Waiting(t) \in 1 .. n
      BY <1>1, <2>3
    <3> QED
      BY <3>1, <3>2
  <2>6. \A j \in DOMAIN pages_reset[t] : pages_reset[t][j].late < 0 => j <= Waiting(t)
    BY <2>3, <2>4
  <2> QED
    BY <2>5, <2>6 DEF n
<1> QED
  BY <1>3, <1>4

\* mi_reset_delayed: some pages that are free and committed are reset
LEMMA ResetDelayedDoes ==
  ASSUME TypeOK, ResetDelayed
  PROVE  /\ page' \in [Segment -> [Unit -> Page]] /\ backed' \in [Segment -> SUBSET Unit]
         /\ pages_reset' \in [Thread -> Seq(Entry)]
         /\ \A s \in Segment : OnlyResets(s)
<1>1. me \in Thread
  BY DEF TypeOK, ResetDelayed, After
<1>2. CASE ~option.page_reset
  BY <1>2 DEF ResetDelayed, TypeOK, OnlyResets
<1>3. CASE option.page_reset
  <2> DEFINE R == [s \in Segment |-> {p \in Expired(me, s) : Resettable(s, p)}]
             pg == [s \in Segment |-> [p \in Unit |->
                      IF p \in R[s] THEN [page[s][p] EXCEPT !.reset = TRUE] ELSE page[s][p]]]
  <2>1. page' = pg /\ backed' = [s \in Segment |-> ResetMemory(s, R[s])]
        /\ pages_reset' = [pages_reset EXCEPT ![me] = SubSeq(@, 1, Waiting(me))]
    BY <1>3 DEF ResetDelayed
  <2>2. \A s \in Segment, p \in Unit : page[s][p] \in Page
    BY DEF TypeOK
  <2>3. pg \in [Segment -> [Unit -> Page]]
    BY <2>2, ZenonT(60) DEF Page
  <2>4. \A s \in Segment : OnlyResets(s)
    BY <2>1 DEF OnlyResets, Resettable
  <2>5. backed' \in [Segment -> SUBSET Unit]
    <3> HIDE DEF R
    <3> QED
      BY <2>1, TypeParts
  <2>6. Waiting(me) \in 0 .. Len(pages_reset[me])
    BY <1>1, WaitingIs
  <2>7. SubSeq(pages_reset[me], 1, Waiting(me)) \in Seq(Entry)
    BY <1>1, <2>6, QueueTypes
  <2>8. pages_reset' \in [Thread -> Seq(Entry)]
    BY <1>1, <2>1, <2>7, TypeParts
  <2> QED
    BY <2>1, <2>3, <2>4, <2>5, <2>8
<1> QED
  BY <1>2, <1>3

\* mi_segment_alloc got segment s: does it commit the memory, and what it sets
FreshCommit(s, anew, large) == Eager(me, cur.k) \/ (~anew /\ backed[s] = Unit) \/ large
FreshOf(s, anew, large) ==
  /\ ~mapped[s]
  /\ mapped' = [mapped EXCEPT ![s] = TRUE]
  /\ backed' = [backed EXCEPT ![s] = IF FreshCommit(s, anew, large) THEN Unit ELSE IF anew THEN {} ELSE @]
  /\ known' = [known EXCEPT ![s] = Capacity[cur.k]]
  /\ mem_is_fixed' = [mem_is_fixed EXCEPT ![s] = large]
  /\ kind' = [kind EXCEPT ![s] = cur.k]
  /\ used' = [used EXCEPT ![s] = 0] /\ abandoned' = [abandoned EXCEPT ![s] = 0]
  /\ page' = [page EXCEPT ![s] = NewPages(cur.k, FreshCommit(s, anew, large))]
  /\ IF cur.k = "huge"
       THEN /\ thread_id' = [thread_id EXCEPT ![s] = NULL]
            /\ peak_count' = [peak_count EXCEPT ![me] = IF count[me] + 1 > @ THEN count[me] + 1 ELSE @]
            /\ UNCHANGED count
       ELSE /\ thread_id' = [thread_id EXCEPT ![s] = me]
            /\ Track(me, 1)
  /\ IF cur.k \in Queued THEN free_queue' = [free_queue EXCEPT ![me][cur.k] = Append(@, s)]
                         ELSE UNCHANGED free_queue
  /\ cur' = [cur EXCEPT !.s = IF cur.k \in Queued /\ free_queue[me][cur.k] # <<>>
                               THEN Head(free_queue[me][cur.k]) ELSE s]
  /\ pc' = "claim"
  /\ UNCHANGED <<cache, pages_reset, status>>

\* mi_segment_alloc: there is no segment, or there is one that FreshOf describes.
LEMMA FreshSteps ==
  ASSUME Fresh
  PROVE  /\ pc = "fresh" /\ UNCHANGED <<option, abandoned_list, me>>
         /\ \/ pc' = "delay_alloc" /\ UNCHANGED <<segment, memory, tld, cur>>
            \/ \E s \in Segment, anew \in BOOLEAN, large \in BOOLEAN : FreshOf(s, anew, large)
<1>1. pc = "fresh" /\ UNCHANGED <<option, abandoned_list, me>>
  BY DEF Fresh
<1>2. CASE pc' = "delay_alloc" /\ UNCHANGED <<segment, memory, tld, cur>>
  BY <1>1, <1>2
<1>3. CASE ~(pc' = "delay_alloc" /\ UNCHANGED <<segment, memory, tld, cur>>)
  <2>1. \E s \in {x \in Segment : ~mapped[x]}, anew \in BOOLEAN, large \in BOOLEAN : FreshOf(s, anew, large)
    BY <1>3, ZenonT(60) DEF Fresh, FreshOf, FreshCommit
  <2> QED
    BY <1>1, <2>1
<1> QED
  BY <1>2, <1>3

\* mi_segment_init of segment s of the cache
ReuseMemory(t, k) ==
  LET s == Head(cache[t])
      R == {p \in Pages(s) : page[s][p].reset /\ (Eager(t, k) \/ ~option.reset_decommits)}
  IN  IF option.reset_decommits THEN backed[s] \cup AllUnits(s, R) ELSE backed[s]
CacheReuseOf(t, k, s) ==
  /\ pc = "idle" /\ status[t] = "alive" /\ k # "huge" /\ cache[t] # <<>> /\ s = Head(cache[t])
  /\ k \in Queued => free_queue[t][k] = <<>>
  /\ IF StillGood(s, k) THEN page' = page /\ backed' = backed
     ELSE page' = [page EXCEPT ![s] = NewPages(k, Eager(t, k))] /\ backed' = [backed EXCEPT ![s] = ReuseMemory(t, k)]
  /\ kind' = [kind EXCEPT ![s] = k]
  /\ thread_id' = [thread_id EXCEPT ![s] = t]
  /\ known' = [known EXCEPT ![s] = Capacity[k]]
  /\ IF k \in Queued THEN free_queue' = [free_queue EXCEPT ![t][k] = Append(@, s)]
                     ELSE UNCHANGED free_queue
  /\ cur' = [NoCall EXCEPT !.k = k, !.s = s]
  /\ cache' = [cache EXCEPT ![t] = Tail(@)]
  /\ pc' = "claim" /\ me' = t
  /\ UNCHANGED <<option, used, abandoned, mem_is_fixed, mapped,
                 abandoned_list, pages_reset, count, peak_count, status>>

\* mi_segment_init of a cached segment is CacheReuseOf of the head of the cache.
LEMMA CacheReuseDoes ==
  ASSUME TypeOK, NEW t \in Thread, NEW k, CacheReuse(t, k)
  PROVE  CacheReuseOf(t, k, Head(cache[t]))
<1> DEFINE s == Head(cache[t])
<1>1. s \in Segment
  BY QueueTypes DEF CacheReuse
<1>2. IF StillGood(s, k) THEN page' = page /\ backed' = backed
      ELSE page' = [page EXCEPT ![s] = NewPages(k, Eager(t, k))] /\ backed' = [backed EXCEPT ![s] = ReuseMemory(t, k)]
  <2>1. CASE StillGood(s, k)
    BY <2>1 DEF CacheReuse
  <2>2. CASE ~StillGood(s, k)
    <3> DEFINE R == {p \in Pages(s) : page[s][p].reset /\ (Eager(t, k) \/ ~option.reset_decommits)}
    <3>1. /\ page' = [page EXCEPT ![s] = NewPages(k, Eager(t, k))]
          /\ backed' = [backed EXCEPT ![s] = IF option.reset_decommits THEN @ \cup AllUnits(s, R) ELSE @]
      BY <2>2 DEF CacheReuse
    <3>2. backed[s] = backed[s] /\ ReuseMemory(t, k) = IF option.reset_decommits THEN backed[s] \cup AllUnits(s, R) ELSE backed[s]
      BY DEF ReuseMemory
    <3> HIDE DEF R, s
    <3>3. backed' = [backed EXCEPT ![s] = ReuseMemory(t, k)]
      BY <1>1, <3>1, <3>2 DEF TypeOK
    <3> QED
      BY <2>2, <3>1, <3>3
  <2> QED
    BY <2>1, <2>2
<1> HIDE DEF s
<1>3. /\ pc = "idle" /\ status[t] = "alive" /\ k # "huge" /\ cache[t] # <<>>
      /\ k \in Queued => free_queue[t][k] = <<>>
      /\ pc' = "claim" /\ me' = t
      /\ cache' = [cache EXCEPT ![t] = Tail(@)]
      /\ UNCHANGED <<option, used, abandoned, mem_is_fixed, mapped,
                     abandoned_list, pages_reset, count, peak_count, status>>
  BY DEF CacheReuse, CachePop
<1>4. /\ kind' = [kind EXCEPT ![s] = k]
      /\ thread_id' = [thread_id EXCEPT ![s] = t]
      /\ known' = [known EXCEPT ![s] = Capacity[k]]
      /\ IF k \in Queued THEN free_queue' = [free_queue EXCEPT ![t][k] = Append(@, s)]
                         ELSE UNCHANGED free_queue
      /\ cur' = [NoCall EXCEPT !.k = k, !.s = s]
  BY DEF CacheReuse, s
<1>5. CacheReuseOf(t, k, s)
  BY <1>2, <1>3, <1>4 DEF CacheReuseOf, s
<1> QED
  BY <1>5 DEF s

\* mi_segment_page_claim of page p of segment s
ClaimOf(s, p) ==
  /\ p \in Pages(s) \ InUse(s)
  /\ page' = [page EXCEPT ![s][p] = [in_use |-> TRUE, committed |-> TRUE, reset |-> FALSE,
                                     heap |-> IF kind[s] = "huge" THEN NULL ELSE me]]
  /\ \/ NeedsCommit(s, p) /\ backed' = [backed EXCEPT ![s] = @ \cup UnitsOf(s, p)]
     \/ /\ NeedsCommit(s, p) => page[s][p].committed /\ option.commit_fails
        /\ UNCHANGED backed
  /\ used' = [used EXCEPT ![s] = @ + 1]
  /\ pages_reset' = [pages_reset EXCEPT ![me] = Without(@, EntriesAt(me, s, p))]
  /\ IF used[s] + 1 = Capacity[kind[s]] /\ kind[s] \in Queued THEN Dequeue(me, s) ELSE UNCHANGED free_queue

\* mi_segment_page_claim takes a page, or the OS refused and nothing changed.
LEMMA ClaimSteps ==
  ASSUME Claim
  PROVE  /\ pc = "claim" /\ pc' = "delay_alloc"
         /\ UNCHANGED <<option, kind, abandoned, thread_id, mem_is_fixed, mapped, known,
                        abandoned_list, cache, count, peak_count, status, me, cur>>
         /\ \/ \E p \in Pages(cur.s) \ InUse(cur.s) : ClaimOf(cur.s, p)
            \/ option.commit_fails /\ UNCHANGED <<page, backed, used, pages_reset, free_queue>>
<1>1. /\ pc = "claim" /\ pc' = "delay_alloc"
      /\ UNCHANGED <<option, kind, abandoned, thread_id, mem_is_fixed, mapped, known,
                        abandoned_list, cache, count, peak_count, status, me, cur>>
  BY DEF Claim
<1>2. CASE option.commit_fails /\ UNCHANGED <<page, backed, used, pages_reset, free_queue>>
  BY <1>1, <1>2
<1>3. CASE ~(option.commit_fails /\ UNCHANGED <<page, backed, used, pages_reset, free_queue>>)
  <2>1. \E p \in Pages(cur.s) \ InUse(cur.s) : ClaimOf(cur.s, p)
    BY <1>3 DEF Claim, ClaimOf, Refused
  <2> QED
    BY <1>1, <2>1
<1> QED
  BY <1>2, <1>3

\* A page of a segment gets a new value.
LEMMA PageSet ==
  ASSUME TypeOK, NEW s \in Segment, NEW p \in Unit, NEW pg \in Page
  PROVE  /\ [page EXCEPT ![s][p] = pg] \in [Segment -> [Unit -> Page]]
         /\ [page EXCEPT ![s][p] = pg][s][p] = pg
         /\ \A q \in Unit : q # p => [page EXCEPT ![s][p] = pg][s][q] = page[s][q]
         /\ \A r \in Segment : r # s => [page EXCEPT ![s][p] = pg][r] = page[r]
BY DEF TypeOK

\* mi_segment_free: what it gives back, with the segments of the cache that it purges
Purged(t) == {cache[t][i] : i \in 1 .. CachePurge(t)}
FreeToCache(s, force) ==
  /\ ~cur.force /\ kind[s] # "huge" /\ CacheRoom(me)
  /\ cache' = [cache EXCEPT ![me] = <<s>> \o @]
  /\ page' = PagesReset(s, force) /\ backed' = MemoryReset(s, force)
  /\ UNCHANGED <<thread_id, mapped, count, kind, mem_is_fixed>>
FreeToOs(s, force) ==
  \/ /\ ~cur.force /\ kind[s] # "huge" /\ ~CacheRoom(me)
     /\ cache' = [cache EXCEPT ![me] = SubSeq(@, CachePurge(me) + 1, Len(@))]
     /\ OsFree(me, {s} \cup Purged(me), PagesReset(s, force), MemoryReset(s, force))
  \/ /\ cur.force \/ kind[s] = "huge"
     /\ cache' = cache
     /\ OsFree(me, {s}, PagesReset(s, force), MemoryReset(s, force))

\* mi_segment_free does what FreeOf describes and goes back to its caller.
LEMMA SegmentFreeSteps ==
  ASSUME SegmentFree
  PROVE  /\ pc = "free"
         /\ pages_reset' = [pages_reset EXCEPT ![me] = QueueWithout(me, cur.s)]
         /\ Dequeue(me, cur.s)
         /\ IF cur.ret = "idle" THEN Finish
            ELSE pc' = cur.ret /\ cur' = [cur EXCEPT !.s = NULL] /\ me' = me
         /\ UNCHANGED <<option, used, abandoned, known, abandoned_list, peak_count, status>>
         /\ \E force \in BOOLEAN : FreeToCache(cur.s, force) \/ FreeToOs(cur.s, force)
<1>1. /\ pc = "free"
      /\ pages_reset' = [pages_reset EXCEPT ![me] = QueueWithout(me, cur.s)]
      /\ Dequeue(me, cur.s)
      /\ IF cur.ret = "idle" THEN Finish
         ELSE pc' = cur.ret /\ cur' = [cur EXCEPT !.s = NULL] /\ me' = me
      /\ UNCHANGED <<option, used, abandoned, known, abandoned_list, peak_count, status>>
  BY DEF SegmentFree
<1> DEFINE force == cur.force /\ option.abandoned_page_reset
<1>2. force \in BOOLEAN
  OBVIOUS
<1>3. FreeToCache(cur.s, force) \/ FreeToOs(cur.s, force)
  BY ZenonT(60) DEF SegmentFree, FreeToCache, FreeToOs, CachePush, Purged
<1> QED
  BY <1>1, <1>2, <1>3

\* how many segments the cache has to give up
LEMMA PurgeIs ==
  ASSUME TypeOK, NEW t \in Thread
  PROVE  /\ CachePurge(t) \in 0 .. Len(cache[t])
         /\ \A i \in 1 .. CachePurge(t) : i \in DOMAIN cache[t]
         /\ SubSeq(cache[t], CachePurge(t) + 1, Len(cache[t])) \in Seq(Segment)
         /\ Len(SubSeq(cache[t], CachePurge(t) + 1, Len(cache[t]))) = Len(cache[t]) - CachePurge(t)
         /\ \A i \in 1 .. Len(cache[t]) - CachePurge(t) :
              SubSeq(cache[t], CachePurge(t) + 1, Len(cache[t]))[i] = cache[t][CachePurge(t) + i]
<1> DEFINE n == Len(cache[t])
           m == CachePurge(t)
<1>1. n \in Nat /\ DOMAIN cache[t] = 1 .. n /\ option.segment_cache \in Nat
  BY QueueTypes DEF TypeOK, Option
<1>2. m = IF n > option.segment_cache THEN n - option.segment_cache ELSE 0
  BY DEF CachePurge
<1>3. m \in 0 .. n
  <2> HIDE DEF n, m
  <2> QED
    BY <1>1, <1>2
<1> HIDE DEF m
<1>4. \A i \in 1 .. m : i \in DOMAIN cache[t]
  BY <1>1, <1>3
<1> HIDE DEF n
<1>5. \A i \in m + 1 .. n : cache[t][i] \in Segment
  BY <1>1, <1>3, QueueTypes
<1>6. m + 1 \in Int /\ n \in Int
  BY <1>1, <1>3
<1>7. /\ SubSeq(cache[t], m + 1, n) \in Seq(Segment)
      /\ Len(SubSeq(cache[t], m + 1, n)) = IF m + 1 <= n THEN n - (m + 1) + 1 ELSE 0
      /\ \A i \in 1 .. n - (m + 1) + 1 : SubSeq(cache[t], m + 1, n)[i] = cache[t][(m + 1) + i - 1]
  BY <1>5, <1>6, SubSeqProperties
<1>8. /\ n - (m + 1) + 1 = n - m
      /\ (IF m + 1 <= n THEN n - (m + 1) + 1 ELSE 0) = n - m
      /\ \A i \in 1 .. n - m : (m + 1) + i - 1 = m + i
  BY <1>1, <1>3
<1>9. \A i \in 1 .. n - m : SubSeq(cache[t], m + 1, n)[i] = cache[t][m + i]
  BY <1>7, <1>8
<1> QED
  BY <1>3, <1>4, <1>7, <1>8, <1>9 DEF n, m

\* The cached segments of a thread are its own.
LEMMA PurgedOwned ==
  ASSUME FieldsInv, NEW t \in Thread
  PROVE  /\ Purged(t) \in SUBSET Owned(t)
         /\ \A s \in Purged(t) : Cached(s) /\ kind[s] # "huge" /\ InUse(s) = {}
<1>1. \A i \in 1 .. CachePurge(t) : i \in DOMAIN cache[t] /\ cache[t][i] \in Segment
  BY PurgeIs, QueueTypes DEF FieldsInv
<1> QED
  BY <1>1 DEF Purged, Cached, FieldsInv, CacheOwn, Owned

\* the page info that mi_segment_page_clear leaves
Cleared(s, p) == [page[s] EXCEPT ![p] = [@ EXCEPT !.in_use = FALSE, !.heap = NULL]]

\* mi_segment_page_clear clears the page and goes on in one of three ways.
LEMMA PageClearSteps ==
  ASSUME PageClear
  PROVE  /\ pc = "clear"
         /\ used' = [used EXCEPT ![cur.s] = used[cur.s] - 1]
         /\ ResetAdd(me, cur.s, {cur.p}, Cleared(cur.s, cur.p))
         /\ UNCHANGED <<option, kind, abandoned, thread_id, mem_is_fixed, mapped, known, abandoned_list,
                        cache, count, peak_count, status>>
         /\ \/ /\ used[cur.s] - 1 = 0 /\ pc' = "free" /\ UNCHANGED <<me, cur, free_queue>>
            \/ /\ used[cur.s] - 1 # 0 /\ used[cur.s] - 1 = abandoned[cur.s]
               /\ pc' = "delay_abandon" /\ UNCHANGED <<me, cur, free_queue>>
            \/ /\ used[cur.s] - 1 # 0 /\ used[cur.s] - 1 # abandoned[cur.s]
               /\ Finish
               /\ IF used[cur.s] - 1 + 1 = Capacity[kind[cur.s]] THEN Enqueue(me, cur.s) ELSE UNCHANGED free_queue
<1>1. /\ pc = "clear"
      /\ used' = [used EXCEPT ![cur.s] = used[cur.s] - 1]
      /\ ResetAdd(me, cur.s, {cur.p}, Cleared(cur.s, cur.p))
      /\ UNCHANGED <<option, kind, abandoned, thread_id, mem_is_fixed, mapped, known, abandoned_list,
                     cache, count, peak_count, status>>
  BY DEF PageClear, Cleared
<1>2. IF AfterClear(cur.s, used[cur.s] - 1) = "idle"
        THEN /\ IF WasFull(cur.s, used[cur.s] - 1) THEN Enqueue(me, cur.s) ELSE UNCHANGED free_queue
             /\ Finish
        ELSE pc' = AfterClear(cur.s, used[cur.s] - 1) /\ UNCHANGED <<me, cur, free_queue>>
  BY DEF PageClear
<1>3. \/ /\ used[cur.s] - 1 = 0 /\ pc' = "free" /\ UNCHANGED <<me, cur, free_queue>>
      \/ /\ used[cur.s] - 1 # 0 /\ used[cur.s] - 1 = abandoned[cur.s]
         /\ pc' = "delay_abandon" /\ UNCHANGED <<me, cur, free_queue>>
      \/ /\ used[cur.s] - 1 # 0 /\ used[cur.s] - 1 # abandoned[cur.s]
         /\ Finish
         /\ IF used[cur.s] - 1 + 1 = Capacity[kind[cur.s]] THEN Enqueue(me, cur.s) ELSE UNCHANGED free_queue
  BY <1>2 DEF AfterClear, WasFull
<1> QED
  BY <1>1, <1>3

\* The page that is cleared, in a segment that is the thread's.
LEMMA ClearFacts ==
  ASSUME FieldsInv, pc \in {"delay_free", "clear"}
  PROVE  /\ cur.s \in Segment /\ me \in Thread /\ cur.p \in Unit /\ cur.p \in InUse(cur.s)
         /\ mapped[cur.s] /\ thread_id[cur.s] = me /\ ~Cached(cur.s)
         /\ kind[cur.s] # "huge" => page[cur.s][cur.p].heap # NULL
         /\ used[cur.s] = Cardinality(InUse(cur.s)) /\ used[cur.s] \in Nat \ {0}
         /\ Cardinality(InUse(cur.s) \ {cur.p}) = used[cur.s] - 1
<1>1. /\ cur.s \in Segment /\ me \in Thread /\ cur.p \in Unit /\ cur.p \in InUse(cur.s)
      /\ thread_id[cur.s] = me /\ ~Cached(cur.s) /\ TypeOK
      /\ (kind[cur.s] # "huge" => page[cur.s][cur.p].heap # NULL) /\ SegmentFields(cur.s)
  BY DEF FieldsInv, Role, TypeOK, Call, Freeing, Abandoning
<1>2. mapped[cur.s] /\ used[cur.s] = Cardinality(InUse(cur.s))
  BY <1>1, NULLAssumption DEF SegmentFields
<1>3. IsFiniteSet(InUse(cur.s)) /\ Cardinality(InUse(cur.s)) \in Nat
  BY <1>1, PageSets
<1>4. Cardinality(InUse(cur.s)) # 0
  BY <1>1, <1>3, FS_EmptySet
<1>5. Cardinality(InUse(cur.s) \ {cur.p}) = Cardinality(InUse(cur.s)) - 1
  BY <1>1, <1>3, FS_RemoveElement
<1> QED
  BY <1>1, <1>2, <1>3, <1>4, <1>5

\* The types hold at the start.
LEMMA TypeInit == Init => TypeOK
<1> SUFFICES ASSUME Init
             PROVE  TypeOK
  OBVIOUS
<1>1. option \in Option
  BY OptionAssumption DEF Init
<1>2. page \in [Segment -> [Unit -> Page]] /\ cur \in Call
  <2>1. FreePage \in Page /\ NoPages \in [Unit -> Page]
    BY DEF FreePage, NoPages, Page
  <2>2. NoCall \in Call
    BY CapacityFacts DEF NoCall, Call, PageKind
  <2> QED
    BY <2>1, <2>2 DEF Init
<1>3. known \in [Segment -> 1 .. Units]
  BY CapacityFacts DEF Init
<1>4. kind \in [Segment -> PageKind]
  BY DEF Init, PageKind
<1> QED
  BY <1>1, <1>2, <1>3, <1>4 DEF Init, TypeOK, Label

\* Every step keeps the types.
LEMMA TypeStep ==
  ASSUME FieldsInv, [Next]_vars
  PROVE  TypeOK'
<1> USE DEF segment, memory, tld
<1>1. TypeOK /\ CountOwned /\ \A s \in Segment : SegmentFields(s)
  BY DEF FieldsInv
<1>2. NoCall \in Call /\ NoCall.s = NULL /\ NoPages \in [Unit -> Page] /\ FreePage \in Page
  BY <1>1, TypeParts DEF NoCall
<1>3. "idle" \in Label /\ "try" \in Label /\ "fresh" \in Label /\ "claim" \in Label /\ "clear" \in Label
      /\ "free" \in Label /\ "abandon" \in Label /\ "reclaim_all" \in Label
      /\ "delay_alloc" \in Label /\ "delay_free" \in Label /\ "delay_abandon" \in Label
  BY DEF Label
<1>4. ASSUME NEW t \in Thread, NEW k \in Kinds, AllocStart(t, k)
      PROVE  TypeOK'
  <2>1. k \in PageKind
    BY OptionAssumption
  <2>2. k \in Queued /\ free_queue[t][k] # <<>> => Head(free_queue[t][k]) \in Segment
    BY <1>1, QueueTypes
  <2>3. pc' \in Label /\ me' \in Thread /\ cur' \in Call /\ (pc' = "claim" => cur'.s \in Segment)
        /\ pc' \in {"try", "fresh", "claim"}
    BY <1>1, <1>2, <1>3, <1>4, <2>1, <2>2 DEF AllocStart, Call
  <2>4. UNCHANGED <<option, segment, memory, abandoned_list, tld>>
    BY <1>4 DEF AllocStart
  <2> QED
    BY <1>1, <2>3, <2>4 DEF TypeOK
<1>5. ASSUME NEW t \in Thread, NEW k \in Kinds, CacheReuse(t, k)
      PROVE  TypeOK'
  <2> DEFINE s == Head(cache[t])
  <2>1. k \in PageKind /\ Capacity[k] \in 1 .. Units
    BY OptionAssumption, CapacityFacts
  <2>2. s \in Segment /\ Tail(cache[t]) \in Seq(Segment)
    BY <1>1, <1>5, QueueTypes DEF CacheReuse
  <2>3. NewPages(k, Eager(t, k)) \in [Unit -> Page]
    <3>1. Eager(t, k) \in BOOLEAN
      BY DEF Eager
    <3> QED
      BY <1>1, <3>1, TypeParts
  <2>4. ReuseMemory(t, k) \in SUBSET Unit
    BY <1>1, <2>2, TypeParts DEF TypeOK, ReuseMemory
  <2>5. CacheReuseOf(t, k, s)
    BY <1>1, <1>5, CacheReuseDoes
  <2> HIDE DEF s
  <2>6. page' \in [Segment -> [Unit -> Page]] /\ backed' \in [Segment -> SUBSET Unit]
    <3>1. [page EXCEPT ![s] = NewPages(k, Eager(t, k))] \in [Segment -> [Unit -> Page]]
      BY <1>1, <2>2, <2>3, TypeParts
    <3>2. [backed EXCEPT ![s] = ReuseMemory(t, k)] \in [Segment -> SUBSET Unit]
      BY <1>1, <2>2, <2>4, TypeParts
    <3>3. page \in [Segment -> [Unit -> Page]] /\ backed \in [Segment -> SUBSET Unit]
      BY <1>1 DEF TypeOK
    <3> QED
      BY <2>5, <3>1, <3>2, <3>3 DEF CacheReuseOf
  <2>7. free_queue' \in [Thread -> [Queued -> Seq(Segment)]]
    <3>1. k \in Queued => Append(free_queue[t][k], s) \in Seq(Segment)
      BY <1>1, <2>2, QueueTypes
    <3>2. free_queue \in [Thread -> [Queued -> Seq(Segment)]]
      BY <1>1 DEF TypeOK
    <3>3. CASE k \in Queued
      <4>1. free_queue' = [free_queue EXCEPT ![t][k] = Append(free_queue[t][k], s)]
        BY <2>5, <3>2, <3>3 DEF CacheReuseOf
      <4> QED
        BY <3>1, <3>2, <3>3, <4>1
    <3>4. CASE k \notin Queued
      BY <2>5, <3>2, <3>4 DEF CacheReuseOf
    <3> QED
      BY <3>3, <3>4
  <2>8. cache' \in [Thread -> Seq(Segment)]
    BY <1>1, <2>2, <2>5, TypeParts DEF CacheReuseOf
  <2>9. cur' \in Call /\ cur'.s \in Segment
    BY <1>2, <2>1, <2>2, <2>5 DEF Call, CacheReuseOf
  <2>10. /\ kind' \in [Segment -> PageKind] /\ thread_id' \in [Segment -> Thread \cup {NULL}]
         /\ known' \in [Segment -> 1 .. Units]
    BY <1>1, <2>1, <2>2, <2>5 DEF TypeOK, CacheReuseOf
  <2> QED
    BY <1>1, <1>3, <2>5, <2>6, <2>7, <2>8, <2>9, <2>10 DEF TypeOK, CacheReuseOf
<1>6. ASSUME NEW t \in Thread, PageFree(t)
      PROVE  TypeOK'
  <2>1. cur' \in Call /\ cur'.s \in Segment
    BY <1>2, <1>6 DEF PageFree, Call
  <2> QED
    BY <1>1, <1>3, <1>6, <2>1 DEF PageFree, TypeOK
<1>7. ASSUME NEW t \in Thread, HugeFree(t)
      PROVE  TypeOK'
  <2>4. PICK s \in Segment : /\ thread_id' = [thread_id EXCEPT ![s] = t]
                             /\ cur' = [NoCall EXCEPT !.s = s, !.force = TRUE]
    BY <1>7 DEF HugeFree
  <2>1. cur' \in Call /\ cur'.s \in Segment /\ thread_id' \in [Segment -> Thread \cup {NULL}]
    <3>1. cur' \in Call /\ cur'.s \in Segment
      BY <1>2, <2>4 DEF Call
    <3> QED
      BY <1>1, <2>4, <3>1 DEF TypeOK
  <2>2. count' \in [Thread -> Nat] /\ peak_count' \in [Thread -> Nat]
    <3>1. count[t] + 1 \in Nat /\ Track(t, 1)
      BY <1>1, <1>7 DEF HugeFree, TypeOK
    <3> QED
      BY <1>1, <3>1, 1 \in Int, TrackType
  <2>3. /\ UNCHANGED <<option, kind, used, abandoned, mem_is_fixed, page, memory, abandoned_list,
                       free_queue, cache, pages_reset, status>>
        /\ pc' = "delay_free" /\ me' = t
    BY <1>7 DEF HugeFree
  <2> QED
    BY <1>1, <1>3, <2>1, <2>2, <2>3 DEF TypeOK
<1>8. ASSUME NEW t \in Thread, PageAbandon(t)
      PROVE  TypeOK'
  <2>1. PICK s \in Segment, p \in Unit :
          /\ page' = [page EXCEPT ![s][p].heap = NULL]
          /\ abandoned' = [abandoned EXCEPT ![s] = @ + 1]
          /\ IF used[s] = abandoned[s] + 1
               THEN pc' = "delay_abandon" /\ me' = t /\ cur' = [NoCall EXCEPT !.s = s]
               ELSE UNCHANGED <<pc, me, cur>>
    BY <1>8 DEF PageAbandon
  <2>2. pc = "idle" /\ UNCHANGED <<option, kind, used, thread_id, mem_is_fixed, memory, abandoned_list, tld>>
    BY <1>8 DEF PageAbandon
  <2>3. page' \in [Segment -> [Unit -> Page]]
    <3>1. page[s][p] \in Page /\ page[s] \in [Unit -> Page]
      BY <1>1 DEF TypeOK
    <3>2. [page[s] EXCEPT ![p].heap = NULL] \in [Unit -> Page]
      BY <3>1 DEF Page
    <3>3. page' = [page EXCEPT ![s] = [page[s] EXCEPT ![p].heap = NULL]]
      BY <1>1, <2>1 DEF TypeOK
    <3> QED
      BY <1>1, <3>2, <3>3, TypeParts
  <2>4. abandoned' \in [Segment -> Nat]
    BY <1>1, <2>1 DEF TypeOK
  <2>5. [NoCall EXCEPT !.s = s] \in Call /\ [NoCall EXCEPT !.s = s].s \in Segment
    BY <1>2 DEF Call
  <2> QED
    BY <1>1, <1>3, <2>1, <2>2, <2>3, <2>4, <2>5 DEF TypeOK
<1>9. ASSUME NEW t \in Thread, ThreadCollect(t)
      PROVE  TypeOK'
  <2> DEFINE S == {cache[t][i] : i \in DOMAIN cache[t]}
  <2>1. OsFree(t, S, page, backed)
    BY <1>9 DEF ThreadCollect
  <2>2. S \in SUBSET Owned(t)
    BY <1>1, QueueTypes DEF FieldsInv, CacheOwn, Owned
  <2>3. page \in [Segment -> [Unit -> Page]] /\ backed \in [Segment -> SUBSET Unit]
    BY <1>1 DEF TypeOK
  <2> HIDE DEF S
  <2>4. /\ thread_id' \in [Segment -> Thread \cup {NULL}] /\ count' \in [Thread -> Nat]
        /\ mapped' \in [Segment -> BOOLEAN] /\ kind' \in [Segment -> PageKind]
        /\ mem_is_fixed' \in [Segment -> BOOLEAN]
        /\ page' \in [Segment -> [Unit -> Page]] /\ backed' \in [Segment -> SUBSET Unit]
    BY <1>1, <2>1, <2>2, <2>3, OsFreeCount, OsFreeType
  <2>5. /\ status' \in [Thread -> {"alive", "exiting", "gone"}] /\ cache' = [cache EXCEPT ![t] = <<>>]
        /\ UNCHANGED <<option, used, abandoned, known, abandoned_list, free_queue, pages_reset,
                       peak_count, pc, me, cur>>
    BY <1>1, <1>9 DEF ThreadCollect, TypeOK
  <2>6. cache' \in [Thread -> Seq(Segment)]
    BY <1>1, <2>5, TypeParts, <<>> \in Seq(Segment)
  <2> QED
    BY <1>1, <2>4, <2>5, <2>6 DEF TypeOK
<1>10. ASSUME NEW t \in Thread, ThreadExit(t)
       PROVE  TypeOK'
  BY <1>1, <1>10 DEF ThreadExit, TypeOK
<1>11. ASSUME NEW t \in Thread, ThreadStart(t)
       PROVE  TypeOK'
  <2>1. cache' \in [Thread -> Seq(Segment)] /\ pages_reset' \in [Thread -> Seq(Entry)]
    <3>1. cache' = [cache EXCEPT ![t] = <<>>] /\ pages_reset' = [pages_reset EXCEPT ![t] = <<>>]
      BY <1>11 DEF ThreadStart
    <3>2. <<>> \in Seq(Segment) /\ <<>> \in Seq(Entry)
      OBVIOUS
    <3> QED
      BY <1>1, <3>1, <3>2, TypeParts
  <2>2. free_queue' \in [Thread -> [Queued -> Seq(Segment)]]
    BY <1>1, <1>11 DEF ThreadStart, TypeOK
  <2>3. /\ count' \in [Thread -> Nat] /\ peak_count' \in [Thread -> Nat]
        /\ status' \in [Thread -> {"alive", "exiting", "gone"}]
        /\ UNCHANGED <<option, segment, memory, abandoned_list, pc, me, cur>>
    BY <1>1, <1>11 DEF ThreadStart, TypeOK
  <2> QED
    BY <1>1, <2>1, <2>2, <2>3 DEF TypeOK
<1>12. ASSUME Fresh
       PROVE  TypeOK'
  <2>1. me \in Thread /\ pc = "fresh" /\ UNCHANGED <<option, abandoned_list, me>> /\ cur.k \in PageKind
    BY <1>1, <1>12 DEF Fresh, TypeOK, Call
  <2>2. CASE pc' = "delay_alloc" /\ UNCHANGED <<segment, memory, tld, cur>>
    BY <1>1, <1>3, <2>1, <2>2 DEF TypeOK
  <2>3. CASE ~(pc' = "delay_alloc" /\ UNCHANGED <<segment, memory, tld, cur>>)
    <3> DEFINE k == cur.k
    <3>1. PICK s \in Segment, anew \in BOOLEAN, large \in BOOLEAN : FreshOf(s, anew, large)
      BY <1>12, <2>3, FreshSteps
    <3>10. FreshCommit(s, anew, large) \in BOOLEAN
      BY DEF FreshCommit
    <3>2. Capacity[k] \in 1 .. Units
      BY <2>1, CapacityFacts
    <3>3. NewPages(k, FreshCommit(s, anew, large)) \in [Unit -> Page]
      BY <1>1, <3>10, TypeParts
    <3>4. page' \in [Segment -> [Unit -> Page]]
      BY <1>1, <3>1, <3>3, TypeParts DEF FreshOf
    <3>5. backed' \in [Segment -> SUBSET Unit]
      BY <1>1, <3>1 DEF TypeOK, FreshOf
    <3>6. /\ mapped' \in [Segment -> BOOLEAN] /\ known' \in [Segment -> 1 .. Units]
          /\ mem_is_fixed' \in [Segment -> BOOLEAN] /\ kind' \in [Segment -> PageKind]
          /\ used' \in [Segment -> Nat] /\ abandoned' \in [Segment -> Nat]
      BY <1>1, <2>1, <3>1, <3>2 DEF TypeOK, FreshOf
    <3>7. /\ count' \in [Thread -> Nat] /\ peak_count' \in [Thread -> Nat]
          /\ thread_id' \in [Segment -> Thread \cup {NULL}]
      <4>1. CASE k = "huge"
        <5>1. count[me] \in Nat /\ peak_count[me] \in Nat
          BY <1>1, <2>1 DEF TypeOK
        <5>2. (IF count[me] + 1 > peak_count[me] THEN count[me] + 1 ELSE peak_count[me]) \in Nat
          BY <5>1
        <5> QED
          BY <5>2, <1>1, <2>1, <3>1, <4>1, ZenonT(60) DEF TypeOK, FreshOf
      <4>2. CASE k # "huge"
        <5>1. count[me] + 1 \in Nat /\ Track(me, 1)
          BY <1>1, <2>1, <3>1, <4>2 DEF TypeOK, FreshOf
        <5>2. count' \in [Thread -> Nat] /\ peak_count' \in [Thread -> Nat]
          BY <1>1, <2>1, <5>1, 1 \in Int, TrackType
        <5> QED
          BY <1>1, <2>1, <3>1, <4>2, <5>2 DEF TypeOK, FreshOf
      <4> QED
        BY <4>1, <4>2
    <3>8. free_queue' \in [Thread -> [Queued -> Seq(Segment)]] /\ cur' \in Call /\ cur'.s \in Segment
      <4>1. free_queue \in [Thread -> [Queued -> Seq(Segment)]] /\ cur \in Call
        BY <1>1 DEF TypeOK
      <4>2. k \in Queued => free_queue[me][k] \in Seq(Segment) /\ Append(free_queue[me][k], s) \in Seq(Segment)
        BY <2>1, <4>1
      <4>3. free_queue' \in [Thread -> [Queued -> Seq(Segment)]]
        <5>1. CASE k \in Queued
          <6>1. free_queue' = [free_queue EXCEPT ![me][k] = Append(free_queue[me][k], s)]
            BY <2>1, <3>1, <4>1, <5>1 DEF FreshOf
          <6> QED
            BY <2>1, <4>1, <4>2, <5>1, <6>1
        <5>2. CASE k \notin Queued
          BY <3>1, <4>1, <5>2 DEF FreshOf
        <5> QED
          BY <5>1, <5>2
      <4>4. k \in Queued /\ free_queue[me][k] # <<>> => Head(free_queue[me][k]) \in Segment
        BY <4>2
      <4>5. cur' \in Call /\ cur'.s \in Segment
        BY <3>1, <4>1, <4>4 DEF Call, FreshOf
      <4> QED
        BY <4>3, <4>5
    <3>9. cache' = cache /\ pages_reset' = pages_reset /\ status' = status /\ pc' = "claim"
      BY <3>1 DEF FreshOf
    <3> QED
      BY <1>1, <1>3, <2>1, <3>4, <3>5, <3>6, <3>7, <3>8, <3>9 DEF TypeOK
  <2> QED
    BY <2>2, <2>3
<1>13. ASSUME Claim
       PROVE  TypeOK'
  <2>1. cur.s \in Segment /\ me \in Thread
    BY <1>1, <1>13, ClaimSteps DEF TypeOK
  <2>2. /\ pc' = "delay_alloc"
        /\ UNCHANGED <<option, kind, abandoned, thread_id, mem_is_fixed, mapped, known,
                        abandoned_list, cache, count, peak_count, status, me, cur>>
    BY <1>13, ClaimSteps
  <2>3. CASE UNCHANGED <<page, backed, used, pages_reset, free_queue>>
    BY <1>1, <1>3, <2>1, <2>2, <2>3 DEF TypeOK
  <2>4. ASSUME NEW p \in Pages(cur.s) \ InUse(cur.s), ClaimOf(cur.s, p)
        PROVE  TypeOK'
    <3> DEFINE pg == [in_use |-> TRUE, committed |-> TRUE, reset |-> FALSE,
                      heap |-> IF kind[cur.s] = "huge" THEN NULL ELSE me]
    <3>1. p \in Unit
      BY <1>1, <2>1, PageSets
    <3>2. pg \in Page
      BY <2>1 DEF Page
    <3>3. page' = [page EXCEPT ![cur.s][p] = pg]
      BY <2>4 DEF ClaimOf
    <3> HIDE DEF pg
    <3>4. page' \in [Segment -> [Unit -> Page]]
      BY <1>1, <2>1, <3>1, <3>2, <3>3, PageSet
    <3>5. backed' \in [Segment -> SUBSET Unit]
      <4>1. UnitsOf(cur.s, p) \subseteq Unit
        BY <1>1, TypeParts DEF UnitsOf
      <4> QED
        BY <1>1, <2>1, <2>4, <4>1, ZenonT(60) DEF ClaimOf, TypeOK
    <3>6. used' \in [Segment -> Nat]
      BY <1>1, <2>1, <2>4 DEF ClaimOf, TypeOK
    <3>7. pages_reset' \in [Thread -> Seq(Entry)] /\ free_queue' \in [Thread -> [Queued -> Seq(Segment)]]
      <4>1. \A S : Without(pages_reset[me], S) \in Seq(Entry)
        BY <1>1, <2>1, QueueStepType
      <4>2. pages_reset' = [pages_reset EXCEPT ![me] = Without(pages_reset[me], EntriesAt(me, cur.s, p))]
        BY <1>1, <2>1, <2>4 DEF ClaimOf, TypeOK
      <4>3. Dequeue(me, cur.s) \/ free_queue' = free_queue
        BY <2>4 DEF ClaimOf
      <4>4. free_queue' \in [Thread -> [Queued -> Seq(Segment)]]
        BY <1>1, <2>1, <4>3, QueueStepType DEF TypeOK
      <4> QED
        BY <1>1, <2>1, <4>1, <4>2, <4>4, TypeParts
    <3> QED
      BY <1>1, <1>3, <2>1, <2>2, <3>4, <3>5, <3>6, <3>7 DEF TypeOK
  <2> QED
    BY <1>13, <2>3, <2>4, ClaimSteps
<1>14. ASSUME NEW s \in abandoned_list, NEW F \in SUBSET InUse(s), ReclaimStep(s, F), pc \in {"try", "reclaim_all"}
       PROVE  TypeOK'
  <2>1. s \in Segment /\ me \in Thread
    BY <1>1, <1>14 DEF TypeOK
  <2>2. /\ thread_id' \in [Segment -> Thread \cup {NULL}]
        /\ count' \in [Thread -> Nat] /\ peak_count' \in [Thread -> Nat]
        /\ abandoned_list' \subseteq Segment
        /\ abandoned' \in [Segment -> Nat] /\ used' \in [Segment -> Nat]
        /\ page' \in [Segment -> [Unit -> Page]] /\ backed' \in [Segment -> SUBSET Unit]
        /\ pages_reset' \in [Thread -> Seq(Entry)]
    BY <1>1, <1>14, <2>1, ReclaimType DEF ReclaimStep
  <2>3. UNCHANGED <<option, kind, mem_is_fixed, mapped, known, cache, status>> /\ me' = me
    BY <1>14 DEF ReclaimStep, ReclaimFields
  <2>4. free_queue' \in [Thread -> [Queued -> Seq(Segment)]]
    <3>1. free_queue' = free_queue \/ (Enqueue(me, s) /\ kind[s] \in Queued)
      BY <1>14 DEF ReclaimStep, FreedEmpty, TookPage, TookSegment, PassedBy, ReclaimQueue
    <3> QED
      BY <1>1, <2>1, <3>1, QueueStepType DEF TypeOK
  <2>5. pc' \in Label /\ cur' \in Call /\ (pc' \in {"free", "claim"} => cur'.s \in Segment)
        /\ pc' \in {"free", "claim", "delay_alloc", "try", "reclaim_all"}
    <3>1. cur \in Call
      BY <1>1 DEF TypeOK
    <3>2. CASE FreedEmpty(s, F)
      BY <1>3, <2>1, <3>1, <3>2 DEF FreedEmpty, Call
    <3>3. CASE TookPage(s, F)
      BY <1>3, <2>1, <3>1, <3>3 DEF TookPage, Call
    <3>4. CASE TookSegment(s, F)
      <4>1. cur.k \in Queued => free_queue[me][cur.k] \in Seq(Segment)
        BY <1>1, <2>1, QueueTypes
      <4>2. Head(IF free_queue[me][cur.k] = <<>> THEN <<s>> ELSE free_queue[me][cur.k]) \in Segment
        BY <2>1, <3>4, <4>1 DEF TookSegment
      <4> QED
        BY <1>3, <3>1, <3>4, <4>2 DEF TookSegment, Call
    <3>5. CASE PassedBy(s, F)
      BY <1>1, <3>1, <3>5 DEF PassedBy, TypeOK
    <3> QED
      BY <1>14, <3>2, <3>3, <3>4, <3>5 DEF ReclaimStep
  <2> QED
    BY <1>1, <2>1, <2>2, <2>3, <2>4, <2>5 DEF TypeOK
<1>15. ASSUME TryReclaim
       PROVE  TypeOK'
  BY <1>1, <1>14, <1>15, ReclaimSteps DEF TryReclaim
<1>16. ASSUME ReclaimAll
       PROVE  TypeOK'
  <2>1. CASE \E s \in abandoned_list : \E F \in SUBSET InUse(s) : ReclaimStep(s, F)
    BY <1>14, <1>16, <2>1 DEF ReclaimAll
  <2>2. CASE /\ pc = "reclaim_all" /\ abandoned_list = {} /\ Finish
             /\ UNCHANGED <<option, segment, memory, abandoned_list, tld>>
    BY <1>1, <1>2, <1>3, <2>2 DEF Finish, TypeOK
  <2> QED
    BY <1>1, <1>16, <2>1, <2>2, ReclaimSteps
<1>17. ASSUME TryEnd
       PROVE  TypeOK'
  BY <1>1, <1>3, <1>17 DEF TryEnd, TypeOK
<1>18. ASSUME ReclaimAllStart
       PROVE  TypeOK'
  BY <1>1, <1>2, <1>3, <1>18, NULLAssumption DEF ReclaimAllStart, TypeOK
<1>19. ASSUME PageClear
       PROVE  TypeOK'
  <2> DEFINE s == cur.s
  <2>1. /\ s \in Segment /\ me \in Thread /\ cur.p \in Unit /\ cur \in Call
        /\ used[s] \in Nat \ {0} /\ kind[s] \in PageKind
    BY <1>1, <1>19, PageClearSteps, ClearFacts DEF TypeOK
  <2>2. Cleared(s, cur.p) \in [Unit -> Page]
    <3>1. page[s] \in [Unit -> Page] /\ page[s][cur.p] \in Page
      BY <1>1, <2>1 DEF TypeOK
    <3> HIDE DEF s
    <3>2. [page[s][cur.p] EXCEPT !.in_use = FALSE, !.heap = NULL] \in Page
      BY <3>1 DEF Page
    <3> QED
      BY <3>1, <3>2 DEF Cleared
  <2>3. ResetAdd(me, s, {cur.p}, Cleared(s, cur.p)) /\ {cur.p} \in SUBSET Unit
    BY <1>19, <2>1, PageClearSteps
  <2>4. /\ page' \in [Segment -> [Unit -> Page]] /\ backed' \in [Segment -> SUBSET Unit]
        /\ pages_reset' \in [Thread -> Seq(Entry)]
    BY <1>1, <2>1, <2>2, <2>3, ResetAddType
  <2>5. used' \in [Segment -> Nat]
    <3>1. used' = [used EXCEPT ![s] = used[s] - 1]
      BY <1>19, PageClearSteps
    <3> QED
      BY <1>1, <2>1, <3>1 DEF TypeOK
  <2>6. /\ free_queue' \in [Thread -> [Queued -> Seq(Segment)]]
        /\ pc' \in Label /\ me' \in Thread \cup {NULL} /\ cur' \in Call
        /\ pc' # "idle" => me' \in Thread /\ cur'.s \in Segment
    <3>1. CASE UNCHANGED <<me, cur, free_queue>> /\ pc' \in {"free", "delay_abandon"}
      BY <1>1, <1>3, <2>1, <3>1 DEF TypeOK
    <3>2. CASE /\ used[s] - 1 # 0 /\ Finish
               /\ IF used[s] - 1 + 1 = Capacity[kind[s]] THEN Enqueue(me, s) ELSE UNCHANGED free_queue
      <4>1. used[s] - 1 + 1 = Capacity[kind[s]] => kind[s] \in Queued
        BY <2>1, <3>2, CapacityAssumption DEF PageKind, Queued
      <4>2. free_queue' \in [Thread -> [Queued -> Seq(Segment)]]
        BY <1>1, <2>1, <3>2, <4>1, QueueStepType DEF TypeOK
      <4> QED
        BY <1>2, <1>3, <3>2, <4>2 DEF Finish
    <3> QED
      BY <1>19, <3>1, <3>2, PageClearSteps
  <2>7. UNCHANGED <<option, kind, abandoned, thread_id, mem_is_fixed, mapped, known, abandoned_list,
                    cache, count, peak_count, status>>
    BY <1>19, PageClearSteps
  <2> QED
    BY <1>1, <2>4, <2>5, <2>6, <2>7 DEF TypeOK
<1>20. ASSUME SegmentFree
       PROVE  TypeOK'
  <2>1. /\ cur.s \in Segment /\ me \in Thread /\ cur \in Call
        /\ thread_id[cur.s] = me
    BY <1>1, <1>20, SegmentFreeSteps DEF TypeOK, FieldsInv, Role, Freeing
  <2>2. /\ pages_reset' = [pages_reset EXCEPT ![me] = QueueWithout(me, cur.s)]
        /\ Dequeue(me, cur.s)
        /\ IF cur.ret = "idle" THEN Finish
           ELSE pc' = cur.ret /\ cur' = [cur EXCEPT !.s = NULL] /\ me' = me
        /\ UNCHANGED <<option, used, abandoned, known, abandoned_list, peak_count, status>>
    BY <1>20, SegmentFreeSteps
  <2>3. PICK force \in BOOLEAN : FreeToCache(cur.s, force) \/ FreeToOs(cur.s, force)
    BY <1>20, SegmentFreeSteps
  <2>4. pages_reset' \in [Thread -> Seq(Entry)] /\ free_queue' \in [Thread -> [Queued -> Seq(Segment)]]
    <3>1. QueueWithout(me, cur.s) \in Seq(Entry)
      BY <1>1, <2>1, QueueStepType DEF QueueWithout
    <3> QED
      BY <1>1, <2>1, <2>2, <3>1, QueueStepType, TypeParts
  <2>5. /\ PagesReset(cur.s, force) \in [Segment -> [Unit -> Page]]
        /\ MemoryReset(cur.s, force) \in [Segment -> SUBSET Unit]
    BY <1>1, <2>1, PagesResetType
  <2>6. /\ thread_id' \in [Segment -> Thread \cup {NULL}] /\ count' \in [Thread -> Nat]
        /\ mapped' \in [Segment -> BOOLEAN] /\ kind' \in [Segment -> PageKind]
        /\ mem_is_fixed' \in [Segment -> BOOLEAN]
        /\ page' \in [Segment -> [Unit -> Page]] /\ backed' \in [Segment -> SUBSET Unit]
        /\ cache' \in [Thread -> Seq(Segment)]
    <3>1. CASE FreeToCache(cur.s, force)
      <4>1. <<cur.s>> \o cache[me] \in Seq(Segment)
        BY <1>1, <2>1, QueueTypes
      <4>2. cache' = [cache EXCEPT ![me] = <<cur.s>> \o cache[me]]
        BY <1>1, <2>1, <3>1 DEF FreeToCache, TypeOK
      <4>3. cache' \in [Thread -> Seq(Segment)]
        BY <1>1, <2>1, <4>1, <4>2, TypeParts
      <4> QED
        BY <1>1, <2>5, <3>1, <4>3 DEF FreeToCache, TypeOK
    <3>2. CASE FreeToOs(cur.s, force)
      <4>1. PICK S \in SUBSET Owned(me) : OsFree(me, S, PagesReset(cur.s, force), MemoryReset(cur.s, force))
        <5>1. Purged(me) \in SUBSET Owned(me) /\ cur.s \in Owned(me)
          BY <2>1, PurgedOwned DEF Owned
        <5> QED
          BY <3>2, <5>1 DEF FreeToOs
      <4>2. cache' \in [Thread -> Seq(Segment)]
        <5>1. SubSeq(cache[me], CachePurge(me) + 1, Len(cache[me])) \in Seq(Segment)
          BY <1>1, <2>1, PurgeIs
        <5>2. \/ cache' = [cache EXCEPT ![me] = SubSeq(cache[me], CachePurge(me) + 1, Len(cache[me]))]
              \/ cache' = cache
          BY <1>1, <2>1, <3>2 DEF FreeToOs, TypeOK
        <5>3. [cache EXCEPT ![me] = SubSeq(cache[me], CachePurge(me) + 1, Len(cache[me]))] \in [Thread -> Seq(Segment)]
          BY <1>1, <2>1, <5>1, TypeParts
        <5>4. cache \in [Thread -> Seq(Segment)]
          BY <1>1 DEF TypeOK
        <5> QED
          BY <5>2, <5>3, <5>4
      <4> QED
        BY <1>1, <2>1, <2>5, <4>1, <4>2, OsFreeCount, OsFreeType
    <3> QED
      BY <2>3, <3>1, <3>2
  <2>7. pc' \in Label /\ cur' \in Call /\ me' \in Thread \cup {NULL}
        /\ (pc' # "idle" => me' \in Thread) /\ pc' \in {"idle", "try", "fresh", "reclaim_all"}
    <3>1. cur.ret \in {"idle", "try", "fresh", "reclaim_all"}
      BY <2>1 DEF Call
    <3>2. [cur EXCEPT !.s = NULL] \in Call
      BY <2>1 DEF Call
    <3> QED
      BY <1>2, <1>3, <2>1, <2>2, <3>1, <3>2 DEF Finish
  <2> QED
    BY <1>1, <2>2, <2>4, <2>6, <2>7 DEF TypeOK
<1>21. ASSUME AbandonSegment
       PROVE  TypeOK'
  <2>1. cur.s \in Segment /\ me \in Thread /\ thread_id[cur.s] = me
    BY <1>1, <1>21 DEF TypeOK, FieldsInv, Role, Abandoning, AbandonSegment
  <2>2. page' \in [Segment -> [Unit -> Page]] /\ backed' \in [Segment -> SUBSET Unit]
    <3>1. option.abandoned_page_reset \in BOOLEAN
      BY <1>1 DEF TypeOK, Option
    <3> QED
      BY <1>1, <1>21, <2>1, <3>1, PagesResetType DEF AbandonSegment
  <2>3. pages_reset' \in [Thread -> Seq(Entry)] /\ free_queue' \in [Thread -> [Queued -> Seq(Segment)]]
    <3>1. QueueWithout(me, cur.s) \in Seq(Entry)
      BY <1>1, <2>1, QueueStepType DEF QueueWithout
    <3> QED
      BY <1>1, <1>21, <2>1, <3>1, QueueStepType, TypeParts DEF AbandonSegment
  <2>4. count' \in [Thread -> Nat] /\ peak_count' \in [Thread -> Nat]
    <3>1. Cardinality(Owned(me)) # 0
      BY <2>1, OwnedFinite, FS_EmptySet, ZenonT(60) DEF Owned
    <3>2. count[me] + (-1) \in Nat
      BY <1>1, <2>1, <3>1 DEF TypeOK, CountOwned
    <3>3. Track(me, -1)
      BY <1>21, Zenon DEF AbandonSegment
    <3> QED
      BY <1>1, <2>1, <3>2, <3>3, -1 \in Int, TrackType
  <2>5. thread_id' \in [Segment -> Thread \cup {NULL}] /\ abandoned_list' \subseteq Segment
    BY <1>1, <1>21, <2>1 DEF AbandonSegment, TypeOK
  <2>6. UNCHANGED <<option, kind, used, abandoned, mem_is_fixed, mapped, known, cache, status>> /\ Finish
    BY <1>21 DEF AbandonSegment
  <2> QED
    BY <1>1, <1>2, <1>3, <2>2, <2>3, <2>4, <2>5, <2>6 DEF TypeOK, Finish
<1>22. ASSUME ResetDelayed
       PROVE  TypeOK'
  <2>1. /\ page' \in [Segment -> [Unit -> Page]] /\ backed' \in [Segment -> SUBSET Unit]
        /\ pages_reset' \in [Thread -> Seq(Entry)]
    BY <1>1, <1>22, ResetDelayedDoes
  <2>2. /\ pc \in {"delay_alloc", "delay_free", "delay_abandon"}
        /\ IF pc = "delay_alloc" THEN Finish ELSE pc' = After[pc] /\ me' = me /\ cur' = cur
        /\ UNCHANGED <<option, kind, used, abandoned, thread_id, mem_is_fixed, mapped,
                 known, abandoned_list, free_queue, cache, count, peak_count, status>>
    BY <1>22 DEF ResetDelayed, After
  <2>3. After["delay_free"] = "clear" /\ After["delay_abandon"] = "abandon"
    BY DEF After
  <2> QED
    BY <1>1, <1>2, <1>3, <2>1, <2>2, <2>3 DEF TypeOK, Finish
<1>23. ASSUME Tick
       PROVE  TypeOK'
  <2>1. \A t \in Thread : pages_reset'[t] \in Seq(Entry)
    <3>1. SUFFICES ASSUME NEW t \in Thread
                   PROVE  pages_reset'[t] \in Seq(Entry)
      OBVIOUS
    <3>2. pages_reset'[t] = [i \in DOMAIN pages_reset[t] |->
            [pages_reset[t][i] EXCEPT !.late = IF @ < 0 THEN @ + 1 ELSE @]]
      BY <1>23 DEF Tick
    <3>3. \A i \in DOMAIN pages_reset[t] : pages_reset[t][i] \in Entry
      BY <1>1, QueueTypes
    <3>4. \A i \in DOMAIN pages_reset[t] :
            [pages_reset[t][i] EXCEPT !.late = IF @ < 0 THEN @ + 1 ELSE @] \in Entry
      BY <3>3 DEF Entry
    <3>5. DOMAIN pages_reset[t] = 1 .. Len(pages_reset[t]) /\ Len(pages_reset[t]) \in Nat
      BY <1>1, QueueTypes
    <3> QED
      BY <3>2, <3>4, <3>5
  <2>2. pages_reset' \in [Thread -> Seq(Entry)]
    BY <1>23, <2>1 DEF Tick
  <2> QED
    BY <1>1, <1>23, <2>2 DEF Tick, TypeOK
<1>24. ASSUME SetCache
       PROVE  TypeOK'
  <2>1. option' \in Option
    BY <1>1, <1>24 DEF SetCache, TypeOK, Option
  <2> QED
    BY <1>1, <1>24, <2>1 DEF SetCache, TypeOK
<1>25. CASE UNCHANGED vars
  BY <1>1, <1>25 DEF TypeOK, vars
<1> QED
  BY <1>4, <1>5, <1>6, <1>7, <1>8, <1>9, <1>10, <1>11, <1>12, <1>13, <1>15, <1>16, <1>17, <1>18,
     <1>19, <1>20, <1>21, <1>22, <1>23, <1>24, <1>25 DEF Next

-----------------------------------------------------------------------------
(***************************************************************************)
(* The fields of the segments.                                             *)
(***************************************************************************)

\* What mi_pages_reset_add does to the pages: those of the other segments stay,
\* and those of s are the given ones, some of them reset at once.
LEMMA ResetAddPages ==
  ASSUME TypeOK, NEW t \in Thread, NEW s \in Segment, NEW P \in SUBSET Unit,
         NEW pg \in [Unit -> Page], ResetAdd(t, s, P, pg)
  PROVE  /\ \A r \in Segment : r # s => page'[r] = page[r] /\ backed'[r] = backed[r]
         /\ \A p \in Unit : \/ page'[s][p] = pg[p]
                            \/ /\ p \in ToReset(s, P, pg) /\ option.reset_delay = 0
                               /\ page'[s][p] = [pg[p] EXCEPT !.reset = TRUE]
         /\ \A p \in Unit : /\ page'[s][p].in_use = pg[p].in_use /\ page'[s][p].heap = pg[p].heap
                            /\ page'[s][p].committed = pg[p].committed
                            /\ p \notin P => page'[s][p] = pg[p]
<1> DEFINE ok == ToReset(s, P, pg)
           new == [p \in Unit |-> IF p \in ok THEN [pg[p] EXCEPT !.reset = TRUE] ELSE pg[p]]
<1>1. ok \subseteq P
  BY DEF ToReset
<1>2. \A p \in Unit : pg[p] \in Page
  OBVIOUS
<1>3. CASE option.reset_delay = 0
  <2>1. page' = [page EXCEPT ![s] = new] /\ backed' = [backed EXCEPT ![s] = ResetMemory(s, ok)]
    BY <1>3 DEF ResetAdd
  <2>2. \A p \in Unit : new[p] = pg[p] \/ (p \in ok /\ new[p] = [pg[p] EXCEPT !.reset = TRUE])
    OBVIOUS
  <2> HIDE DEF new
  <2>3. page'[s] = new /\ \A r \in Segment : r # s => page'[r] = page[r] /\ backed'[r] = backed[r]
    BY <2>1 DEF TypeOK
  <2> HIDE DEF ok
  <2>4. \A p \in Unit : /\ new[p].in_use = pg[p].in_use /\ new[p].heap = pg[p].heap
                        /\ new[p].committed = pg[p].committed
                        /\ p \notin P => new[p] = pg[p]
    BY <1>1, <1>2, <2>2 DEF Page
  <2> QED
    BY <1>3, <2>2, <2>3, <2>4 DEF ok
<1>4. CASE option.reset_delay # 0
  <2>1. page' = [page EXCEPT ![s] = pg] /\ backed' = backed
    BY <1>4 DEF ResetAdd
  <2> QED
    BY <2>1 DEF TypeOK
<1> QED
  BY <1>3, <1>4

\* The pages of a segment are set up anew, or of the old ones none is in use.
LEMMA NewPagesFree ==
  ASSUME NEW k, NEW c \in BOOLEAN
  PROVE  \A p \in Unit : /\ NewPages(k, c)[p].in_use = FALSE /\ NewPages(k, c)[p].heap = NULL
                         /\ NewPages(k, c)[p].reset = FALSE
                         /\ NewPages(k, c)[p].committed = (c /\ p < Capacity[k])
BY DEF NewPages, FreePage

\* A step after which a segment has no page in use.
LEMMA EmptyFields ==
  ASSUME TypeOK', NEW s \in Segment, mapped'[s], used'[s] = 0, abandoned'[s] = 0,
         \A p \in Unit : ~page'[s][p].in_use /\ page'[s][p].heap = NULL,
         kind'[s] # "huge" => (thread_id'[s] = NULL <=> s \in abandoned_list'),
         kind'[s] = "huge" => s \notin abandoned_list'
  PROVE  SegmentFields(s)' /\ InUse(s)' = {}
<1>1. Pages(s)' \subseteq Unit
  <2>1. kind'[s] \in PageKind
    BY DEF TypeOK
  <2>2. Capacity[kind'[s]] \in 1 .. Units /\ Units \in Nat /\ Unit = 0 .. Units - 1
    BY <2>1, CapacityFacts
  <2> QED
    BY <2>2 DEF Pages
<1>2. InUse(s)' = {} /\ Orphans(s)' = {}
  BY <1>1 DEF InUse, Orphans
<1>3. Cardinality({}) = 0
  BY FS_EmptySet
<1> QED
  BY <1>2, <1>3 DEF SegmentFields

\* What is known of a page of a segment that has no page in use.
LEMMA EmptyPages ==
  ASSUME TypeOK, NEW s \in Segment, SegmentFields(s), InUse(s) = {}
  PROVE  /\ \A p \in Unit : ~page[s][p].in_use /\ page[s][p].heap = NULL
         /\ mapped[s] => used[s] = 0
         /\ mapped[s] /\ kind[s] # "huge" => abandoned[s] = 0
<1>1. \A p \in Unit : ~page[s][p].in_use
  BY DEF SegmentFields, InUse
<1>2. Cardinality({}) = 0
  BY FS_EmptySet
<1>3. Orphans(s) = {}
  BY DEF Orphans
<1> QED
  BY <1>1, <1>2, <1>3 DEF SegmentFields

\* An action of segment s that leaves another one alone.
LEMMA OthersKept ==
  ASSUME TypeOK, TypeOK', NEW r \in Segment, SegmentFields(r),
         page'[r] = page[r], used'[r] = used[r], abandoned'[r] = abandoned[r],
         thread_id'[r] = thread_id[r], kind'[r] = kind[r], mapped'[r] = mapped[r],
         mem_is_fixed'[r] = mem_is_fixed[r], (r \in abandoned_list') <=> r \in abandoned_list
  PROVE  SegmentFields(r)' /\ InUse(r)' = InUse(r) /\ Orphans(r)' = Orphans(r) /\ Pages(r)' = Pages(r)
<1>1. OnlyResets(r)
  BY DEF OnlyResets
<1>2. Kept(r)
  BY <1>1 DEF Kept
<1> QED
  BY <1>1, <1>2, KeptFields, KeptPages

\* The first segment of a cache.
LEMMA CacheHead ==
  ASSUME FieldsInv, NEW t \in Thread, cache[t] # <<>>
  PROVE  /\ Head(cache[t]) \in Segment /\ Head(cache[t]) = cache[t][1] /\ 1 \in DOMAIN cache[t]
         /\ thread_id[Head(cache[t])] = t /\ mapped[Head(cache[t])] /\ kind[Head(cache[t])] # "huge"
         /\ InUse(Head(cache[t])) = {} /\ Cached(Head(cache[t]))
<1>1. /\ Head(cache[t]) \in Segment /\ Head(cache[t]) = cache[t][1] /\ 1 \in DOMAIN cache[t]
  BY QueueTypes DEF FieldsInv
<1>2. /\ thread_id[Head(cache[t])] = t /\ kind[Head(cache[t])] # "huge"
      /\ InUse(Head(cache[t])) = {} /\ Cached(Head(cache[t]))
  BY <1>1 DEF FieldsInv, CacheOwn, Cached
<1>3. mapped[Head(cache[t])]
  BY <1>1, <1>2, NULLAssumption DEF FieldsInv, SegmentFields
<1> QED
  BY <1>1, <1>2, <1>3

\* pages pg that differ from those there are by resets only
ResetsTo(pg) == \A s \in Segment : \A p \in Unit :
  \/ pg[s][p] = page[s][p]
  \/ /\ ~page[s][p].in_use /\ page[s][p].committed
     /\ pg[s][p] = [page[s][p] EXCEPT !.reset = TRUE]

\* mi_segment_os_free leaves nothing of the segments it frees.
LEMMA OsFreeFields ==
  ASSUME FieldsInv, TypeOK', NEW t \in Thread, NEW S \in SUBSET Owned(t),
         NEW pg \in [Segment -> [Unit -> Page]], NEW bk, OsFree(t, S, pg, bk), ResetsTo(pg),
         used' = used, abandoned' = abandoned, abandoned_list' = abandoned_list
  PROVE  /\ \A s \in Segment : SegmentFields(s)'
         /\ \A s \in Segment \ S : /\ thread_id'[s] = thread_id[s] /\ kind'[s] = kind[s]
                                   /\ mapped'[s] = mapped[s] /\ mem_is_fixed'[s] = mem_is_fixed[s]
                                   /\ page'[s] = pg[s]
                                   /\ InUse(s)' = InUse(s) /\ Orphans(s)' = Orphans(s) /\ Pages(s)' = Pages(s)
         /\ \A s \in S : /\ ~mapped'[s] /\ thread_id'[s] = NULL /\ kind'[s] = "small"
                         /\ page'[s] = NoPages /\ ~mem_is_fixed'[s]
<1>1. \A s \in Segment \ S :
        /\ thread_id'[s] = thread_id[s] /\ kind'[s] = kind[s]
        /\ mapped'[s] = mapped[s] /\ mem_is_fixed'[s] = mem_is_fixed[s] /\ page'[s] = pg[s]
  BY DEF OsFree, FieldsInv, TypeOK
<1>2. S \subseteq Segment
  BY DEF Owned
<1>3. \A s \in S : /\ ~mapped'[s] /\ thread_id'[s] = NULL /\ kind'[s] = "small"
                   /\ page'[s] = NoPages /\ ~mem_is_fixed'[s]
  BY <1>2 DEF OsFree
<1>4. ASSUME NEW s \in Segment \ S
      PROVE  SegmentFields(s)' /\ InUse(s)' = InUse(s) /\ Orphans(s)' = Orphans(s) /\ Pages(s)' = Pages(s)
  <2>1. OnlyResets(s)
    BY <1>1 DEF OnlyResets, ResetsTo
  <2>2. Kept(s)
    BY <1>1, <2>1 DEF Kept
  <2> QED
    BY <1>1, <2>1, <2>2, KeptFields, KeptPages DEF FieldsInv
<1>5. ASSUME NEW s \in S
      PROVE  SegmentFields(s)'
  <2>1. s \in Segment /\ thread_id[s] = t
    BY DEF Owned
  <2>2. s \notin abandoned_list
    <3>1. mapped[s]
      BY <2>1, NULLAssumption DEF FieldsInv, SegmentFields
    <3> QED
      BY <2>1, <3>1, NULLAssumption DEF FieldsInv, SegmentFields
  <2>3. \A p \in Unit : ~page'[s][p].in_use /\ page'[s][p].heap = NULL
    BY <1>3 DEF NoPages, FreePage
  <2> QED
    BY <1>3, <2>2, <2>3 DEF SegmentFields
<1> QED
  BY <1>1, <1>3, <1>4, <1>5

\* Every step keeps the fields of the segments, but for the claim, the clear
\* and the reclaim of pages.
LEMMA FieldsAlloc ==
  ASSUME FieldsInv, TypeOK', NEW t \in Thread, NEW k \in Kinds, CacheReuse(t, k)
  PROVE  \A s \in Segment : SegmentFields(s)'
<1>1. PICK s : s = Head(cache[t]) /\ CacheReuseOf(t, k, s)
  BY CacheReuseDoes DEF FieldsInv
<1>2. /\ s \in Segment /\ thread_id[s] = t /\ mapped[s] /\ kind[s] # "huge" /\ InUse(s) = {}
  BY <1>1, CacheHead DEF CacheReuseOf
<1>3. TypeOK /\ \A r \in Segment : SegmentFields(r)
  BY DEF FieldsInv
<1>4. ASSUME NEW r \in Segment, r # s
      PROVE  SegmentFields(r)'
  <2>1. /\ page'[r] = page[r] /\ used'[r] = used[r] /\ abandoned'[r] = abandoned[r]
        /\ thread_id'[r] = thread_id[r] /\ kind'[r] = kind[r] /\ mapped'[r] = mapped[r]
        /\ mem_is_fixed'[r] = mem_is_fixed[r] /\ (r \in abandoned_list' <=> r \in abandoned_list)
    <3>1. page'[r] = page[r]
      <4>1. page' = page \/ page' = [page EXCEPT ![s] = NewPages(k, Eager(t, k))]
        BY <1>1 DEF CacheReuseOf
      <4> QED
        BY <1>2, <1>3, <1>4, <4>1 DEF TypeOK
    <3>2. /\ thread_id' = [thread_id EXCEPT ![s] = t] /\ kind' = [kind EXCEPT ![s] = k]
          /\ UNCHANGED <<used, abandoned, mem_is_fixed, mapped, abandoned_list>>
      BY <1>1 DEF CacheReuseOf
    <3> QED
      BY <1>2, <1>3, <1>4, <3>1, <3>2 DEF TypeOK
  <2> QED
    BY <1>3, <2>1, OthersKept
<1>5. SegmentFields(s)'
  <2>1. \A p \in Unit : ~page[s][p].in_use /\ page[s][p].heap = NULL
    BY <1>2, <1>3, EmptyPages
  <2>2. used[s] = 0 /\ abandoned[s] = 0 /\ s \notin abandoned_list
    BY <1>2, <1>3, EmptyPages, NULLAssumption DEF SegmentFields
  <2>3. \A p \in Unit : ~page'[s][p].in_use /\ page'[s][p].heap = NULL
    <3>1. CASE page' = page
      BY <2>1, <3>1
    <3>2. CASE page' = [page EXCEPT ![s] = NewPages(k, Eager(t, k))]
      <4>1. page'[s] = NewPages(k, Eager(t, k))
        BY <1>2, <1>3, <3>2 DEF TypeOK
      <4>2. Eager(t, k) \in BOOLEAN
        BY DEF Eager
      <4> QED
        BY <4>1, <4>2, NewPagesFree
    <3> QED
      BY <1>1, <3>1, <3>2 DEF CacheReuseOf
  <2>4. /\ mapped'[s] /\ used'[s] = 0 /\ abandoned'[s] = 0 /\ thread_id'[s] = t /\ kind'[s] = k
        /\ s \notin abandoned_list' /\ k # "huge"
    BY <1>1, <1>2, <1>3, <2>2 DEF CacheReuseOf, TypeOK
  <2> QED
    BY <1>2, <2>3, <2>4, NULLAssumption, EmptyFields
<1> QED
  BY <1>4, <1>5

\* The fields agree after mi_segment_alloc.
LEMMA FieldsFresh ==
  ASSUME FieldsInv, TypeOK', Fresh
  PROVE  \A s \in Segment : SegmentFields(s)'
<1>1. TypeOK /\ \A r \in Segment : SegmentFields(r)
  BY DEF FieldsInv
<1>2. CASE pc' = "delay_alloc" /\ UNCHANGED <<segment, memory, tld, cur>>
  <2>1. UNCHANGED abandoned_list
    BY FreshSteps
  <2> QED
    BY <1>1, <1>2, <2>1, OthersKept DEF segment, memory
<1>3. ASSUME NEW s \in Segment, NEW anew \in BOOLEAN, NEW large \in BOOLEAN, FreshOf(s, anew, large)
      PROVE  \A r \in Segment : SegmentFields(r)'
  <2> DEFINE c == FreshCommit(s, anew, large)
  <2>1. /\ mapped' = [mapped EXCEPT ![s] = TRUE]
        /\ mem_is_fixed' = [mem_is_fixed EXCEPT ![s] = large]
        /\ kind' = [kind EXCEPT ![s] = cur.k]
        /\ used' = [used EXCEPT ![s] = 0] /\ abandoned' = [abandoned EXCEPT ![s] = 0]
        /\ page' = [page EXCEPT ![s] = NewPages(cur.k, c)]
        /\ thread_id' = [thread_id EXCEPT ![s] = IF cur.k = "huge" THEN NULL ELSE me]
        /\ ~mapped[s]
    BY <1>3 DEF FreshOf
  <2>2. UNCHANGED abandoned_list /\ me \in Thread
    BY <1>1, FreshSteps DEF TypeOK
  <2>3. c \in BOOLEAN
    BY DEF FreshCommit
  <2> HIDE DEF c
  <2>4. \A r \in Segment : r # s => SegmentFields(r)'
    <3>1. SUFFICES ASSUME NEW r \in Segment, r # s
                   PROVE  SegmentFields(r)'
      OBVIOUS
    <3>2. /\ page'[r] = page[r] /\ used'[r] = used[r] /\ abandoned'[r] = abandoned[r]
          /\ thread_id'[r] = thread_id[r] /\ kind'[r] = kind[r] /\ mapped'[r] = mapped[r]
          /\ mem_is_fixed'[r] = mem_is_fixed[r] /\ (r \in abandoned_list' <=> r \in abandoned_list)
      BY <1>1, <2>1, <2>2, <3>1 DEF TypeOK
    <3> QED
      BY <1>1, <3>2, OthersKept
  <2>5. SegmentFields(s)'
    <3>1. page'[s] = NewPages(cur.k, c)
      BY <1>1, <2>1 DEF TypeOK
    <3>2. \A p \in Unit : ~page'[s][p].in_use /\ page'[s][p].heap = NULL
      <4>1. \A p \in Unit : NewPages(cur.k, c)[p].in_use = FALSE /\ NewPages(cur.k, c)[p].heap = NULL
        BY <2>3, NewPagesFree
      <4> QED
        BY <3>1, <4>1
    <3>3. s \notin abandoned_list
      BY <1>1, <2>1 DEF SegmentFields
    <3>4. /\ mapped'[s] /\ used'[s] = 0 /\ abandoned'[s] = 0
          /\ thread_id'[s] = (IF cur.k = "huge" THEN NULL ELSE me) /\ kind'[s] = cur.k
          /\ s \notin abandoned_list'
      BY <1>1, <2>1, <2>2, <3>3 DEF TypeOK
    <3>5. kind'[s] # "huge" => thread_id'[s] # NULL
      BY <2>2, <3>4, NULLAssumption
    <3> QED
      BY <3>2, <3>4, <3>5, EmptyFields
  <2> QED
    BY <2>4, <2>5
<1> QED
  BY <1>2, <1>3, FreshSteps

\* a page is claimed
LEMMA FieldsClaim ==
  ASSUME FieldsInv, TypeOK', Claim
  PROVE  \A s \in Segment : SegmentFields(s)'
<1>1. TypeOK /\ \A r \in Segment : SegmentFields(r)
  BY DEF FieldsInv
<1>2. /\ pc = "claim" /\ cur.s \in Segment /\ me \in Thread
      /\ UNCHANGED <<option, kind, abandoned, thread_id, mem_is_fixed, mapped, known,
                        abandoned_list, cache, count, peak_count, status, me, cur>>
  BY <1>1, ClaimSteps DEF TypeOK
<1>3. CASE UNCHANGED <<page, backed, used, pages_reset, free_queue>>
  BY <1>1, <1>2, <1>3, OthersKept
<1>4. ASSUME NEW p \in Pages(cur.s) \ InUse(cur.s), ClaimOf(cur.s, p)
      PROVE  \A r \in Segment : SegmentFields(r)'
  <2> DEFINE pg == [in_use |-> TRUE, committed |-> TRUE, reset |-> FALSE,
                    heap |-> IF kind[cur.s] = "huge" THEN NULL ELSE me]
  <2>1. PICK s \in Segment : s = cur.s
    BY <1>2
  <2>2. mapped[s] /\ (kind[s] # "huge" => thread_id[s] = me)
    BY <1>2, <2>1 DEF FieldsInv, Role
  <2>3. p \in Unit /\ p \in Pages(s) /\ p \notin InUse(s) /\ Pages(s) \subseteq Unit
    BY <1>1, <2>1, PageSets
  <2>4. pg \in Page
    BY <1>2 DEF Page
  <2>5. page' = [page EXCEPT ![s][p] = pg] /\ used' = [used EXCEPT ![s] = @ + 1]
    BY <1>4, <2>1 DEF ClaimOf
  <2> HIDE DEF pg
  <2>6. /\ page'[s][p] = pg
        /\ \A q \in Unit : q # p => page'[s][q] = page[s][q]
        /\ \A r \in Segment : r # s => page'[r] = page[r]
    BY <1>1, <2>3, <2>4, <2>5, PageSet
  <2>7. \A r \in Segment : r # s => SegmentFields(r)'
    BY <1>1, <1>2, <2>5, <2>6, OthersKept DEF TypeOK
  <2>8. Pages(s)' = Pages(s)
    BY <1>2 DEF Pages
  <2>9. InUse(s)' = InUse(s) \cup {p}
    BY <2>3, <2>6, <2>8 DEF InUse, pg
  <2>10. used'[s] = Cardinality(InUse(s)')
    <3>1. IsFiniteSet(InUse(s)) /\ used[s] = Cardinality(InUse(s))
      BY <1>1, <2>2, PageSets DEF SegmentFields
    <3>2. Cardinality(InUse(s) \cup {p}) = Cardinality(InUse(s)) + 1
      BY <2>3, <3>1, FS_AddElement
    <3> QED
      BY <1>1, <2>5, <2>9, <3>1, <3>2 DEF TypeOK
  <2>11. kind[s] # "huge" => abandoned'[s] = Cardinality(Orphans(s)')
    <3>1. SUFFICES ASSUME kind[s] # "huge"
                   PROVE  Orphans(s)' = Orphans(s)
      BY <1>1, <1>2, <2>2 DEF SegmentFields
    <3>2. pg.heap # NULL
      BY <1>2, <2>1, <3>1, NULLAssumption DEF pg
    <3>3. InUse(s) \subseteq Unit
      BY <2>3 DEF InUse
    <3> QED
      BY <2>3, <2>6, <2>9, <3>2, <3>3 DEF Orphans
  <2>12. \A q \in Unit :
           /\ page'[s][q].in_use => q \in Pages(s)' /\ page'[s][q].committed /\ ~page'[s][q].reset
           /\ page'[s][q].heap # NULL =>
                page'[s][q].in_use /\ kind'[s] # "huge" /\ page'[s][q].heap = thread_id'[s]
    <3>1. SUFFICES ASSUME NEW q \in Unit
                   PROVE /\ page'[s][q].in_use => q \in Pages(s)' /\ page'[s][q].committed /\ ~page'[s][q].reset
                         /\ page'[s][q].heap # NULL =>
                              page'[s][q].in_use /\ kind'[s] # "huge" /\ page'[s][q].heap = thread_id'[s]
      OBVIOUS
    <3>2. CASE q = p
      BY <1>2, <2>1, <2>2, <2>3, <2>6, <2>8, <3>2 DEF pg
    <3>3. CASE q # p
      BY <1>1, <1>2, <2>6, <2>8, <3>3 DEF SegmentFields
    <3> QED
      BY <3>2, <3>3
  <2>13. SegmentFields(s)'
    BY <1>1, <1>2, <2>2, <2>10, <2>11, <2>12 DEF SegmentFields
  <2> QED
    BY <2>7, <2>13
<1> QED
  BY <1>3, <1>4, ClaimSteps

\* the pages of a segment that is reclaimed: F are cleared, the others go to t
Reclaimed(t, s, F) ==
  [p \in Unit |->
     IF p \in F THEN [page[s][p] EXCEPT !.in_use = FALSE, !.heap = NULL]
     ELSE IF p \in InUse(s) THEN [page[s][p] EXCEPT !.heap = t] ELSE page[s][p]]

\* a segment is reclaimed
LEMMA FieldsReclaim ==
  ASSUME FieldsInv, TypeOK', NEW s \in abandoned_list, NEW F \in SUBSET InUse(s), ReclaimStep(s, F), me \in Thread
  PROVE  /\ \A r \in Segment : SegmentFields(r)'
         /\ \A r \in Segment : r # s => InUse(r)' = InUse(r) /\ Orphans(r)' = Orphans(r) /\ page'[r] = page[r]
         /\ InUse(s)' = InUse(s) \ F /\ Orphans(s)' = {} /\ Pages(s)' = Pages(s)
         /\ used'[s] = Cardinality(InUse(s) \ F)
         /\ mapped[s] /\ kind[s] # "huge" /\ thread_id[s] = NULL /\ thread_id'[s] = me
<1>1. TypeOK /\ s \in Segment /\ \A r \in Segment : SegmentFields(r)
  BY DEF FieldsInv, TypeOK
<1>2. /\ mapped[s] /\ kind[s] # "huge" /\ thread_id[s] = NULL
      /\ used[s] = Cardinality(InUse(s)) /\ abandoned[s] = Cardinality(InUse(s))
      /\ Orphans(s) = InUse(s)
  BY <1>1, AbandonedIs
<1>3. /\ thread_id' = [thread_id EXCEPT ![s] = me]
      /\ abandoned_list' = abandoned_list \ {s}
      /\ abandoned' = [abandoned EXCEPT ![s] = @ - Cardinality(InUse(s))]
      /\ used' = [used EXCEPT ![s] = @ - Cardinality(F)]
      /\ ResetAdd(me, s, F, Reclaimed(me, s, F))
      /\ UNCHANGED <<option, kind, mem_is_fixed, mapped, known, cache, status>>
  BY DEF ReclaimStep, ReclaimFields, Reclaimed
<1>4. /\ IsFiniteSet(InUse(s)) /\ InUse(s) \subseteq Unit /\ Pages(s) \subseteq Unit
      /\ Cardinality(InUse(s)) \in Nat /\ InUse(s) \subseteq Pages(s)
  BY <1>1, PageSets
<1>5. F \in SUBSET Unit /\ \A p \in Unit : page[s][p] \in Page
  BY <1>1, <1>4, ZenonT(60) DEF TypeOK
<1>6. Reclaimed(me, s, F) \in [Unit -> Page]
  BY <1>5 DEF Reclaimed, Page
<1>7. /\ \A r \in Segment : r # s => page'[r] = page[r]
      /\ \A p \in Unit : /\ page'[s][p].in_use = Reclaimed(me, s, F)[p].in_use
                         /\ page'[s][p].heap = Reclaimed(me, s, F)[p].heap
                         /\ page'[s][p].committed = Reclaimed(me, s, F)[p].committed
                         /\ p \notin F => page'[s][p] = Reclaimed(me, s, F)[p]
  <2>0. PICK t \in Thread : t = me
    OBVIOUS
  <2>1. PICK pg \in [Unit -> Page] : pg = Reclaimed(me, s, F)
    BY <1>6
  <2>3. ResetAdd(t, s, F, pg) /\ F \in SUBSET Unit
    BY <1>3, <1>5, <2>0, <2>1
  <2>2. /\ \A r \in Segment : r # s => page'[r] = page[r]
        /\ \A p \in Unit : /\ page'[s][p].in_use = pg[p].in_use /\ page'[s][p].heap = pg[p].heap
                           /\ page'[s][p].committed = pg[p].committed
                           /\ p \notin F => page'[s][p] = pg[p]
    BY <1>1, <2>3, ResetAddPages
  <2> QED
    BY <2>1, <2>2
<1>8. \A p \in Unit :
        /\ p \in F => Reclaimed(me, s, F)[p].in_use = FALSE /\ Reclaimed(me, s, F)[p].heap = NULL
        /\ p \in InUse(s) \ F => Reclaimed(me, s, F)[p] = [page[s][p] EXCEPT !.heap = me]
        /\ p \notin InUse(s) => Reclaimed(me, s, F)[p] = page[s][p]
  BY <1>5 DEF Reclaimed, Page
<1>9. \A p \in Unit :
        /\ p \in F => page'[s][p].in_use = FALSE /\ page'[s][p].heap = NULL
        /\ p \in InUse(s) \ F => /\ page'[s][p].in_use /\ page'[s][p].heap = me
                                 /\ page'[s][p].committed = page[s][p].committed
                                 /\ page'[s][p].reset = page[s][p].reset
        /\ p \notin InUse(s) => page'[s][p] = page[s][p]
  <2>1. \A p \in InUse(s) : page[s][p].in_use
    BY DEF InUse
  <2>2. SUFFICES ASSUME NEW p \in Unit
                 PROVE  /\ p \in F => page'[s][p].in_use = FALSE /\ page'[s][p].heap = NULL
                        /\ p \in InUse(s) \ F => /\ page'[s][p].in_use /\ page'[s][p].heap = me
                                                 /\ page'[s][p].committed = page[s][p].committed
                                                 /\ page'[s][p].reset = page[s][p].reset
                        /\ p \notin InUse(s) => page'[s][p] = page[s][p]
    OBVIOUS
  <2>3. CASE p \in F
    BY <1>7, <1>8, <2>3
  <2>4. CASE p \in InUse(s) \ F
    <3>1. page'[s][p] = [page[s][p] EXCEPT !.heap = me] /\ page[s][p] \in Page
      BY <1>5, <1>7, <1>8, <2>4
    <3> QED
      BY <2>1, <2>4, <3>1 DEF Page
  <2>5. CASE p \notin InUse(s)
    BY <1>7, <1>8, <2>5
  <2> QED
    BY <2>3, <2>4, <2>5
<1>10. Pages(s)' = Pages(s)
  BY <1>3 DEF Pages
<1>11. InUse(s)' = InUse(s) \ F
  BY <1>4, <1>9, <1>10 DEF InUse
<1>12. Orphans(s)' = {}
  BY <1>4, <1>9, <1>11, NULLAssumption DEF Orphans
<1>13. used'[s] = Cardinality(InUse(s)') /\ abandoned'[s] = 0
  <2>1. Cardinality(InUse(s) \ F) = Cardinality(InUse(s)) - Cardinality(F)
    <3>1. InUse(s) \cap F = F
      OBVIOUS
    <3>2. Cardinality(InUse(s) \ F) = Cardinality(InUse(s)) - Cardinality(InUse(s) \cap F)
      BY <1>4, FS_Difference
    <3> QED
      BY <3>1, <3>2
  <2> QED
    BY <1>1, <1>2, <1>3, <1>4, <1>11, <2>1 DEF TypeOK
<1>14. ASSUME NEW r \in Segment, r # s
       PROVE  SegmentFields(r)' /\ InUse(r)' = InUse(r) /\ Orphans(r)' = Orphans(r)
  <2>1. /\ page'[r] = page[r] /\ used'[r] = used[r] /\ abandoned'[r] = abandoned[r]
        /\ thread_id'[r] = thread_id[r] /\ kind'[r] = kind[r] /\ mapped'[r] = mapped[r]
        /\ mem_is_fixed'[r] = mem_is_fixed[r] /\ (r \in abandoned_list' <=> r \in abandoned_list)
    BY <1>1, <1>3, <1>7, <1>14 DEF TypeOK
  <2> QED
    BY <1>1, <2>1, OthersKept
<1>15. /\ mapped'[s] /\ kind'[s] = kind[s] /\ thread_id'[s] = me /\ s \notin abandoned_list'
  BY <1>1, <1>2, <1>3 DEF TypeOK
<1>16. \A p \in Unit :
         /\ page'[s][p].in_use => p \in Pages(s)' /\ page'[s][p].committed /\ ~page'[s][p].reset
         /\ page'[s][p].heap # NULL =>
              page'[s][p].in_use /\ kind'[s] # "huge" /\ page'[s][p].heap = thread_id'[s]
  <2>1. SUFFICES ASSUME NEW p \in Unit
                 PROVE  /\ page'[s][p].in_use => p \in Pages(s)' /\ page'[s][p].committed /\ ~page'[s][p].reset
                        /\ page'[s][p].heap # NULL =>
                             page'[s][p].in_use /\ kind'[s] # "huge" /\ page'[s][p].heap = thread_id'[s]
    OBVIOUS
  <2>2. /\ page[s][p].in_use => p \in Pages(s) /\ page[s][p].committed /\ ~page[s][p].reset
        /\ page[s][p].heap # NULL => page[s][p].in_use
        /\ p \in InUse(s) <=> page[s][p].in_use /\ p \in Pages(s)
    BY <1>1 DEF SegmentFields, InUse
  <2>3. CASE p \in F
    BY <1>9, <2>3
  <2>4. CASE p \in InUse(s) \ F
    BY <1>2, <1>9, <1>10, <1>15, <2>2, <2>4
  <2>5. CASE p \notin InUse(s)
    BY <1>9, <2>2, <2>5
  <2> QED
    BY <2>3, <2>4, <2>5
<1>17. SegmentFields(s)'
  <2>1. abandoned'[s] = Cardinality(Orphans(s)')
    BY <1>12, <1>13, FS_EmptySet
  <2>2. thread_id'[s] # NULL
    BY <1>15, NULLAssumption
  <2> QED
    BY <1>2, <1>13, <1>15, <1>16, <2>1, <2>2 DEF SegmentFields
<1> QED
  BY <1>2, <1>7, <1>10, <1>11, <1>12, <1>13, <1>14, <1>15, <1>17

\* a page is cleared
LEMMA FieldsClear ==
  ASSUME FieldsInv, TypeOK', PageClear
  PROVE  /\ \A r \in Segment : SegmentFields(r)'
         /\ \A r \in Segment : r # cur.s => InUse(r)' = InUse(r) /\ Orphans(r)' = Orphans(r) /\ page'[r] = page[r]
         /\ \A s \in Segment : s = cur.s =>
              InUse(s)' = InUse(s) \ {cur.p} /\ Orphans(s)' = Orphans(s) \ {cur.p}
<1>1. TypeOK /\ \A r \in Segment : SegmentFields(r)
  BY DEF FieldsInv
<1>2. /\ used' = [used EXCEPT ![cur.s] = used[cur.s] - 1]
      /\ ResetAdd(me, cur.s, {cur.p}, Cleared(cur.s, cur.p))
      /\ UNCHANGED <<option, kind, abandoned, thread_id, mem_is_fixed, mapped, known, abandoned_list,
                     cache, count, peak_count, status>>
      /\ pc = "clear"
  BY PageClearSteps
<1>3. PICK s \in Segment : s = cur.s
  BY <1>2, ClearFacts
<1>4. PICK p \in Unit : p = cur.p
  BY <1>2, ClearFacts
<1>5. /\ me \in Thread /\ p \in InUse(s) /\ mapped[s] /\ thread_id[s] = me
      /\ used[s] = Cardinality(InUse(s)) /\ used[s] \in Nat \ {0}
      /\ Cardinality(InUse(s) \ {p}) = used[s] - 1
  BY <1>2, <1>3, <1>4, ClearFacts
<1>6. /\ InUse(s) \subseteq Unit /\ Pages(s) \subseteq Unit
      /\ \A q \in Unit : page[s][q] \in Page
  BY <1>1, PageSets, ZenonT(60) DEF TypeOK
<1>7. page[s] \in [Unit -> Page]
  BY <1>1 DEF TypeOK
<1>8. /\ Cleared(s, p) \in [Unit -> Page]
      /\ Cleared(s, p)[p].in_use = FALSE /\ Cleared(s, p)[p].heap = NULL
      /\ \A q \in Unit : q # p => Cleared(s, p)[q] = page[s][q]
  <2>1. [page[s][p] EXCEPT !.in_use = FALSE, !.heap = NULL] \in Page
    BY <1>6 DEF Page
  <2> QED
    BY <1>6, <1>7, <2>1 DEF Cleared, Page
<1>9. /\ \A r \in Segment : r # s => page'[r] = page[r]
      /\ page'[s][p].in_use = FALSE /\ page'[s][p].heap = NULL
      /\ \A q \in Unit : q # p => page'[s][q] = page[s][q]
  <2>0. PICK t \in Thread : t = me
    BY <1>5
  <2>1. PICK pg \in [Unit -> Page] : pg = Cleared(s, p)
    BY <1>8
  <2>2. PICK P \in SUBSET Unit : P = {p}
    OBVIOUS
  <2>4. ResetAdd(t, s, P, pg)
    BY <1>2, <1>3, <1>4, <2>0, <2>1, <2>2
  <2>3. /\ \A r \in Segment : r # s => page'[r] = page[r]
        /\ \A q \in Unit : /\ page'[s][q].in_use = pg[q].in_use /\ page'[s][q].heap = pg[q].heap
                           /\ q \notin P => page'[s][q] = pg[q]
    BY <1>1, <2>4, ResetAddPages
  <2> QED
    BY <1>8, <2>1, <2>2, <2>3
<1>10. Pages(s)' = Pages(s)
  BY <1>2 DEF Pages
<1>11. InUse(s)' = InUse(s) \ {p}
  BY <1>6, <1>9, <1>10 DEF InUse
<1>12. Orphans(s)' = Orphans(s) \ {p}
  BY <1>6, <1>9, <1>11 DEF Orphans
<1>13. used'[s] = Cardinality(InUse(s)')
  BY <1>1, <1>2, <1>3, <1>5, <1>11 DEF TypeOK
<1>15. kind[s] # "huge" => p \notin Orphans(s)
  BY <1>2, <1>3, <1>4, ClearFacts DEF Orphans
<1>16. ASSUME NEW r \in Segment, r # s
       PROVE  SegmentFields(r)' /\ InUse(r)' = InUse(r) /\ Orphans(r)' = Orphans(r)
  <2>1. /\ page'[r] = page[r] /\ used'[r] = used[r] /\ abandoned'[r] = abandoned[r]
        /\ thread_id'[r] = thread_id[r] /\ kind'[r] = kind[r] /\ mapped'[r] = mapped[r]
        /\ mem_is_fixed'[r] = mem_is_fixed[r] /\ (r \in abandoned_list' <=> r \in abandoned_list)
    BY <1>1, <1>2, <1>3, <1>9, <1>16 DEF TypeOK
  <2> QED
    BY <1>1, <2>1, OthersKept
<1>17. SegmentFields(s)'
  <2>1. \A q \in Unit :
          /\ page'[s][q].in_use => q \in Pages(s)' /\ page'[s][q].committed /\ ~page'[s][q].reset
          /\ page'[s][q].heap # NULL =>
               page'[s][q].in_use /\ kind'[s] # "huge" /\ page'[s][q].heap = thread_id'[s]
    BY <1>1, <1>2, <1>9, <1>10 DEF SegmentFields
  <2>2. kind[s] # "huge" => abandoned'[s] = Cardinality(Orphans(s)')
    <3>1. SUFFICES ASSUME kind[s] # "huge"
                   PROVE  abandoned'[s] = Cardinality(Orphans(s)')
      BY <1>2
    <3>2. Orphans(s)' = Orphans(s) /\ abandoned[s] = Cardinality(Orphans(s)) /\ abandoned' = abandoned
      BY <1>1, <1>2, <1>5, <1>12, <1>15, <3>1 DEF SegmentFields
    <3> QED
      BY <3>2
  <2>3. /\ mapped'[s] /\ kind'[s] = kind[s] /\ thread_id'[s] = thread_id[s]
        /\ (s \in abandoned_list' <=> s \in abandoned_list)
    BY <1>2, <1>5
  <2> QED
    BY <1>1, <1>5, <1>13, <2>1, <2>2, <2>3 DEF SegmentFields
<1> QED
  BY <1>3, <1>4, <1>9, <1>11, <1>12, <1>16, <1>17

\* A step that resets pages and leaves the fields of all segments alone.
LEMMA FieldsResets ==
  ASSUME FieldsInv, TypeOK', \A s \in Segment : OnlyResets(s),
         UNCHANGED <<kind, used, abandoned, thread_id, mem_is_fixed, mapped, abandoned_list>>
  PROVE  \A s \in Segment :
           SegmentFields(s)' /\ InUse(s)' = InUse(s) /\ Orphans(s)' = Orphans(s) /\ Pages(s)' = Pages(s)
<1>1. TypeOK /\ \A r \in Segment : SegmentFields(r)
  BY DEF FieldsInv
<1>2. SUFFICES ASSUME NEW s \in Segment
               PROVE  /\ SegmentFields(s)' /\ InUse(s)' = InUse(s)
                      /\ Orphans(s)' = Orphans(s) /\ Pages(s)' = Pages(s)
  OBVIOUS
<1>3. Kept(s) /\ OnlyResets(s) /\ kind'[s] = kind[s]
  BY DEF Kept
<1> QED
  BY <1>1, <1>3, KeptFields, KeptPages

\* The same when no page changes.
LEMMA FieldsSame ==
  ASSUME FieldsInv, TypeOK', UNCHANGED <<segment, memory, abandoned_list>>
  PROVE  \A s \in Segment :
           SegmentFields(s)' /\ InUse(s)' = InUse(s) /\ Orphans(s)' = Orphans(s) /\ Pages(s)' = Pages(s)
<1>1. \A s \in Segment : OnlyResets(s)
  BY DEF OnlyResets, segment
<1> QED
  BY <1>1, FieldsResets DEF segment, memory

\* a huge segment is taken
LEMMA FieldsHuge ==
  ASSUME FieldsInv, TypeOK', NEW t \in Thread, NEW s \in Segment, kind[s] = "huge",
         thread_id' = [thread_id EXCEPT ![s] = t],
         UNCHANGED <<kind, used, abandoned, mem_is_fixed, page, memory, abandoned_list>>
  PROVE  \A r \in Segment :
           SegmentFields(r)' /\ InUse(r)' = InUse(r) /\ Orphans(r)' = Orphans(r) /\ Pages(r)' = Pages(r)
<1>1. TypeOK /\ \A r \in Segment : SegmentFields(r)
  BY DEF FieldsInv
<1>2. SUFFICES ASSUME NEW r \in Segment
               PROVE  /\ SegmentFields(r)' /\ InUse(r)' = InUse(r)
                      /\ Orphans(r)' = Orphans(r) /\ Pages(r)' = Pages(r)
  OBVIOUS
<1>3. CASE r # s
  <2>1. thread_id'[r] = thread_id[r]
    BY <1>1, <1>3 DEF TypeOK
  <2> QED
    BY <1>1, <2>1, OthersKept DEF memory
<1>4. CASE r = s
  <2>1. OnlyResets(s)
    BY DEF OnlyResets
  <2>2. InUse(s)' = InUse(s) /\ Orphans(s)' = Orphans(s) /\ Pages(s)' = Pages(s)
    BY <1>1, <2>1, KeptPages
  <2>3. mapped[s] /\ s \notin abandoned_list
    BY <1>1 DEF SegmentFields
  <2>4. \A p \in Unit : /\ page[s][p].heap = NULL
                        /\ page[s][p].in_use => p \in Pages(s) /\ page[s][p].committed /\ ~page[s][p].reset
    BY <1>1 DEF SegmentFields
  <2>5. mapped' = mapped
    BY DEF memory
  <2>6. SegmentFields(s)'
    BY <1>1, <2>2, <2>3, <2>4, <2>5 DEF SegmentFields
  <2> QED
    BY <1>4, <2>2, <2>6
<1> QED
  BY <1>3, <1>4

\* a page is abandoned
AbandonOf(t, s, p) ==
  /\ thread_id[s] = t /\ p \in InUse(s) /\ page[s][p].heap = t
  /\ page' = [page EXCEPT ![s][p].heap = NULL]
  /\ abandoned' = [abandoned EXCEPT ![s] = @ + 1]
  /\ UNCHANGED <<option, kind, used, thread_id, mem_is_fixed, memory, abandoned_list, tld>>

\* The fields agree after _mi_segment_page_abandon, with one orphan more.
LEMMA FieldsAbandonPage ==
  ASSUME FieldsInv, TypeOK', NEW t \in Thread, NEW s \in Segment, NEW p \in Unit, AbandonOf(t, s, p)
  PROVE  /\ \A r \in Segment : SegmentFields(r)' /\ InUse(r)' = InUse(r) /\ Pages(r)' = Pages(r)
         /\ mapped[s] /\ kind[s] # "huge" /\ abandoned'[s] = Cardinality(Orphans(s)')
<1>1. TypeOK /\ \A r \in Segment : SegmentFields(r)
  BY DEF FieldsInv
<1>2. /\ thread_id[s] = t /\ p \in InUse(s) /\ page[s][p].heap = t
      /\ page' = [page EXCEPT ![s][p].heap = NULL]
      /\ abandoned' = [abandoned EXCEPT ![s] = @ + 1]
      /\ UNCHANGED <<kind, used, thread_id, mem_is_fixed, mapped, abandoned_list>>
  BY DEF AbandonOf, memory
<1>3. t # NULL
  BY NULLAssumption
<1>4. mapped[s] /\ kind[s] # "huge" /\ s \notin abandoned_list
  BY <1>1, <1>2, <1>3 DEF SegmentFields
<1>5. /\ \A r \in Segment : r # s => page'[r] = page[r]
      /\ page'[s][p] = [page[s][p] EXCEPT !.heap = NULL]
      /\ \A q \in Unit : q # p => page'[s][q] = page[s][q]
  BY <1>1, <1>2 DEF TypeOK
<1>6. page[s][p] \in Page /\ Pages(s) \subseteq Unit
  BY <1>1, PageSets, ZenonT(60) DEF TypeOK
<1>7. /\ page'[s][p].in_use = page[s][p].in_use /\ page'[s][p].heap = NULL
      /\ page'[s][p].committed = page[s][p].committed /\ page'[s][p].reset = page[s][p].reset
  BY <1>5, <1>6 DEF Page
<1>8. Pages(s)' = Pages(s)
  BY <1>2 DEF Pages
<1>9. InUse(s)' = InUse(s)
  <2>1. \A q \in Unit : page'[s][q].in_use = page[s][q].in_use
    BY <1>5, <1>7
  <2> QED
    BY <1>6, <1>8, <2>1 DEF InUse
<1>10. Orphans(s)' = Orphans(s) \cup {p} /\ p \notin Orphans(s)
  <2>1. InUse(s) \subseteq Unit
    BY <1>6 DEF InUse
  <2> QED
    BY <1>2, <1>3, <1>5, <1>7, <1>9, <2>1 DEF Orphans
<1>11. abandoned'[s] = Cardinality(Orphans(s)')
  <2>1. IsFiniteSet(Orphans(s)) /\ abandoned[s] = Cardinality(Orphans(s))
    BY <1>1, <1>4, PageSets DEF SegmentFields
  <2>2. Cardinality(Orphans(s) \cup {p}) = Cardinality(Orphans(s)) + 1
    BY <1>10, <2>1, FS_AddElement
  <2> QED
    BY <1>1, <1>2, <1>10, <2>1, <2>2 DEF TypeOK
<1>12. ASSUME NEW r \in Segment, r # s
       PROVE  SegmentFields(r)' /\ InUse(r)' = InUse(r) /\ Pages(r)' = Pages(r)
  <2>1. page'[r] = page[r] /\ abandoned'[r] = abandoned[r]
    BY <1>1, <1>2, <1>5, <1>12 DEF TypeOK
  <2> QED
    BY <1>1, <1>2, <2>1, OthersKept
<1>13. \A q \in Unit :
         /\ page'[s][q].in_use => q \in Pages(s)' /\ page'[s][q].committed /\ ~page'[s][q].reset
         /\ page'[s][q].heap # NULL =>
              page'[s][q].in_use /\ kind'[s] # "huge" /\ page'[s][q].heap = thread_id'[s]
  <2>1. SUFFICES ASSUME NEW q \in Unit
                 PROVE  /\ page'[s][q].in_use => q \in Pages(s)' /\ page'[s][q].committed /\ ~page'[s][q].reset
                        /\ page'[s][q].heap # NULL =>
                             page'[s][q].in_use /\ kind'[s] # "huge" /\ page'[s][q].heap = thread_id'[s]
    OBVIOUS
  <2>2. CASE q = p
    BY <1>1, <1>7, <1>8, <2>2 DEF SegmentFields
  <2>3. CASE q # p
    BY <1>1, <1>2, <1>5, <1>8, <2>3 DEF SegmentFields
  <2> QED
    BY <2>2, <2>3
<1>14. SegmentFields(s)'
  BY <1>1, <1>2, <1>4, <1>9, <1>11, <1>13 DEF SegmentFields
<1> QED
  BY <1>4, <1>8, <1>9, <1>11, <1>12, <1>14

\* a segment is abandoned
LEMMA FieldsAbandonSegment ==
  ASSUME FieldsInv, TypeOK', AbandonSegment
  PROVE  \A r \in Segment :
           SegmentFields(r)' /\ InUse(r)' = InUse(r) /\ Orphans(r)' = Orphans(r) /\ Pages(r)' = Pages(r)
<1>1. TypeOK /\ \A r \in Segment : SegmentFields(r)
  BY DEF FieldsInv
<1>2. PICK s \in Segment : s = cur.s
  BY <1>1 DEF AbandonSegment, TypeOK
<1>3. /\ page' = PagesReset(s, option.abandoned_page_reset)
      /\ thread_id' = [thread_id EXCEPT ![s] = NULL]
      /\ abandoned_list' = abandoned_list \cup {s}
      /\ UNCHANGED <<kind, used, abandoned, mem_is_fixed, mapped>>
      /\ me \in Thread /\ thread_id[s] = me /\ kind[s] # "huge" /\ Orphans(s) = InUse(s)
  BY <1>1, <1>2 DEF AbandonSegment, FieldsInv, Role, TypeOK, Abandoning
<1>4. mapped[s]
  BY <1>1, <1>3, NULLAssumption DEF SegmentFields
<1>5. option.abandoned_page_reset \in BOOLEAN
  BY <1>1 DEF TypeOK, Option
<1>6. PICK force \in BOOLEAN : force = option.abandoned_page_reset
  BY <1>5
<1>7. \A r \in Segment : r # s => page'[r] = page[r]
  <2>1. page' = PagesReset(s, force)
    BY <1>3, <1>6
  <2>2. \A r \in Segment : r # s => PagesReset(s, force)[r] = page[r]
    BY <1>1, PagesResetType
  <2> QED
    BY <2>1, <2>2
<1>8. OnlyResets(s)
  <2>1. \A p \in Unit : page'[s][p] = IF force /\ p \in Removed(s) /\ Resettable(s, p)
                                        THEN [page[s][p] EXCEPT !.reset = TRUE] ELSE page[s][p]
    <3>1. TypeOK /\ page' = PagesReset(s, force)
      BY <1>1, <1>3, <1>6
    <3>2. \A p \in Unit : PagesReset(s, force)[s][p] = IF force /\ p \in Removed(s) /\ Resettable(s, p)
                                THEN [page[s][p] EXCEPT !.reset = TRUE] ELSE page[s][p]
      BY <3>1, PagesResetType
    <3> QED
      BY <3>1, <3>2
  <2> QED
    BY <2>1 DEF OnlyResets, Resettable
<1>9. /\ Pages(s)' = Pages(s) /\ InUse(s)' = InUse(s) /\ Orphans(s)' = Orphans(s)
      /\ \A p \in Unit : /\ page'[s][p].in_use = page[s][p].in_use
                         /\ page'[s][p].heap = page[s][p].heap
                         /\ page[s][p].in_use => page'[s][p] = page[s][p]
  BY <1>1, <1>3, <1>8, KeptPages
<1>10. ASSUME NEW r \in Segment, r # s
       PROVE  SegmentFields(r)' /\ InUse(r)' = InUse(r) /\ Orphans(r)' = Orphans(r) /\ Pages(r)' = Pages(r)
  <2>1. page'[r] = page[r] /\ thread_id'[r] = thread_id[r] /\ (r \in abandoned_list' <=> r \in abandoned_list)
    BY <1>1, <1>3, <1>7, <1>10 DEF TypeOK
  <2> QED
    BY <1>1, <1>3, <2>1, OthersKept
<1>11. \A p \in Unit : page[s][p].heap = NULL
  BY <1>1, <1>3 DEF SegmentFields, Orphans, InUse
<1>12. thread_id'[s] = NULL /\ s \in abandoned_list'
  BY <1>1, <1>3 DEF TypeOK
<1>13. SegmentFields(s)'
  BY <1>1, <1>3, <1>4, <1>9, <1>11, <1>12 DEF SegmentFields
<1> QED
  BY <1>9, <1>10, <1>13

-----------------------------------------------------------------------------
(***************************************************************************)
(* The queues, the caches and the counts.                                  *)
(***************************************************************************)

\* What is in the free queue of a kind.
InQueue(t, k, s) == \E i \in DOMAIN free_queue[t][k] : free_queue[t][k][i] = s

\* mi_segment_remove_from_free_queue leaves the segments of the queues but
\* the one that is taken, which is in no other queue.
LEMMA Dequeued ==
  ASSUME FieldsInv, TypeOK', NEW t \in Thread, NEW s \in Segment, thread_id[s] = t, Dequeue(t, s)
  PROVE  \A u \in Thread, k \in Queued, r \in Segment :
           InQueue(u, k, r)' => InQueue(u, k, r) /\ r # s
<1>1. TypeOK
  BY DEF FieldsInv
<1>2. SUFFICES ASSUME NEW u \in Thread, NEW k \in Queued, NEW r \in Segment, InQueue(u, k, r)'
               PROVE  InQueue(u, k, r) /\ r # s
  OBVIOUS
<1>3. PICK n \in DOMAIN free_queue'[u][k] : free_queue'[u][k][n] = r
  BY <1>2 DEF InQueue
<1>4. free_queue'[u][k] = IF u = t /\ k = kind[s] THEN Without(free_queue[u][k], {s}) ELSE free_queue[u][k]
  BY <1>1 DEF Dequeue, TypeOK
<1>5. CASE u = t /\ k = kind[s]
  <2>1. free_queue[u][k] \in Seq(Segment)
    BY <1>1, QueueTypes
  <2>2. r \notin {s} /\ \E i \in DOMAIN free_queue[u][k] : r = free_queue[u][k][i]
    BY <1>3, <1>4, <1>5, <2>1, WithoutKeeps
  <2> QED
    BY <2>2 DEF InQueue
<1>6. CASE ~(u = t /\ k = kind[s])
  <2>1. InQueue(u, k, r)
    BY <1>3, <1>4, <1>6 DEF InQueue
  <2>2. thread_id[r] = u /\ kind[r] = k
    BY <2>1 DEF InQueue, FieldsInv, QueueOwn
  <2> QED
    BY <1>6, <2>1, <2>2
<1> QED
  BY <1>5, <1>6

\* Segment s is added to the queue of kind k of thread t.
Adds(t, k, s) == free_queue' = [free_queue EXCEPT ![t][k] = Append(@, s)]

\* mi_segment_insert_in_free_queue, and what else adds a segment to a queue.
LEMMA Enqueued ==
  ASSUME TypeOK, NEW t \in Thread, NEW k \in Queued, NEW s \in Segment, Adds(t, k, s)
  PROVE  \A u \in Thread, c \in Queued, r \in Segment :
           InQueue(u, c, r)' => InQueue(u, c, r) \/ (u = t /\ c = k /\ r = s)
<1>1. SUFFICES ASSUME NEW u \in Thread, NEW c \in Queued, NEW r \in Segment, InQueue(u, c, r)'
               PROVE  InQueue(u, c, r) \/ (u = t /\ c = k /\ r = s)
  OBVIOUS
<1>2. PICK n \in DOMAIN free_queue'[u][c] : free_queue'[u][c][n] = r
  BY <1>1 DEF InQueue
<1>3. free_queue'[u][c] = IF u = t /\ c = k THEN Append(free_queue[u][c], s) ELSE free_queue[u][c]
  BY DEF TypeOK, Adds
<1>4. CASE u = t /\ c = k
  <2>1. free_queue[u][c] \in Seq(Segment) /\ DOMAIN free_queue[u][c] = 1 .. Len(free_queue[u][c])
    BY QueueTypes
  <2>2. n \in 1 .. Len(free_queue[u][c]) + 1
    BY <1>2, <1>3, <1>4, <2>1
  <2> QED
    BY <1>2, <1>3, <1>4, <2>1, <2>2 DEF InQueue
<1>5. CASE ~(u = t /\ c = k)
  BY <1>2, <1>3, <1>5 DEF InQueue
<1> QED
  BY <1>4, <1>5

\* QueueOwn in terms of InQueue
LEMMA QueueOwnIs ==
  ASSUME TypeOK
  PROVE  QueueOwn <=> \A t \in Thread, k \in Queued, s \in Segment :
           InQueue(t, k, s) => thread_id[s] = t /\ kind[s] = k /\ ~Cached(s)
<1>1. \A t \in Thread, k \in Queued : \A i \in DOMAIN free_queue[t][k] : free_queue[t][k][i] \in Segment
  BY QueueTypes
<1> QED
  BY <1>1 DEF QueueOwn, InQueue

\* A step that takes segments of A only: the others stay in their queues and
\* out of the caches.
LEMMA QueueKept ==
  ASSUME FieldsInv, TypeOK', NEW A \in SUBSET Segment,
         \A s \in Segment \ A : /\ thread_id'[s] = thread_id[s] /\ kind'[s] = kind[s]
                                /\ Cached(s)' => Cached(s),
         \A t \in Thread, k \in Queued, s \in Segment : InQueue(t, k, s)' =>
           \/ InQueue(t, k, s) /\ s \notin A
           \/ thread_id'[s] = t /\ kind'[s] = k /\ ~(Cached(s)')
  PROVE  QueueOwn'
<1>1. TypeOK /\ QueueOwn
  BY DEF FieldsInv
<1>2. \A t \in Thread, k \in Queued, s \in Segment :
        InQueue(t, k, s) => thread_id[s] = t /\ kind[s] = k /\ ~Cached(s)
  BY <1>1, QueueOwnIs
<1>3. \A t \in Thread, k \in Queued, s \in Segment :
        InQueue(t, k, s)' => thread_id'[s] = t /\ kind'[s] = k /\ ~(Cached(s)')
  BY <1>2
<1>4. \A t \in Thread, k \in Queued : \A i \in DOMAIN free_queue'[t][k] : free_queue'[t][k][i] \in Segment
  BY DEF TypeOK
<1> QED
  BY <1>3, <1>4 DEF QueueOwn, InQueue

\* the caches as they were
LEMMA CacheKept ==
  ASSUME FieldsInv, cache' = cache,
         \A s \in Segment : Cached(s) =>
           thread_id'[s] = thread_id[s] /\ kind'[s] = kind[s] /\ InUse(s)' = InUse(s)
  PROVE  CacheOwn' /\ \A s : Cached(s)' <=> Cached(s)
<1>1. \A s : Cached(s)' <=> Cached(s)
  BY DEF Cached
<1>2. \A t \in Thread : \A i \in DOMAIN cache[t] : cache[t][i] \in Segment /\ Cached(cache[t][i])
  BY QueueTypes DEF FieldsInv, Cached
<1>3. CacheOwn'
  BY <1>2 DEF FieldsInv, CacheOwn
<1> QED
  BY <1>1, <1>3

\* A cached segment is the cache's of one thread.
LEMMA CachedIs ==
  ASSUME FieldsInv, NEW s \in Segment, Cached(s)
  PROVE  mapped[s] /\ thread_id[s] \in Thread /\ kind[s] # "huge" /\ InUse(s) = {} /\ s \notin abandoned_list
<1>1. thread_id[s] \in Thread /\ kind[s] # "huge" /\ InUse(s) = {}
  BY DEF Cached, FieldsInv, CacheOwn
<1> QED
  BY <1>1, NULLAssumption DEF FieldsInv, SegmentFields

\* the counts of the threads when the segments keep them
LEMMA CountKept ==
  ASSUME FieldsInv, thread_id' = thread_id, count' = count
  PROVE  CountOwned'
BY DEF FieldsInv, CountOwned, Owned

\* A thread gets a segment that was nobody's.
LEMMA CountGets ==
  ASSUME FieldsInv, NEW t \in Thread, NEW s \in Segment, thread_id[s] = NULL,
         thread_id' = [thread_id EXCEPT ![s] = t], Track(t, 1)
  PROVE  CountOwned'
<1>1. TypeOK /\ CountOwned
  BY DEF FieldsInv
<1>2. SUFFICES ASSUME NEW u \in Thread
               PROVE  count'[u] = Cardinality(Owned(u)')
  BY DEF CountOwned
<1>3. \A r \in Segment : thread_id'[r] = IF r = s THEN t ELSE thread_id[r]
  BY <1>1 DEF TypeOK
<1>4. count' = [count EXCEPT ![t] = @ + 1] /\ count[u] = Cardinality(Owned(u))
  BY <1>1 DEF Track, CountOwned
<1>5. CASE u = t
  <2>1. Owned(u)' = Owned(u) \cup {s} /\ s \notin Owned(u)
    BY <1>3, <1>5, NULLAssumption DEF Owned
  <2>2. IsFiniteSet(Owned(u)) /\ Cardinality(Owned(u)) \in Nat
    BY OwnedFinite
  <2>3. Cardinality(Owned(u) \cup {s}) = Cardinality(Owned(u)) + 1
    BY <2>1, <2>2, FS_AddElement
  <2> QED
    BY <1>1, <1>4, <1>5, <2>1, <2>3 DEF TypeOK
<1>6. CASE u # t
  <2>1. Owned(u)' = Owned(u)
    BY <1>3, <1>6, NULLAssumption DEF Owned
  <2> QED
    BY <1>1, <1>4, <1>6, <2>1 DEF TypeOK
<1> QED
  BY <1>5, <1>6

\* A thread gives up a segment.
LEMMA CountLoses ==
  ASSUME FieldsInv, NEW t \in Thread, NEW s \in Segment, thread_id[s] = t,
         thread_id' = [thread_id EXCEPT ![s] = NULL], Track(t, -1)
  PROVE  CountOwned'
<1>1. TypeOK /\ CountOwned
  BY DEF FieldsInv
<1>2. SUFFICES ASSUME NEW u \in Thread
               PROVE  count'[u] = Cardinality(Owned(u)')
  BY DEF CountOwned
<1>3. \A r \in Segment : thread_id'[r] = IF r = s THEN NULL ELSE thread_id[r]
  BY <1>1 DEF TypeOK
<1>4. count' = [count EXCEPT ![t] = @ - 1] /\ count[u] = Cardinality(Owned(u))
  <2>1. count' = [count EXCEPT ![t] = @ + (-1)]
    BY DEF Track
  <2>2. count[t] + (-1) = count[t] - 1
    BY <1>1 DEF TypeOK
  <2> QED
    BY <1>1, <2>1, <2>2 DEF CountOwned
<1>5. CASE u = t
  <2>1. Owned(u)' = Owned(u) \ {s} /\ s \in Owned(u)
    BY <1>3, <1>5, NULLAssumption DEF Owned
  <2>2. IsFiniteSet(Owned(u)) /\ Cardinality(Owned(u)) \in Nat
    BY OwnedFinite
  <2>3. Cardinality(Owned(u) \ {s}) = Cardinality(Owned(u)) - 1
    BY <2>1, <2>2, FS_RemoveElement
  <2> QED
    BY <1>1, <1>4, <1>5, <2>1, <2>3 DEF TypeOK
<1>6. CASE u # t
  <2>1. Owned(u)' = Owned(u)
    BY <1>3, <1>6, NULLAssumption DEF Owned
  <2> QED
    BY <1>1, <1>4, <1>6, <2>1 DEF TypeOK
<1> QED
  BY <1>5, <1>6

-----------------------------------------------------------------------------
(***************************************************************************)
(* The steps of the calls.                                                 *)
(***************************************************************************)

\* What a step has to establish of the segment that the call has in hand after it.
LEMMA RoleAfter ==
  ASSUME TypeOK',
         pc' \in {"claim"} \cup Freeing \cup Abandoning => \E s \in Segment : \E p \in Unit :
           /\ s = cur'.s /\ p = cur'.p
           /\ pc' = "claim" => /\ mapped'[s] /\ ~(Cached(s)')
                               /\ kind'[s] # "huge" => thread_id'[s] = me'
           /\ pc' \in Freeing \cup Abandoning => thread_id'[s] = me' /\ ~(Cached(s)')
           /\ pc' \in {"delay_free", "clear"} =>
                p \in InUse(s)' /\ (kind'[s] # "huge" => page'[s][p].heap # NULL)
           /\ pc' = "free" => InUse(s)' = {}
           /\ pc' \in Abandoning => kind'[s] # "huge" /\ InUse(s)' # {} /\ Orphans(s)' = InUse(s)',
         pc' = "try" \/ (pc' \in Freeing /\ cur'.ret = "try") => cur'.k # "huge",
         pc' # "idle" => status'[me'] # "gone",
         \A s \in Segment : kind'[s] = "huge" /\ thread_id'[s] # NULL => pc' \in Freeing /\ s = cur'.s
  PROVE  Role'
<1>1. CASE pc' \in {"claim"} \cup Freeing \cup Abandoning
  <2>1. PICK s \in Segment, p \in Unit :
          /\ s = cur'.s /\ p = cur'.p
          /\ pc' = "claim" => /\ mapped'[s] /\ ~(Cached(s)')
                              /\ kind'[s] # "huge" => thread_id'[s] = me'
          /\ pc' \in Freeing \cup Abandoning => thread_id'[s] = me' /\ ~(Cached(s)')
          /\ pc' \in {"delay_free", "clear"} =>
               p \in InUse(s)' /\ (kind'[s] # "huge" => page'[s][p].heap # NULL)
          /\ pc' = "free" => InUse(s)' = {}
          /\ pc' \in Abandoning => kind'[s] # "huge" /\ InUse(s)' # {} /\ Orphans(s)' = InUse(s)'
    BY <1>1
  <2>2. (Cached(cur.s)' <=> Cached(s)')
    BY <2>1 DEF Cached
  <2>3. InUse(cur.s)' = InUse(s)'
    BY <2>1 DEF InUse, Pages
  <2>4. Orphans(cur.s)' = Orphans(s)'
    BY <2>1, <2>3 DEF Orphans
  <2> QED
    BY <2>1, <2>2, <2>3, <2>4 DEF Role, Freeing, Abandoning
<1>2. CASE pc' \notin {"claim"} \cup Freeing \cup Abandoning
  BY <1>2 DEF Role, Freeing, Abandoning
<1> QED
  BY <1>1, <1>2

\* between calls no huge segment belongs to a thread, nor while a call
\* looks for a segment or takes a page
LEMMA HugeFree0 ==
  ASSUME FieldsInv, pc \notin Freeing
  PROVE  \A s \in Segment : kind[s] = "huge" => thread_id[s] = NULL
BY DEF FieldsInv, Role

\* A step that moves no segment.
LEMMA StepKeeps ==
  ASSUME FieldsInv, TypeOK', \A s \in Segment : OnlyResets(s),
         UNCHANGED <<kind, used, abandoned, thread_id, mem_is_fixed, mapped, abandoned_list>>,
         UNCHANGED <<free_queue, cache, count>>
  PROVE  /\ Role' => FieldsInv'
         /\ \A s : Cached(s)' <=> Cached(s)
         /\ \A s \in Segment : InUse(s)' = InUse(s) /\ Orphans(s)' = Orphans(s)
<1>1. \A s \in Segment :
        SegmentFields(s)' /\ InUse(s)' = InUse(s) /\ Orphans(s)' = Orphans(s)
  BY FieldsResets
<1>2. CacheOwn' /\ \A s : Cached(s)' <=> Cached(s)
  BY <1>1, CacheKept
<1>3. QueueOwn'
  <2>1. PICK A \in SUBSET Segment : A = {}
    OBVIOUS
  <2>2. \A t \in Thread, k \in Queued, s \in Segment : InQueue(t, k, s)' => InQueue(t, k, s) /\ s \notin A
    BY <2>1 DEF InQueue
  <2>3. \A s \in Segment \ A : /\ thread_id'[s] = thread_id[s] /\ kind'[s] = kind[s]
                               /\ Cached(s)' => Cached(s)
    BY <1>2
  <2> QED
    BY <2>2, <2>3, QueueKept
<1>4. CountOwned'
  BY CountKept
<1> QED
  BY <1>1, <1>2, <1>3, <1>4 DEF FieldsInv

\* The same when the segments and their memory do not change at all.
LEMMA StepSame ==
  ASSUME FieldsInv, TypeOK', UNCHANGED <<segment, memory, abandoned_list>>,
         UNCHANGED <<free_queue, cache, count>>
  PROVE  /\ Role' => FieldsInv'
         /\ \A s : Cached(s)' <=> Cached(s)
         /\ \A s \in Segment : InUse(s)' = InUse(s) /\ Orphans(s)' = Orphans(s)
<1>1. \A s \in Segment : OnlyResets(s)
  BY DEF OnlyResets, segment
<1>2. UNCHANGED <<kind, used, abandoned, thread_id, mem_is_fixed, mapped, abandoned_list>>
  BY DEF segment, memory
<1> QED
  BY <1>1, <1>2, StepKeeps

\* a page is asked for
LEMMA StepAllocStart ==
  ASSUME FieldsInv, TypeOK', NEW t \in Thread, NEW k \in Kinds, AllocStart(t, k)
  PROVE  FieldsInv'
<1>1. /\ pc = "idle" /\ status[t] = "alive" /\ me' = t
      /\ UNCHANGED <<segment, memory, abandoned_list>> /\ UNCHANGED <<free_queue, cache, count, status>>
  BY DEF AllocStart, tld
<1>2. /\ Role' => FieldsInv'
      /\ \A s : Cached(s)' <=> Cached(s)
  BY <1>1, StepSame
<1>3. UNCHANGED <<kind, thread_id, mapped>>
  BY <1>1 DEF segment, memory
<1>4. \A s \in Segment : kind'[s] = "huge" => thread_id'[s] = NULL
  BY <1>1, <1>3, HugeFree0 DEF Freeing
<1>5. TypeOK /\ t # NULL
  BY NULLAssumption DEF FieldsInv
<1>6. CASE k \in Queued /\ free_queue[t][k] # <<>> /\ pc' = "claim"
           /\ cur' = [NoCall EXCEPT !.k = k, !.s = Head(free_queue[t][k])]
  <2>1. PICK s : s = Head(free_queue[t][k])
    OBVIOUS
  <2>2. free_queue[t][k] \in Seq(Segment)
    BY <1>5, <1>6, QueueTypes
  <2>3. s \in Segment /\ InQueue(t, k, s)
    BY <1>6, <2>1, <2>2 DEF InQueue
  <2>4. thread_id[s] = t /\ kind[s] = k /\ ~Cached(s)
    BY <1>5, <1>6, <2>3, QueueOwnIs DEF FieldsInv
  <2>5. mapped[s]
    BY <1>5, <2>3, <2>4 DEF FieldsInv, SegmentFields
  <2>6. cur'.s = s /\ cur'.p \in Unit
    BY <1>6, <2>1 DEF NoCall, TypeOK, Call
  <2> QED
    BY <1>1, <1>2, <1>3, <1>4, <1>6, <2>3, <2>4, <2>5, <2>6, RoleAfter DEF Freeing, Abandoning
<1>7. CASE pc' \in {"try", "fresh"} /\ cur' = [NoCall EXCEPT !.k = k] /\ (pc' = "try" => k # "huge")
  <2>1. cur'.k = k
    BY <1>7 DEF NoCall
  <2> QED
    BY <1>1, <1>2, <1>4, <1>7, <2>1, RoleAfter DEF Freeing, Abandoning
<1> QED
  BY <1>6, <1>7 DEF AllocStart

\* the searches end
LEMMA StepSearch ==
  ASSUME FieldsInv, TypeOK', TryEnd \/ ReclaimAllStart
  PROVE  FieldsInv'
<1>1. /\ pc \in {"try", "idle"} /\ pc' \in {"fresh", "reclaim_all"} /\ status'[me'] # "gone"
      /\ UNCHANGED <<segment, memory, abandoned_list>> /\ UNCHANGED <<free_queue, cache, count, status>>
  BY DEF TryEnd, ReclaimAllStart, tld, FieldsInv, Role
<1>2. UNCHANGED <<kind, thread_id>>
  BY <1>1 DEF segment
<1>3. \A s \in Segment : kind'[s] = "huge" => thread_id'[s] = NULL
  BY <1>1, <1>2, HugeFree0 DEF Freeing
<1>4. Role'
  BY <1>1, <1>3, RoleAfter DEF Freeing, Abandoning
<1> QED
  BY <1>1, <1>4, StepSame

\* The clock, an option and the end of a thread.
LEMMA StepIdle ==
  ASSUME FieldsInv, TypeOK',
         Tick \/ SetCache \/ \E t \in Thread : ThreadExit(t)
  PROVE  FieldsInv'
<1>1. /\ pc = "idle" /\ pc' = "idle"
      /\ UNCHANGED <<segment, memory, abandoned_list>> /\ UNCHANGED <<free_queue, cache, count>>
  BY DEF Tick, SetCache, ThreadExit, tld
<1>2. UNCHANGED <<kind, thread_id>>
  BY <1>1 DEF segment
<1>3. \A s \in Segment : kind'[s] = "huge" => thread_id'[s] = NULL
  BY <1>1, <1>2, HugeFree0 DEF Freeing
<1>4. Role'
  BY <1>1, <1>3, RoleAfter DEF Freeing, Abandoning
<1> QED
  BY <1>1, <1>4, StepSame

\* A thread starts.
LEMMA StepThreadStart ==
  ASSUME FieldsInv, TypeOK', NEW t \in Thread, ThreadStart(t)
  PROVE  FieldsInv'
<1>1. /\ pc = "idle" /\ pc' = "idle" /\ count[t] = 0
      /\ free_queue' = [free_queue EXCEPT ![t] = [k \in Queued |-> <<>>]]
      /\ cache' = [cache EXCEPT ![t] = <<>>]
      /\ count' = [count EXCEPT ![t] = 0]
      /\ UNCHANGED <<segment, memory, abandoned_list>>
  BY DEF ThreadStart
<1>2. TypeOK
  BY DEF FieldsInv
<1>3. \A s \in Segment : SegmentFields(s)' /\ InUse(s)' = InUse(s)
  BY <1>1, FieldsSame
<1>4. UNCHANGED <<kind, thread_id>>
  BY <1>1 DEF segment
<1>5. \A u \in Thread : cache'[u] = IF u = t THEN <<>> ELSE cache[u]
  BY <1>1, <1>2 DEF TypeOK
<1>6. \A s \in Segment : Cached(s)' => Cached(s)
  BY <1>5 DEF Cached
<1>7. CacheOwn'
  <2>1. SUFFICES ASSUME NEW u \in Thread, NEW i \in DOMAIN cache'[u]
                 PROVE  /\ thread_id'[cache'[u][i]] = u /\ kind'[cache'[u][i]] # "huge"
                        /\ (InUse(cache[u][i]))' = {}
                        /\ \A j \in DOMAIN cache'[u] : cache'[u][i] = cache'[u][j] => i = j
    BY DEF CacheOwn
  <2>2. u # t /\ cache'[u] = cache[u] /\ i \in DOMAIN cache[u]
    BY <1>5, <2>1
  <2>3. PICK s \in Segment : s = cache[u][i]
    BY <1>2, <2>2, QueueTypes
  <2>4. (InUse(cache[u][i]))' = InUse(s)'
    BY <2>2, <2>3 DEF InUse, Pages
  <2>5. /\ thread_id[s] = u /\ kind[s] # "huge" /\ InUse(s) = {}
        /\ \A j \in DOMAIN cache[u] : cache[u][i] = cache[u][j] => i = j
    BY <2>2, <2>3 DEF FieldsInv, CacheOwn
  <2> QED
    BY <1>3, <1>4, <2>2, <2>3, <2>4, <2>5
<1>8. QueueOwn'
  <2>1. \A u \in Thread, k \in Queued : free_queue'[u][k] = IF u = t THEN <<>> ELSE free_queue[u][k]
    BY <1>1, <1>2 DEF TypeOK
  <2>2. PICK A \in SUBSET Segment : A = {}
    OBVIOUS
  <2>3. \A u \in Thread, k \in Queued, s \in Segment : InQueue(u, k, s)' => InQueue(u, k, s) /\ s \notin A
    BY <2>1, <2>2 DEF InQueue
  <2>4. \A s \in Segment \ A : /\ thread_id'[s] = thread_id[s] /\ kind'[s] = kind[s]
                               /\ Cached(s)' => Cached(s)
    BY <1>4, <1>6
  <2> QED
    BY <2>3, <2>4, QueueKept
<1>9. CountOwned'
  <2>1. count' = count
    BY <1>1, <1>2 DEF TypeOK
  <2> QED
    BY <1>4, <2>1, CountKept
<1>10. Role'
  <2>1. \A s \in Segment : kind'[s] = "huge" => thread_id'[s] = NULL
    BY <1>1, <1>4, HugeFree0 DEF Freeing
  <2> QED
    BY <1>1, <2>1, RoleAfter DEF Freeing, Abandoning
<1> QED
  BY <1>3, <1>7, <1>8, <1>9, <1>10 DEF FieldsInv

\* A page is freed.
LEMMA StepPageFree ==
  ASSUME FieldsInv, TypeOK', NEW t \in Thread, PageFree(t)
  PROVE  FieldsInv'
<1>1. /\ pc = "idle" /\ pc' = "delay_free" /\ me' = t /\ status[t] # "gone"
      /\ UNCHANGED <<segment, memory, abandoned_list>> /\ UNCHANGED <<free_queue, cache, count, status>>
  BY DEF PageFree, tld
<1>2. PICK s \in Segment, p \in Unit, force \in BOOLEAN :
        /\ thread_id[s] = t /\ p \in InUse(s) /\ page[s][p].heap = t
        /\ cur' = [NoCall EXCEPT !.s = s, !.p = p, !.force = force]
  BY DEF PageFree
<1>3. /\ Role' => FieldsInv'
      /\ \A r : Cached(r)' <=> Cached(r)
      /\ \A r \in Segment : InUse(r)' = InUse(r)
  BY <1>1, StepSame
<1>4. UNCHANGED <<kind, thread_id, page>>
  BY <1>1 DEF segment
<1>5. \A r \in Segment : kind'[r] = "huge" => thread_id'[r] = NULL
  BY <1>1, <1>4, HugeFree0 DEF Freeing
<1>6. ~Cached(s)
  BY <1>2, CachedIs
<1>7. cur'.s = s /\ cur'.p = p /\ cur'.ret = "idle" /\ t # NULL
  BY <1>2, NULLAssumption DEF NoCall
<1>8. Role'
  BY <1>1, <1>2, <1>3, <1>4, <1>5, <1>6, <1>7, RoleAfter DEF Freeing, Abandoning
<1> QED
  BY <1>3, <1>8

\* The delayed resets are done.
LEMMA StepResetDelayed ==
  ASSUME FieldsInv, TypeOK', ResetDelayed
  PROVE  FieldsInv'
<1>1. TypeOK
  BY DEF FieldsInv
<1>2. \A s \in Segment : OnlyResets(s)
  BY <1>1, ResetDelayedDoes
<1>3. /\ UNCHANGED <<kind, used, abandoned, thread_id, mem_is_fixed, mapped, abandoned_list>>
      /\ UNCHANGED <<free_queue, cache, count>>
      /\ status' = status
  BY DEF ResetDelayed
<1>4. /\ Role' => FieldsInv'
      /\ \A r : Cached(r)' <=> Cached(r)
      /\ \A r \in Segment : InUse(r)' = InUse(r) /\ Orphans(r)' = Orphans(r)
  BY <1>2, <1>3, StepKeeps
<1>5. \/ pc = "delay_alloc" /\ pc' = "idle"
      \/ pc = "delay_free" /\ pc' = "clear" /\ me' = me /\ cur' = cur
      \/ pc = "delay_abandon" /\ pc' = "abandon" /\ me' = me /\ cur' = cur
  BY DEF ResetDelayed, After, Finish
<1>6. CASE pc = "delay_alloc" /\ pc' = "idle"
  <2>1. \A r \in Segment : kind'[r] = "huge" => thread_id'[r] = NULL
    BY <1>3, <1>6, HugeFree0 DEF Freeing
  <2> QED
    BY <1>4, <1>6, <2>1, RoleAfter DEF Freeing, Abandoning
<1>7. CASE pc = "delay_free" /\ pc' = "clear" /\ me' = me /\ cur' = cur
  <2>1. PICK s \in Segment, p \in Unit : s = cur.s /\ p = cur.p
    BY <1>7, ClearFacts
  <2>2. /\ thread_id[s] = me /\ ~Cached(s) /\ p \in InUse(s)
        /\ kind[s] # "huge" => page[s][p].heap # NULL
    BY <1>7, <2>1, ClearFacts
  <2>3. page'[s][p].heap = page[s][p].heap
    BY <1>1, <1>2, <1>3, KeptPages
  <2>4. /\ status[me] # "gone" /\ (cur.ret = "try" => cur.k # "huge")
        /\ \A r \in Segment : kind[r] = "huge" /\ thread_id[r] # NULL => r = s
    BY <1>7, <2>1 DEF FieldsInv, Role, Freeing
  <2> QED
    BY <1>3, <1>4, <1>7, <2>1, <2>2, <2>3, <2>4, RoleAfter DEF Freeing, Abandoning
<1>8. CASE pc = "delay_abandon" /\ pc' = "abandon" /\ me' = me /\ cur' = cur
  <2>1. PICK s \in Segment, p \in Unit : s = cur.s /\ p = cur.p
    BY <1>1, <1>8 DEF TypeOK, Call
  <2>2. /\ thread_id[s] = me /\ ~Cached(s) /\ status[me] # "gone"
        /\ kind[s] # "huge" /\ InUse(s) # {} /\ Orphans(s) = InUse(s)
    BY <1>8, <2>1 DEF FieldsInv, Role, Abandoning
  <2>3. \A r \in Segment : kind'[r] = "huge" => thread_id'[r] = NULL
    BY <1>3, <1>8, HugeFree0 DEF Freeing
  <2> QED
    BY <1>3, <1>4, <1>8, <2>1, <2>2, <2>3, RoleAfter DEF Freeing, Abandoning
<1> QED
  BY <1>5, <1>6, <1>7, <1>8

\* A segment leaves no queue and no cache: what steps on segments that
\* are in none keep.
LEMMA QueuesOfOthers ==
  ASSUME FieldsInv, TypeOK', NEW s \in Segment, cache' = cache, ~Cached(s),
         \A r \in Segment : r # s =>
           thread_id'[r] = thread_id[r] /\ kind'[r] = kind[r] /\ InUse(r)' = InUse(r),
         \A t \in Thread, k \in Queued, r \in Segment : InQueue(t, k, r)' =>
           \/ InQueue(t, k, r) /\ r # s
           \/ r = s /\ thread_id'[s] = t /\ kind'[s] = k
  PROVE  CacheOwn' /\ QueueOwn' /\ \A r : Cached(r)' <=> Cached(r)
<1>1. CacheOwn' /\ \A r : Cached(r)' <=> Cached(r)
  BY CacheKept
<1>2. PICK A \in SUBSET Segment : A = {s}
  OBVIOUS
<1>3. \A r \in Segment \ A : /\ thread_id'[r] = thread_id[r] /\ kind'[r] = kind[r]
                             /\ Cached(r)' => Cached(r)
  BY <1>1, <1>2
<1>4. \A t \in Thread, k \in Queued, r \in Segment : InQueue(t, k, r)' =>
        \/ InQueue(t, k, r) /\ r \notin A
        \/ thread_id'[r] = t /\ kind'[r] = k /\ ~(Cached(r)')
  BY <1>1, <1>2
<1>5. QueueOwn'
  BY <1>3, <1>4, QueueKept
<1> QED
  BY <1>1, <1>5

\* The queues stay, and s is in the right ones.
LEMMA QueuesStay ==
  ASSUME FieldsInv, free_queue' = free_queue, NEW s \in Segment
  PROVE  /\ \A t \in Thread, k \in Queued, r \in Segment : InQueue(t, k, r)' <=> InQueue(t, k, r)
         /\ \A t \in Thread, k \in Queued : InQueue(t, k, s) => thread_id[s] = t /\ kind[s] = k
<1>1. \A t \in Thread, k \in Queued, r \in Segment : InQueue(t, k, r)' <=> InQueue(t, k, r)
  BY DEF InQueue
<1>2. \A t \in Thread, k \in Queued : InQueue(t, k, s) => thread_id[s] = t /\ kind[s] = k
  BY QueueOwnIs DEF FieldsInv
<1> QED
  BY <1>1, <1>2

\* A huge segment is taken by the thread that frees its block.
LEMMA StepHugeFree ==
  ASSUME FieldsInv, TypeOK', NEW t \in Thread, HugeFree(t)
  PROVE  FieldsInv'
<1>1. /\ pc = "idle" /\ pc' = "delay_free" /\ me' = t /\ status[t] # "gone" /\ Track(t, 1)
      /\ UNCHANGED <<kind, used, abandoned, mem_is_fixed, page, memory, abandoned_list>>
      /\ free_queue' = free_queue /\ cache' = cache /\ status' = status
  BY DEF HugeFree
<1>2. PICK s \in Segment :
        /\ mapped[s] /\ kind[s] = "huge" /\ thread_id[s] = NULL /\ InUse(s) # {}
        /\ thread_id' = [thread_id EXCEPT ![s] = t]
        /\ cur' = [NoCall EXCEPT !.s = s, !.force = TRUE]
  BY DEF HugeFree
<1>3. TypeOK /\ t # NULL
  BY NULLAssumption DEF FieldsInv
<1>4. \A r \in Segment : SegmentFields(r)' /\ InUse(r)' = InUse(r)
  BY <1>1, <1>2, FieldsHuge
<1>5. ~Cached(s)
  BY <1>2, CachedIs
<1>6. \A r \in Segment : thread_id'[r] = IF r = s THEN t ELSE thread_id[r]
  BY <1>2, <1>3 DEF TypeOK
<1>7. CacheOwn' /\ QueueOwn' /\ \A r : Cached(r)' <=> Cached(r)
  <2>1. \A u \in Thread, k \in Queued, r \in Segment : InQueue(u, k, r)' => InQueue(u, k, r) /\ r # s
    BY <1>1, <1>2, NULLAssumption, QueuesStay
  <2>2. \A r \in Segment : r # s =>
          thread_id'[r] = thread_id[r] /\ kind'[r] = kind[r] /\ InUse(r)' = InUse(r)
    BY <1>1, <1>4, <1>6
  <2> QED
    BY <1>1, <1>5, <2>1, <2>2, QueuesOfOthers
<1>8. CountOwned'
  BY <1>1, <1>2, CountGets
<1>9. Role'
  <2>1. cur'.s = s /\ cur'.p = 0 /\ cur'.ret = "idle" /\ 0 \in Unit
    BY <1>2, CapacityFacts DEF NoCall
  <2>2. 0 \in InUse(s)
    <3>1. Pages(s) = {0}
      BY <1>2, CapacityAssumption DEF Pages
    <3> QED
      BY <1>2, <3>1 DEF InUse
  <2>3. \A r \in Segment : kind'[r] = "huge" /\ thread_id'[r] # NULL => r = s
    BY <1>1, <1>6, HugeFree0 DEF Freeing
  <2>4. thread_id'[s] = me' /\ ~(Cached(s)') /\ 0 \in InUse(s)' /\ kind'[s] = "huge"
    BY <1>1, <1>2, <1>4, <1>5, <1>6, <1>7, <2>2
  <2> QED
    BY <1>1, <2>1, <2>3, <2>4, RoleAfter DEF Freeing, Abandoning
<1> QED
  BY <1>4, <1>7, <1>8, <1>9 DEF FieldsInv

\* A page of a thread that ends is abandoned.
LEMMA StepPageAbandon ==
  ASSUME FieldsInv, TypeOK', NEW t \in Thread, PageAbandon(t)
  PROVE  FieldsInv'
<1>1. /\ pc = "idle" /\ status[t] = "exiting" /\ status' = status
      /\ free_queue' = free_queue /\ cache' = cache /\ count' = count /\ thread_id' = thread_id /\ kind' = kind
      /\ used' = used
  BY DEF PageAbandon, tld
<1>2. PICK s \in Segment, p \in Unit :
        /\ AbandonOf(t, s, p)
        /\ IF used[s] = abandoned[s] + 1
             THEN pc' = "delay_abandon" /\ me' = t /\ cur' = [NoCall EXCEPT !.s = s]
             ELSE UNCHANGED <<pc, me, cur>>
  BY DEF PageAbandon, AbandonOf
<1>3. /\ \A r \in Segment : SegmentFields(r)' /\ InUse(r)' = InUse(r)
      /\ mapped[s] /\ kind[s] # "huge" /\ abandoned'[s] = Cardinality(Orphans(s)')
      /\ thread_id[s] = t /\ InUse(s) # {} /\ abandoned' = [abandoned EXCEPT ![s] = @ + 1]
  BY <1>2, FieldsAbandonPage DEF AbandonOf
<1>4. TypeOK
  BY DEF FieldsInv
<1>5. ~Cached(s)
  BY <1>3, CachedIs
<1>6. CacheOwn' /\ QueueOwn' /\ \A r : Cached(r)' <=> Cached(r)
  BY <1>1, <1>3, <1>5, QueuesOfOthers, QueuesStay
<1>7. CountOwned'
  BY <1>1, CountKept
<1>8. \A r \in Segment : kind'[r] = "huge" => thread_id'[r] = NULL
  BY <1>1, HugeFree0 DEF Freeing
<1>9. Role'
  <2>1. CASE used[s] = abandoned[s] + 1
    <3>1. pc' = "delay_abandon" /\ me' = t /\ cur' = [NoCall EXCEPT !.s = s]
      BY <1>2, <2>1
    <3>2. cur'.s = s /\ cur'.p = 0 /\ 0 \in Unit
      BY <3>1, CapacityFacts DEF NoCall
    <3>3. Orphans(s)' = InUse(s)'
      <4>1. /\ IsFiniteSet(InUse(s)) /\ InUse(s)' = InUse(s) /\ Orphans(s)' \in SUBSET InUse(s)
        BY <1>3, <1>4, PageSets DEF Orphans
      <4>2. used[s] = Cardinality(InUse(s)) /\ abandoned'[s] = abandoned[s] + 1
        BY <1>3, <1>4 DEF FieldsInv, SegmentFields, TypeOK
      <4>3. Cardinality(Orphans(s)') = Cardinality(InUse(s))
        BY <1>3, <2>1, <4>2
      <4> DEFINE S == InUse(s)
                 T == Orphans(s)'
      <4>4. IsFiniteSet(S) /\ T \in SUBSET S /\ Cardinality(T) = Cardinality(S)
        BY <4>1, <4>3
      <4> HIDE DEF S, T
      <4>5. T = S
        BY <4>4, FS_Subset
      <4> QED
        BY <4>1, <4>5 DEF S, T
    <3> QED
      BY <1>1, <1>3, <1>5, <1>6, <1>8, <3>1, <3>2, <3>3, RoleAfter DEF Freeing, Abandoning
  <2>2. CASE used[s] # abandoned[s] + 1
    <3>1. pc' = "idle"
      BY <1>1, <1>2, <2>2
    <3> QED
      BY <1>8, <3>1, RoleAfter DEF Freeing, Abandoning
  <2> QED
    BY <2>1, <2>2
<1> QED
  BY <1>3, <1>6, <1>7, <1>9 DEF FieldsInv

\* A segment is abandoned.
LEMMA StepAbandonSegment ==
  ASSUME FieldsInv, TypeOK', AbandonSegment
  PROVE  FieldsInv'
<1>1. TypeOK
  BY DEF FieldsInv
<1>2. PICK s \in Segment : s = cur.s
  BY <1>1 DEF AbandonSegment, TypeOK
<1>3. PICK t \in Thread : t = me
  BY <1>1 DEF AbandonSegment, TypeOK
<1>4. /\ pc = "abandon" /\ pc' = "idle"
      /\ thread_id[s] = t /\ ~Cached(s)
      /\ thread_id' = [thread_id EXCEPT ![s] = NULL]
      /\ Dequeue(t, s) /\ Track(t, -1) /\ cache' = cache /\ kind' = kind
  BY <1>2, <1>3 DEF AbandonSegment, FieldsInv, Role, Abandoning, Finish
<1>5. \A r \in Segment : SegmentFields(r)' /\ InUse(r)' = InUse(r)
  BY FieldsAbandonSegment
<1>6. \A r \in Segment : thread_id'[r] = IF r = s THEN NULL ELSE thread_id[r]
  BY <1>1, <1>4 DEF TypeOK
<1>7. CacheOwn' /\ QueueOwn'
  <2>1. \A u \in Thread, k \in Queued, r \in Segment : InQueue(u, k, r)' => InQueue(u, k, r) /\ r # s
    BY <1>4, Dequeued
  <2>2. \A r \in Segment : r # s =>
          thread_id'[r] = thread_id[r] /\ kind'[r] = kind[r] /\ InUse(r)' = InUse(r)
    BY <1>4, <1>5, <1>6
  <2> QED
    BY <1>4, <2>1, <2>2, QueuesOfOthers
<1>8. CountOwned'
  BY <1>4, CountLoses
<1>9. Role'
  <2>1. \A r \in Segment : kind'[r] = "huge" => thread_id'[r] = NULL
    BY <1>4, <1>6, HugeFree0 DEF Freeing
  <2> QED
    BY <1>4, <2>1, RoleAfter DEF Freeing, Abandoning
<1> QED
  BY <1>5, <1>7, <1>8, <1>9 DEF FieldsInv

\* A page is claimed.
LEMMA StepClaim ==
  ASSUME FieldsInv, TypeOK', Claim
  PROVE  FieldsInv'
<1>1. TypeOK
  BY DEF FieldsInv
<1>2. /\ pc = "claim" /\ pc' = "delay_alloc" /\ me \in Thread /\ cur.s \in Segment
      /\ UNCHANGED <<kind, thread_id, cache, count, status, me>>
  BY <1>1, ClaimSteps DEF TypeOK
<1>3. PICK s \in Segment : s = cur.s
  BY <1>2
<1>4. ~Cached(s) /\ mapped[s] /\ (kind[s] # "huge" => thread_id[s] = me) /\ status[me] # "gone"
  BY <1>2, <1>3 DEF FieldsInv, Role
<1>5. \A r \in Segment : SegmentFields(r)'
  BY FieldsClaim
<1>6. /\ \A r \in Segment : r # s => InUse(r)' = InUse(r)
      /\ \/ free_queue' = free_queue
         \/ kind[s] \in Queued /\ Dequeue(me, s)
  <2>1. CASE UNCHANGED <<page, backed, used, pages_reset, free_queue>>
    BY <1>2, <2>1 DEF InUse, Pages
  <2>2. ASSUME NEW p \in Pages(cur.s) \ InUse(cur.s), ClaimOf(cur.s, p)
        PROVE  /\ \A r \in Segment : r # s => InUse(r)' = InUse(r)
               /\ \/ free_queue' = free_queue
                  \/ kind[s] \in Queued /\ Dequeue(me, s)
    <3>1. \A r \in Segment : r # s => page'[r] = page[r]
      BY <1>1, <1>3, <2>2 DEF ClaimOf, TypeOK
    <3>2. free_queue' = free_queue \/ (kind[s] \in Queued /\ Dequeue(me, s))
      BY <1>3, <2>2 DEF ClaimOf
    <3> QED
      BY <1>2, <3>1, <3>2 DEF InUse, Pages
  <2> QED
    BY <2>1, <2>2, ClaimSteps
<1>7. PICK t \in Thread : t = me
  BY <1>2
<1>8. \A u \in Thread, k \in Queued, r \in Segment : InQueue(u, k, r)' => InQueue(u, k, r)
  <2>1. CASE free_queue' = free_queue
    BY <2>1 DEF InQueue
  <2>2. CASE kind[s] \in Queued /\ Dequeue(me, s)
    <3>1. Dequeue(t, s) /\ thread_id[s] = t
      BY <1>4, <1>7, <2>2 DEF Queued
    <3> QED
      BY <3>1, Dequeued
  <2> QED
    BY <1>6, <2>1, <2>2
<1>9. CacheOwn' /\ QueueOwn'
  <2>1. \A u \in Thread, k \in Queued : InQueue(u, k, s) => thread_id[s] = u /\ kind[s] = k
    BY <1>1, QueueOwnIs DEF FieldsInv
  <2> QED
    BY <1>2, <1>4, <1>6, <1>8, <2>1, QueuesOfOthers
<1>10. CountOwned'
  BY <1>2, CountKept
<1>11. Role'
  <2>1. \A r \in Segment : kind'[r] = "huge" => thread_id'[r] = NULL
    BY <1>2, HugeFree0 DEF Freeing
  <2> QED
    BY <1>2, <1>4, <2>1, RoleAfter DEF Freeing, Abandoning
<1> QED
  BY <1>5, <1>9, <1>10, <1>11 DEF FieldsInv

\* A page is cleared.
LEMMA StepPageClear ==
  ASSUME FieldsInv, TypeOK', PageClear
  PROVE  FieldsInv'
<1>1. TypeOK
  BY DEF FieldsInv
<1>2. pc = "clear" /\ UNCHANGED <<kind, abandoned, thread_id, cache, count, status>>
  BY PageClearSteps
<1>3. PICK s \in Segment, p \in Unit, t \in Thread : s = cur.s /\ p = cur.p /\ t = me
  BY <1>2, ClearFacts
<1>4. /\ p \in InUse(s) /\ mapped[s] /\ thread_id[s] = t /\ ~Cached(s)
      /\ used[s] = Cardinality(InUse(s)) /\ used[s] \in Nat \ {0}
      /\ Cardinality(InUse(s) \ {p}) = used[s] - 1
      /\ kind[s] # "huge" => page[s][p].heap # NULL
  BY <1>2, <1>3, ClearFacts
<1>5. /\ \A r \in Segment : SegmentFields(r)'
      /\ \A r \in Segment : r # s => InUse(r)' = InUse(r)
      /\ InUse(s)' = InUse(s) \ {p} /\ Orphans(s)' = Orphans(s) \ {p}
  BY <1>3, FieldsClear
<1>6. /\ status[me] # "gone" /\ (cur.ret = "try" => cur.k # "huge")
      /\ \A r \in Segment : kind[r] = "huge" /\ thread_id[r] # NULL => r = s
  BY <1>2, <1>3 DEF FieldsInv, Role, Freeing
<1>7. \/ used[s] - 1 = 0 /\ pc' = "free" /\ UNCHANGED <<me, cur, free_queue>>
      \/ /\ used[s] - 1 # 0 /\ used[s] - 1 = abandoned[s]
         /\ pc' = "delay_abandon" /\ UNCHANGED <<me, cur, free_queue>>
      \/ /\ used[s] - 1 # 0 /\ used[s] - 1 # abandoned[s]
         /\ pc' = "idle"
         /\ free_queue' = free_queue \/ (Enqueue(t, s) /\ used[s] = Capacity[kind[s]])
  <2>1. used[s] - 1 + 1 = used[s]
    BY <1>4
  <2> QED
    BY <1>3, <2>1, PageClearSteps DEF Finish
<1>8. kind[s] = "huge" => used[s] - 1 = 0
  <2>1. SUFFICES ASSUME kind[s] = "huge"
                 PROVE  used[s] - 1 = 0
    OBVIOUS
  <2>2. InUse(s) \ {p} = {}
    <3>1. Pages(s) = {0}
      BY <2>1, CapacityAssumption DEF Pages
    <3> QED
      BY <1>4, <3>1 DEF InUse
  <2> QED
    BY <1>4, <2>2, FS_EmptySet
<1>9. kind[s] = "large" => used[s] - 1 = 0
  <2>1. SUFFICES ASSUME kind[s] = "large"
                 PROVE  used[s] - 1 = 0
    OBVIOUS
  <2>2. InUse(s) \ {p} = {}
    <3>1. Pages(s) = {0}
      BY <2>1, CapacityAssumption DEF Pages
    <3> QED
      BY <1>4, <3>1 DEF InUse
  <2> QED
    BY <1>4, <2>2, FS_EmptySet
<1>10. CacheOwn' /\ QueueOwn' /\ \A r : Cached(r)' <=> Cached(r)
  <2>1. \A u \in Thread, k \in Queued : InQueue(u, k, s) => thread_id[s] = u /\ kind[s] = k
    BY <1>1, QueueOwnIs DEF FieldsInv
  <2>2. \A u \in Thread, k \in Queued, r \in Segment :
          InQueue(u, k, r)' => InQueue(u, k, r) \/ (r = s /\ u = t /\ k = kind[s])
    <3>1. CASE free_queue' = free_queue
      BY <3>1 DEF InQueue
    <3>2. CASE Enqueue(t, s) /\ used[s] - 1 # 0
      <4>1. kind[s] \in Queued
        BY <1>1, <1>8, <1>9, <3>2 DEF TypeOK, PageKind, Queued
      <4>2. PICK k \in Queued : k = kind[s]
        BY <4>1
      <4>3. Adds(t, k, s)
        BY <3>2, <4>2 DEF Enqueue, Adds
      <4>4. TypeOK /\ t \in Thread /\ s \in Segment
        BY <1>1
      <4>5. \A u \in Thread, c \in Queued, r \in Segment :
              InQueue(u, c, r)' => InQueue(u, c, r) \/ (u = t /\ c = k /\ r = s)
        BY <4>3, <4>4, Enqueued
      <4> QED
        BY <4>2, <4>5
    <3> QED
      BY <1>7, <3>1, <3>2
  <2> QED
    BY <1>2, <1>4, <1>5, <2>1, <2>2, QueuesOfOthers
<1>11. CountOwned'
  BY <1>2, CountKept
<1>12. Role'
  <2>1. CASE used[s] - 1 = 0 /\ pc' = "free" /\ UNCHANGED <<me, cur, free_queue>>
    <3>1. InUse(s)' = {}
      <4>0. IsFiniteSet(InUse(s))
        BY <1>1, PageSets
      <4>1. IsFiniteSet(InUse(s)')
        BY <1>5, <4>0, FS_RemoveElement
      <4>2. Cardinality(InUse(s)') = 0
        BY <1>4, <1>5, <2>1
      <4> QED
        BY <4>1, <4>2, FS_EmptySet
    <3> QED
      BY <1>2, <1>3, <1>4, <1>6, <1>10, <2>1, <3>1, RoleAfter DEF Freeing, Abandoning
  <2>2. CASE /\ used[s] - 1 # 0 /\ used[s] - 1 = abandoned[s]
             /\ pc' = "delay_abandon" /\ UNCHANGED <<me, cur, free_queue>>
    <3>1. kind[s] # "huge"
      BY <1>8, <2>2
    <3>2. InUse(s)' # {} /\ Orphans(s)' = InUse(s)'
      <4> DEFINE S == InUse(s)'
                 T == Orphans(s)'
      <4>1. IsFiniteSet(InUse(s)) /\ T \in SUBSET S /\ S = InUse(s) \ {p}
        BY <1>1, <1>5, PageSets DEF Orphans
      <4>2. Cardinality(S) = used[s] - 1
        BY <1>4, <1>5
      <4>3. Cardinality(T) = used[s] - 1
        <5>1. p \notin Orphans(s)
          BY <1>4, <3>1 DEF Orphans
        <5>2. T = Orphans(s)
          BY <1>5, <5>1
        <5>3. abandoned[s] = Cardinality(Orphans(s))
          BY <1>4, <3>1 DEF FieldsInv, SegmentFields
        <5> QED
          BY <2>2, <5>2, <5>3
      <4> HIDE DEF S, T
      <4>4. IsFiniteSet(S)
        BY <4>1, FS_RemoveElement
      <4>5. T = S
        BY <4>1, <4>2, <4>3, <4>4, FS_Subset
      <4>6. S # {}
        BY <2>2, <4>2, FS_EmptySet
      <4> QED
        BY <4>5, <4>6 DEF S, T
    <3>3. \A r \in Segment : kind[r] = "huge" => thread_id[r] = NULL
      BY <1>6, <3>1
    <3> QED
      BY <1>2, <1>3, <1>4, <1>6, <1>10, <2>2, <3>1, <3>2, <3>3, RoleAfter DEF Freeing, Abandoning
  <2>3. CASE used[s] - 1 # 0 /\ pc' = "idle"
    <3>1. \A r \in Segment : kind[r] = "huge" => thread_id[r] = NULL
      BY <1>6, <1>8, <2>3
    <3> QED
      BY <1>2, <2>3, <3>1, RoleAfter DEF Freeing, Abandoning
  <2> QED
    BY <1>7, <2>1, <2>2, <2>3
<1> QED
  BY <1>5, <1>10, <1>11, <1>12 DEF FieldsInv

\* The empty segments of a cache are given back.
LEMMA StepThreadCollect ==
  ASSUME FieldsInv, TypeOK', NEW t \in Thread, ThreadCollect(t)
  PROVE  FieldsInv'
<1>1. TypeOK
  BY DEF FieldsInv
<1>2. PICK S : S = {cache[t][i] : i \in DOMAIN cache[t]}
  OBVIOUS
<1>3. /\ pc = "idle" /\ pc' = "idle" /\ OsFree(t, S, page, backed)
      /\ cache' = [cache EXCEPT ![t] = <<>>]
      /\ used' = used /\ abandoned' = abandoned /\ abandoned_list' = abandoned_list
      /\ free_queue' = free_queue
  BY <1>2 DEF ThreadCollect
<1>4. S \in SUBSET Owned(t) /\ S \subseteq Segment /\ \A s \in S : Cached(s) /\ kind[s] # "huge"
  BY <1>1, <1>2, QueueTypes DEF FieldsInv, CacheOwn, Owned, Cached
<1>5. /\ \A s \in Segment : SegmentFields(s)'
      /\ \A s \in Segment \ S : thread_id'[s] = thread_id[s] /\ kind'[s] = kind[s] /\ InUse(s)' = InUse(s)
      /\ \A s \in S : thread_id'[s] = NULL
  <2>1. PICK pg \in [Segment -> [Unit -> Page]] : pg = page
    BY <1>1 DEF TypeOK
  <2>2. PICK bk : bk = backed
    OBVIOUS
  <2>3. OsFree(t, S, pg, bk)
    BY <1>3, <2>1, <2>2
  <2>4. ResetsTo(pg)
    BY <2>1 DEF ResetsTo
  <2>5. PICK F \in SUBSET Owned(t) : F = S
    BY <1>4
  <2>6. OsFree(t, F, pg, bk)
    BY <2>3, <2>5
  <2>7. /\ \A s \in Segment : SegmentFields(s)'
        /\ \A s \in Segment \ F : thread_id'[s] = thread_id[s] /\ kind'[s] = kind[s] /\ InUse(s)' = InUse(s)
        /\ \A s \in F : thread_id'[s] = NULL
    BY <1>3, <2>4, <2>6, OsFreeFields
  <2> QED
    BY <2>5, <2>7
<1>6. \A u \in Thread : cache'[u] = IF u = t THEN <<>> ELSE cache[u]
  BY <1>1, <1>3 DEF TypeOK
<1>7. \A s : Cached(s)' => Cached(s)
  BY <1>6 DEF Cached
<1>8. CacheOwn'
  <2>1. SUFFICES ASSUME NEW u \in Thread, NEW i \in DOMAIN cache'[u]
                 PROVE  /\ thread_id'[cache'[u][i]] = u /\ kind'[cache'[u][i]] # "huge"
                        /\ (InUse(cache[u][i]))' = {}
                        /\ \A j \in DOMAIN cache'[u] : cache'[u][i] = cache'[u][j] => i = j
    BY DEF CacheOwn
  <2>2. u # t /\ cache'[u] = cache[u] /\ i \in DOMAIN cache[u]
    BY <1>6, <2>1
  <2>3. PICK s \in Segment : s = cache[u][i]
    BY <1>1, <2>2, QueueTypes
  <2>4. (InUse(cache[u][i]))' = InUse(s)'
    BY <2>2, <2>3 DEF InUse, Pages
  <2>5. /\ thread_id[s] = u /\ kind[s] # "huge" /\ InUse(s) = {}
        /\ \A j \in DOMAIN cache[u] : cache[u][i] = cache[u][j] => i = j
    BY <2>2, <2>3 DEF FieldsInv, CacheOwn
  <2>6. s \notin S
    BY <1>4, <2>2, <2>5 DEF Owned
  <2> QED
    BY <1>5, <2>2, <2>3, <2>4, <2>5, <2>6
<1>9. QueueOwn'
  <2>1. PICK A \in SUBSET Segment : A = S
    BY <1>4
  <2>2. \A u \in Thread, k \in Queued, s \in Segment : InQueue(u, k, s)' => InQueue(u, k, s) /\ s \notin A
    <3>1. \A u \in Thread, k \in Queued, s \in Segment : InQueue(u, k, s) => ~Cached(s)
      BY <1>1, QueueOwnIs DEF FieldsInv
    <3> QED
      BY <1>3, <1>4, <2>1, <3>1 DEF InQueue
  <2> QED
    BY <1>5, <1>7, <2>1, <2>2, QueueKept
<1>10. CountOwned'
  <2>1. PICK pg, bk : pg = page /\ bk = backed
    OBVIOUS
  <2>2. OsFree(t, S, pg, bk)
    BY <1>3, <2>1
  <2> QED
    BY <1>1, <1>4, <2>2, OsFreeCount DEF FieldsInv
<1>11. Role'
  <2>1. \A r \in Segment : kind[r] = "huge" => thread_id[r] = NULL
    BY <1>3, HugeFree0 DEF Freeing
  <2>2. \A r \in Segment : kind'[r] = "huge" => thread_id'[r] = NULL
    BY <1>5, <2>1
  <2> QED
    BY <1>3, <2>2, RoleAfter DEF Freeing, Abandoning
<1> QED
  BY <1>5, <1>8, <1>9, <1>10, <1>11 DEF FieldsInv

\* What the call that frees a segment has after it.
LEMMA RoleAfterFree ==
  ASSUME FieldsInv, TypeOK', SegmentFree, \A r \in Segment : kind'[r] = "huge" => thread_id'[r] = NULL
  PROVE  Role'
<1>1. /\ pc = "free" /\ status' = status
      /\ IF cur.ret = "idle" THEN Finish
         ELSE pc' = cur.ret /\ cur' = [cur EXCEPT !.s = NULL] /\ me' = me
  BY SegmentFreeSteps
<1>2. status[me] # "gone"
  BY <1>1 DEF FieldsInv, Role
<1>3. cur \in Call
  BY DEF FieldsInv, TypeOK
<1>4. CASE cur.ret = "idle"
  <2>1. pc' = "idle"
    BY <1>1, <1>4 DEF Finish
  <2> QED
    BY <2>1, RoleAfter DEF Freeing, Abandoning
<1>5. CASE cur.ret # "idle"
  <2>1. pc' \in {"try", "fresh", "reclaim_all"} /\ me' = me
    BY <1>1, <1>3, <1>5 DEF Call
  <2>2. pc' = "try" => cur'.k # "huge"
    <3>1. cur.ret = "try" => cur.k # "huge"
      BY <1>1 DEF FieldsInv, Role, Freeing
    <3> QED
      BY <1>1, <1>3, <1>5, <3>1 DEF Call
  <2> QED
    BY <1>1, <1>2, <2>1, <2>2, RoleAfter DEF Freeing, Abandoning
<1> QED
  BY <1>4, <1>5

\* A cache gives up its first n segments.
LEMMA CacheFewer ==
  ASSUME FieldsInv, TypeOK', NEW S \in SUBSET Segment, NEW t \in Thread, NEW n \in Nat,
         \A r \in Segment \ S : thread_id'[r] = thread_id[r] /\ kind'[r] = kind[r] /\ InUse(r)' = InUse(r),
         \A u \in Thread : u # t => cache'[u] = cache[u] /\ \A i \in DOMAIN cache[u] : cache[u][i] \notin S,
         \A i \in DOMAIN cache'[t] : /\ i + n \in DOMAIN cache[t]
                                     /\ cache'[t][i] = cache[t][i + n] /\ cache[t][i + n] \notin S
  PROVE  CacheOwn' /\ \A s : Cached(s)' => Cached(s)
<1>1. TypeOK
  BY DEF FieldsInv
<1>2. ASSUME NEW u \in Thread, NEW i \in DOMAIN cache'[u]
      PROVE  \E j \in DOMAIN cache[u] :
               /\ cache'[u][i] = cache[u][j] /\ cache[u][j] \notin S
               /\ j = IF u = t THEN i + n ELSE i
  <2>1. CASE u = t
    BY <1>2, <2>1
  <2>2. CASE u # t
    BY <1>2, <2>2
  <2> QED
    BY <2>1, <2>2
<1>3. \A s : Cached(s)' => Cached(s)
  BY <1>2 DEF Cached
<1>4. CacheOwn'
  <2>1. SUFFICES ASSUME NEW u \in Thread, NEW i \in DOMAIN cache'[u]
                 PROVE  /\ thread_id'[cache'[u][i]] = u /\ kind'[cache'[u][i]] # "huge"
                        /\ (InUse(cache[u][i]))' = {}
                        /\ \A m \in DOMAIN cache'[u] : cache'[u][i] = cache'[u][m] => i = m
    BY DEF CacheOwn
  <2>2. PICK j \in DOMAIN cache[u] :
          /\ cache'[u][i] = cache[u][j] /\ cache[u][j] \notin S
          /\ j = IF u = t THEN i + n ELSE i
    BY <1>2, <2>1
  <2>3. PICK s \in Segment : s = cache[u][j]
    BY <1>1, QueueTypes
  <2>4. (InUse(cache[u][i]))' = InUse(s)'
    BY <2>2, <2>3 DEF InUse, Pages
  <2>5. /\ thread_id[s] = u /\ kind[s] # "huge" /\ InUse(s) = {}
        /\ \A l \in DOMAIN cache[u] : cache[u][j] = cache[u][l] => j = l
    BY <2>2, <2>3, ZenonT(60) DEF FieldsInv, CacheOwn
  <2>6. ASSUME NEW m \in DOMAIN cache'[u], cache'[u][i] = cache'[u][m]
        PROVE  i = m
    <3>1. PICK l \in DOMAIN cache[u] :
            cache'[u][m] = cache[u][l] /\ l = IF u = t THEN m + n ELSE m
      BY <1>2
    <3>2. j = l
      BY <2>2, <2>5, <2>6, <3>1
    <3>3. DOMAIN cache'[u] = 1 .. Len(cache'[u]) /\ Len(cache'[u]) \in Nat
      <4>1. cache'[u] \in Seq(Segment)
        BY DEF TypeOK
      <4> QED
        BY <4>1
    <3>4. i \in Nat /\ m \in Nat
      BY <3>3
    <3> QED
      BY <2>2, <3>1, <3>2, <3>4
  <2> QED
    BY <2>2, <2>3, <2>4, <2>5, <2>6
<1> QED
  BY <1>3, <1>4

\* The segment goes to the cache.
LEMMA StepFreeToCache ==
  ASSUME FieldsInv, TypeOK', SegmentFree, NEW force \in BOOLEAN, FreeToCache(cur.s, force)
  PROVE  FieldsInv'
<1>1. TypeOK
  BY DEF FieldsInv
<1>2. /\ pc = "free" /\ Dequeue(me, cur.s)
      /\ used' = used /\ abandoned' = abandoned /\ abandoned_list' = abandoned_list
  BY SegmentFreeSteps
<1>3. PICK s \in Segment, t \in Thread : s = cur.s /\ t = me
  BY <1>1, <1>2 DEF TypeOK
<1>4. /\ kind[s] # "huge" /\ cache' = [cache EXCEPT ![t] = <<s>> \o @]
      /\ page' = PagesReset(s, force)
      /\ UNCHANGED <<thread_id, mapped, count, kind, mem_is_fixed>>
  BY <1>3 DEF FreeToCache
<1>5. thread_id[s] = t /\ ~Cached(s) /\ InUse(s) = {}
  BY <1>2, <1>3 DEF FieldsInv, Role, Freeing
<1>6. \A r \in Segment : OnlyResets(r)
  <2>1. \A r \in Segment : r # s => page'[r] = page[r]
    BY <1>1, <1>4, PagesResetType
  <2>2. \A p \in Unit : page'[s][p] = IF force /\ p \in Removed(s) /\ Resettable(s, p)
                                        THEN [page[s][p] EXCEPT !.reset = TRUE] ELSE page[s][p]
    BY <1>1, <1>4, PagesResetType
  <2> QED
    BY <2>1, <2>2 DEF OnlyResets, Resettable
<1>7. \A r \in Segment : SegmentFields(r)' /\ InUse(r)' = InUse(r)
  BY <1>2, <1>4, <1>6, FieldsResets
<1>8. \A u \in Thread : u # t => cache'[u] = cache[u]
  BY <1>1, <1>4 DEF TypeOK
<1>9. /\ cache[t] \in Seq(Segment) /\ DOMAIN cache[t] = 1 .. Len(cache[t]) /\ Len(cache[t]) \in Nat
      /\ cache'[t] = <<s>> \o cache[t]
  BY <1>1, <1>4, QueueTypes DEF TypeOK
<1>10. /\ DOMAIN cache'[t] = 1 .. Len(cache[t]) + 1 /\ cache'[t][1] = s
       /\ \A i \in 2 .. Len(cache[t]) + 1 : cache'[t][i] = cache[t][i - 1] /\ i - 1 \in DOMAIN cache[t]
  BY <1>9
<1>11. \A r : Cached(r)' => Cached(r) \/ r = s
  <2>1. SUFFICES ASSUME NEW r, NEW u \in Thread, NEW i \in DOMAIN cache'[u], cache'[u][i] = r, r # s
                 PROVE  \E j \in DOMAIN cache[u] : cache[u][j] = r
    BY DEF Cached
  <2>2. CASE u = t
    <3>1. i \in 2 .. Len(cache[t]) + 1
      BY <1>9, <1>10, <2>1, <2>2
    <3> QED
      BY <1>10, <2>1, <2>2, <3>1
  <2>3. CASE u # t
    BY <1>8, <2>1, <2>3
  <2> QED
    BY <2>2, <2>3
<1>12. CacheOwn'
  <2>1. SUFFICES ASSUME NEW u \in Thread, NEW i \in DOMAIN cache'[u]
                 PROVE  /\ thread_id'[cache'[u][i]] = u /\ kind'[cache'[u][i]] # "huge"
                        /\ (InUse(cache[u][i]))' = {}
                        /\ \A m \in DOMAIN cache'[u] : cache'[u][i] = cache'[u][m] => i = m
    BY DEF CacheOwn
  <2>2. \A j \in DOMAIN cache[u] :
          /\ cache[u][j] \in Segment /\ cache[u][j] # s
          /\ thread_id[cache[u][j]] = u /\ kind[cache[u][j]] # "huge" /\ InUse(cache[u][j]) = {}
          /\ \A m \in DOMAIN cache[u] : cache[u][j] = cache[u][m] => j = m
    BY <1>1, <1>5, QueueTypes DEF FieldsInv, CacheOwn, Cached
  <2>3. PICK r \in Segment : r = cache'[u][i]
    BY DEF TypeOK
  <2>4. (InUse(cache[u][i]))' = InUse(r)'
    BY <2>3 DEF InUse, Pages
  <2>5. CASE u # t
    <3>1. cache'[u] = cache[u] /\ i \in DOMAIN cache[u] /\ r = cache[u][i]
      BY <1>8, <2>3, <2>5
    <3>2. /\ thread_id[r] = u /\ kind[r] # "huge" /\ InUse(r) = {}
          /\ \A m \in DOMAIN cache[u] : cache[u][i] = cache[u][m] => i = m
      BY <2>2, <3>1
    <3> QED
      BY <1>4, <1>7, <2>3, <2>4, <3>1, <3>2
  <2>6. CASE u = t /\ i = 1
    <3>1. r = s
      BY <1>10, <2>3, <2>6
    <3>2. \A m \in DOMAIN cache'[u] : cache'[u][i] = cache'[u][m] => i = m
      <4>1. \A m \in 2 .. Len(cache[t]) + 1 : cache'[t][m] # s
        BY <1>10, <2>2, <2>6
      <4> QED
        BY <1>9, <1>10, <2>6, <4>1
    <3> QED
      BY <1>4, <1>5, <1>7, <2>3, <2>4, <2>6, <3>1, <3>2
  <2>7. CASE u = t /\ i # 1
    <3>1. i \in 2 .. Len(cache[t]) + 1
      BY <1>9, <1>10, <2>7
    <3>2. r = cache[t][i - 1] /\ i - 1 \in DOMAIN cache[t]
      BY <1>10, <2>3, <2>7, <3>1
    <3>3. \A m \in DOMAIN cache'[u] : cache'[u][i] = cache'[u][m] => i = m
      <4>1. SUFFICES ASSUME NEW m \in 1 .. Len(cache[t]) + 1, cache'[t][i] = cache'[t][m]
                     PROVE  i = m
        BY <1>10, <2>7
      <4>2. m # 1
        BY <1>10, <2>2, <2>3, <2>7, <3>2, <4>1
      <4>3. m \in 2 .. Len(cache[t]) + 1
        BY <1>9, <4>2
      <4>4. i - 1 = m - 1
        BY <1>10, <2>2, <2>3, <2>7, <3>2, <4>1, <4>3
      <4> QED
        BY <1>9, <3>1, <4>3, <4>4
    <3>4. thread_id[r] = u /\ kind[r] # "huge" /\ InUse(r) = {}
      BY <2>2, <2>7, <3>2
    <3> QED
      BY <1>4, <1>7, <2>3, <2>4, <3>3, <3>4
  <2> QED
    BY <2>5, <2>6, <2>7
<1>13. QueueOwn'
  <2>1. \A u \in Thread, k \in Queued, r \in Segment : InQueue(u, k, r)' => InQueue(u, k, r) /\ r # s
    <3>1. Dequeue(t, s)
      BY <1>2, <1>3
    <3> QED
      BY <1>5, <3>1, Dequeued
  <2>2. PICK A \in SUBSET Segment : A = {s}
    OBVIOUS
  <2>3. \A u \in Thread, k \in Queued, r \in Segment : InQueue(u, k, r)' => InQueue(u, k, r) /\ r \notin A
    BY <2>1, <2>2
  <2>4. \A r \in Segment \ A : /\ thread_id'[r] = thread_id[r] /\ kind'[r] = kind[r]
                               /\ Cached(r)' => Cached(r)
    BY <1>4, <1>11, <2>2
  <2> QED
    BY <2>3, <2>4, QueueKept
<1>14. CountOwned'
  BY <1>4, CountKept
<1>15. Role'
  <2>1. \A r \in Segment : kind[r] = "huge" => thread_id[r] = NULL
    BY <1>3, <1>4 DEF FieldsInv, Role
  <2> QED
    BY <1>4, <2>1, RoleAfterFree
<1> QED
  BY <1>7, <1>12, <1>13, <1>14, <1>15 DEF FieldsInv

\* Segments go back to the OS.
LEMMA StepFreeToOs ==
  ASSUME FieldsInv, TypeOK', SegmentFree, NEW force \in BOOLEAN, FreeToOs(cur.s, force)
  PROVE  FieldsInv'
<1>1. TypeOK
  BY DEF FieldsInv
<1>2. /\ pc = "free" /\ Dequeue(me, cur.s)
      /\ used' = used /\ abandoned' = abandoned /\ abandoned_list' = abandoned_list
  BY SegmentFreeSteps
<1>3. PICK s \in Segment, t \in Thread : s = cur.s /\ t = me
  BY <1>1, <1>2 DEF TypeOK
<1>4. thread_id[s] = t /\ ~Cached(s) /\ InUse(s) = {}
  BY <1>2, <1>3 DEF FieldsInv, Role, Freeing
<1>5. Purged(t) \in SUBSET Owned(t) /\ \A r \in Purged(t) : Cached(r)
  BY PurgedOwned
<1>6. PICK pg \in [Segment -> [Unit -> Page]] : pg = PagesReset(s, force)
  BY <1>1, PagesResetType
<1>7. PICK bk : bk = MemoryReset(s, force)
  OBVIOUS
<1>8. ResetsTo(pg)
  <2>1. \A r \in Segment : r # s => pg[r] = page[r]
    BY <1>1, <1>6, PagesResetType
  <2>2. \A p \in Unit : pg[s][p] = IF force /\ p \in Removed(s) /\ Resettable(s, p)
                                     THEN [page[s][p] EXCEPT !.reset = TRUE] ELSE page[s][p]
    BY <1>1, <1>6, PagesResetType
  <2> QED
    BY <2>1, <2>2 DEF ResetsTo, Resettable
<1>9. PICK S \in SUBSET Owned(t), n \in Nat :
        /\ OsFree(t, S, pg, bk)
        /\ s \in S /\ \A r \in S : r = s \/ Cached(r)
        /\ \A u \in Thread : u # t => cache'[u] = cache[u]
        /\ \A i \in DOMAIN cache'[t] : /\ i + n \in DOMAIN cache[t]
                                       /\ cache'[t][i] = cache[t][i + n] /\ cache[t][i + n] \notin S
  <2>1. CASE /\ cache' = [cache EXCEPT ![me] = SubSeq(@, CachePurge(me) + 1, Len(@))]
             /\ OsFree(me, {cur.s} \cup Purged(me), PagesReset(cur.s, force), MemoryReset(cur.s, force))
    <3>1. PICK S \in SUBSET Owned(t) : S = {s} \cup Purged(t)
      BY <1>4, <1>5 DEF Owned
    <3>2. PICK n \in Nat : n = CachePurge(t) /\ n <= Len(cache[t])
      BY <1>1, PurgeIs, QueueTypes
    <3>3. OsFree(t, S, pg, bk)
      BY <1>3, <1>6, <1>7, <2>1, <3>1
    <3>4. cache'[t] = SubSeq(cache[t], n + 1, Len(cache[t])) /\ \A u \in Thread : u # t => cache'[u] = cache[u]
      BY <1>1, <1>3, <2>1, <3>2 DEF TypeOK
    <3>5. /\ DOMAIN cache'[t] = 1 .. Len(cache[t]) - n
          /\ \A i \in 1 .. Len(cache[t]) - n : cache'[t][i] = cache[t][n + i]
      <4>1. cache[t] \in Seq(Segment) /\ Len(cache[t]) \in Nat
        BY <1>1, QueueTypes
      <4> QED
        BY <1>1, <3>2, <3>4, <4>1, PurgeIs
    <3>6. ASSUME NEW i \in DOMAIN cache'[t]
          PROVE  /\ i + n \in DOMAIN cache[t]
                 /\ cache'[t][i] = cache[t][i + n] /\ cache[t][i + n] \notin S
      <4>1. /\ DOMAIN cache[t] = 1 .. Len(cache[t]) /\ Len(cache[t]) \in Nat
        BY <1>1, QueueTypes
      <4>2. i \in 1 .. Len(cache[t]) - n /\ i + n \in 1 .. Len(cache[t]) /\ i + n = n + i
        BY <3>2, <3>5, <3>6, <4>1
      <4>3. cache'[t][i] = cache[t][i + n] /\ i + n \in DOMAIN cache[t]
        BY <3>5, <4>1, <4>2
      <4>4. cache[t][i + n] # s
        BY <1>4, <4>3 DEF Cached
      <4>5. cache[t][i + n] \notin Purged(t)
        <5>1. SUFFICES ASSUME NEW j \in 1 .. n, cache[t][j] = cache[t][i + n]
                       PROVE  FALSE
          BY <3>2 DEF Purged
        <5>2. j \in DOMAIN cache[t]
          BY <1>1, <3>2, PurgeIs
        <5>3. j = i + n
          BY <4>3, <5>1, <5>2 DEF FieldsInv, CacheOwn
        <5> QED
          BY <3>2, <4>1, <4>2, <5>3
      <4> QED
        BY <3>1, <4>3, <4>4, <4>5
    <3> QED
      BY <1>5, <3>1, <3>3, <3>4, <3>6
  <2>2. CASE cache' = cache /\ OsFree(me, {cur.s}, PagesReset(cur.s, force), MemoryReset(cur.s, force))
    <3>1. PICK S \in SUBSET Owned(t) : S = {s}
      BY <1>4 DEF Owned
    <3>2. OsFree(t, S, pg, bk)
      BY <1>3, <1>6, <1>7, <2>2, <3>1
    <3>3. PICK n \in Nat : n = 0
      OBVIOUS
    <3>4. \A i \in DOMAIN cache'[t] : /\ i + n \in DOMAIN cache[t]
                                      /\ cache'[t][i] = cache[t][i + n] /\ cache[t][i + n] \notin S
      <4>1. DOMAIN cache[t] = 1 .. Len(cache[t]) /\ Len(cache[t]) \in Nat
        BY <1>1, QueueTypes
      <4>2. \A i \in DOMAIN cache[t] : i + n = i
        BY <3>3, <4>1
      <4>3. \A i \in DOMAIN cache[t] : cache[t][i] \notin S
        BY <1>4, <3>1 DEF Cached
      <4> QED
        BY <2>2, <4>2, <4>3
    <3> QED
      BY <2>2, <3>1, <3>2, <3>4
  <2> QED
    BY <2>1, <2>2 DEF FreeToOs
<1>10. S \in SUBSET Segment
  BY DEF Owned
<1>11. /\ \A r \in Segment : SegmentFields(r)'
       /\ \A r \in Segment \ S : thread_id'[r] = thread_id[r] /\ kind'[r] = kind[r] /\ InUse(r)' = InUse(r)
       /\ \A r \in S : thread_id'[r] = NULL
  BY <1>2, <1>8, <1>9, OsFreeFields, ZenonT(60)
<1>12. CacheOwn' /\ \A r : Cached(r)' => Cached(r)
  <2>1. \A u \in Thread : u # t => cache'[u] = cache[u] /\ \A i \in DOMAIN cache[u] : cache[u][i] \notin S
    BY <1>9 DEF FieldsInv, CacheOwn, Owned
  <2>2. \A i \in DOMAIN cache'[t] : /\ i + n \in DOMAIN cache[t]
                                    /\ cache'[t][i] = cache[t][i + n] /\ cache[t][i + n] \notin S
    BY <1>9
  <2> QED
    BY <1>10, <1>11, <2>1, <2>2, CacheFewer
<1>13. QueueOwn'
  <2>1. \A u \in Thread, k \in Queued, r \in Segment : InQueue(u, k, r)' => InQueue(u, k, r) /\ r # s
    <3>1. Dequeue(t, s)
      BY <1>2, <1>3
    <3> QED
      BY <1>4, <3>1, Dequeued
  <2>2. \A u \in Thread, k \in Queued, r \in Segment : InQueue(u, k, r) => ~Cached(r)
    BY <1>1, QueueOwnIs DEF FieldsInv
  <2>3. \A u \in Thread, k \in Queued, r \in Segment : InQueue(u, k, r)' => InQueue(u, k, r) /\ r \notin S
    BY <1>9, <2>1, <2>2
  <2> QED
    BY <1>10, <1>11, <1>12, <2>3, QueueKept
<1>14. CountOwned'
  BY <1>1, <1>9, OsFreeCount DEF FieldsInv
<1>15. Role'
  <2>1. \A r \in Segment \ S : kind[r] = "huge" => thread_id[r] = NULL
    BY <1>3, <1>9 DEF FieldsInv, Role
  <2>2. \A r \in Segment : kind'[r] = "huge" => thread_id'[r] = NULL
    BY <1>11, <2>1
  <2> QED
    BY <2>2, RoleAfterFree
<1> QED
  BY <1>11, <1>12, <1>13, <1>14, <1>15 DEF FieldsInv

\* A fresh segment, or none.
LEMMA StepFresh ==
  ASSUME FieldsInv, TypeOK', Fresh
  PROVE  FieldsInv'
<1>1. TypeOK
  BY DEF FieldsInv
<1>2. pc = "fresh" /\ UNCHANGED <<option, abandoned_list, me>>
  BY FreshSteps
<1>3. /\ status[me] # "gone"
      /\ \A r \in Segment : kind[r] = "huge" => thread_id[r] = NULL
  BY <1>2, HugeFree0 DEF FieldsInv, Role, Freeing
<1>4. CASE pc' = "delay_alloc" /\ UNCHANGED <<segment, memory, tld, cur>>
  <2>1. UNCHANGED <<kind, thread_id, status>> /\ UNCHANGED <<free_queue, cache, count>>
    BY <1>4 DEF segment, tld
  <2>2. Role'
    BY <1>2, <1>3, <1>4, <2>1, RoleAfter DEF Freeing, Abandoning
  <2> QED
    BY <1>2, <1>4, <2>1, <2>2, StepSame
<1>5. ASSUME NEW s \in Segment, NEW anew \in BOOLEAN, NEW large \in BOOLEAN, FreshOf(s, anew, large)
      PROVE  FieldsInv'
  <2>1. PICK t \in Thread, k \in PageKind : t = me /\ k = cur.k
    BY <1>1, <1>2 DEF TypeOK, Call
  <2>2. /\ ~mapped[s] /\ mapped' = [mapped EXCEPT ![s] = TRUE]
        /\ kind' = [kind EXCEPT ![s] = k]
        /\ page' = [page EXCEPT ![s] = NewPages(k, FreshCommit(s, anew, large))]
        /\ IF k = "huge" THEN thread_id' = [thread_id EXCEPT ![s] = NULL] /\ count' = count
                         ELSE thread_id' = [thread_id EXCEPT ![s] = t] /\ Track(t, 1)
        /\ IF k \in Queued THEN free_queue' = [free_queue EXCEPT ![t][k] = Append(@, s)]
                           ELSE free_queue' = free_queue
        /\ cur' = [cur EXCEPT !.s = IF k \in Queued /\ free_queue[t][k] # <<>>
                                     THEN Head(free_queue[t][k]) ELSE s]
        /\ pc' = "claim" /\ cache' = cache /\ status' = status
    BY <1>5, <2>1 DEF FreshOf
  <2>3. thread_id[s] = NULL /\ s \notin abandoned_list
    BY <2>2 DEF FieldsInv, SegmentFields
  <2>4. ~Cached(s)
    BY <2>2, CachedIs
  <2>5. \A r \in Segment : SegmentFields(r)'
    BY FieldsFresh
  <2>6. /\ \A r \in Segment : r # s => /\ thread_id'[r] = thread_id[r] /\ kind'[r] = kind[r]
                                       /\ mapped'[r] = mapped[r] /\ page'[r] = page[r]
        /\ kind'[s] = k /\ mapped'[s] /\ thread_id'[s] = IF k = "huge" THEN NULL ELSE t
    BY <1>1, <2>2, ZenonT(60) DEF TypeOK
  <2>7. \A r \in Segment : r # s => InUse(r)' = InUse(r)
    BY <2>6 DEF InUse, Pages
  <2>8. CacheOwn' /\ QueueOwn' /\ \A r : Cached(r)' <=> Cached(r)
    <3>1. \A u \in Thread, c \in Queued : InQueue(u, c, s) => thread_id[s] = u
      BY <1>1, QueueOwnIs DEF FieldsInv
    <3>2. \A u \in Thread, c \in Queued, r \in Segment :
            InQueue(u, c, r)' => InQueue(u, c, r) \/ (r = s /\ u = t /\ c = k /\ k # "huge")
      <4>1. CASE k \in Queued
        <5>1. TypeOK /\ t \in Thread /\ s \in Segment /\ k # "huge"
          BY <1>1, <2>2, <4>1 DEF Queued
        <5>2. Adds(t, k, s)
          BY <2>2, <4>1, <5>1 DEF Adds
        <5>3. \A u \in Thread, c \in Queued, r \in Segment :
                InQueue(u, c, r)' => InQueue(u, c, r) \/ (u = t /\ c = k /\ r = s)
          BY <4>1, <5>1, <5>2, Enqueued
        <5> QED
          BY <5>1, <5>3
      <4>2. CASE k \notin Queued
        BY <2>2, <4>2 DEF InQueue
      <4> QED
        BY <4>1, <4>2
    <3>3. \A u \in Thread, c \in Queued, r \in Segment :
            InQueue(u, c, r)' => \/ InQueue(u, c, r) /\ r # s
                                 \/ r = s /\ thread_id'[s] = u /\ kind'[s] = c
      BY <2>3, <2>6, <3>1, <3>2, NULLAssumption
    <3> QED
      BY <2>2, <2>4, <2>6, <2>7, <3>3, QueuesOfOthers
  <2>9. CountOwned'
    <3>1. CASE k = "huge"
      <4>1. thread_id' = thread_id
        BY <1>1, <2>2, <2>3, <3>1 DEF TypeOK
      <4> QED
        BY <2>2, <3>1, <4>1, CountKept
    <3>2. CASE k # "huge"
      BY <2>2, <2>3, <3>2, CountGets
    <3> QED
      BY <3>1, <3>2
  <2>10. Role'
    <3>1. PICK p \in Unit : p = cur'.p
      BY <1>1, <2>2 DEF TypeOK, Call
    <3>2. \E r \in Segment : r = cur'.s /\ mapped'[r] /\ ~(Cached(r)') /\ (kind'[r] # "huge" => thread_id'[r] = t)
      <4>1. CASE k \in Queued /\ free_queue[t][k] # <<>>
        <5>1. free_queue[t][k] \in Seq(Segment)
          BY <1>1, <4>1, QueueTypes
        <5>2. PICK r \in Segment : r = Head(free_queue[t][k]) /\ InQueue(t, k, r)
          BY <4>1, <5>1 DEF InQueue
        <5>3. thread_id[r] = t /\ ~Cached(r)
          BY <1>1, <4>1, <5>2, QueueOwnIs DEF FieldsInv
        <5>4. mapped[r] /\ r # s
          BY <2>3, <5>3, NULLAssumption DEF FieldsInv, SegmentFields
        <5>5. r = cur'.s
          BY <1>1, <2>2, <4>1, <5>2 DEF TypeOK, Call
        <5> QED
          BY <2>6, <2>8, <5>3, <5>4, <5>5
      <4>2. CASE ~(k \in Queued /\ free_queue[t][k] # <<>>)
        <5>1. s = cur'.s
          BY <1>1, <2>2, <4>2 DEF TypeOK, Call
        <5> QED
          BY <2>4, <2>6, <2>8, <5>1
      <4> QED
        BY <4>1, <4>2
    <3>3. \A r \in Segment : kind'[r] = "huge" => thread_id'[r] = NULL
      BY <1>3, <2>6
    <3>4. me' = t /\ status'[me'] # "gone"
      BY <1>2, <1>3, <2>1, <2>2
    <3> QED
      BY <2>2, <3>1, <3>2, <3>3, <3>4, RoleAfter DEF Freeing, Abandoning
  <2> QED
    BY <2>5, <2>8, <2>9, <2>10 DEF FieldsInv
<1> QED
  BY <1>4, <1>5, FreshSteps

\* A segment comes from the cache.
LEMMA StepCacheReuse ==
  ASSUME FieldsInv, TypeOK', NEW t \in Thread, NEW k \in Kinds, CacheReuse(t, k)
  PROVE  FieldsInv'
<1>1. TypeOK
  BY DEF FieldsInv
<1>2. PICK s : s = Head(cache[t]) /\ CacheReuseOf(t, k, s)
  BY <1>1, CacheReuseDoes
<1>3. /\ s \in Segment /\ s = cache[t][1] /\ 1 \in DOMAIN cache[t]
      /\ thread_id[s] = t /\ mapped[s] /\ kind[s] # "huge" /\ InUse(s) = {} /\ Cached(s)
  BY <1>2, CacheHead DEF CacheReuseOf
<1>4. /\ pc = "idle" /\ status[t] = "alive" /\ k # "huge" /\ cache[t] # <<>>
      /\ kind' = [kind EXCEPT ![s] = k] /\ thread_id' = [thread_id EXCEPT ![s] = t]
      /\ IF k \in Queued THEN free_queue' = [free_queue EXCEPT ![t][k] = Append(@, s)]
                         ELSE free_queue' = free_queue
      /\ cur' = [NoCall EXCEPT !.k = k, !.s = s]
      /\ cache' = [cache EXCEPT ![t] = Tail(@)]
      /\ pc' = "claim" /\ me' = t
      /\ UNCHANGED <<mapped, count, status>>
  BY <1>2 DEF CacheReuseOf
<1>5. \A r \in Segment : SegmentFields(r)'
  BY FieldsAlloc
<1>6. thread_id' = thread_id /\ \A r \in Segment : kind'[r] = IF r = s THEN k ELSE kind[r]
  BY <1>1, <1>3, <1>4 DEF TypeOK
<1>7. \A r \in Segment : r # s => InUse(r)' = InUse(r)
  <2>1. \A r \in Segment : r # s => page'[r] = page[r]
    <3>1. page' = page \/ page' = [page EXCEPT ![s] = NewPages(k, Eager(t, k))]
      BY <1>2 DEF CacheReuseOf
    <3> QED
      BY <1>1, <1>3, <3>1 DEF TypeOK
  <2> QED
    BY <1>6, <2>1 DEF InUse, Pages
<1>8. /\ cache[t] \in Seq(Segment) /\ DOMAIN cache[t] = 1 .. Len(cache[t]) /\ Len(cache[t]) \in Nat
      /\ cache'[t] = Tail(cache[t])
  BY <1>1, <1>4, QueueTypes DEF TypeOK
<1>9. \A i \in DOMAIN cache'[t] :
        i + 1 \in DOMAIN cache[t] /\ cache'[t][i] = cache[t][i + 1] /\ cache[t][i + 1] # s
  <2>1. SUFFICES ASSUME NEW i \in DOMAIN cache'[t]
                 PROVE  i + 1 \in DOMAIN cache[t] /\ cache'[t][i] = cache[t][i + 1] /\ cache[t][i + 1] # s
    OBVIOUS
  <2>2. i + 1 \in DOMAIN cache[t] /\ cache'[t][i] = cache[t][i + 1] /\ i \in Nat \ {0}
    <3>1. Len(cache[t]) \in Nat \ {0}
      BY <1>4, <1>8
    <3>2. PICK q \in Seq(Segment) : q = cache[t]
      BY <1>8
    <3>3. DOMAIN Tail(q) = 1 .. Len(q) - 1 /\ \A j \in 1 .. Len(q) - 1 : Tail(q)[j] = q[j + 1]
      BY <3>1, <3>2
    <3>4. i \in 1 .. Len(cache[t]) - 1
      BY <1>8, <2>1, <3>2, <3>3
    <3> QED
      BY <1>8, <3>1, <3>2, <3>3, <3>4
  <2>3. cache[t][1] = cache[t][i + 1] => 1 = i + 1
    BY <1>3, <2>2 DEF FieldsInv, CacheOwn
  <2> QED
    BY <1>3, <2>2, <2>3
<1>10. PICK S \in SUBSET Segment, n \in Nat : S = {s} /\ n = 1
  BY <1>3
<1>11. CacheOwn' /\ \A r : Cached(r)' => Cached(r)
  <2>1. \A u \in Thread : u # t => cache'[u] = cache[u] /\ \A i \in DOMAIN cache[u] : cache[u][i] \notin S
    BY <1>1, <1>3, <1>4, <1>10 DEF TypeOK, FieldsInv, CacheOwn
  <2>2. \A i \in DOMAIN cache'[t] : /\ i + n \in DOMAIN cache[t]
                                    /\ cache'[t][i] = cache[t][i + n] /\ cache[t][i + n] \notin S
    BY <1>9, <1>10
  <2>3. \A r \in Segment \ S : thread_id'[r] = thread_id[r] /\ kind'[r] = kind[r] /\ InUse(r)' = InUse(r)
    BY <1>6, <1>7, <1>10
  <2> QED
    BY <2>1, <2>2, <2>3, CacheFewer
<1>12. ~(Cached(s)')
  <2>1. SUFFICES ASSUME NEW u \in Thread, NEW i \in DOMAIN cache'[u], cache'[u][i] = s
                 PROVE  FALSE
    BY DEF Cached
  <2>2. CASE u = t
    BY <1>9, <2>1, <2>2
  <2>3. CASE u # t
    <3>1. cache'[u] = cache[u]
      BY <1>1, <1>4, <2>3 DEF TypeOK
    <3> QED
      BY <1>3, <2>1, <2>3, <3>1 DEF FieldsInv, CacheOwn
  <2> QED
    BY <2>2, <2>3
<1>13. QueueOwn'
  <2>1. \A u \in Thread, c \in Queued, r \in Segment :
          InQueue(u, c, r)' => InQueue(u, c, r) \/ (r = s /\ u = t /\ c = k)
    <3>1. CASE k \in Queued
      <4>1. TypeOK /\ t \in Thread /\ s \in Segment
        BY <1>1, <1>3
      <4>2. Adds(t, k, s)
        BY <1>4, <3>1 DEF Adds
      <4> QED
        BY <3>1, <4>1, <4>2, Enqueued
    <3>2. CASE k \notin Queued
      BY <1>4, <3>2 DEF InQueue
    <3> QED
      BY <3>1, <3>2
  <2>2. \A u \in Thread, c \in Queued, r \in Segment : InQueue(u, c, r) => ~Cached(r)
    BY <1>1, QueueOwnIs DEF FieldsInv
  <2>3. \A u \in Thread, c \in Queued, r \in Segment : InQueue(u, c, r)' =>
          \/ InQueue(u, c, r) /\ r \notin S
          \/ thread_id'[r] = u /\ kind'[r] = c /\ ~(Cached(r)')
    BY <1>3, <1>6, <1>10, <1>12, <2>1, <2>2
  <2> QED
    BY <1>6, <1>10, <1>11, <2>3, QueueKept
<1>14. CountOwned'
  BY <1>4, <1>6, CountKept
<1>15. Role'
  <2>1. cur'.s = s /\ cur'.p = 0 /\ 0 \in Unit
    BY <1>4, CapacityFacts DEF NoCall
  <2>2. \A r \in Segment : kind'[r] = "huge" => thread_id'[r] = NULL
    BY <1>4, <1>6, HugeFree0 DEF Freeing
  <2> QED
    BY <1>3, <1>4, <1>6, <1>12, <2>1, <2>2, RoleAfter DEF Freeing, Abandoning
<1> QED
  BY <1>5, <1>11, <1>13, <1>14, <1>15 DEF FieldsInv

\* A segment is reclaimed.
LEMMA StepReclaim ==
  ASSUME FieldsInv, TypeOK', NEW s \in abandoned_list, NEW F \in SUBSET InUse(s), ReclaimStep(s, F),
         pc \in {"try", "reclaim_all"}
  PROVE  FieldsInv'
<1>1. TypeOK /\ s \in Segment
  BY DEF FieldsInv, TypeOK
<1>2. PICK t \in Thread : t = me
  BY <1>1 DEF TypeOK
<1>3. /\ thread_id' = [thread_id EXCEPT ![s] = t] /\ Track(t, 1)
      /\ UNCHANGED <<kind, mapped, cache, status, me>>
  BY <1>2 DEF ReclaimStep, ReclaimFields
<1>4. /\ \A r \in Segment : SegmentFields(r)'
      /\ \A r \in Segment : r # s => InUse(r)' = InUse(r)
      /\ InUse(s)' = InUse(s) \ F
      /\ mapped[s] /\ kind[s] # "huge" /\ thread_id[s] = NULL /\ thread_id'[s] = t
      /\ used'[s] = Cardinality(InUse(s) \ F)
  BY <1>2, FieldsReclaim
<1>5. ~Cached(s)
  BY <1>1, <1>4, CachedIs, NULLAssumption
<1>6. \A r \in Segment : thread_id'[r] = IF r = s THEN t ELSE thread_id[r]
  BY <1>1, <1>3 DEF TypeOK
<1>7. \/ free_queue' = free_queue
      \/ kind[s] \in Queued /\ Enqueue(t, s)
  BY <1>2 DEF ReclaimStep, FreedEmpty, TookPage, TookSegment, PassedBy, ReclaimQueue
<1>8. CacheOwn' /\ QueueOwn' /\ \A r : Cached(r)' <=> Cached(r)
  <2>1. \A u \in Thread, k \in Queued : InQueue(u, k, s) => thread_id[s] = u
    BY <1>1, QueueOwnIs DEF FieldsInv
  <2>2. \A u \in Thread, k \in Queued, r \in Segment :
          InQueue(u, k, r)' => InQueue(u, k, r) \/ (r = s /\ u = t /\ k = kind[s])
    <3>1. CASE free_queue' = free_queue
      BY <3>1 DEF InQueue
    <3>2. CASE kind[s] \in Queued /\ Enqueue(t, s)
      <4>1. PICK k \in Queued : k = kind[s]
        BY <3>2
      <4>2. Adds(t, k, s)
        BY <3>2, <4>1 DEF Enqueue, Adds
      <4>3. TypeOK /\ t \in Thread /\ s \in Segment
        BY <1>1
      <4>4. \A u \in Thread, c \in Queued, r \in Segment :
              InQueue(u, c, r)' => InQueue(u, c, r) \/ (u = t /\ c = k /\ r = s)
        BY <4>2, <4>3, Enqueued
      <4> QED
        BY <4>1, <4>4
    <3> QED
      BY <1>7, <3>1, <3>2
  <2>3. \A u \in Thread, k \in Queued, r \in Segment :
          InQueue(u, k, r)' => \/ InQueue(u, k, r) /\ r # s
                               \/ r = s /\ thread_id'[s] = u /\ kind'[s] = k
    BY <1>3, <1>4, <2>1, <2>2, NULLAssumption
  <2>4. \A r \in Segment : r # s =>
          thread_id'[r] = thread_id[r] /\ kind'[r] = kind[r] /\ InUse(r)' = InUse(r)
    BY <1>3, <1>4, <1>6
  <2> QED
    BY <1>1, <1>3, <1>5, <2>3, <2>4, QueuesOfOthers
<1>9. CountOwned'
  BY <1>1, <1>3, <1>4, CountGets
<1>10. Role'
  <2>1. \A r \in Segment : kind'[r] = "huge" => thread_id'[r] = NULL
    <3>1. \A r \in Segment : kind[r] = "huge" => thread_id[r] = NULL
      BY HugeFree0 DEF Freeing
    <3> QED
      BY <1>3, <1>4, <1>6, <3>1
  <2>2. status'[me'] # "gone" /\ me' = t
    BY <1>2, <1>3 DEF FieldsInv, Role
  <2>3. PICK p \in Unit : p = cur.p
    BY <1>1 DEF TypeOK, Call
  <2>4. pc = "try" => cur.k # "huge"
    BY DEF FieldsInv, Role
  <2>5. cur \in Call
    BY <1>1 DEF TypeOK
  <2>6. CASE FreedEmpty(s, F)
    <3>1. pc' = "free" /\ F = InUse(s) /\ cur'.s = s /\ cur'.p = p
      BY <2>3, <2>5, <2>6 DEF FreedEmpty, Call
    <3>2. cur'.ret = "try" => cur'.k # "huge"
      BY <2>4, <2>5, <2>6 DEF FreedEmpty, Call
    <3>3. InUse(s)' = {}
      BY <1>4, <3>1
    <3> QED
      BY <1>1, <1>4, <1>5, <1>8, <2>1, <2>2, <3>1, <3>2, <3>3, RoleAfter DEF Freeing, Abandoning
  <2>7. CASE TookPage(s, F)
    <3>1. pc' = "delay_alloc"
      BY <2>7 DEF TookPage
    <3> QED
      BY <2>1, <2>2, <3>1, RoleAfter DEF Freeing, Abandoning
  <2>8. CASE TookSegment(s, F)
    <3>1. PICK k \in Queued : k = cur.k /\ kind[s] = k
      BY <2>8 DEF TookSegment
    <3>2. /\ pc' = "claim" /\ cur'.p = p
          /\ cur'.s = Head(IF free_queue[t][k] = <<>> THEN <<s>> ELSE free_queue[t][k])
      BY <1>2, <2>3, <2>5, <2>8, <3>1 DEF TookSegment, Call
    <3>3. \E r \in Segment : r = cur'.s /\ mapped'[r] /\ ~(Cached(r)') /\ thread_id'[r] = t
      <4>1. CASE free_queue[t][k] = <<>>
        BY <1>1, <1>3, <1>4, <1>5, <1>8, <3>2, <4>1
      <4>2. CASE free_queue[t][k] # <<>>
        <5>1. free_queue[t][k] \in Seq(Segment)
          BY <1>1, QueueTypes
        <5>2. PICK r \in Segment : r = Head(free_queue[t][k]) /\ InQueue(t, k, r)
          BY <4>2, <5>1 DEF InQueue
        <5>3. thread_id[r] = t /\ ~Cached(r)
          BY <1>1, <5>2, QueueOwnIs DEF FieldsInv
        <5>4. mapped[r]
          BY <5>3, NULLAssumption DEF FieldsInv, SegmentFields
        <5> QED
          BY <1>3, <1>6, <1>8, <3>2, <4>2, <5>2, <5>3, <5>4
      <4> QED
        BY <4>1, <4>2
    <3> QED
      BY <2>1, <2>2, <3>2, <3>3, RoleAfter DEF Freeing, Abandoning
  <2>9. CASE PassedBy(s, F)
    <3>1. pc' = pc /\ cur' = cur
      BY <2>9 DEF PassedBy
    <3> QED
      BY <2>1, <2>2, <2>4, <3>1, RoleAfter DEF Freeing, Abandoning
  <2> QED
    BY <2>6, <2>7, <2>8, <2>9 DEF ReclaimStep
<1> QED
  BY <1>4, <1>8, <1>9, <1>10 DEF FieldsInv

\* the searches of abandoned segments
LEMMA StepReclaims ==
  ASSUME FieldsInv, TypeOK', TryReclaim \/ ReclaimAll
  PROVE  FieldsInv'
<1>1. TypeOK
  BY DEF FieldsInv
<1>2. pc \in {"try", "reclaim_all"}
  BY DEF TryReclaim, ReclaimAll
<1>3. CASE /\ pc = "reclaim_all" /\ Finish
           /\ UNCHANGED <<option, segment, memory, abandoned_list, tld>>
  <2>1. pc' = "idle" /\ UNCHANGED <<kind, thread_id>> /\ UNCHANGED <<free_queue, cache, count>>
    BY <1>3 DEF Finish, segment, tld
  <2>2. \A r \in Segment : kind'[r] = "huge" => thread_id'[r] = NULL
    BY <1>2, <2>1, HugeFree0 DEF Freeing
  <2>3. Role'
    BY <2>1, <2>2, RoleAfter DEF Freeing, Abandoning
  <2> QED
    BY <1>3, <2>1, <2>3, StepSame
<1>4. CASE \E s \in abandoned_list : \E F \in SUBSET InUse(s) : ReclaimStep(s, F)
  BY <1>2, <1>4, StepReclaim
<1> QED
  BY <1>1, <1>3, <1>4, ReclaimSteps

-----------------------------------------------------------------------------
(***************************************************************************)
(* The invariant holds in every state.                                     *)
(***************************************************************************)

\* The fields agree at the start.
LEMMA FieldsInit ==
  ASSUME Init
  PROVE  FieldsInv
<1>1. TypeOK
  BY TypeInit
<1>2. \A s \in Segment : SegmentFields(s)
  <2>1. \A p \in Unit : ~FreePage.in_use /\ FreePage.heap = NULL
    BY DEF FreePage
  <2> QED
    BY <2>1 DEF Init, SegmentFields, NoPages
<1>3. CacheOwn /\ QueueOwn
  BY DEF Init, CacheOwn, QueueOwn
<1>4. Role
  BY DEF Init, Role, Freeing, Abandoning
<1>5. CountOwned
  <2>1. \A t \in Thread : Owned(t) = {}
    BY NULLAssumption DEF Init, Owned
  <2> QED
    BY <2>1, FS_EmptySet DEF Init, CountOwned
<1> QED
  BY <1>1, <1>2, <1>3, <1>4, <1>5 DEF FieldsInv

\* Every step keeps the fields in agreement: one lemma for each action.
LEMMA FieldsStep ==
  ASSUME FieldsInv, [Next]_vars
  PROVE  FieldsInv'
<1>1. TypeOK'
  BY TypeStep
<1>2. ASSUME NEW t \in Thread, NEW k \in Kinds, AllocStart(t, k)
      PROVE  FieldsInv'
  BY <1>1, <1>2, StepAllocStart
<1>3. ASSUME NEW t \in Thread, NEW k \in Kinds, CacheReuse(t, k)
      PROVE  FieldsInv'
  BY <1>1, <1>3, StepCacheReuse
<1>4. ASSUME NEW t \in Thread, PageFree(t)
      PROVE  FieldsInv'
  BY <1>1, <1>4, StepPageFree
<1>5. ASSUME NEW t \in Thread, HugeFree(t)
      PROVE  FieldsInv'
  BY <1>1, <1>5, StepHugeFree
<1>6. ASSUME NEW t \in Thread, PageAbandon(t)
      PROVE  FieldsInv'
  BY <1>1, <1>6, StepPageAbandon
<1>7. ASSUME NEW t \in Thread, ThreadCollect(t)
      PROVE  FieldsInv'
  BY <1>1, <1>7, StepThreadCollect
<1>8. ASSUME NEW t \in Thread, ThreadStart(t)
      PROVE  FieldsInv'
  BY <1>1, <1>8, StepThreadStart
<1>9. CASE Tick \/ SetCache \/ \E t \in Thread : ThreadExit(t)
  BY <1>1, <1>9, StepIdle
<1>10. CASE Fresh
  BY <1>1, <1>10, StepFresh
<1>11. CASE Claim
  BY <1>1, <1>11, StepClaim
<1>12. CASE TryReclaim \/ ReclaimAll
  BY <1>1, <1>12, StepReclaims
<1>13. CASE TryEnd \/ ReclaimAllStart
  BY <1>1, <1>13, StepSearch
<1>14. CASE PageClear
  BY <1>1, <1>14, StepPageClear
<1>15. CASE SegmentFree
  BY <1>1, <1>15, SegmentFreeSteps, StepFreeToCache, StepFreeToOs
<1>16. CASE AbandonSegment
  BY <1>1, <1>16, StepAbandonSegment
<1>17. CASE ResetDelayed
  BY <1>1, <1>17, StepResetDelayed
<1>18. CASE UNCHANGED vars
  <2>1. /\ UNCHANGED <<segment, memory, abandoned_list>> /\ UNCHANGED <<free_queue, cache, count>>
        /\ UNCHANGED <<kind, thread_id, mapped, page, pc, me, cur, status>>
    BY <1>18 DEF vars, tld, segment, memory
  <2>2. Role'
    BY <2>1 DEF FieldsInv, Role, Cached, Orphans, InUse, Pages
  <2> QED
    BY <1>1, <2>1, <2>2, StepSame
<1> QED
  BY <1>2, <1>3, <1>4, <1>5, <1>6, <1>7, <1>8, <1>9, <1>10, <1>11, <1>12, <1>13, <1>14, <1>15,
     <1>16, <1>17, <1>18 DEF Next

\* The fields of the segments, their queues and caches, and what the call has
\* in hand agree in every state (segment.c).
THEOREM SegmentFieldsInv == Spec => []FieldsInv
<1>1. Init => FieldsInv
  BY FieldsInit
<1>2. FieldsInv /\ [Next]_vars => FieldsInv'
  BY FieldsStep
<1> QED
  BY <1>1, <1>2, PTL DEF Spec

\* Every variable keeps its type: counters never go below 0, and the calls
\* have a segment where they need one.
THEOREM SegmentTypes == Spec => []TypeOK
<1>1. FieldsInv => TypeOK
  BY DEF FieldsInv
<1> QED
  BY <1>1, SegmentFieldsInv, PTL

\* segment->used and segment->abandoned count the pages, and tld->count the segments
\* of the thread, at every step of every call (segment.c:148-169).
THEOREM SegmentCounts == Spec => []CountsExact
<1>1. FieldsInv => CountsExact
  BY DEF FieldsInv, SegmentFields, CountOwned, CountsExact, Orphans, Owned
<1> QED
  BY <1>1, SegmentFieldsInv, PTL


-----------------------------------------------------------------------------
(***************************************************************************)
(* The free queues have every segment with a free page, once.  A segment   *)
(* on its way to the cache, the OS or the abandoned list may still be in a *)
(* queue or not, until mi_segment_free and mi_segment_abandon remove it.   *)
(***************************************************************************)

OnceEach(t, k) == \A i, j \in DOMAIN free_queue[t][k] : free_queue[t][k][i] = free_queue[t][k][j] => i = j
HasFree(t, k, s) == thread_id[s] = t /\ kind[s] = k /\ ~Cached(s) /\ InUse(s) # Pages(s)
Leaving(s) == pc \in {"free"} \cup Abandoning /\ s = cur.s

QueueExact == \A t \in Thread, k \in Queued :
  /\ OnceEach(t, k)
  /\ \A s \in Segment : /\ InQueue(t, k, s) => InUse(s) # Pages(s)
                        /\ HasFree(t, k, s) /\ ~Leaving(s) => InQueue(t, k, s)

\* The queues without the segment that is taken from them have what they had,
\* still once each.
LEMMA DequeuedKeeps ==
  ASSUME FieldsInv, NEW t \in Thread, NEW s \in Segment, Dequeue(t, s)
  PROVE  /\ \A u \in Thread, k \in Queued, r \in Segment : InQueue(u, k, r) /\ r # s => InQueue(u, k, r)'
         /\ \A u \in Thread, k \in Queued : OnceEach(u, k) => OnceEach(u, k)'
<1>1. TypeOK
  BY DEF FieldsInv
<1>2. \A u \in Thread, k \in Queued : free_queue'[u][k] =
        IF u = t /\ k = kind[s] THEN Without(free_queue[u][k], {s}) ELSE free_queue[u][k]
  BY <1>1 DEF Dequeue, TypeOK
<1>3. ASSUME NEW u \in Thread, NEW k \in Queued
      PROVE  /\ \A r \in Segment : InQueue(u, k, r) /\ r # s => InQueue(u, k, r)'
             /\ OnceEach(u, k) => OnceEach(u, k)'
  <2>1. free_queue[u][k] \in Seq(Segment)
    BY <1>1, QueueTypes
  <2>2. CASE u = t /\ k = kind[s]
    <3>1. free_queue'[u][k] = Without(free_queue[u][k], {s})
      BY <1>2, <2>2
    <3>2. \A i \in DOMAIN free_queue[u][k] : free_queue[u][k][i] # s =>
            \E n \in DOMAIN free_queue'[u][k] : free_queue'[u][k][n] = free_queue[u][k][i]
      BY <2>1, <3>1, WithoutKeeps
    <3>3. OnceEach(u, k) => OnceEach(u, k)'
      <4>1. PICK q \in Seq(Segment) : q = free_queue[u][k]
        BY <2>1
      <4>2. PICK r : r = Without(q, {s})
        OBVIOUS
      <4>3. (\A i, j \in DOMAIN q : q[i] = q[j] => i = j) => (\A i, j \in DOMAIN r : r[i] = r[j] => i = j)
        BY <4>2, WithoutKeeps
      <4>4. free_queue'[u][k] = r
        BY <3>1, <4>1, <4>2
      <4> QED
        BY <4>1, <4>3, <4>4 DEF OnceEach
    <3> QED
      BY <3>2, <3>3 DEF InQueue
  <2>3. CASE ~(u = t /\ k = kind[s])
    BY <1>2, <2>3 DEF InQueue, OnceEach
  <2> QED
    BY <2>2, <2>3
<1> QED
  BY <1>3

\* A segment that is added is in the queue, and the others stay, once each if
\* it was not there.
LEMMA EnqueuedKeeps ==
  ASSUME TypeOK, NEW t \in Thread, NEW k \in Queued, NEW s \in Segment,
         free_queue' = [free_queue EXCEPT ![t][k] = Append(@, s)]
  PROVE  /\ \A u \in Thread, c \in Queued, r \in Segment : InQueue(u, c, r) => InQueue(u, c, r)'
         /\ InQueue(t, k, s)'
         /\ ~InQueue(t, k, s) => \A u \in Thread, c \in Queued : OnceEach(u, c) => OnceEach(u, c)'
<1>1. \A u \in Thread, c \in Queued : free_queue'[u][c] =
        IF u = t /\ c = k THEN Append(free_queue[u][c], s) ELSE free_queue[u][c]
  BY DEF TypeOK
<1> DEFINE q == free_queue[t][k]
           n == Len(q)
<1>2. /\ q \in Seq(Segment) /\ DOMAIN q = 1 .. n /\ n \in Nat
      /\ free_queue'[t][k] = Append(q, s)
  BY <1>1, QueueTypes
<1>3. /\ DOMAIN free_queue'[t][k] = 1 .. n + 1
      /\ free_queue'[t][k][n + 1] = s
      /\ \A i \in 1 .. n : free_queue'[t][k][i] = q[i]
  <2> HIDE DEF q
  <2> QED
    BY <1>2
<1>4. /\ n + 1 \in 1 .. n + 1 /\ \A i \in 1 .. n : i \in 1 .. n + 1
      /\ \A i \in 1 .. n + 1 : i \in 1 .. n \/ i = n + 1
  <2> HIDE DEF n
  <2> QED
    BY <1>2
<1>5. InQueue(t, k, s)'
  BY <1>3, <1>4 DEF InQueue
<1>6. \A r \in Segment : InQueue(t, k, r) => InQueue(t, k, r)'
  BY <1>2, <1>3, <1>4 DEF InQueue
<1>7. ~InQueue(t, k, s) /\ OnceEach(t, k) => OnceEach(t, k)'
  <2>1. SUFFICES ASSUME ~InQueue(t, k, s), OnceEach(t, k), NEW i \in DOMAIN free_queue'[t][k],
                        NEW j \in DOMAIN free_queue'[t][k], free_queue'[t][k][i] = free_queue'[t][k][j]
                 PROVE  i = j
    BY DEF OnceEach
  <2>2. \A l \in 1 .. n : q[l] # s
    BY <1>2, <2>1 DEF InQueue
  <2>3. i \in 1 .. n /\ j \in 1 .. n => i = j
    BY <1>2, <1>3, <2>1 DEF OnceEach
  <2>4. i \in 1 .. n => free_queue'[t][k][i] # s
    BY <1>3, <2>2
  <2>5. j \in 1 .. n => free_queue'[t][k][j] # s
    BY <1>3, <2>2
  <2>6. (i \in 1 .. n \/ i = n + 1) /\ (j \in 1 .. n \/ j = n + 1)
    BY <1>3, <1>4, <2>1
  <2> HIDE DEF q, n
  <2> QED
    BY <1>3, <2>1, <2>3, <2>4, <2>5, <2>6
<1>8. \A u \in Thread, c \in Queued : ~(u = t /\ c = k) =>
        free_queue'[u][c] = free_queue[u][c]
  BY <1>1
<1> QED
  BY <1>5, <1>6, <1>7, <1>8 DEF InQueue, OnceEach

\* A step that takes segments of A only: what it has to establish of them.
LEMMA ExactKept ==
  ASSUME QueueExact, NEW A \in SUBSET Segment,
         \A s \in Segment \ A : /\ thread_id'[s] = thread_id[s] /\ kind'[s] = kind[s]
                                /\ InUse(s)' = InUse(s) /\ (Cached(s) => Cached(s)')
                                /\ Leaving(s) => Leaving(s)',
         \A s \in Segment \ A : \A t \in Thread, k \in Queued : InQueue(t, k, s)' <=> InQueue(t, k, s),
         \A s \in A : \A t \in Thread, k \in Queued :
           /\ InQueue(t, k, s)' => InUse(s)' # Pages(s)'
           /\ HasFree(t, k, s)' /\ ~(Leaving(s)') => InQueue(t, k, s)',
         \A t \in Thread, k \in Queued : OnceEach(t, k) => OnceEach(t, k)'
  PROVE  QueueExact'
<1>1. SUFFICES ASSUME NEW t \in Thread, NEW k \in Queued, NEW s \in Segment
               PROVE  /\ OnceEach(t, k)'
                      /\ InQueue(t, k, s)' => InUse(s)' # Pages(s)'
                      /\ HasFree(t, k, s)' /\ ~(Leaving(s)') => InQueue(t, k, s)'
  BY DEF QueueExact
<1>2. /\ OnceEach(t, k)
      /\ InQueue(t, k, s) => InUse(s) # Pages(s)
      /\ HasFree(t, k, s) /\ ~Leaving(s) => InQueue(t, k, s)
  BY DEF QueueExact
<1>3. OnceEach(t, k)'
  BY <1>2
<1>4. CASE s \in A
  BY <1>3, <1>4
<1>5. CASE s \notin A
  <2>1. /\ thread_id'[s] = thread_id[s] /\ kind'[s] = kind[s] /\ InUse(s)' = InUse(s)
        /\ Cached(s) => Cached(s)'
        /\ Leaving(s) => Leaving(s)'
        /\ InQueue(t, k, s)' <=> InQueue(t, k, s)
    BY <1>5
  <2>2. Pages(s)' = Pages(s)
    BY <2>1 DEF Pages
  <2>3. HasFree(t, k, s)' => HasFree(t, k, s)
    BY <2>1, <2>2 DEF HasFree
  <2> QED
    BY <1>2, <1>3, <2>1, <2>2, <2>3
<1> QED
  BY <1>4, <1>5

\* A step that leaves the queues and the pages in use alone.
LEMMA ExactSame ==
  ASSUME FieldsInv, QueueExact, FieldsInv', free_queue' = free_queue, cache' = cache, kind' = kind,
         \A s \in Segment : /\ InUse(s)' = InUse(s) /\ (Leaving(s) => Leaving(s)')
                            /\ thread_id'[s] = thread_id[s] \/ kind[s] = "huge"
  PROVE  QueueExact'
<1>1. PICK A \in SUBSET Segment : A = {s \in Segment : kind[s] = "huge"}
  OBVIOUS
<1>2. \A s \in Segment \ A : /\ thread_id'[s] = thread_id[s] /\ kind'[s] = kind[s]
                             /\ InUse(s)' = InUse(s) /\ (Cached(s) => Cached(s)')
                             /\ Leaving(s) => Leaving(s)'
  BY <1>1 DEF Cached
<1>3. \A s \in Segment, t \in Thread, k \in Queued : InQueue(t, k, s)' <=> InQueue(t, k, s)
  BY DEF InQueue
<1>4. \A t \in Thread, k \in Queued : OnceEach(t, k) => OnceEach(t, k)'
  BY DEF OnceEach
<1>5. \A s \in A : \A t \in Thread, k \in Queued :
           /\ InQueue(t, k, s)' => InUse(s)' # Pages(s)'
           /\ HasFree(t, k, s)' /\ ~(Leaving(s)') => InQueue(t, k, s)'
  <2>1. SUFFICES ASSUME NEW s \in A, NEW t \in Thread, NEW k \in Queued
                 PROVE  ~InQueue(t, k, s) /\ ~(HasFree(t, k, s)')
    BY <1>3
  <2>2. s \in Segment /\ kind[s] = "huge" /\ k # "huge"
    BY <1>1 DEF Queued
  <2>3. ~InQueue(t, k, s)
    BY <2>2, QueueOwnIs DEF FieldsInv
  <2> QED
    BY <2>2, <2>3 DEF HasFree
<1> QED
  BY <1>2, <1>3, <1>4, <1>5, ExactKept

\* The steps that leave the segments alone.
LEMMA ExactStays ==
  ASSUME FieldsInv, QueueExact, FieldsInv', UNCHANGED <<segment, memory, abandoned_list>>,
         UNCHANGED <<free_queue, cache>>, \A s \in Segment : Leaving(s) => Leaving(s)'
  PROVE  QueueExact'
<1>1. TypeOK'
  BY DEF FieldsInv
<1>2. \A s \in Segment : InUse(s)' = InUse(s)
  BY <1>1, FieldsSame
<1>3. UNCHANGED <<kind, thread_id>>
  BY DEF segment
<1> QED
  BY <1>2, <1>3, ExactSame

\* The starts of calls, the ends of searches, the clock, options and the end of a thread.
LEMMA ExactStarts ==
  ASSUME FieldsInv, QueueExact, FieldsInv',
         \/ \E t \in Thread, k \in Kinds : AllocStart(t, k)
         \/ \E t \in Thread : PageFree(t) \/ ThreadExit(t)
         \/ TryEnd \/ ReclaimAllStart \/ Tick \/ SetCache \/ UNCHANGED vars
  PROVE  QueueExact'
<1>1. CASE \E t \in Thread, k \in Kinds : AllocStart(t, k)
  <2>1. /\ UNCHANGED <<segment, memory, abandoned_list>>
        /\ UNCHANGED <<free_queue, cache>> /\ pc = "idle"
    BY <1>1 DEF AllocStart, tld
  <2> QED
    BY <2>1, ExactStays DEF Leaving, Abandoning
<1>2. CASE \E t \in Thread : PageFree(t) \/ ThreadExit(t)
  <2>1. /\ UNCHANGED <<segment, memory, abandoned_list>>
        /\ UNCHANGED <<free_queue, cache>> /\ pc = "idle"
    BY <1>2 DEF PageFree, ThreadExit, tld
  <2> QED
    BY <2>1, ExactStays DEF Leaving, Abandoning
<1>3. CASE TryEnd \/ ReclaimAllStart \/ Tick \/ SetCache
  <2>1. /\ UNCHANGED <<segment, memory, abandoned_list>>
        /\ UNCHANGED <<free_queue, cache>> /\ pc \in {"try", "idle"}
    BY <1>3 DEF TryEnd, ReclaimAllStart, Tick, SetCache, tld
  <2> QED
    BY <2>1, ExactStays DEF Leaving, Abandoning
<1>4. CASE UNCHANGED vars
  <2>1. /\ UNCHANGED <<segment, memory, abandoned_list>>
        /\ UNCHANGED <<free_queue, cache>> /\ UNCHANGED <<pc, cur>>
    BY <1>4 DEF vars, segment, memory, tld
  <2> QED
    BY <2>1, ExactStays DEF Leaving
<1> QED
  BY <1>1, <1>2, <1>3, <1>4

\* The delayed resets, the free of a huge page and the abandon of a page leave
\* the queues as they are.
LEMMA ExactResets ==
  ASSUME FieldsInv, QueueExact, FieldsInv',
         ResetDelayed \/ \E t \in Thread : HugeFree(t) \/ PageAbandon(t)
  PROVE  QueueExact'
<1>1. TypeOK' /\ TypeOK
  BY DEF FieldsInv
<1>2. CASE ResetDelayed
  <2>1. /\ \A s \in Segment : OnlyResets(s)
        /\ UNCHANGED <<kind, used, abandoned, thread_id, mem_is_fixed, mapped, abandoned_list>>
        /\ UNCHANGED <<free_queue, cache>>
    BY <1>1, <1>2, ResetDelayedDoes DEF ResetDelayed
  <2>2. \A s \in Segment : InUse(s)' = InUse(s)
    BY <1>1, <2>1, FieldsResets
  <2>3. pc \in {"free"} \cup Abandoning => pc' = "abandon" /\ cur' = cur
    BY <1>2 DEF ResetDelayed, After, Abandoning
  <2> QED
    BY <2>1, <2>2, <2>3, ExactSame DEF Leaving, Abandoning
<1>3. ASSUME NEW t \in Thread, HugeFree(t)
      PROVE  QueueExact'
  <2>1. PICK s \in Segment : kind[s] = "huge" /\ thread_id' = [thread_id EXCEPT ![s] = t]
    BY <1>3 DEF HugeFree
  <2>2. /\ pc = "idle" /\ UNCHANGED <<kind, used, abandoned, mem_is_fixed, page, memory, abandoned_list>>
        /\ UNCHANGED <<free_queue, cache>>
    BY <1>3 DEF HugeFree
  <2>3. \A r \in Segment : InUse(r)' = InUse(r)
    BY <1>1, <2>1, <2>2, FieldsHuge
  <2>4. \A r \in Segment : thread_id'[r] = thread_id[r] \/ kind[r] = "huge"
    BY <1>1, <2>1 DEF TypeOK
  <2>5. \A r \in Segment : ~Leaving(r)
    BY <2>2 DEF Leaving, Abandoning
  <2> QED
    BY <2>2, <2>3, <2>4, <2>5, ExactSame
<1>4. ASSUME NEW t \in Thread, PageAbandon(t)
      PROVE  QueueExact'
  <2>1. \E s \in Segment, p \in Unit : AbandonOf(t, s, p)
    BY <1>4 DEF PageAbandon, AbandonOf
  <2>2. PICK s \in Segment, p \in Unit : AbandonOf(t, s, p)
    BY <2>1
  <2>3. \A r \in Segment : InUse(r)' = InUse(r)
    BY <1>1, <2>2, FieldsAbandonPage
  <2>4. /\ pc = "idle" /\ UNCHANGED <<kind, thread_id>>
        /\ UNCHANGED <<free_queue, cache>>
    BY <1>4 DEF PageAbandon, tld
  <2>5. \A r \in Segment : ~Leaving(r)
    BY <2>4 DEF Leaving, Abandoning
  <2> QED
    BY <2>3, <2>4, <2>5, ExactSame
<1> QED
  BY <1>2, <1>3, <1>4

\* A thread that starts has no segment, so its queues are empty.
LEMMA ExactThreadStart ==
  ASSUME FieldsInv, QueueExact, FieldsInv', NEW t \in Thread, ThreadStart(t)
  PROVE  QueueExact'
<1>1. TypeOK /\ TypeOK'
  BY DEF FieldsInv
<1>2. /\ pc = "idle" /\ count[t] = 0
      /\ free_queue' = [free_queue EXCEPT ![t] = [k \in Queued |-> <<>>]]
      /\ cache' = [cache EXCEPT ![t] = <<>>]
      /\ UNCHANGED <<segment, memory, abandoned_list>>
  BY DEF ThreadStart
<1>3. UNCHANGED <<kind, thread_id>>
  BY <1>2 DEF segment
<1>4. \A s \in Segment : InUse(s)' = InUse(s)
  BY <1>1, <1>2, FieldsSame
<1>5. \A s \in Segment : thread_id[s] # t
  <2>1. Owned(t) = {}
    BY <1>2, OwnedFinite, FS_EmptySet DEF FieldsInv, CountOwned
  <2> QED
    BY <2>1 DEF Owned
<1>6. \A u \in Thread, k \in Queued : free_queue'[u][k] = IF u = t THEN <<>> ELSE free_queue[u][k]
  BY <1>1, <1>2 DEF TypeOK
<1>7. \A s \in Segment, u \in Thread, k \in Queued : InQueue(u, k, s)' <=> InQueue(u, k, s)
  <2>1. \A s \in Segment, k \in Queued : ~InQueue(t, k, s)
    BY <1>1, <1>5, QueueOwnIs DEF FieldsInv
  <2> QED
    BY <1>6, <2>1 DEF InQueue
<1>8. \A u \in Thread, k \in Queued : OnceEach(u, k) => OnceEach(u, k)'
  BY <1>6 DEF OnceEach
<1>9. \A s \in Segment : Cached(s) => Cached(s)'
  <2>1. SUFFICES ASSUME NEW s \in Segment, Cached(s)
                 PROVE  Cached(s)'
    OBVIOUS
  <2>2. PICK u \in Thread : \E i \in DOMAIN cache[u] : cache[u][i] = s
    BY <2>1 DEF Cached
  <2>3. u # t
    BY <1>5, <2>2 DEF FieldsInv, CacheOwn
  <2>4. cache'[u] = cache[u]
    BY <1>1, <1>2, <2>3 DEF TypeOK
  <2> QED
    BY <2>2, <2>4 DEF Cached
<1>10. PICK A \in SUBSET Segment : A = {}
  OBVIOUS
<1>11. \A s \in Segment : ~Leaving(s)
  BY <1>2 DEF Leaving, Abandoning
<1> QED
  BY <1>3, <1>4, <1>7, <1>8, <1>9, <1>10, <1>11, ExactKept

\* What mi_segment_insert_in_free_queue of a segment that is in no queue does.
LEMMA EnqueuedIs ==
  ASSUME TypeOK, NEW t \in Thread, NEW k \in Queued, NEW s \in Segment, ~InQueue(t, k, s),
         free_queue' = [free_queue EXCEPT ![t][k] = Append(@, s)]
  PROVE  /\ \A r \in Segment, u \in Thread, c \in Queued :
              InQueue(u, c, r)' <=> InQueue(u, c, r) \/ (u = t /\ c = k /\ r = s)
         /\ \A u \in Thread, c \in Queued : OnceEach(u, c) => OnceEach(u, c)'
<1>1. \A u \in Thread, c \in Queued, r \in Segment :
        InQueue(u, c, r)' => InQueue(u, c, r) \/ (u = t /\ c = k /\ r = s)
  <2>1. Adds(t, k, s)
    BY DEF Adds
  <2> QED
    BY <2>1, Enqueued
<1>2. /\ \A u \in Thread, c \in Queued, r \in Segment : InQueue(u, c, r) => InQueue(u, c, r)'
      /\ InQueue(t, k, s)'
      /\ \A u \in Thread, c \in Queued : OnceEach(u, c) => OnceEach(u, c)'
  BY EnqueuedKeeps
<1> QED
  BY <1>1, <1>2

\* A claim takes a segment out of its queue when the last free page goes.
LEMMA ExactClaim ==
  ASSUME FieldsInv, QueueExact, FieldsInv', Claim
  PROVE  QueueExact'
<1>1. TypeOK /\ TypeOK'
  BY DEF FieldsInv
<1>2. /\ pc = "claim" /\ pc' = "delay_alloc" /\ UNCHANGED <<kind, thread_id, cache, cur>>
      /\ \A r \in Segment : ~Leaving(r)
  BY ClaimSteps DEF Leaving, Abandoning
<1>3. CASE UNCHANGED <<page, backed, used, pages_reset, free_queue>>
  <2>1. \A r \in Segment : InUse(r)' = InUse(r)
    BY <1>2, <1>3 DEF InUse, Pages
  <2> QED
    BY <1>2, <1>3, <2>1, ExactSame
<1>4. CASE \E p \in Pages(cur.s) \ InUse(cur.s) : ClaimOf(cur.s, p)
  <2>1. PICK s \in Segment : s = cur.s
    BY <1>1, <1>2 DEF TypeOK
  <2>2. Pages(s) \subseteq Unit /\ InUse(s) \subseteq Pages(s)
    BY <1>1, PageSets
  <2>3. PICK p \in Unit : p \in Pages(s) /\ p \notin InUse(s) /\ ClaimOf(s, p)
    BY <1>4, <2>1, <2>2
  <2>4. PICK pg \in Page : pg = [in_use |-> TRUE, committed |-> TRUE, reset |-> FALSE,
                                 heap |-> IF kind[s] = "huge" THEN NULL ELSE me]
    <3>1. PICK h \in Thread \cup {NULL} : h = IF kind[s] = "huge" THEN NULL ELSE me
      BY <1>1, <1>2 DEF TypeOK
    <3>2. [in_use |-> TRUE, committed |-> TRUE, reset |-> FALSE, heap |-> h] \in Page
      BY DEF Page
    <3> QED
      BY <3>1, <3>2
  <2>5. page' = [page EXCEPT ![s][p] = pg] /\ pg.in_use
    BY <2>3, <2>4 DEF ClaimOf
  <2>6. /\ \A q \in Unit : q # p => page'[s][q] = page[s][q]
        /\ page'[s][p] = pg
        /\ \A r \in Segment : r # s => page'[r] = page[r]
    BY <1>1, <2>5, PageSet
  <2>7. Pages(s)' = Pages(s) /\ InUse(s)' = InUse(s) \cup {p}
    BY <1>2, <2>2, <2>3, <2>5, <2>6 DEF InUse, Pages
  <2>8. \A r \in Segment : r # s => InUse(r)' = InUse(r)
    BY <1>2, <2>6 DEF InUse, Pages
  <2>9. /\ ~Cached(s) /\ mapped[s]
        /\ kind[s] # "huge" => thread_id[s] = me
    BY <1>2, <2>1 DEF FieldsInv, Role
  <2>10. InUse(s)' = Pages(s)' <=> used[s] + 1 = Capacity[kind[s]]
    <3> DEFINE n == Cardinality(Pages(s))
               S == InUse(s) \cup {p}
    <3>1. IsFiniteSet(Pages(s)) /\ n = Capacity[kind[s]] /\ IsFiniteSet(InUse(s))
      BY <1>1, PageSets
    <3>2. used[s] = Cardinality(InUse(s))
      BY <2>9 DEF FieldsInv, SegmentFields
    <3>3. IsFiniteSet(S) /\ Cardinality(S) = used[s] + 1
      BY <2>3, <3>1, <3>2, FS_AddElement
    <3>4. S \in SUBSET Pages(s)
      BY <2>2, <2>3
    <3>5. S = Pages(s) <=> Cardinality(S) = Cardinality(Pages(s))
      BY <3>1, <3>4, FS_Subset
    <3> HIDE DEF S
    <3> QED
      BY <2>7, <3>1, <3>3, <3>5 DEF S
  <2>11. PICK A \in SUBSET Segment : A = {s}
    OBVIOUS
  <2>12. \A r \in Segment \ A : /\ thread_id'[r] = thread_id[r] /\ kind'[r] = kind[r]
                                /\ InUse(r)' = InUse(r) /\ (Cached(r) => Cached(r)')
                                /\ Leaving(r) => Leaving(r)'
    BY <1>2, <2>8, <2>11 DEF Cached
  <2>13. CASE ~(used[s] + 1 = Capacity[kind[s]] /\ kind[s] \in Queued)
    <3>1. free_queue' = free_queue
      BY <2>3, <2>13 DEF ClaimOf
    <3>2. \A r \in Segment, u \in Thread, k \in Queued : InQueue(u, k, r)' <=> InQueue(u, k, r)
      BY <3>1 DEF InQueue
    <3>3. \A u \in Thread, k \in Queued : OnceEach(u, k) => OnceEach(u, k)'
      BY <3>1 DEF OnceEach
    <3>4. \A u \in Thread, k \in Queued : /\ InQueue(u, k, s)' => InUse(s)' # Pages(s)'
                                          /\ HasFree(u, k, s)' => InQueue(u, k, s)'
      <4>1. SUFFICES ASSUME NEW u \in Thread, NEW k \in Queued
                     PROVE  /\ InQueue(u, k, s) => InUse(s)' # Pages(s)'
                            /\ HasFree(u, k, s)' => InQueue(u, k, s)
        BY <3>2
      <4>2. InQueue(u, k, s) => kind[s] \in Queued
        BY <1>1, QueueOwnIs DEF FieldsInv
      <4>3. HasFree(u, k, s)' => HasFree(u, k, s)
        BY <1>2, <2>2, <2>3, <2>9 DEF HasFree
      <4> QED
        BY <1>2, <2>10, <2>13, <4>2, <4>3 DEF QueueExact
    <3>5. \A r \in A : \A u \in Thread, k \in Queued :
            /\ InQueue(u, k, r)' => InUse(r)' # Pages(r)'
            /\ HasFree(u, k, r)' /\ ~(Leaving(r)') => InQueue(u, k, r)'
      BY <2>11, <3>4
    <3> QED
      BY <2>12, <3>2, <3>3, <3>5, ExactKept
  <2>14. CASE used[s] + 1 = Capacity[kind[s]] /\ kind[s] \in Queued
    <3>1. Dequeue(me, s) /\ thread_id[s] = me
      BY <2>3, <2>9, <2>14 DEF ClaimOf, Queued
    <3>2. PICK t \in Thread : t = me
      BY <1>1, <1>2 DEF TypeOK
    <3>3. /\ \A r \in Segment, u \in Thread, k \in Queued : InQueue(u, k, r)' <=> InQueue(u, k, r) /\ r # s
          /\ \A u \in Thread, k \in Queued : OnceEach(u, k) => OnceEach(u, k)'
      BY <1>1, <3>1, <3>2, Dequeued, DequeuedKeeps
    <3>4. \A r \in A : \A u \in Thread, k \in Queued :
            /\ InQueue(u, k, r)' => InUse(r)' # Pages(r)'
            /\ HasFree(u, k, r)' /\ ~(Leaving(r)') => InQueue(u, k, r)'
      BY <2>10, <2>11, <2>14, <3>3 DEF HasFree
    <3>5. \A r \in Segment \ A : \A u \in Thread, k \in Queued : InQueue(u, k, r)' <=> InQueue(u, k, r)
      BY <2>11, <3>3
    <3> QED
      BY <2>12, <3>3, <3>4, <3>5, ExactKept
  <2> QED
    BY <2>13, <2>14
<1> QED
  BY <1>3, <1>4, ClaimSteps

\* A segment is added to a queue, or its memory is on the way out.
LEMMA ExactAdds ==
  ASSUME FieldsInv, QueueExact, FieldsInv', NEW s \in Segment, NEW t \in Thread,
         \A r \in Segment : r # s => /\ thread_id'[r] = thread_id[r] /\ kind'[r] = kind[r]
                                     /\ InUse(r)' = InUse(r) /\ (Cached(r) => Cached(r)') /\ ~Leaving(r),
         \A u \in Thread, k \in Queued : ~InQueue(u, k, s),
         \/ free_queue' = free_queue /\ \A k \in Queued : ~(HasFree(t, k, s)') \/ Leaving(s)'
         \/ \E k \in Queued : /\ free_queue' = [free_queue EXCEPT ![t][k] = Append(@, s)]
                              /\ kind'[s] = k /\ InUse(s)' # Pages(s)',
         thread_id'[s] \in {t, NULL}
  PROVE  QueueExact'
<1>1. TypeOK /\ TypeOK'
  BY DEF FieldsInv
<1>2. PICK A \in SUBSET Segment : A = {s}
  OBVIOUS
<1>3. \A r \in Segment \ A : /\ thread_id'[r] = thread_id[r] /\ kind'[r] = kind[r]
                             /\ InUse(r)' = InUse(r) /\ (Cached(r) => Cached(r)')
                             /\ Leaving(r) => Leaving(r)'
  BY <1>2
<1>4. \A u \in Thread, k \in Queued : HasFree(u, k, s)' => u = t /\ kind'[s] = k
  BY NULLAssumption DEF HasFree
<1>5. CASE free_queue' = free_queue /\ \A k \in Queued : ~(HasFree(t, k, s)') \/ Leaving(s)'
  <2>1. \A r \in Segment, u \in Thread, k \in Queued : InQueue(u, k, r)' <=> InQueue(u, k, r)
    BY <1>5 DEF InQueue
  <2>2. \A u \in Thread, k \in Queued : OnceEach(u, k) => OnceEach(u, k)'
    BY <1>5 DEF OnceEach
  <2>3. \A r \in A : \A u \in Thread, k \in Queued :
          /\ InQueue(u, k, r)' => InUse(r)' # Pages(r)'
          /\ HasFree(u, k, r)' /\ ~(Leaving(r)') => InQueue(u, k, r)'
    BY <1>2, <1>4, <1>5, <2>1
  <2> QED
    BY <1>3, <2>1, <2>2, <2>3, ExactKept
<1>6. ASSUME NEW c \in Queued, free_queue' = [free_queue EXCEPT ![t][c] = Append(@, s)],
             kind'[s] = c, InUse(s)' # Pages(s)'
      PROVE  QueueExact'
  <2>1. /\ \A r \in Segment, u \in Thread, k \in Queued :
             InQueue(u, k, r)' <=> InQueue(u, k, r) \/ (u = t /\ k = c /\ r = s)
        /\ \A u \in Thread, k \in Queued : OnceEach(u, k) => OnceEach(u, k)'
    <3>1. ~InQueue(t, c, s)
      OBVIOUS
    <3>2. TypeOK /\ free_queue' = [free_queue EXCEPT ![t][c] = Append(@, s)]
      BY <1>1, <1>6
    <3> QED
      BY <3>1, <3>2, EnqueuedIs, ZenonT(60)
  <2>2. \A r \in A : \A u \in Thread, k \in Queued :
          /\ InQueue(u, k, r)' => InUse(r)' # Pages(r)'
          /\ HasFree(u, k, r)' /\ ~(Leaving(r)') => InQueue(u, k, r)'
    BY <1>2, <1>4, <1>6, <2>1
  <2>3. \A r \in Segment \ A : \A u \in Thread, k \in Queued : InQueue(u, k, r)' <=> InQueue(u, k, r)
    BY <1>2, <2>1
  <2> QED
    BY <1>3, <2>1, <2>2, <2>3, ExactKept
<1> QED
  BY <1>5, <1>6

\* What mi_segment_free of segment s does: it frees the memory of the segments
\* S, and s goes to the cache if it is not one of them.
FreeIs(s, t, S, force) ==
  /\ pc = "free" /\ s = cur.s /\ t = me
  /\ thread_id[s] = t /\ ~Cached(s) /\ InUse(s) = {}
  /\ Dequeue(t, s)
  /\ pages_reset' = [pages_reset EXCEPT ![t] = QueueWithout(t, s)]
  /\ backed' = MemoryReset(s, force)
  /\ S \subseteq Owned(t) /\ \A r \in S : r = s \/ Cached(r)
  /\ \A r \in Segment \ S :
       /\ thread_id'[r] = thread_id[r] /\ kind'[r] = kind[r]
       /\ mapped'[r] = mapped[r] /\ mem_is_fixed'[r] = mem_is_fixed[r]
       /\ page'[r] = PagesReset(s, force)[r]
  /\ \A r \in S : /\ ~mapped'[r] /\ thread_id'[r] = NULL /\ kind'[r] = "small"
                  /\ page'[r] = NoPages /\ ~mem_is_fixed'[r]
  /\ \A r \in Segment : Cached(r)' <=> (Cached(r) /\ r \notin S) \/ (r = s /\ s \notin S)
  /\ s \notin S => CacheRoom(t)

\* mi_segment_os_free of segments of the thread in terms of these.
LEMMA OsFreeIs ==
  ASSUME TypeOK, NEW t \in Thread, NEW S, NEW pg, NEW bk, OsFree(t, S, pg, bk)
  PROVE  /\ backed' = bk
         /\ \A r \in Segment : r \notin S => /\ thread_id'[r] = thread_id[r] /\ kind'[r] = kind[r]
                                 /\ mapped'[r] = mapped[r] /\ mem_is_fixed'[r] = mem_is_fixed[r]
                                 /\ page'[r] = pg[r]
         /\ \A r \in Segment : r \in S => /\ ~mapped'[r] /\ thread_id'[r] = NULL /\ kind'[r] = "small"
                            /\ page'[r] = NoPages /\ ~mem_is_fixed'[r]
BY DEF OsFree, TypeOK

\* mi_segment_free does no more than FreeIs says.
LEMMA FreeDoes ==
  ASSUME FieldsInv, TypeOK', SegmentFree
  PROVE  \E s \in Segment, t \in Thread, S \in SUBSET Segment, force \in BOOLEAN : FreeIs(s, t, S, force)
<1>1. TypeOK
  BY DEF FieldsInv
<1>2. PICK force \in BOOLEAN : FreeToCache(cur.s, force) \/ FreeToOs(cur.s, force)
  BY SegmentFreeSteps
<1>3. PICK s \in Segment, t \in Thread : s = cur.s /\ t = me
  BY <1>1, SegmentFreeSteps DEF TypeOK
<1>4. /\ pc = "free" /\ Dequeue(t, s)
      /\ pages_reset' = [pages_reset EXCEPT ![t] = QueueWithout(t, s)]
  BY <1>3, SegmentFreeSteps
<1>5. thread_id[s] = t /\ ~Cached(s) /\ InUse(s) = {}
  BY <1>3, <1>4 DEF FieldsInv, Role, Freeing
<1>6. CASE FreeToCache(cur.s, force)
  <2>1. /\ CacheRoom(t) /\ cache' = [cache EXCEPT ![t] = <<s>> \o @]
        /\ page' = PagesReset(s, force) /\ backed' = MemoryReset(s, force)
        /\ UNCHANGED <<thread_id, mapped, count, kind, mem_is_fixed>>
    BY <1>3, <1>6 DEF FreeToCache
  <2>2. /\ cache[t] \in Seq(Segment) /\ DOMAIN cache[t] = 1 .. Len(cache[t]) /\ Len(cache[t]) \in Nat
        /\ cache'[t] = <<s>> \o cache[t]
        /\ \A u \in Thread : u # t => cache'[u] = cache[u]
    BY <1>1, <2>1, QueueTypes DEF TypeOK
  <2>3. /\ DOMAIN cache'[t] = 1 .. Len(cache[t]) + 1 /\ cache'[t][1] = s
        /\ \A i \in 2 .. Len(cache[t]) + 1 : cache'[t][i] = cache[t][i - 1] /\ i - 1 \in DOMAIN cache[t]
        /\ \A i \in DOMAIN cache[t] : cache'[t][i + 1] = cache[t][i] /\ i + 1 \in DOMAIN cache'[t]
        /\ 1 \in DOMAIN cache'[t]
        /\ \A i \in DOMAIN cache'[t] : i = 1 \/ i \in 2 .. Len(cache[t]) + 1
    BY <2>2
  <2>4. \A r \in Segment : Cached(r)' <=> Cached(r) \/ r = s
    <3>1. ASSUME NEW r \in Segment, Cached(r)'
          PROVE  Cached(r) \/ r = s
      <4>1. PICK u \in Thread : \E i \in DOMAIN cache'[u] : cache'[u][i] = r
        BY <3>1 DEF Cached
      <4>2. CASE u # t
        BY <2>2, <4>1, <4>2 DEF Cached
      <4>3. CASE u = t
        <5>1. PICK i \in DOMAIN cache'[t] : cache'[t][i] = r
          BY <4>1, <4>3
        <5>2. CASE i = 1
          BY <2>3, <5>1, <5>2
        <5>3. CASE i \in 2 .. Len(cache[t]) + 1
          BY <2>3, <5>1, <5>3 DEF Cached
        <5> QED
          BY <2>3, <5>2, <5>3
      <4> QED
        BY <4>2, <4>3
    <3>2. ASSUME NEW r \in Segment, Cached(r)
          PROVE  Cached(r)'
      <4>1. PICK u \in Thread : \E i \in DOMAIN cache[u] : cache[u][i] = r
        BY <3>2 DEF Cached
      <4>2. CASE u # t
        BY <2>2, <4>1, <4>2 DEF Cached
      <4>3. CASE u = t
        <5>1. PICK i \in DOMAIN cache[t] : cache[t][i] = r
          BY <4>1, <4>3
        <5>2. cache'[t][i + 1] = r /\ i + 1 \in DOMAIN cache'[t]
          BY <2>3, <5>1
        <5> QED
          BY <5>2 DEF Cached
      <4> QED
        BY <4>2, <4>3
    <3>3. Cached(s)'
      BY <2>3 DEF Cached
    <3> QED
      BY <3>1, <3>2, <3>3
  <2>5. PICK S \in SUBSET Segment : S = {}
    OBVIOUS
  <2>6. FreeIs(s, t, S, force)
    BY <1>3, <1>4, <1>5, <2>1, <2>4, <2>5 DEF FreeIs
  <2> QED
    BY <2>6
<1>7. CASE /\ cache' = [cache EXCEPT ![me] = SubSeq(@, CachePurge(me) + 1, Len(@))]
           /\ OsFree(me, {cur.s} \cup Purged(me), PagesReset(cur.s, force), MemoryReset(cur.s, force))
  <2>1. Purged(t) \in SUBSET Owned(t) /\ \A r \in Purged(t) : Cached(r)
    BY PurgedOwned
  <2>2. PICK S \in SUBSET Segment : S = {s} \cup Purged(t)
    BY <1>5, <2>1 DEF Owned
  <2>3. PICK n \in Nat : n = CachePurge(t) /\ n <= Len(cache[t])
    BY <1>1, PurgeIs, QueueTypes
  <2>4. cache'[t] = SubSeq(cache[t], n + 1, Len(cache[t])) /\ \A u \in Thread : u # t => cache'[u] = cache[u]
    BY <1>1, <1>3, <1>7, <2>3 DEF TypeOK
  <2>5. /\ DOMAIN cache[t] = 1 .. Len(cache[t]) /\ Len(cache[t]) \in Nat
        /\ DOMAIN cache'[t] = 1 .. Len(cache[t]) - n
        /\ \A i \in 1 .. Len(cache[t]) - n : cache'[t][i] = cache[t][n + i]
    <3>1. cache[t] \in Seq(Segment) /\ Len(cache[t]) \in Nat /\ DOMAIN cache[t] = 1 .. Len(cache[t])
      BY <1>1, QueueTypes
    <3> QED
      BY <1>1, <2>3, <2>4, <3>1, PurgeIs
  <2>6. Purged(t) = {cache[t][i] : i \in 1 .. n}
    BY <2>3 DEF Purged
  <2>7. \A r \in Segment : Cached(r)' <=> Cached(r) /\ r \notin S
    <3>1. ASSUME NEW r \in Segment, Cached(r)'
          PROVE  Cached(r) /\ r \notin S
      <4>1. PICK u \in Thread : \E i \in DOMAIN cache'[u] : cache'[u][i] = r
        BY <3>1 DEF Cached
      <4>2. CASE u # t
        <5>1. \E i \in DOMAIN cache[u] : cache[u][i] = r
          BY <2>4, <4>1, <4>2
        <5>2. Cached(r) /\ thread_id[r] = u
          BY <5>1 DEF Cached, FieldsInv, CacheOwn
        <5> QED
          BY <1>5, <2>1, <2>2, <4>2, <5>2 DEF Owned
      <4>3. CASE u = t
        <5>1. PICK i \in 1 .. Len(cache[t]) - n : r = cache[t][n + i]
          BY <2>5, <4>1, <4>3
        <5>2. n + i \in DOMAIN cache[t] /\ \A j \in 1 .. n : j \in DOMAIN cache[t] /\ j # n + i
          BY <2>3, <2>5
        <5>3. r # s
          BY <1>5, <5>1, <5>2 DEF Cached
        <5>4. \A j \in 1 .. n : cache[t][j] # r
          BY <5>1, <5>2 DEF FieldsInv, CacheOwn
        <5> QED
          BY <2>2, <2>6, <5>1, <5>2, <5>3, <5>4 DEF Cached
      <4> QED
        BY <4>2, <4>3
    <3>2. ASSUME NEW r \in Segment, Cached(r), r \notin S
          PROVE  Cached(r)'
      <4>1. PICK u \in Thread : \E i \in DOMAIN cache[u] : cache[u][i] = r
        BY <3>2 DEF Cached
      <4>2. CASE u # t
        BY <2>4, <4>1, <4>2 DEF Cached
      <4>3. CASE u = t
        <5>0. PICK i \in DOMAIN cache[t] : cache[t][i] = r
          BY <4>1, <4>3
        <5>1. i \in 1 .. Len(cache[t]) /\ i \notin 1 .. n
          BY <2>2, <2>5, <2>6, <3>2, <5>0
        <5>2. i - n \in 1 .. Len(cache[t]) - n /\ n + (i - n) = i
          BY <2>3, <2>5, <5>1
        <5>3. i - n \in DOMAIN cache'[t] /\ cache'[t][i - n] = r
          BY <2>5, <5>0, <5>2
        <5> QED
          BY <5>3 DEF Cached
      <4> QED
        BY <4>2, <4>3
    <3> QED
      BY <3>1, <3>2
  <2>8. OsFree(t, S, PagesReset(s, force), MemoryReset(s, force))
    BY <1>3, <1>7, <2>2
  <2>9. /\ backed' = MemoryReset(s, force)
        /\ \A r \in Segment \ S : /\ thread_id'[r] = thread_id[r] /\ kind'[r] = kind[r]
                                  /\ mapped'[r] = mapped[r] /\ mem_is_fixed'[r] = mem_is_fixed[r]
                                  /\ page'[r] = PagesReset(s, force)[r]
        /\ \A r \in S : /\ ~mapped'[r] /\ thread_id'[r] = NULL /\ kind'[r] = "small"
                        /\ page'[r] = NoPages /\ ~mem_is_fixed'[r]
    BY <1>1, <2>8, OsFreeIs
  <2>10. S \subseteq Owned(t) /\ s \in S /\ \A r \in S : r = s \/ Cached(r)
    BY <1>5, <2>1, <2>2 DEF Owned
  <2>11. FreeIs(s, t, S, force)
    BY <1>3, <1>4, <1>5, <2>7, <2>9, <2>10 DEF FreeIs
  <2> QED
    BY <2>11
<1>8. CASE cache' = cache /\ OsFree(me, {cur.s}, PagesReset(cur.s, force), MemoryReset(cur.s, force))
  <2>1. PICK S \in SUBSET Segment : S = {s}
    OBVIOUS
  <2>2. OsFree(t, S, PagesReset(s, force), MemoryReset(s, force))
    BY <1>3, <1>8, <2>1
  <2>3. /\ backed' = MemoryReset(s, force)
        /\ \A r \in Segment \ S : /\ thread_id'[r] = thread_id[r] /\ kind'[r] = kind[r]
                                  /\ mapped'[r] = mapped[r] /\ mem_is_fixed'[r] = mem_is_fixed[r]
                                  /\ page'[r] = PagesReset(s, force)[r]
        /\ \A r \in S : /\ ~mapped'[r] /\ thread_id'[r] = NULL /\ kind'[r] = "small"
                        /\ page'[r] = NoPages /\ ~mem_is_fixed'[r]
    BY <1>1, <2>2, OsFreeIs
  <2>4. S \subseteq Owned(t) /\ s \in S /\ \A r \in S : r = s \/ Cached(r)
    BY <1>5, <2>1 DEF Owned
  <2>5. \A r \in Segment : Cached(r)' <=> Cached(r) /\ r \notin S
    BY <1>5, <1>8, <2>1 DEF Cached
  <2>6. FreeIs(s, t, S, force)
    BY <1>3, <1>4, <1>5, <2>3, <2>4, <2>5 DEF FreeIs
  <2> QED
    BY <2>6
<1> QED
  BY <1>2, <1>6, <1>7, <1>8 DEF FreeToOs

\* Segments that nobody has any more, or that go to the cache, are in no queue.
LEMMA ExactRemoves ==
  ASSUME FieldsInv, QueueExact, FieldsInv', NEW S \in SUBSET Segment,
         \A r \in Segment \ S : /\ thread_id'[r] = thread_id[r] /\ kind'[r] = kind[r]
                                /\ InUse(r)' = InUse(r) /\ (Cached(r) => Cached(r)')
                                /\ Leaving(r) => Leaving(r)',
         \A r \in S : thread_id'[r] = NULL \/ Cached(r)',
         \/ free_queue' = free_queue
         \/ \E t \in Thread, s \in S : thread_id[s] = t /\ Dequeue(t, s)
  PROVE  QueueExact'
<1>1. TypeOK /\ TypeOK'
  BY DEF FieldsInv
<1>2. /\ \A r \in Segment \ S : \A u \in Thread, k \in Queued : InQueue(u, k, r)' <=> InQueue(u, k, r)
      /\ \A u \in Thread, k \in Queued : OnceEach(u, k) => OnceEach(u, k)'
  <2>1. CASE free_queue' = free_queue
    BY <2>1 DEF InQueue, OnceEach
  <2>2. ASSUME NEW t \in Thread, NEW s \in S, thread_id[s] = t, Dequeue(t, s)
        PROVE  /\ \A r \in Segment \ S : \A u \in Thread, k \in Queued : InQueue(u, k, r)' <=> InQueue(u, k, r)
               /\ \A u \in Thread, k \in Queued : OnceEach(u, k) => OnceEach(u, k)'
    <3>1. \A u \in Thread, k \in Queued, r \in Segment : InQueue(u, k, r)' => InQueue(u, k, r) /\ r # s
      BY <1>1, <2>2, Dequeued
    <3>2. /\ \A u \in Thread, k \in Queued, r \in Segment : InQueue(u, k, r) /\ r # s => InQueue(u, k, r)'
          /\ \A u \in Thread, k \in Queued : OnceEach(u, k) => OnceEach(u, k)'
      BY <2>2, DequeuedKeeps
    <3> QED
      BY <2>2, <3>1, <3>2
  <2> QED
    BY <2>1, <2>2
<1>3. \A r \in S : \A u \in Thread, k \in Queued :
        /\ InQueue(u, k, r)' => InUse(r)' # Pages(r)'
        /\ HasFree(u, k, r)' /\ ~(Leaving(r)') => InQueue(u, k, r)'
  <2>1. SUFFICES ASSUME NEW r \in S, NEW u \in Thread, NEW k \in Queued
                 PROVE  ~(InQueue(u, k, r)') /\ ~(HasFree(u, k, r)')
    OBVIOUS
  <2>2. u # NULL
    BY NULLAssumption
  <2>3. ~(HasFree(u, k, r)')
    BY <2>2 DEF HasFree
  <2>4. ~(InQueue(u, k, r)')
    BY <2>2 DEF FieldsInv, QueueOwn, InQueue
  <2> QED
    BY <2>3, <2>4
<1> QED
  BY <1>2, <1>3, ExactKept

\* mi_segment_free, mi_segment_abandon and _mi_segment_thread_collect
LEMMA ExactLeaves ==
  ASSUME FieldsInv, QueueExact, FieldsInv',
         SegmentFree \/ AbandonSegment \/ \E t \in Thread : ThreadCollect(t)
  PROVE  QueueExact'
<1>1. TypeOK /\ TypeOK'
  BY DEF FieldsInv
<1>2. CASE SegmentFree
  <2>1. PICK s \in Segment, t \in Thread, S \in SUBSET Segment, force \in BOOLEAN : FreeIs(s, t, S, force)
    BY <1>1, <1>2, FreeDoes
  <2>2. PICK A \in SUBSET Segment : A = S \cup {s}
    OBVIOUS
  <2>3. \A r \in Segment \ A : /\ thread_id'[r] = thread_id[r] /\ kind'[r] = kind[r]
                               /\ page'[r] = PagesReset(s, force)[r] /\ (Cached(r) => Cached(r)')
    BY <2>1, <2>2 DEF FreeIs
  <2>4. \A r \in Segment \ A : page'[r] = page[r] /\ ~Leaving(r)
    <3>1. \A r \in Segment : r # s => PagesReset(s, force)[r] = page[r]
      BY <1>1, PagesResetType
    <3>2. \A r \in Segment : r # s => ~Leaving(r)
      BY <2>1 DEF FreeIs, Leaving
    <3> QED
      BY <2>2, <2>3, <3>1, <3>2
  <2>5. \A r \in Segment \ A : /\ thread_id'[r] = thread_id[r] /\ kind'[r] = kind[r]
                               /\ InUse(r)' = InUse(r) /\ (Cached(r) => Cached(r)')
                               /\ Leaving(r) => Leaving(r)'
    BY <2>3, <2>4 DEF InUse, Pages
  <2>6. \A r \in A : thread_id'[r] = NULL \/ Cached(r)'
    BY <2>1, <2>2 DEF FreeIs
  <2>7. thread_id[s] = t /\ Dequeue(t, s) /\ s \in A
    BY <2>1, <2>2 DEF FreeIs
  <2> QED
    BY <2>5, <2>6, <2>7, ExactRemoves
<1>3. CASE AbandonSegment
  <2>1. PICK s \in Segment, t \in Thread : s = cur.s /\ t = me
    BY <1>1, <1>3 DEF AbandonSegment, TypeOK
  <2>2. /\ pc = "abandon" /\ thread_id[s] = t /\ thread_id' = [thread_id EXCEPT ![s] = NULL]
        /\ Dequeue(t, s) /\ cache' = cache /\ kind' = kind
    BY <1>3, <2>1 DEF AbandonSegment, FieldsInv, Role, Abandoning
  <2>3. \A r \in Segment : InUse(r)' = InUse(r)
    BY <1>1, <1>3, FieldsAbandonSegment
  <2>4. PICK A \in SUBSET Segment : A = {s}
    OBVIOUS
  <2>5. \A r \in Segment \ A : /\ thread_id'[r] = thread_id[r] /\ kind'[r] = kind[r]
                               /\ InUse(r)' = InUse(r) /\ (Cached(r) => Cached(r)')
                               /\ Leaving(r) => Leaving(r)'
    BY <1>1, <2>1, <2>2, <2>3, <2>4 DEF TypeOK, Cached, Leaving
  <2>6. \A r \in A : thread_id'[r] = NULL \/ Cached(r)'
    BY <1>1, <2>2, <2>4 DEF TypeOK
  <2> QED
    BY <2>2, <2>4, <2>5, <2>6, ExactRemoves
<1>4. ASSUME NEW t \in Thread, ThreadCollect(t)
      PROVE  QueueExact'
  <2>1. PICK S \in SUBSET Segment : S = {cache[t][i] : i \in DOMAIN cache[t]}
    BY <1>1, QueueTypes
  <2>2. /\ pc = "idle" /\ OsFree(t, S, page, backed)
        /\ cache' = [cache EXCEPT ![t] = <<>>] /\ free_queue' = free_queue
    BY <1>4, <2>1 DEF ThreadCollect
  <2>3. PICK pg, bk : pg = page /\ bk = backed
    OBVIOUS
  <2>4. OsFree(t, S, pg, bk)
    BY <2>2, <2>3
  <2>5. /\ \A r \in Segment \ S : /\ thread_id'[r] = thread_id[r] /\ kind'[r] = kind[r]
                                  /\ page'[r] = pg[r]
        /\ \A r \in S : thread_id'[r] = NULL
    BY <1>1, <2>4, OsFreeIs
  <2>6. \A r \in Segment \ S : Cached(r) => Cached(r)'
    <3>1. SUFFICES ASSUME NEW r \in Segment \ S, Cached(r)
                   PROVE  Cached(r)'
      OBVIOUS
    <3>2. PICK u \in Thread : \E i \in DOMAIN cache[u] : cache[u][i] = r
      BY <3>1 DEF Cached
    <3>3. u # t
      BY <2>1, <3>2
    <3>4. cache'[u] = cache[u]
      BY <1>1, <2>2, <3>3 DEF TypeOK
    <3> QED
      BY <3>2, <3>4 DEF Cached
  <2>7. \A r \in Segment \ S : /\ thread_id'[r] = thread_id[r] /\ kind'[r] = kind[r]
                               /\ InUse(r)' = InUse(r) /\ (Cached(r) => Cached(r)')
                               /\ Leaving(r) => Leaving(r)'
    BY <2>2, <2>3, <2>5, <2>6 DEF InUse, Pages, Leaving, Abandoning
  <2> QED
    BY <2>2, <2>5, <2>7, ExactRemoves
<1> QED
  BY <1>2, <1>3, <1>4

\* A page is cleared: a full segment gets into its queue, any other is there.
LEMMA ExactPageClear ==
  ASSUME FieldsInv, QueueExact, FieldsInv', PageClear
  PROVE  QueueExact'
<1>1. TypeOK /\ TypeOK'
  BY DEF FieldsInv
<1>2. pc = "clear" /\ UNCHANGED <<kind, abandoned, thread_id, cache, count, status>>
  BY PageClearSteps
<1>3. PICK s \in Segment, p \in Unit, t \in Thread : s = cur.s /\ p = cur.p /\ t = me
  BY <1>2, ClearFacts
<1>4. /\ p \in InUse(s) /\ thread_id[s] = t /\ ~Cached(s)
      /\ used[s] = Cardinality(InUse(s)) /\ used[s] \in Nat \ {0}
  BY <1>2, <1>3, ClearFacts
<1>5. /\ \A r \in Segment : r # s => InUse(r)' = InUse(r)
      /\ InUse(s)' = InUse(s) \ {p}
  BY <1>1, <1>3, FieldsClear
<1>6. \/ pc' \in {"free", "delay_abandon"} /\ UNCHANGED <<cur, free_queue>>
      \/ IF used[s] = Capacity[kind[s]] THEN Enqueue(t, s) ELSE free_queue' = free_queue
  <2>1. used[s] - 1 + 1 = used[s]
    BY <1>4
  <2> QED
    BY <1>3, <2>1, PageClearSteps
<1>7. used[s] = Capacity[kind[s]] <=> InUse(s) = Pages(s)
  <2> DEFINE P == InUse(s)
             Q == Pages(s)
  <2>1. IsFiniteSet(Q) /\ Cardinality(Q) = Capacity[kind[s]] /\ P \in SUBSET Q /\ IsFiniteSet(P)
    BY <1>1, PageSets
  <2>2. used[s] = Cardinality(P)
    BY <1>4
  <2> HIDE DEF P, Q
  <2>3. P = Q <=> Cardinality(P) = Cardinality(Q)
    BY <2>1, FS_Subset
  <2> QED
    BY <2>1, <2>2, <2>3 DEF P, Q
<1>8. Pages(s)' = Pages(s) /\ InUse(s)' # Pages(s)'
  <2>1. Pages(s)' = Pages(s) /\ p \in Pages(s)
    BY <1>2, <1>4 DEF InUse, Pages
  <2> QED
    BY <1>5, <2>1
<1>9. \A r \in Segment : r # s => /\ thread_id'[r] = thread_id[r] /\ kind'[r] = kind[r]
                                  /\ InUse(r)' = InUse(r) /\ (Cached(r) => Cached(r)') /\ ~Leaving(r)
  BY <1>2, <1>5 DEF Cached, Leaving, Abandoning
<1>10. PICK A \in SUBSET Segment : A = {s}
  OBVIOUS
<1>11. \A r \in Segment \ A : /\ thread_id'[r] = thread_id[r] /\ kind'[r] = kind[r]
                              /\ InUse(r)' = InUse(r) /\ (Cached(r) => Cached(r)')
                              /\ Leaving(r) => Leaving(r)'
  BY <1>9, <1>10
<1>12. ASSUME free_queue' = free_queue, Leaving(s)' \/ InUse(s) # Pages(s)
       PROVE  QueueExact'
  <2>1. \A r \in Segment, u \in Thread, k \in Queued : InQueue(u, k, r)' <=> InQueue(u, k, r)
    BY <1>12 DEF InQueue
  <2>2. \A u \in Thread, k \in Queued : OnceEach(u, k) => OnceEach(u, k)'
    BY <1>12 DEF OnceEach
  <2>3. ~Leaving(s)
    BY <1>2 DEF Leaving, Abandoning
  <2>4. \A u \in Thread, k \in Queued :
          /\ InQueue(u, k, s)' => InUse(s)' # Pages(s)'
          /\ HasFree(u, k, s)' /\ ~(Leaving(s)') => InQueue(u, k, s)'
    <3>1. SUFFICES ASSUME NEW u \in Thread, NEW k \in Queued, HasFree(u, k, s)', ~(Leaving(s)')
                   PROVE  InQueue(u, k, s)
      BY <1>8, <2>1
    <3>2. HasFree(u, k, s)
      BY <1>2, <1>4, <1>12, <3>1 DEF HasFree
    <3> QED
      BY <2>3, <3>2 DEF QueueExact
  <2>5. \A r \in A : \A u \in Thread, k \in Queued :
          /\ InQueue(u, k, r)' => InUse(r)' # Pages(r)'
          /\ HasFree(u, k, r)' /\ ~(Leaving(r)') => InQueue(u, k, r)'
    BY <1>10, <2>4
  <2> QED
    BY <1>11, <2>1, <2>2, <2>5, ExactKept
<1>13. CASE pc' \in {"free", "delay_abandon"} /\ UNCHANGED <<cur, free_queue>>
  <2>1. Leaving(s)'
    BY <1>3, <1>13 DEF Leaving, Abandoning
  <2> QED
    BY <1>12, <1>13, <2>1
<1>14. CASE used[s] # Capacity[kind[s]] /\ free_queue' = free_queue
  BY <1>7, <1>12, <1>14
<1>15. CASE used[s] = Capacity[kind[s]] /\ Enqueue(t, s)
  <2>1. \A u \in Thread, k \in Queued : ~InQueue(u, k, s)
    BY <1>7, <1>15 DEF QueueExact
  <2>2. thread_id'[s] \in {t, NULL}
    BY <1>2, <1>4
  <2>3. CASE kind[s] \in Queued
    <3>1. PICK k \in Queued : k = kind[s]
      BY <2>3
    <3>2. free_queue' = [free_queue EXCEPT ![t][k] = Append(@, s)] /\ kind'[s] = k
      BY <1>2, <1>15, <3>1 DEF Enqueue
    <3> QED
      BY <1>8, <1>9, <2>1, <2>2, <3>2, ExactAdds
  <2>4. CASE kind[s] \notin Queued
    <3>1. free_queue' = free_queue
      BY <1>1, <1>15, <2>4 DEF Enqueue, TypeOK
    <3>2. \A k \in Queued : ~(HasFree(t, k, s)')
      BY <1>2, <2>4 DEF HasFree
    <3> QED
      BY <1>9, <2>1, <2>2, <3>1, <3>2, ExactAdds
  <2> QED
    BY <2>3, <2>4
<1> QED
  BY <1>6, <1>13, <1>14, <1>15

\* A segment is reclaimed: it gets into its queue when it has a free page.
LEMMA ExactReclaim ==
  ASSUME FieldsInv, QueueExact, FieldsInv', NEW s \in abandoned_list, NEW F \in SUBSET InUse(s),
         ReclaimStep(s, F), pc \in {"try", "reclaim_all"}
  PROVE  QueueExact'
<1>1. TypeOK /\ TypeOK' /\ s \in Segment
  BY DEF FieldsInv, TypeOK
<1>2. PICK t \in Thread : t = me
  BY <1>1 DEF TypeOK
<1>3. /\ thread_id' = [thread_id EXCEPT ![s] = t]
      /\ UNCHANGED <<kind, mapped, cache, status, me>>
  BY <1>2 DEF ReclaimStep, ReclaimFields
<1>4. /\ \A r \in Segment : r # s => InUse(r)' = InUse(r)
      /\ InUse(s)' = InUse(s) \ F /\ Pages(s)' = Pages(s)
      /\ mapped[s] /\ kind[s] # "huge" /\ thread_id[s] = NULL /\ thread_id'[s] = t
      /\ used'[s] = Cardinality(InUse(s) \ F)
  BY <1>1, <1>2, FieldsReclaim
<1>5. \A r \in Segment : r # s => /\ thread_id'[r] = thread_id[r] /\ kind'[r] = kind[r]
                                  /\ InUse(r)' = InUse(r) /\ (Cached(r) => Cached(r)') /\ ~Leaving(r)
  <2>1. \A r \in Segment : r # s => thread_id'[r] = thread_id[r]
    BY <1>1, <1>3 DEF TypeOK
  <2>2. \A r \in Segment : (Cached(r) => Cached(r)') /\ ~Leaving(r)
    BY <1>3 DEF Cached, Leaving, Abandoning
  <2> QED
    BY <1>3, <1>4, <2>1, <2>2
<1>6. \A u \in Thread, k \in Queued : ~InQueue(u, k, s)
  BY <1>1, <1>4, QueueOwnIs, NULLAssumption DEF FieldsInv
<1>7. used'[s] < Capacity[kind[s]] <=> InUse(s)' # Pages(s)'
  <2> DEFINE P == InUse(s) \ F
             Q == Pages(s)
  <2>1. IsFiniteSet(Q) /\ Cardinality(Q) = Capacity[kind[s]] /\ P \in SUBSET Q /\ Capacity[kind[s]] \in Nat
    <3>1. InUse(s) \subseteq Pages(s) /\ Capacity[kind[s]] \in 1 .. Units
      BY <1>1, PageSets
    <3> QED
      BY <1>1, <3>1, PageSets
  <2>2. used'[s] = Cardinality(P) /\ InUse(s)' = P /\ Pages(s)' = Q
    BY <1>4
  <2> HIDE DEF P, Q
  <2>3. IsFiniteSet(P) /\ Cardinality(P) <= Cardinality(Q) /\ (P = Q <=> Cardinality(P) = Cardinality(Q))
    BY <2>1, FS_Subset
  <2>4. Cardinality(P) \in Nat
    BY <2>3, FS_CardinalityType
  <2> QED
    BY <2>1, <2>2, <2>3, <2>4
<1>8. CASE FreedEmpty(s, F)
  <2>1. free_queue' = free_queue /\ Leaving(s)'
    <3>1. cur \in Call
      BY <1>1 DEF TypeOK
    <3>2. pc' = "free" /\ cur'.s = s /\ free_queue' = free_queue
      BY <1>8, <3>1 DEF FreedEmpty, Call
    <3> QED
      BY <3>2 DEF Leaving
  <2> QED
    BY <1>1, <1>4, <1>5, <1>6, <2>1, ExactAdds
<1>9. CASE kind[s] \in Queued /\ used'[s] < Capacity[kind[s]] /\ Enqueue(t, s)
  <2>1. PICK k \in Queued : k = kind[s]
    BY <1>9
  <2>2. /\ free_queue' = [free_queue EXCEPT ![t][k] = Append(@, s)] /\ kind'[s] = k
        /\ InUse(s)' # Pages(s)'
    BY <1>3, <1>7, <1>9, <2>1 DEF Enqueue
  <2> QED
    BY <1>1, <1>4, <1>5, <1>6, <2>2, ExactAdds
<1>10. CASE ~(kind[s] \in Queued /\ used'[s] < Capacity[kind[s]]) /\ free_queue' = free_queue
  <2>1. \A k \in Queued : ~(HasFree(t, k, s)')
    BY <1>3, <1>7, <1>10 DEF HasFree
  <2> QED
    BY <1>1, <1>4, <1>5, <1>6, <1>10, <2>1, ExactAdds
<1>11. FreedEmpty(s, F) \/ ReclaimQueue(t, s)
  BY <1>2 DEF ReclaimStep, TookPage, TookSegment, PassedBy
<1> QED
  BY <1>8, <1>9, <1>10, <1>11 DEF ReclaimQueue

\* the searches of abandoned segments
LEMMA ExactReclaims ==
  ASSUME FieldsInv, QueueExact, FieldsInv', TryReclaim \/ ReclaimAll
  PROVE  QueueExact'
<1>1. TypeOK
  BY DEF FieldsInv
<1>2. pc \in {"try", "reclaim_all"}
  BY DEF TryReclaim, ReclaimAll
<1>3. CASE UNCHANGED <<option, segment, memory, abandoned_list, tld>>
  <2>1. /\ UNCHANGED <<segment, memory, abandoned_list>>
        /\ UNCHANGED <<free_queue, cache>>
    BY <1>3 DEF tld
  <2> QED
    BY <1>2, <2>1, ExactStays DEF Leaving, Abandoning
<1>4. CASE \E s \in abandoned_list : \E F \in SUBSET InUse(s) : ReclaimStep(s, F)
  BY <1>2, <1>4, ExactReclaim
<1> QED
  BY <1>1, <1>3, <1>4, ReclaimSteps

\* A segment comes from the regions, or there is none.
LEMMA ExactFresh ==
  ASSUME FieldsInv, QueueExact, FieldsInv', Fresh
  PROVE  QueueExact'
<1>1. TypeOK /\ TypeOK'
  BY DEF FieldsInv
<1>2. pc = "fresh" /\ UNCHANGED <<option, abandoned_list, me>>
  BY FreshSteps
<1>3. CASE UNCHANGED <<segment, memory, tld, cur>>
  <2>1. /\ UNCHANGED <<segment, memory, abandoned_list>>
        /\ UNCHANGED <<free_queue, cache>>
    BY <1>2, <1>3 DEF tld
  <2> QED
    BY <1>2, <2>1, ExactStays DEF Leaving, Abandoning
<1>4. ASSUME NEW s \in Segment, NEW anew \in BOOLEAN, NEW large \in BOOLEAN, FreshOf(s, anew, large)
      PROVE  QueueExact'
  <2>1. PICK t \in Thread, k \in PageKind : t = me /\ k = cur.k
    BY <1>1, <1>2 DEF TypeOK, Call
  <2>2. /\ ~mapped[s]
        /\ kind' = [kind EXCEPT ![s] = k]
        /\ page' = [page EXCEPT ![s] = NewPages(k, FreshCommit(s, anew, large))]
        /\ IF k = "huge" THEN thread_id' = [thread_id EXCEPT ![s] = NULL]
                         ELSE thread_id' = [thread_id EXCEPT ![s] = t]
        /\ IF k \in Queued THEN free_queue' = [free_queue EXCEPT ![t][k] = Append(@, s)]
                           ELSE free_queue' = free_queue
        /\ cache' = cache
    BY <1>4, <2>1 DEF FreshOf
  <2>3. thread_id[s] = NULL
    BY <2>2 DEF FieldsInv, SegmentFields
  <2>4. \A u \in Thread, c \in Queued : ~InQueue(u, c, s)
    BY <1>1, <2>3, QueueOwnIs, NULLAssumption DEF FieldsInv
  <2>5. /\ \A r \in Segment : r # s => /\ thread_id'[r] = thread_id[r] /\ kind'[r] = kind[r]
                                       /\ page'[r] = page[r]
        /\ kind'[s] = k /\ thread_id'[s] \in {t, NULL}
    BY <1>1, <2>2, ZenonT(60) DEF TypeOK
  <2>6. \A r \in Segment : r # s => /\ thread_id'[r] = thread_id[r] /\ kind'[r] = kind[r]
                                    /\ InUse(r)' = InUse(r) /\ (Cached(r) => Cached(r)') /\ ~Leaving(r)
    BY <1>2, <2>2, <2>5 DEF InUse, Pages, Cached, Leaving, Abandoning
  <2>7. CASE k \in Queued
    <3>1. InUse(s)' # Pages(s)'
      <4>1. PICK b : b = FreshCommit(s, anew, large)
        OBVIOUS
      <4>2. page'[s] = NewPages(k, b)
        BY <1>1, <2>2, <4>1 DEF TypeOK
      <4>3. 0 \in Pages(s)' /\ 0 \in Unit
        <5>1. Capacity[k] \in Nat \ {0}
          BY CapacityAssumption DEF PageKind
        <5>2. Pages(s)' = 0 .. Capacity[k] - 1
          BY <2>5 DEF Pages
        <5> QED
          BY <5>1, <5>2, CapacityFacts
      <4>4. ~page'[s][0].in_use
        BY <4>2, <4>3 DEF NewPages, FreePage
      <4> QED
        BY <4>3, <4>4 DEF InUse
    <3> QED
      BY <2>2, <2>4, <2>5, <2>6, <2>7, <3>1, ExactAdds
  <2>8. CASE k \notin Queued
    <3>1. free_queue' = free_queue /\ \A c \in Queued : ~(HasFree(t, c, s)')
      BY <2>2, <2>5, <2>8 DEF HasFree
    <3> QED
      BY <2>4, <2>5, <2>6, <3>1, ExactAdds
  <2> QED
    BY <2>7, <2>8
<1> QED
  BY <1>3, <1>4, FreshSteps

\* A segment comes from the cache.
LEMMA ExactCacheReuse ==
  ASSUME FieldsInv, QueueExact, FieldsInv', NEW t \in Thread, NEW k \in Kinds, CacheReuse(t, k)
  PROVE  QueueExact'
<1>1. TypeOK /\ TypeOK'
  BY DEF FieldsInv
<1>2. PICK s : s = Head(cache[t]) /\ CacheReuseOf(t, k, s)
  BY <1>1, CacheReuseDoes
<1>3. /\ s \in Segment /\ s = cache[t][1] /\ 1 \in DOMAIN cache[t]
      /\ thread_id[s] = t /\ mapped[s] /\ InUse(s) = {} /\ Cached(s)
  BY <1>2, CacheHead DEF CacheReuseOf
<1>4. /\ pc = "idle" /\ cache[t] # <<>>
      /\ kind' = [kind EXCEPT ![s] = k] /\ thread_id' = [thread_id EXCEPT ![s] = t]
      /\ IF k \in Queued THEN free_queue' = [free_queue EXCEPT ![t][k] = Append(@, s)]
                         ELSE free_queue' = free_queue
      /\ cache' = [cache EXCEPT ![t] = Tail(@)]
      /\ page' = page \/ page' = [page EXCEPT ![s] = NewPages(k, Eager(t, k))]
  BY <1>2 DEF CacheReuseOf
<1>5. /\ thread_id' = thread_id /\ \A r \in Segment : kind'[r] = IF r = s THEN k ELSE kind[r]
      /\ \A r \in Segment : r # s => page'[r] = page[r]
  <2>1. thread_id' = thread_id /\ \A r \in Segment : kind'[r] = IF r = s THEN k ELSE kind[r]
    BY <1>1, <1>3, <1>4 DEF TypeOK
  <2>2. PICK pg : pg = NewPages(k, Eager(t, k))
    OBVIOUS
  <2>3. page' = page \/ page' = [page EXCEPT ![s] = pg]
    BY <1>4, <2>2
  <2>4. \A r \in Segment : r # s => page'[r] = page[r]
    BY <1>1, <2>3 DEF TypeOK
  <2> QED
    BY <2>1, <2>4
<1>6. \A u \in Thread, c \in Queued : ~InQueue(u, c, s)
  BY <1>1, <1>3, QueueOwnIs DEF FieldsInv
<1>7. \A r \in Segment : r # s /\ Cached(r) => Cached(r)'
  <2>1. SUFFICES ASSUME NEW r \in Segment, r # s, Cached(r)
                 PROVE  Cached(r)'
    OBVIOUS
  <2>2. PICK u \in Thread : \E i \in DOMAIN cache[u] : cache[u][i] = r
    BY <2>1 DEF Cached
  <2>3. CASE u # t
    <3>1. cache'[u] = cache[u]
      BY <1>1, <1>4, <2>3 DEF TypeOK
    <3> QED
      BY <2>2, <3>1 DEF Cached
  <2>4. CASE u = t
    <3>1. PICK i \in DOMAIN cache[t] : cache[t][i] = r
      BY <2>2, <2>4
    <3>2. PICK q \in Seq(Segment) : q = cache[t]
      BY <1>1, QueueTypes
    <3>3. cache'[t] = Tail(q) /\ q # <<>>
      BY <1>1, <1>4, <3>2 DEF TypeOK
    <3>4. i \in 1 .. Len(q) /\ i # 1
      BY <1>3, <2>1, <3>1, <3>2
    <3>5. i - 1 \in DOMAIN Tail(q) /\ Tail(q)[i - 1] = q[i]
      BY <3>2, <3>3, <3>4
    <3> QED
      BY <3>1, <3>2, <3>3, <3>5 DEF Cached
  <2> QED
    BY <2>3, <2>4
<1>8. \A r \in Segment : r # s => /\ thread_id'[r] = thread_id[r] /\ kind'[r] = kind[r]
                                  /\ InUse(r)' = InUse(r) /\ (Cached(r) => Cached(r)') /\ ~Leaving(r)
  BY <1>4, <1>5, <1>7 DEF InUse, Pages, Leaving, Abandoning
<1>9. thread_id'[s] \in {t, NULL} /\ kind'[s] = k
  BY <1>3, <1>5
<1>10. CASE k \in Queued
  <2>1. InUse(s)' # Pages(s)'
    <3>1. 0 \in Pages(s)' /\ 0 \in Unit
      <4>1. Capacity[k] \in Nat \ {0}
        BY <1>10, CapacityAssumption DEF PageKind, Queued
      <4>2. Pages(s)' = 0 .. Capacity[k] - 1
        BY <1>9 DEF Pages
      <4> QED
        BY <4>1, <4>2, CapacityFacts
    <3>2. ~page'[s][0].in_use
      <4>1. CASE page' = page
        <5>1. 0 \in Pages(s)
          BY <1>1, <1>3, PageSets
        <5> QED
          BY <1>3, <4>1, <5>1 DEF InUse
      <4>2. CASE page' = [page EXCEPT ![s] = NewPages(k, Eager(t, k))]
        <5>1. PICK b : b = Eager(t, k)
          OBVIOUS
        <5>2. page'[s] = NewPages(k, b)
          BY <1>1, <1>3, <4>2, <5>1 DEF TypeOK
        <5> QED
          BY <3>1, <5>2 DEF NewPages, FreePage
      <4> QED
        BY <1>4, <4>1, <4>2
    <3> QED
      BY <3>1, <3>2 DEF InUse
  <2>2. free_queue' = [free_queue EXCEPT ![t][k] = Append(@, s)]
    BY <1>4, <1>10
  <2> QED
    BY <1>3, <1>6, <1>8, <1>9, <1>10, <2>1, <2>2, ExactAdds
<1>11. CASE k \notin Queued
  <2>1. free_queue' = free_queue /\ \A c \in Queued : ~(HasFree(t, c, s)')
    BY <1>4, <1>9, <1>11 DEF HasFree
  <2> QED
    BY <1>3, <1>6, <1>8, <1>9, <2>1, ExactAdds
<1> QED
  BY <1>10, <1>11

\* The queues are empty at the start, and nobody has a segment.
LEMMA ExactInit ==
  ASSUME Init
  PROVE  QueueExact
BY NULLAssumption DEF Init, QueueExact, OnceEach, InQueue, HasFree

\* Every step keeps the free queues exact.
LEMMA ExactStep ==
  ASSUME FieldsInv, QueueExact, [Next]_vars
  PROVE  QueueExact'
<1>1. FieldsInv'
  BY FieldsStep
<1>2. ASSUME NEW t \in Thread, NEW k \in Kinds, AllocStart(t, k)
      PROVE  QueueExact'
  BY <1>1, <1>2, ExactStarts
<1>3. ASSUME NEW t \in Thread, NEW k \in Kinds, CacheReuse(t, k)
      PROVE  QueueExact'
  BY <1>1, <1>3, ExactCacheReuse
<1>4. ASSUME NEW t \in Thread, PageFree(t) \/ ThreadExit(t)
      PROVE  QueueExact'
  BY <1>1, <1>4, ExactStarts
<1>5. ASSUME NEW t \in Thread, HugeFree(t) \/ PageAbandon(t)
      PROVE  QueueExact'
  BY <1>1, <1>5, ExactResets
<1>6. ASSUME NEW t \in Thread, ThreadCollect(t)
      PROVE  QueueExact'
  BY <1>1, <1>6, ExactLeaves
<1>7. ASSUME NEW t \in Thread, ThreadStart(t)
      PROVE  QueueExact'
  BY <1>1, <1>7, ExactThreadStart
<1>8. CASE TryEnd \/ ReclaimAllStart \/ Tick \/ SetCache \/ UNCHANGED vars
  BY <1>1, <1>8, ExactStarts
<1>9. CASE Fresh
  BY <1>1, <1>9, ExactFresh
<1>10. CASE Claim
  BY <1>1, <1>10, ExactClaim
<1>11. CASE TryReclaim \/ ReclaimAll
  BY <1>1, <1>11, ExactReclaims
<1>12. CASE PageClear
  BY <1>1, <1>12, ExactPageClear
<1>13. CASE SegmentFree \/ AbandonSegment
  BY <1>1, <1>13, ExactLeaves
<1>14. CASE ResetDelayed
  BY <1>1, <1>14, ExactResets
<1> QED
  BY <1>2, <1>3, <1>4, <1>5, <1>6, <1>7, <1>8, <1>9, <1>10, <1>11, <1>12, <1>13, <1>14 DEF Next

\* A free queue has no segment twice and none without a free page, and has
\* each that is not about to leave the thread, at every step of every call.
THEOREM SegmentQueues == Spec => [](FieldsInv /\ QueueExact)
<1>1. Init => FieldsInv /\ QueueExact
  BY FieldsInit, ExactInit
<1>2. FieldsInv /\ QueueExact /\ [Next]_vars => (FieldsInv /\ QueueExact)'
  BY FieldsStep, ExactStep
<1> QED
  BY <1>1, <1>2, PTL DEF Spec

\* Between calls the free queues have exactly the segments with a free page,
\* so mi_segment_page_alloc finds every free page (segment.c:1272-1285).
THEOREM SegmentFreeQueues == Spec => []FreeQueueExact
<1>1. FieldsInv /\ QueueExact => FreeQueueExact
  <2>1. SUFFICES ASSUME FieldsInv, QueueExact, pc = "idle", NEW t \in Thread, NEW k \in Queued
                 PROVE  /\ OnceEach(t, k)
                        /\ {free_queue[t][k][i] : i \in DOMAIN free_queue[t][k]} = {s \in Segment : HasFree(t, k, s)}
    BY DEF FreeQueueExact, OnceEach, HasFree
  <2>2. TypeOK
    BY <2>1 DEF FieldsInv
  <2>3. \A i \in DOMAIN free_queue[t][k] : free_queue[t][k][i] \in Segment
    BY <2>2, QueueTypes
  <2>4. \A s \in Segment : InQueue(t, k, s) <=> HasFree(t, k, s)
    <3>1. \A s \in Segment : ~Leaving(s)
      BY <2>1 DEF Leaving, Abandoning
    <3>2. \A s \in Segment : InQueue(t, k, s) => thread_id[s] = t /\ kind[s] = k /\ ~Cached(s)
      BY <2>1, <2>2, QueueOwnIs DEF FieldsInv
    <3> QED
      BY <2>1, <3>1, <3>2 DEF QueueExact, HasFree
  <2>5. OnceEach(t, k)
    BY <2>1 DEF QueueExact
  <2> QED
    BY <2>3, <2>4, <2>5 DEF InQueue
<1> QED
  BY <1>1, SegmentQueues, PTL

-----------------------------------------------------------------------------
(***************************************************************************)
(* The delayed resets are of free pages of the thread, once each.  No page *)
(* of a segment whose memory is fixed is queued, so that mi_segment_free   *)
(* and mi_segment_abandon take all the entries of a segment.               *)
(***************************************************************************)

Pending(t, s, p) == \E i \in DOMAIN pages_reset[t] : pages_reset[t][i].s = s /\ pages_reset[t][i].p = p
OncePending(t) == \A i, j \in DOMAIN pages_reset[t] :
  pages_reset[t][i].s = pages_reset[t][j].s /\ pages_reset[t][i].p = pages_reset[t][j].p => i = j
Delayed(t, s, p) ==
  /\ mapped[s] /\ thread_id[s] = t /\ ~Cached(s) /\ ~mem_is_fixed[s] /\ p \in Pages(s)
  /\ page[s][p].committed /\ ~page[s][p].in_use /\ ~page[s][p].reset

ResetsOwn == \A t \in Thread :
  /\ OncePending(t)
  /\ \A s \in Segment, p \in Unit : Pending(t, s, p) => Delayed(t, s, p)

\* a step that leaves alone what a delayed reset of segment s needs
SameSegment(s) ==
  /\ thread_id'[s] = thread_id[s] /\ kind'[s] = kind[s]
  /\ mapped'[s] = mapped[s] /\ mem_is_fixed'[s] = mem_is_fixed[s]
  /\ Cached(s)' => Cached(s)
SamePage(s, p) ==
  /\ page'[s][p].in_use = page[s][p].in_use /\ page'[s][p].committed = page[s][p].committed
  /\ page'[s][p].reset = page[s][p].reset

\* A page that is queued stays one that may be.
LEMMA DelayedStays ==
  ASSUME ResetsOwn, NEW t \in Thread, NEW s \in Segment, NEW p \in Unit, Pending(t, s, p),
         SameSegment(s), SamePage(s, p)
  PROVE  Delayed(t, s, p)'
<1>1. Delayed(t, s, p)
  BY DEF ResetsOwn
<1>2. Pages(s)' = Pages(s)
  BY DEF SameSegment, Pages
<1> QED
  BY <1>1, <1>2 DEF Delayed, SameSegment, SamePage

\* A step that adds pages of the segments in A only to the queues.
LEMMA ResetsKept ==
  ASSUME ResetsOwn, NEW A \in SUBSET Segment,
         \A s \in Segment \ A : SameSegment(s) /\ \A p \in Unit : SamePage(s, p),
         \A t \in Thread, s \in Segment \ A, p \in Unit : Pending(t, s, p)' => Pending(t, s, p),
         \A t \in Thread : OncePending(t)',
         \A t \in Thread, s \in A, p \in Unit : Pending(t, s, p)' => Delayed(t, s, p)'
  PROVE  ResetsOwn'
<1>1. SUFFICES ASSUME NEW t \in Thread, NEW s \in Segment, NEW p \in Unit, Pending(t, s, p)'
               PROVE  Delayed(t, s, p)'
  BY DEF ResetsOwn
<1>2. CASE s \in A
  BY <1>1, <1>2
<1>3. CASE s \notin A
  BY <1>1, <1>3, DelayedStays
<1> QED
  BY <1>2, <1>3

\* A step that leaves the queues alone, and works on segments that have no
\* page there: nobody has them, or they are in a cache.
LEMMA ResetsStay ==
  ASSUME ResetsOwn, pages_reset' = pages_reset, NEW A \in SUBSET Segment,
         \A s \in A : ~mapped[s] \/ thread_id[s] = NULL \/ Cached(s),
         \A s \in Segment \ A : SameSegment(s) /\ \A p \in Unit : SamePage(s, p)
  PROVE  ResetsOwn'
<1>1. \A t \in Thread, s \in Segment, p \in Unit : Pending(t, s, p)' <=> Pending(t, s, p)
  BY DEF Pending
<1>2. \A t \in Thread : OncePending(t)'
  BY DEF OncePending, ResetsOwn
<1>3. \A t \in Thread, s \in A, p \in Unit : ~Pending(t, s, p)
  BY NULLAssumption DEF ResetsOwn, Delayed
<1> QED
  BY <1>1, <1>2, <1>3, ResetsKept

\* The steps that leave the segments alone.
LEMMA ResetsSame ==
  ASSUME ResetsOwn, UNCHANGED <<segment, memory>>, UNCHANGED <<cache, pages_reset>>
  PROVE  ResetsOwn'
<1>1. UNCHANGED <<kind, thread_id, mem_is_fixed, page, mapped>>
  BY DEF segment, memory
<1>2. \A s \in Segment : SameSegment(s) /\ \A p \in Unit : SamePage(s, p)
  BY <1>1 DEF SameSegment, SamePage, Cached
<1>3. PICK A \in SUBSET Segment : A = {}
  OBVIOUS
<1> QED
  BY <1>2, <1>3, ResetsStay

\* Starts of calls, ends of searches, options, the end of a thread and the clock.
LEMMA ResetsStarts ==
  ASSUME TypeOK, ResetsOwn,
         \/ \E t \in Thread, k \in Kinds : AllocStart(t, k)
         \/ \E t \in Thread : PageFree(t) \/ ThreadExit(t)
         \/ TryEnd \/ ReclaimAllStart \/ Tick \/ SetCache \/ UNCHANGED vars
  PROVE  ResetsOwn'
<1>1. CASE \/ \E t \in Thread, k \in Kinds : AllocStart(t, k)
           \/ \E t \in Thread : PageFree(t) \/ ThreadExit(t)
           \/ TryEnd \/ ReclaimAllStart \/ SetCache \/ UNCHANGED vars
  <2>1. UNCHANGED <<segment, memory>> /\ UNCHANGED <<cache, pages_reset>>
    BY <1>1 DEF AllocStart, PageFree, ThreadExit, TryEnd, ReclaimAllStart, SetCache, vars, tld
  <2> QED
    BY <2>1, ResetsSame
<1>2. CASE Tick
  <2>1. /\ UNCHANGED <<segment, memory>> /\ cache' = cache
        /\ pages_reset' = [t \in Thread |-> [i \in DOMAIN pages_reset[t] |->
             [pages_reset[t][i] EXCEPT !.late = IF @ < 0 THEN @ + 1 ELSE @]]]
    BY <1>2 DEF Tick
  <2>2. \A t \in Thread : DOMAIN pages_reset'[t] = DOMAIN pages_reset[t]
    BY <2>1
  <2>3. ASSUME NEW t \in Thread, NEW i \in DOMAIN pages_reset[t]
        PROVE  pages_reset'[t][i].s = pages_reset[t][i].s /\ pages_reset'[t][i].p = pages_reset[t][i].p
    <3>1. pages_reset[t][i] \in Entry
      BY QueueTypes
    <3>2. pages_reset'[t][i] = [pages_reset[t][i] EXCEPT !.late = IF @ < 0 THEN @ + 1 ELSE @]
      BY <2>1
    <3> QED
      BY <3>1, <3>2 DEF Entry
  <2>4. \A t \in Thread, s \in Segment, p \in Unit : Pending(t, s, p)' <=> Pending(t, s, p)
    BY <2>2, <2>3 DEF Pending
  <2>5. \A t \in Thread : OncePending(t)'
    BY <2>2, <2>3 DEF OncePending, ResetsOwn
  <2>6. UNCHANGED <<kind, thread_id, mem_is_fixed, page, mapped>>
    BY <2>1 DEF segment, memory
  <2>7. \A s \in Segment : SameSegment(s) /\ \A p \in Unit : SamePage(s, p)
    BY <2>1, <2>6 DEF SameSegment, SamePage, Cached
  <2>8. PICK A \in SUBSET Segment : A = {}
    OBVIOUS
  <2> QED
    BY <2>4, <2>5, <2>7, <2>8, ResetsKept
<1> QED
  BY <1>1, <1>2

\* A thread that starts has an empty queue.
LEMMA ResetsThreadStart ==
  ASSUME FieldsInv, ResetsOwn, NEW t \in Thread, ThreadStart(t)
  PROVE  ResetsOwn'
<1>1. TypeOK
  BY DEF FieldsInv
<1>2. /\ UNCHANGED <<segment, memory>>
      /\ cache' = [cache EXCEPT ![t] = <<>>]
      /\ pages_reset' = [pages_reset EXCEPT ![t] = <<>>]
  BY DEF ThreadStart
<1>3. \A u \in Thread : /\ cache'[u] = IF u = t THEN <<>> ELSE cache[u]
                        /\ pages_reset'[u] = IF u = t THEN <<>> ELSE pages_reset[u]
  BY <1>1, <1>2 DEF TypeOK
<1>4. \A u \in Thread, s \in Segment, p \in Unit : Pending(u, s, p)' => Pending(u, s, p)
  BY <1>3 DEF Pending
<1>5. \A u \in Thread : OncePending(u)'
  BY <1>3 DEF OncePending, ResetsOwn
<1>6. \A s \in Segment : Cached(s)' => Cached(s)
  BY <1>3 DEF Cached
<1>7. UNCHANGED <<kind, thread_id, mem_is_fixed, page, mapped>>
  BY <1>2 DEF segment, memory
<1>8. \A s \in Segment : SameSegment(s) /\ \A p \in Unit : SamePage(s, p)
  BY <1>6, <1>7 DEF SameSegment, SamePage
<1>9. PICK A \in SUBSET Segment : A = {}
  OBVIOUS
<1> QED
  BY <1>4, <1>5, <1>8, <1>9, ResetsKept

\* A huge page is taken by who frees it, and a page is abandoned.
LEMMA ResetsTaken ==
  ASSUME FieldsInv, ResetsOwn, \E t \in Thread : HugeFree(t) \/ PageAbandon(t)
  PROVE  ResetsOwn'
<1>1. TypeOK
  BY DEF FieldsInv
<1>2. ASSUME NEW t \in Thread, HugeFree(t)
      PROVE  ResetsOwn'
  <2>1. PICK s \in Segment : thread_id[s] = NULL /\ thread_id' = [thread_id EXCEPT ![s] = t]
    BY <1>2 DEF HugeFree
  <2>2. UNCHANGED <<kind, mem_is_fixed, page, memory>> /\ UNCHANGED <<cache, pages_reset>>
    BY <1>2 DEF HugeFree
  <2>3. PICK A \in SUBSET Segment : A = {s}
    OBVIOUS
  <2>4. \A r \in Segment \ A : SameSegment(r) /\ \A p \in Unit : SamePage(r, p)
    BY <1>1, <2>1, <2>2, <2>3 DEF TypeOK, SameSegment, SamePage, Cached, memory
  <2> QED
    BY <2>1, <2>2, <2>3, <2>4, ResetsStay
<1>3. ASSUME NEW t \in Thread, PageAbandon(t)
      PROVE  ResetsOwn'
  <2>1. \E s \in Segment, p \in Unit : AbandonOf(t, s, p)
    BY <1>3 DEF PageAbandon, AbandonOf
  <2>2. PICK s \in Segment, p \in Unit : AbandonOf(t, s, p)
    BY <2>1
  <2>3. /\ page' = [page EXCEPT ![s][p].heap = NULL]
        /\ UNCHANGED <<kind, thread_id, mem_is_fixed, mapped>> /\ UNCHANGED <<cache, pages_reset>>
    BY <2>2 DEF AbandonOf, memory, tld
  <2>4. \A r \in Segment, q \in Unit : page[r][q] \in Page
    BY <1>1 DEF TypeOK
  <2>5. \A r \in Segment, q \in Unit :
          page'[r][q] = IF r = s /\ q = p THEN [page[r][q] EXCEPT !.heap = NULL] ELSE page[r][q]
    BY <1>1, <2>3 DEF TypeOK
  <2>6. ASSUME NEW r \in Segment, NEW q \in Unit
        PROVE  SamePage(r, q)
    <3>1. PICK g \in Page : g = page[r][q]
      BY <2>4
    <3>2. PICK f : f = [g EXCEPT !.heap = NULL]
      OBVIOUS
    <3>3. f.in_use = g.in_use /\ f.committed = g.committed /\ f.reset = g.reset
      BY <3>2 DEF Page
    <3>4. page'[r][q] = f \/ page'[r][q] = g
      BY <2>5, <3>1, <3>2
    <3> QED
      BY <3>1, <3>3, <3>4 DEF SamePage
  <2>7. \A r \in Segment : SameSegment(r)
    BY <2>3 DEF SameSegment, Cached
  <2>8. PICK A \in SUBSET Segment : A = {}
    OBVIOUS
  <2> QED
    BY <2>3, <2>6, <2>7, <2>8, ResetsStay
<1> QED
  BY <1>2, <1>3

\* Segments come from the regions or the cache, or are given back from the
\* cache: none of them has a page in a queue.
LEMMA ResetsMoves ==
  ASSUME FieldsInv, ResetsOwn,
         \/ Fresh
         \/ \E t \in Thread, k \in Kinds : CacheReuse(t, k)
         \/ \E t \in Thread : ThreadCollect(t)
  PROVE  ResetsOwn'
<1>1. TypeOK
  BY DEF FieldsInv
<1>2. CASE Fresh
  <2>1. CASE UNCHANGED <<segment, memory, tld>>
    <3>1. UNCHANGED <<segment, memory>> /\ UNCHANGED <<cache, pages_reset>>
      BY <2>1 DEF tld
    <3> QED
      BY <3>1, ResetsSame
  <2>2. ASSUME NEW s \in Segment, NEW anew \in BOOLEAN, NEW large \in BOOLEAN, FreshOf(s, anew, large)
        PROVE  ResetsOwn'
    <3>1. PICK pg, th : /\ page' = [page EXCEPT ![s] = pg]
                        /\ thread_id' = [thread_id EXCEPT ![s] = th]
      BY <2>2 DEF FreshOf
    <3>2. /\ ~mapped[s] /\ mapped' = [mapped EXCEPT ![s] = TRUE]
          /\ mem_is_fixed' = [mem_is_fixed EXCEPT ![s] = large]
          /\ kind' = [kind EXCEPT ![s] = cur.k]
          /\ UNCHANGED <<cache, pages_reset>>
      BY <2>2 DEF FreshOf
    <3>3. PICK A \in SUBSET Segment : A = {s}
      OBVIOUS
    <3>4. \A r \in Segment \ A : page'[r] = page[r] /\ thread_id'[r] = thread_id[r]
      BY <1>1, <3>1, <3>3 DEF TypeOK
    <3>5. \A r \in Segment \ A : SameSegment(r)
      BY <1>1, <3>2, <3>3, <3>4 DEF TypeOK, SameSegment, Cached
    <3>6. \A r \in Segment \ A : \A p \in Unit : SamePage(r, p)
      BY <3>4 DEF SamePage
    <3> QED
      BY <3>2, <3>3, <3>5, <3>6, ResetsStay
  <2> QED
    BY <1>2, <2>1, <2>2, FreshSteps
<1>3. ASSUME NEW t \in Thread, NEW k \in Kinds, CacheReuse(t, k)
      PROVE  ResetsOwn'
  <2>1. PICK s : s = Head(cache[t]) /\ CacheReuseOf(t, k, s)
    BY <1>1, <1>3, CacheReuseDoes
  <2>2. s \in Segment /\ thread_id[s] = t /\ Cached(s)
    BY <2>1, CacheHead DEF CacheReuseOf
  <2>3. PICK pg : page' = page \/ page' = [page EXCEPT ![s] = pg]
    BY <2>1 DEF CacheReuseOf
  <2>4. /\ kind' = [kind EXCEPT ![s] = k] /\ thread_id' = [thread_id EXCEPT ![s] = t]
        /\ cache[t] # <<>> /\ cache' = [cache EXCEPT ![t] = Tail(@)]
        /\ UNCHANGED <<mem_is_fixed, mapped, pages_reset>>
    BY <2>1 DEF CacheReuseOf
  <2>5. PICK A \in SUBSET Segment : A = {s}
    BY <2>2
  <2>6. \A r \in Segment \ A : page'[r] = page[r] /\ kind'[r] = kind[r] /\ thread_id'[r] = thread_id[r]
    BY <1>1, <2>2, <2>3, <2>4, <2>5 DEF TypeOK
  <2>7. \A r \in Segment : Cached(r)' => Cached(r)
    <3>1. SUFFICES ASSUME NEW r \in Segment, Cached(r)'
                   PROVE  Cached(r)
      OBVIOUS
    <3>2. PICK u \in Thread : \E i \in DOMAIN cache'[u] : cache'[u][i] = r
      BY <3>1 DEF Cached
    <3>3. CASE u # t
      <4>1. cache'[u] = cache[u]
        BY <1>1, <2>4, <3>3 DEF TypeOK
      <4> QED
        BY <3>2, <4>1 DEF Cached
    <3>4. CASE u = t
      <4>1. PICK q \in Seq(Segment) : q = cache[t]
        BY <1>1, QueueTypes
      <4>2. cache'[t] = Tail(q) /\ q # <<>>
        BY <1>1, <2>4, <4>1 DEF TypeOK
      <4>3. \A i \in DOMAIN Tail(q) : i + 1 \in DOMAIN q /\ Tail(q)[i] = q[i + 1]
        BY <4>1, <4>2
      <4> QED
        BY <3>2, <3>4, <4>1, <4>2, <4>3 DEF Cached
    <3> QED
      BY <3>3, <3>4
  <2>8. \A r \in Segment \ A : SameSegment(r) /\ \A p \in Unit : SamePage(r, p)
    BY <2>4, <2>6, <2>7 DEF SameSegment, SamePage
  <2> QED
    BY <2>2, <2>4, <2>5, <2>8, ResetsStay
<1>4. ASSUME NEW t \in Thread, ThreadCollect(t)
      PROVE  ResetsOwn'
  <2>1. PICK S \in SUBSET Segment : S = {cache[t][i] : i \in DOMAIN cache[t]}
    BY <1>1, QueueTypes
  <2>2. /\ OsFree(t, S, page, backed) /\ cache' = [cache EXCEPT ![t] = <<>>]
        /\ pages_reset' = pages_reset
    BY <1>4, <2>1 DEF ThreadCollect
  <2>3. PICK pg, bk : pg = page /\ bk = backed
    OBVIOUS
  <2>4. OsFree(t, S, pg, bk)
    BY <2>2, <2>3
  <2>5. \A r \in Segment \ S : /\ thread_id'[r] = thread_id[r] /\ kind'[r] = kind[r]
                               /\ mapped'[r] = mapped[r] /\ mem_is_fixed'[r] = mem_is_fixed[r]
                               /\ page'[r] = pg[r]
    BY <1>1, <2>4, OsFreeIs
  <2>6. \A r \in Segment : Cached(r)' => Cached(r)
    <3>1. \A u \in Thread : cache'[u] = IF u = t THEN <<>> ELSE cache[u]
      BY <1>1, <2>2 DEF TypeOK
    <3> QED
      BY <3>1 DEF Cached
  <2>7. \A r \in Segment \ S : SameSegment(r) /\ \A p \in Unit : SamePage(r, p)
    BY <2>3, <2>5, <2>6 DEF SameSegment, SamePage
  <2>8. \A r \in S : Cached(r)
    BY <2>1 DEF Cached
  <2> QED
    BY <2>2, <2>7, <2>8, ResetsStay
<1> QED
  BY <1>2, <1>3, <1>4

\* Entries are taken from the queue of a thread, the others stay.
LEMMA QueueTaken ==
  ASSUME TypeOK, NEW t \in Thread, NEW S,
         pages_reset' = [pages_reset EXCEPT ![t] = Without(@, S)]
  PROVE  /\ \A u \in Thread, s \in Segment, p \in Unit : Pending(u, s, p)' => Pending(u, s, p)
         /\ \A u \in Thread : OncePending(u) => OncePending(u)'
<1> DEFINE q == pages_reset[t]
           w == Without(q, S)
<1>1. \A u \in Thread : pages_reset'[u] = IF u = t THEN w ELSE pages_reset[u]
  BY DEF TypeOK
<1>2. q \in Seq(Entry)
  BY QueueTypes
<1>3. PICK f \in [1 .. Len(w) -> DOMAIN q] :
        /\ w \in Seq(Entry) /\ DOMAIN w = 1 .. Len(w)
        /\ \A n \in DOMAIN w : w[n] = q[f[n]] /\ q[f[n]] \notin S
        /\ \A m, n \in DOMAIN w : f[m] = f[n] => m = n
        /\ \A i \in DOMAIN q : q[i] \notin S => \E n \in DOMAIN w : f[n] = i
  <2> HIDE DEF q
  <2> QED
    BY <1>2, WithoutIs
<1>4. \A n \in DOMAIN w : f[n] \in DOMAIN q /\ w[n] = q[f[n]] /\ q[f[n]] \notin S
  BY <1>3
<1> HIDE DEF w
<1>5. \A s \in Segment, p \in Unit : Pending(t, s, p)' => Pending(t, s, p)
  BY <1>1, <1>4 DEF Pending
<1>6. OncePending(t) => OncePending(t)'
  <2>1. SUFFICES ASSUME OncePending(t), NEW i \in DOMAIN w, NEW j \in DOMAIN w,
                        w[i].s = w[j].s, w[i].p = w[j].p
                 PROVE  i = j
    BY <1>1 DEF OncePending
  <2>2. f[i] = f[j]
    BY <1>4, <2>1 DEF OncePending
  <2> QED
    BY <1>3, <2>1, <2>2
<1>7. \A u \in Thread : u # t => pages_reset'[u] = pages_reset[u]
  BY <1>1
<1>8. \A u \in Thread : u # t => (OncePending(u) => OncePending(u)')
  BY <1>7 DEF OncePending
<1>9. \A u \in Thread, s \in Segment, p \in Unit : u # t => (Pending(u, s, p)' => Pending(u, s, p))
  BY <1>7 DEF Pending
<1> QED
  BY <1>5, <1>6, <1>8, <1>9 DEF Pending

\* The entries of a page that are queued by a thread are all in a set.
AllIn(t, s, p, S) == \A i \in DOMAIN pages_reset[t] :
  pages_reset[t][i].s = s /\ pages_reset[t][i].p = p => pages_reset[t][i] \in S

\* An entry that is taken is not in the queue any more.
LEMMA EntryTaken ==
  ASSUME TypeOK, NEW t \in Thread, NEW s \in Segment, NEW p \in Unit, NEW S,
         pages_reset' = [pages_reset EXCEPT ![t] = Without(@, S)], AllIn(t, s, p, S)
  PROVE  ~(Pending(t, s, p)')
<1>1. pages_reset[t] \in Seq(Entry)
  BY QueueTypes
<1>2. pages_reset'[t] = Without(pages_reset[t], S)
  BY DEF TypeOK
<1>3. SUFFICES ASSUME NEW n \in DOMAIN pages_reset'[t], pages_reset'[t][n].s = s, pages_reset'[t][n].p = p
               PROVE  FALSE
  BY DEF Pending
<1>4. pages_reset'[t][n] \notin S /\ \E i \in DOMAIN pages_reset[t] : pages_reset'[t][n] = pages_reset[t][i]
  BY <1>1, <1>2, <1>3, WithoutKeeps
<1> QED
  BY <1>3, <1>4 DEF AllIn

\* mi_pages_reset_add puts pages in the queue of the thread that are not there.
LEMMA EntriesAdded ==
  ASSUME TypeOK, NEW t \in Thread, NEW s \in Segment, NEW P \in SUBSET Unit,
         NEW pg \in [Unit -> Page], ResetAdd(t, s, P, pg), \A p \in P : ~Pending(t, s, p)
  PROVE  /\ \A u \in Thread, r \in Segment, p \in Unit : Pending(u, r, p)' =>
              \/ Pending(u, r, p)
              \/ /\ u = t /\ r = s /\ p \in P
                 /\ ~mem_is_fixed[s] /\ page'[s][p].committed /\ ~page'[s][p].reset
         /\ \A u \in Thread : OncePending(u) => OncePending(u)'
<1>1. CASE option.reset_delay = 0
  <2>1. pages_reset' = pages_reset
    BY <1>1 DEF ResetAdd
  <2> QED
    BY <2>1 DEF Pending, OncePending
<1>2. CASE option.reset_delay # 0
  <2> DEFINE ok == ToReset(s, P, pg)
             q == pages_reset[t]
             en == EntriesFor(s, ok)
  <2>1. /\ page' = [page EXCEPT ![s] = pg]
        /\ pages_reset' = [pages_reset EXCEPT ![t] = en \o @]
    BY <1>2 DEF ResetAdd
  <2>2. \A u \in Thread : pages_reset'[u] = IF u = t THEN en \o q ELSE pages_reset[u]
    BY <2>1 DEF TypeOK
  <2>3. page'[s] = pg
    BY <2>1 DEF TypeOK
  <2>4. ok \in SUBSET Unit /\ ok \subseteq P
        /\ \A p \in ok : ~mem_is_fixed[s] /\ pg[p].committed /\ ~pg[p].reset
    BY DEF ToReset
  <2>5. /\ en \in Seq(Entry)
        /\ \A i \in DOMAIN en : en[i].s = s /\ en[i].p \in ok
        /\ \A i, j \in DOMAIN en : en[i].p = en[j].p => i = j
    <3> HIDE DEF ok
    <3> QED
      BY <2>4, EntriesForAre
  <2>6. q \in Seq(Entry)
    BY QueueTypes
  <2> HIDE DEF en, q, ok
  <2> DEFINE m == Len(en)
             n == Len(q)
             w == en \o q
  <2>7. /\ m \in Nat /\ n \in Nat /\ DOMAIN en = 1 .. m /\ DOMAIN q = 1 .. n /\ DOMAIN w = 1 .. m + n
        /\ \A i \in 1 .. m : w[i] = en[i]
        /\ \A i \in m + 1 .. m + n : w[i] = q[i - m] /\ i - m \in 1 .. n
    BY <2>5, <2>6
  <2>8. \A i \in 1 .. m + n : i \in 1 .. m \/ i \in m + 1 .. m + n
    BY <2>7
  <2> HIDE DEF m, n, w
  <2>9. \A i \in DOMAIN w :
          \/ i \in 1 .. m /\ w[i] = en[i] /\ w[i].s = s /\ w[i].p \in ok
          \/ i \in m + 1 .. m + n /\ i - m \in DOMAIN q /\ w[i] = q[i - m]
    BY <2>5, <2>7, <2>8
  <2>10. \A i \in DOMAIN q : q[i].s = s => q[i].p \notin ok
    BY <2>4 DEF Pending, q
  <2>11. OncePending(t) => OncePending(t)'
    <3>1. SUFFICES ASSUME OncePending(t), NEW i \in DOMAIN w, NEW j \in DOMAIN w,
                          w[i].s = w[j].s, w[i].p = w[j].p
                   PROVE  i = j
      BY <2>2 DEF OncePending, w
    <3>2. CASE i \in 1 .. m /\ j \in 1 .. m
      BY <2>5, <2>7, <3>1, <3>2
    <3>3. CASE i \in m + 1 .. m + n /\ j \in m + 1 .. m + n
      <4>1. /\ i - m \in DOMAIN q /\ w[i] = q[i - m]
            /\ j - m \in DOMAIN q /\ w[j] = q[j - m]
        BY <2>7, <3>3
      <4>2. i - m = j - m
        BY <3>1, <4>1 DEF OncePending, q
      <4> QED
        BY <2>7, <3>3, <4>2
    <3>4. CASE i \in 1 .. m /\ j \in m + 1 .. m + n
      <4>1. w[i].s = s /\ w[i].p \in ok
        BY <2>5, <2>7, <3>4
      <4>2. j - m \in DOMAIN q /\ w[j] = q[j - m]
        BY <2>7, <3>4
      <4> QED
        BY <2>10, <3>1, <4>1, <4>2
    <3>5. CASE j \in 1 .. m /\ i \in m + 1 .. m + n
      <4>1. w[j].s = s /\ w[j].p \in ok
        BY <2>5, <2>7, <3>5
      <4>2. i - m \in DOMAIN q /\ w[i] = q[i - m]
        BY <2>7, <3>5
      <4> QED
        BY <2>10, <3>1, <4>1, <4>2
    <3> QED
      BY <2>7, <2>8, <3>2, <3>3, <3>4, <3>5
  <2>12. \A r \in Segment, p \in Unit : Pending(t, r, p)' => Pending(t, r, p) \/ (r = s /\ p \in ok)
    <3>0. pages_reset'[t] = w
      BY <2>2 DEF w
    <3>1. SUFFICES ASSUME NEW r \in Segment, NEW p \in Unit, NEW i \in DOMAIN w, w[i].s = r, w[i].p = p
                   PROVE  Pending(t, r, p) \/ (r = s /\ p \in ok)
      BY <3>0 DEF Pending
    <3> QED
      BY <2>9, <3>1 DEF Pending, q
  <2>13. \A u \in Thread : u # t => pages_reset'[u] = pages_reset[u]
    BY <2>2
  <2>14. \A u \in Thread : u # t => (OncePending(u) => OncePending(u)')
    BY <2>13 DEF OncePending
  <2>15. \A u \in Thread, r \in Segment, p \in Unit : u # t => (Pending(u, r, p)' => Pending(u, r, p))
    BY <2>13 DEF Pending
  <2>16. \A p \in ok : p \in P /\ ~mem_is_fixed[s] /\ page'[s][p].committed /\ ~page'[s][p].reset
    BY <2>3, <2>4
  <2> QED
    BY <2>11, <2>12, <2>14, <2>15, <2>16
<1> QED
  BY <1>1, <1>2

\* A page that is claimed is taken from the queue.
LEMMA ResetsClaim ==
  ASSUME FieldsInv, ResetsOwn, Claim
  PROVE  ResetsOwn'
<1>1. TypeOK
  BY DEF FieldsInv
<1>2. pc = "claim" /\ UNCHANGED <<kind, thread_id, mem_is_fixed, mapped, cache>>
  BY ClaimSteps
<1>3. \A r \in Segment : SameSegment(r)
  BY <1>2 DEF SameSegment, Cached
<1>4. CASE UNCHANGED <<page, backed, used, pages_reset, free_queue>>
  <2>1. \A r \in Segment, p \in Unit : SamePage(r, p)
    BY <1>4 DEF SamePage
  <2>2. PICK A \in SUBSET Segment : A = {}
    OBVIOUS
  <2> QED
    BY <1>3, <1>4, <2>1, <2>2, ResetsStay
<1>5. CASE \E p \in Pages(cur.s) \ InUse(cur.s) : ClaimOf(cur.s, p)
  <2>1. PICK s \in Segment, t \in Thread : s = cur.s /\ t = me
    BY <1>1, <1>2 DEF TypeOK
  <2>2. PICK p \in Unit : p \in Pages(s) /\ ClaimOf(s, p)
    <3>1. Pages(s) \subseteq Unit
      BY <1>1, PageSets
    <3> QED
      BY <1>5, <2>1, <3>1
  <2>3. PICK pg \in Page : page' = [page EXCEPT ![s][p] = pg]
    <3>1. [in_use |-> TRUE, committed |-> TRUE, reset |-> FALSE,
           heap |-> IF kind[s] = "huge" THEN NULL ELSE me] \in Page
      BY <2>1 DEF Page
    <3> QED
      BY <2>2, <3>1 DEF ClaimOf
  <2>4. \A r \in Segment, q \in Unit : ~(r = s /\ q = p) => SamePage(r, q)
    BY <1>1, <2>3, PageSet DEF SamePage
  <2>5. PICK S : /\ S = EntriesAt(t, s, p)
                 /\ pages_reset' = [pages_reset EXCEPT ![t] = Without(@, S)]
    BY <2>1, <2>2 DEF ClaimOf
  <2>6. /\ \A u \in Thread, r \in Segment, q \in Unit : Pending(u, r, q)' => Pending(u, r, q)
        /\ \A u \in Thread : OncePending(u)'
    BY <1>1, <2>5, QueueTaken DEF ResetsOwn
  <2>7. ~(Pending(t, s, p)')
    <3>1. AllIn(t, s, p, S)
      BY <2>5 DEF AllIn, EntriesAt, EntriesOf
    <3> QED
      BY <1>1, <2>5, <3>1, EntryTaken
  <2>8. \A u \in Thread : Pending(u, s, p) => u = t
    <3>1. thread_id[s] \in {t, NULL}
      BY <1>2, <2>1 DEF FieldsInv, Role, Freeing
    <3> QED
      BY <3>1, NULLAssumption DEF ResetsOwn, Delayed
  <2>9. PICK A \in SUBSET Segment : A = {s}
    OBVIOUS
  <2>10. \A u \in Thread, r \in A, q \in Unit : Pending(u, r, q)' => Delayed(u, r, q)'
    <3>1. SUFFICES ASSUME NEW u \in Thread, NEW q \in Unit, Pending(u, s, q)'
                   PROVE  Delayed(u, s, q)'
      BY <2>9
    <3>2. Pending(u, s, q) /\ q # p
      BY <2>6, <2>7, <2>8, <3>1
    <3> QED
      BY <1>3, <2>4, <3>2, DelayedStays
  <2>11. \A r \in Segment \ A : SameSegment(r) /\ \A q \in Unit : SamePage(r, q)
    BY <1>3, <2>4, <2>9
  <2> QED
    BY <2>6, <2>10, <2>11, ResetsKept
<1> QED
  BY <1>4, <1>5, ClaimSteps

\* The pages of a reclaimed segment that became free are queued.
LEMMA ResetsReclaim ==
  ASSUME FieldsInv, ResetsOwn, FieldsInv', NEW s \in abandoned_list, NEW F \in SUBSET InUse(s),
         ReclaimStep(s, F), pc \in {"try", "reclaim_all"}
  PROVE  ResetsOwn'
<1>1. TypeOK /\ TypeOK' /\ s \in Segment
  BY DEF FieldsInv, TypeOK
<1>2. PICK t \in Thread : t = me
  BY <1>1 DEF TypeOK
<1>3. /\ thread_id' = [thread_id EXCEPT ![s] = t]
      /\ ResetAdd(t, s, F, Reclaimed(t, s, F))
      /\ UNCHANGED <<kind, mapped, mem_is_fixed, cache>>
  BY <1>2 DEF ReclaimStep, ReclaimFields, Reclaimed
<1>4. /\ \A r \in Segment : r # s => page'[r] = page[r]
      /\ InUse(s)' = InUse(s) \ F /\ Pages(s)' = Pages(s)
      /\ mapped[s] /\ thread_id[s] = NULL /\ thread_id'[s] = t
  BY <1>1, <1>2, FieldsReclaim
<1>5. ~Cached(s) /\ Pages(s) \subseteq Unit /\ InUse(s) \subseteq Pages(s)
  BY <1>1, <1>4, CachedIs, PageSets, NULLAssumption
<1>6. Reclaimed(t, s, F) \in [Unit -> Page] /\ F \in SUBSET Unit
  <2>1. F \in SUBSET Unit /\ \A p \in Unit : page[s][p] \in Page
    BY <1>1, <1>5, ZenonT(60) DEF TypeOK
  <2> QED
    BY <2>1 DEF Reclaimed, Page
<1>7. \A u \in Thread, p \in Unit : ~Pending(u, s, p)
  BY <1>1, <1>4, NULLAssumption DEF ResetsOwn, Delayed
<1>8. PICK pg \in [Unit -> Page], P \in SUBSET Unit : pg = Reclaimed(t, s, F) /\ P = F
  BY <1>6
<1>9. /\ \A u \in Thread, r \in Segment, p \in Unit : Pending(u, r, p)' =>
           \/ Pending(u, r, p)
           \/ /\ u = t /\ r = s /\ p \in P
              /\ ~mem_is_fixed[s] /\ page'[s][p].committed /\ ~page'[s][p].reset
      /\ \A u \in Thread : OncePending(u) => OncePending(u)'
  <2>1. ResetAdd(t, s, P, pg) /\ \A p \in P : ~Pending(t, s, p)
    BY <1>3, <1>7, <1>8
  <2> QED
    BY <1>1, <2>1, EntriesAdded
<1>10. PICK A \in SUBSET Segment : A = {s}
  BY <1>1
<1>11. \A r \in Segment \ A : SameSegment(r) /\ \A p \in Unit : SamePage(r, p)
  <2>1. \A r \in Segment : r # s => thread_id'[r] = thread_id[r]
    BY <1>1, <1>3 DEF TypeOK
  <2> QED
    BY <1>3, <1>4, <1>10, <2>1 DEF SameSegment, SamePage, Cached
<1>12. \A u \in Thread, r \in A, p \in Unit : Pending(u, r, p)' => Delayed(u, r, p)'
  <2>1. SUFFICES ASSUME NEW u \in Thread, NEW p \in Unit, Pending(u, s, p)'
                 PROVE  Delayed(u, s, p)'
    BY <1>10
  <2>2. u = t /\ p \in F /\ ~mem_is_fixed[s] /\ page'[s][p].committed /\ ~page'[s][p].reset
    BY <1>1, <1>7, <1>8, <1>9, <2>1
  <2>3. ~page'[s][p].in_use /\ p \in Pages(s)'
    <3>1. p \in Pages(s)' /\ p \notin InUse(s)'
      BY <1>4, <1>5, <2>2
    <3> QED
      BY <3>1 DEF InUse
  <2>4. mapped'[s] /\ thread_id'[s] = u /\ ~(Cached(s)') /\ ~mem_is_fixed'[s]
    BY <1>3, <1>4, <1>5, <2>2 DEF Cached
  <2> QED
    BY <2>2, <2>3, <2>4 DEF Delayed
<1>13. \A u \in Thread : OncePending(u)'
  BY <1>9 DEF ResetsOwn
<1> QED
  BY <1>9, <1>10, <1>11, <1>12, <1>13, ResetsKept

\* the searches of abandoned segments
LEMMA ResetsReclaims ==
  ASSUME FieldsInv, ResetsOwn, FieldsInv', TryReclaim \/ ReclaimAll
  PROVE  ResetsOwn'
<1>1. TypeOK
  BY DEF FieldsInv
<1>2. pc \in {"try", "reclaim_all"}
  BY DEF TryReclaim, ReclaimAll
<1>3. CASE UNCHANGED <<option, segment, memory, abandoned_list, tld>>
  <2>1. UNCHANGED <<segment, memory>> /\ UNCHANGED <<cache, pages_reset>>
    BY <1>3 DEF tld
  <2> QED
    BY <2>1, ResetsSame
<1>4. CASE \E s \in abandoned_list : \E F \in SUBSET InUse(s) : ReclaimStep(s, F)
  BY <1>2, <1>4, ResetsReclaim
<1> QED
  BY <1>1, <1>3, <1>4, ReclaimSteps

\* The page that is cleared is queued; it was in use, so it was not there.
LEMMA ResetsPageClear ==
  ASSUME FieldsInv, ResetsOwn, FieldsInv', PageClear
  PROVE  ResetsOwn'
<1>1. TypeOK /\ TypeOK'
  BY DEF FieldsInv
<1>2. /\ pc = "clear" /\ UNCHANGED <<kind, thread_id, mapped, mem_is_fixed, cache>>
      /\ ResetAdd(me, cur.s, {cur.p}, Cleared(cur.s, cur.p))
  BY PageClearSteps
<1>3. PICK s \in Segment, p \in Unit, t \in Thread : s = cur.s /\ p = cur.p /\ t = me
  BY <1>2, ClearFacts
<1>4. p \in InUse(s) /\ mapped[s] /\ thread_id[s] = t /\ ~Cached(s)
  BY <1>2, <1>3, ClearFacts
<1>5. /\ \A r \in Segment : r # s => page'[r] = page[r]
      /\ InUse(s)' = InUse(s) \ {p}
  BY <1>1, <1>3, FieldsClear
<1>6. PICK pg \in [Unit -> Page], P \in SUBSET Unit :
        /\ P = {p} /\ ResetAdd(t, s, P, pg)
        /\ \A q \in Unit : q # p => pg[q] = page[s][q]
  <2>1. page[s] \in [Unit -> Page]
    BY <1>1 DEF TypeOK
  <2>2. /\ Cleared(s, p) \in [Unit -> Page]
        /\ \A q \in Unit : q # p => Cleared(s, p)[q] = page[s][q]
    BY <2>1 DEF Cleared, Page
  <2>3. PICK P \in SUBSET Unit : P = {p}
    OBVIOUS
  <2>4. ResetAdd(t, s, P, Cleared(s, p))
    BY <1>2, <1>3, <2>3
  <2> QED
    BY <2>2, <2>3, <2>4
<1>7. \A u \in Thread : ~Pending(u, s, p)
  BY <1>4 DEF ResetsOwn, Delayed, InUse
<1>8. /\ \A u \in Thread, r \in Segment, q \in Unit : Pending(u, r, q)' =>
           \/ Pending(u, r, q)
           \/ /\ u = t /\ r = s /\ q \in P
              /\ ~mem_is_fixed[s] /\ page'[s][q].committed /\ ~page'[s][q].reset
      /\ \A u \in Thread : OncePending(u) => OncePending(u)'
  <2>1. TypeOK /\ ResetAdd(t, s, P, pg) /\ \A q \in P : ~Pending(t, s, q)
    BY <1>1, <1>6, <1>7
  <2> QED
    BY <2>1, EntriesAdded, ZenonT(60)
<1>9. \A r \in Segment : SameSegment(r)
  BY <1>2 DEF SameSegment, Cached
<1>10. \A r \in Segment, q \in Unit : ~(r = s /\ q = p) => SamePage(r, q)
  <2>1. \A q \in Unit : q \notin P => page'[s][q] = pg[q]
    BY <1>1, <1>6, ResetAddPages
  <2>2. \A q \in Unit : q # p => page'[s][q] = page[s][q]
    BY <1>6, <2>1
  <2> QED
    BY <1>5, <2>2 DEF SamePage
<1>11. PICK A \in SUBSET Segment : A = {s}
  OBVIOUS
<1>12. \A u \in Thread, r \in A, q \in Unit : Pending(u, r, q)' => Delayed(u, r, q)'
  <2>1. SUFFICES ASSUME NEW u \in Thread, NEW q \in Unit, Pending(u, s, q)'
                 PROVE  Delayed(u, s, q)'
    BY <1>11
  <2>2. CASE q # p
    <3>1. Pending(u, s, q)
      BY <1>6, <1>8, <2>1, <2>2
    <3> QED
      BY <1>9, <1>10, <2>2, <3>1, DelayedStays
  <2>3. CASE q = p
    <3>1. u = t /\ ~mem_is_fixed[s] /\ page'[s][p].committed /\ ~page'[s][p].reset
      BY <1>7, <1>8, <2>1, <2>3
    <3>2. p \in Pages(s)' /\ ~page'[s][p].in_use
      <4>1. p \in Pages(s)' /\ p \notin InUse(s)'
        BY <1>2, <1>4, <1>5 DEF InUse, Pages
      <4> QED
        BY <4>1 DEF InUse
    <3>3. mapped'[s] /\ thread_id'[s] = t /\ ~(Cached(s)') /\ ~mem_is_fixed'[s]
      BY <1>2, <1>4, <3>1 DEF Cached
    <3> QED
      BY <2>3, <3>1, <3>2, <3>3 DEF Delayed
  <2> QED
    BY <2>2, <2>3
<1>13. \A u \in Thread : OncePending(u)'
  BY <1>8 DEF ResetsOwn
<1>14. \A r \in Segment \ A : SameSegment(r) /\ \A q \in Unit : SamePage(r, q)
  BY <1>9, <1>10, <1>11
<1>15. \A u \in Thread, r \in Segment \ A, q \in Unit : Pending(u, r, q)' => Pending(u, r, q)
  BY <1>8, <1>11
<1> QED
  BY <1>12, <1>13, <1>14, <1>15, ResetsKept

\* A segment that leaves the thread has no entry any more.
LEMMA ResetsRemoved ==
  ASSUME TypeOK, ResetsOwn, NEW t \in Thread, NEW s \in Segment, thread_id[s] = t,
         pages_reset' = [pages_reset EXCEPT ![t] = QueueWithout(t, s)]
  PROVE  /\ \A u \in Thread, r \in Segment, p \in Unit : Pending(u, r, p)' => Pending(u, r, p) /\ r # s
         /\ \A u \in Thread : OncePending(u)'
<1>1. PICK S : /\ S = {e \in EntriesOf(t, {s}) : e.p \in Removed(s)}
               /\ pages_reset' = [pages_reset EXCEPT ![t] = Without(@, S)]
  BY DEF QueueWithout, TypeOK
<1>2. /\ \A u \in Thread, r \in Segment, p \in Unit : Pending(u, r, p)' => Pending(u, r, p)
      /\ \A u \in Thread : OncePending(u)'
  BY <1>1, QueueTaken DEF ResetsOwn
<1>3. \A p \in Unit : ~(Pending(t, s, p)')
  <2>1. SUFFICES ASSUME NEW p \in Unit
                 PROVE  ~(Pending(t, s, p)')
    OBVIOUS
  <2>2. AllIn(t, s, p, S)
    <3>1. SUFFICES ASSUME NEW i \in DOMAIN pages_reset[t], pages_reset[t][i].s = s, pages_reset[t][i].p = p
                   PROVE  pages_reset[t][i] \in S
      BY DEF AllIn
    <3>2. ~mem_is_fixed[s] /\ p \in Pages(s)
      BY <3>1 DEF Pending, ResetsOwn, Delayed
    <3>3. p \in Removed(s)
      BY <3>2 DEF Removed
    <3> QED
      BY <1>1, <3>1, <3>3 DEF EntriesOf
  <2> QED
    BY <1>1, <2>2, EntryTaken
<1>4. \A u \in Thread, p \in Unit : Pending(u, s, p) => u = t
  BY DEF ResetsOwn, Delayed
<1> QED
  BY <1>2, <1>3, <1>4

\* mi_segment_free and mi_segment_abandon
LEMMA ResetsLeave ==
  ASSUME FieldsInv, ResetsOwn, FieldsInv', SegmentFree \/ AbandonSegment
  PROVE  ResetsOwn'
<1>1. TypeOK /\ TypeOK'
  BY DEF FieldsInv
<1>2. CASE SegmentFree
  <2>1. PICK s \in Segment, t \in Thread, S \in SUBSET Segment, force \in BOOLEAN : FreeIs(s, t, S, force)
    BY <1>1, <1>2, FreeDoes
  <2>2. /\ \A u \in Thread, r \in Segment, p \in Unit : Pending(u, r, p)' => Pending(u, r, p) /\ r # s
        /\ \A u \in Thread : OncePending(u)'
    <3>1. thread_id[s] = t /\ pages_reset' = [pages_reset EXCEPT ![t] = QueueWithout(t, s)]
      BY <2>1 DEF FreeIs
    <3> QED
      BY <1>1, <3>1, ResetsRemoved
  <2>3. PICK A \in SUBSET Segment : A = S \cup {s}
    OBVIOUS
  <2>4. \A r \in Segment \ A : SameSegment(r) /\ \A p \in Unit : SamePage(r, p)
    <3>0. \A r \in Segment : r # s => PagesReset(s, force)[r] = page[r]
      BY <1>1, PagesResetType
    <3>1. \A r \in Segment \ A : page'[r] = page[r]
      BY <2>1, <2>3, <3>0 DEF FreeIs
    <3> QED
      BY <2>1, <2>3, <3>1 DEF FreeIs, SameSegment, SamePage
  <2>5. \A u \in Thread, r \in A, p \in Unit : ~(Pending(u, r, p)')
    <3>1. \A r \in S : r # s => Cached(r)
      BY <2>1 DEF FreeIs
    <3> QED
      BY <2>2, <2>3, <3>1 DEF ResetsOwn, Delayed
  <2> QED
    BY <2>2, <2>4, <2>5, ResetsKept
<1>3. CASE AbandonSegment
  <2>1. PICK s \in Segment, t \in Thread : s = cur.s /\ t = me
    BY <1>1, <1>3 DEF AbandonSegment, TypeOK
  <2>2. /\ thread_id[s] = t
        /\ pages_reset' = [pages_reset EXCEPT ![t] = QueueWithout(t, s)]
        /\ UNCHANGED <<kind, mapped, mem_is_fixed, cache>>
        /\ thread_id' = [thread_id EXCEPT ![s] = NULL]
        /\ page' = PagesReset(s, option.abandoned_page_reset)
    BY <1>3, <2>1 DEF AbandonSegment, FieldsInv, Role, Abandoning
  <2>3. /\ \A u \in Thread, r \in Segment, p \in Unit : Pending(u, r, p)' => Pending(u, r, p) /\ r # s
        /\ \A u \in Thread : OncePending(u)'
    BY <1>1, <2>2, ResetsRemoved
  <2>4. PICK A \in SUBSET Segment : A = {s}
    OBVIOUS
  <2>5. \A r \in Segment \ A : page'[r] = page[r] /\ thread_id'[r] = thread_id[r]
    <3>1. PICK force \in BOOLEAN : force = option.abandoned_page_reset
      BY <1>1 DEF TypeOK, Option
    <3>2. \A r \in Segment \ A : page'[r] = page[r]
      <4>1. \A r \in Segment : r # s => PagesReset(s, force)[r] = page[r]
        BY <1>1, PagesResetType
      <4> QED
        BY <2>2, <2>4, <3>1, <4>1
    <3>3. \A r \in Segment \ A : thread_id'[r] = thread_id[r]
      BY <1>1, <2>2, <2>4 DEF TypeOK
    <3> QED
      BY <3>2, <3>3
  <2>6. \A r \in Segment \ A : SameSegment(r) /\ \A p \in Unit : SamePage(r, p)
    BY <2>2, <2>5 DEF SameSegment, SamePage, Cached
  <2> QED
    BY <2>3, <2>4, <2>6, ResetsKept
<1> QED
  BY <1>2, <1>3

\* mi_reset_delayed resets the pages that it takes from the queue, and no other
\* that is there.
LEMMA ResetsDone ==
  ASSUME FieldsInv, ResetsOwn, FieldsInv', ResetDelayed
  PROVE  ResetsOwn'
<1>1. TypeOK /\ TypeOK'
  BY DEF FieldsInv
<1>2. UNCHANGED <<kind, thread_id, mem_is_fixed, mapped, cache>>
  BY DEF ResetDelayed
<1>3. \A r \in Segment : SameSegment(r)
  BY <1>2 DEF SameSegment, Cached
<1>4. PICK A \in SUBSET Segment : A = Segment
  OBVIOUS
<1>5. CASE ~option.page_reset
  <2>1. UNCHANGED <<page, pages_reset>>
    BY <1>5 DEF ResetDelayed
  <2>2. \A r \in Segment : \A p \in Unit : SamePage(r, p)
    BY <2>1 DEF SamePage
  <2>3. PICK B \in SUBSET Segment : B = {}
    OBVIOUS
  <2> QED
    BY <1>3, <2>1, <2>2, <2>3, ResetsStay
<1>6. CASE option.page_reset
  <2>1. PICK t \in Thread : t = me
    BY <1>1 DEF ResetDelayed, After, TypeOK
  <2> DEFINE q == pages_reset[t]
             n == Waiting(t)
  <2>2. /\ page' = [s \in Segment |-> [p \in Unit |->
                      IF p \in {x \in Expired(t, s) : Resettable(s, x)}
                        THEN [page[s][p] EXCEPT !.reset = TRUE] ELSE page[s][p]]]
        /\ pages_reset' = [pages_reset EXCEPT ![t] = SubSeq(@, 1, n)]
    BY <1>6, <2>1 DEF ResetDelayed
  <2>3. q \in Seq(Entry) /\ DOMAIN q = 1 .. Len(q) /\ n \in 0 .. Len(q) /\ Len(q) \in Nat
    BY <1>1, QueueTypes, WaitingIs
  <2>4. \A u \in Thread : pages_reset'[u] = IF u = t THEN SubSeq(q, 1, n) ELSE pages_reset[u]
    BY <1>1, <2>2 DEF TypeOK
  <2>5. /\ DOMAIN SubSeq(q, 1, n) = 1 .. n
        /\ \A i \in 1 .. n : SubSeq(q, 1, n)[i] = q[i] /\ i \in DOMAIN q
    <3> HIDE DEF q, n
    <3> QED
      BY <2>3
  <2>6. \A u \in Thread : OncePending(u)'
    <3>1. \A u \in Thread : u # t => OncePending(u)'
      BY <2>4 DEF OncePending, ResetsOwn
    <3>2. OncePending(t)'
      <4>1. OncePending(t) /\ pages_reset'[t] = SubSeq(q, 1, n)
        BY <2>4 DEF ResetsOwn
      <4> DEFINE w == SubSeq(q, 1, n)
      <4>2. DOMAIN w = 1 .. n /\ \A i \in 1 .. n : w[i] = q[i] /\ i \in DOMAIN q
        BY <2>5
      <4>3. pages_reset'[t] = w
        BY <4>1
      <4> HIDE DEF w, q, n
      <4>4. \A i, j \in DOMAIN w : w[i].s = w[j].s /\ w[i].p = w[j].p => i = j
        BY <4>1, <4>2 DEF OncePending, q
      <4> QED
        BY <4>3, <4>4 DEF OncePending
    <3> QED
      BY <3>1, <3>2
  <2>7. \A u \in Thread, s \in Segment, p \in Unit : Pending(u, s, p)' =>
          /\ Pending(u, s, p)
          /\ u = t => \E i \in 1 .. n : q[i].s = s /\ q[i].p = p
    BY <2>4, <2>5 DEF Pending
  <2>8. \A s \in Segment, p \in Unit : p \in Expired(t, s) =>
          \E j \in DOMAIN q : j > n /\ q[j].s = s /\ q[j].p = p
    BY DEF Expired
  <2>9. \A u \in Thread, s \in Segment, p \in Unit : Pending(u, s, p)' => p \notin Expired(t, s)
    <3>1. SUFFICES ASSUME NEW u \in Thread, NEW s \in Segment, NEW p \in Unit,
                          Pending(u, s, p)', p \in Expired(t, s)
                   PROVE  FALSE
      OBVIOUS
    <3>2. PICK j \in DOMAIN q : j > n /\ q[j].s = s /\ q[j].p = p
      BY <2>8, <3>1
    <3>3. Pending(t, s, p)
      BY <3>2 DEF Pending
    <3>4. u = t
      BY <2>7, <3>1, <3>3 DEF ResetsOwn, Delayed
    <3>5. PICK i \in 1 .. n : q[i].s = s /\ q[i].p = p
      BY <2>7, <3>1, <3>4
    <3>6. i \in DOMAIN q /\ i = j
      BY <2>5, <3>2, <3>5 DEF ResetsOwn, OncePending
    <3> QED
      BY <2>3, <3>2, <3>5, <3>6
  <2>10. \A s \in Segment, p \in Unit : p \notin Expired(t, s) => SamePage(s, p)
    BY <2>2 DEF SamePage
  <2>11. \A u \in Thread, s \in A, p \in Unit : Pending(u, s, p)' => Delayed(u, s, p)'
    <3>1. SUFFICES ASSUME NEW u \in Thread, NEW s \in Segment, NEW p \in Unit, Pending(u, s, p)'
                   PROVE  Delayed(u, s, p)'
      BY <1>4
    <3>2. Pending(u, s, p) /\ SamePage(s, p)
      BY <2>7, <2>9, <2>10, <3>1
    <3> QED
      BY <1>3, <3>2, DelayedStays
  <2> QED
    BY <1>4, <2>6, <2>11, ResetsKept
<1> QED
  BY <1>5, <1>6

\* No reset is delayed at the start.
LEMMA ResetsInit ==
  ASSUME Init
  PROVE  ResetsOwn
BY DEF Init, ResetsOwn, OncePending, Pending

\* Every step keeps the delayed resets to pages that may be reset.
LEMMA ResetsStep ==
  ASSUME FieldsInv, ResetsOwn, [Next]_vars
  PROVE  ResetsOwn'
<1>1. FieldsInv' /\ TypeOK
  BY FieldsStep DEF FieldsInv
<1>2. ASSUME NEW t \in Thread, NEW k \in Kinds, AllocStart(t, k)
      PROVE  ResetsOwn'
  BY <1>1, <1>2, ResetsStarts
<1>3. ASSUME NEW t \in Thread, NEW k \in Kinds, CacheReuse(t, k)
      PROVE  ResetsOwn'
  BY <1>3, ResetsMoves
<1>4. ASSUME NEW t \in Thread, PageFree(t) \/ ThreadExit(t)
      PROVE  ResetsOwn'
  BY <1>1, <1>4, ResetsStarts
<1>5. ASSUME NEW t \in Thread, HugeFree(t) \/ PageAbandon(t)
      PROVE  ResetsOwn'
  BY <1>5, ResetsTaken
<1>6. ASSUME NEW t \in Thread, ThreadCollect(t)
      PROVE  ResetsOwn'
  BY <1>6, ResetsMoves
<1>7. ASSUME NEW t \in Thread, ThreadStart(t)
      PROVE  ResetsOwn'
  BY <1>7, ResetsThreadStart
<1>8. CASE TryEnd \/ ReclaimAllStart \/ Tick \/ SetCache \/ UNCHANGED vars
  BY <1>1, <1>8, ResetsStarts
<1>9. CASE Fresh
  BY <1>9, ResetsMoves
<1>10. CASE Claim
  BY <1>10, ResetsClaim
<1>11. CASE TryReclaim \/ ReclaimAll
  BY <1>1, <1>11, ResetsReclaims
<1>12. CASE PageClear
  BY <1>1, <1>12, ResetsPageClear
<1>13. CASE SegmentFree \/ AbandonSegment
  BY <1>1, <1>13, ResetsLeave
<1>14. CASE ResetDelayed
  BY <1>1, <1>14, ResetsDone
<1> QED
  BY <1>2, <1>3, <1>4, <1>5, <1>6, <1>7, <1>8, <1>9, <1>10, <1>11, <1>12, <1>13, <1>14 DEF Next

\* Every delayed reset is of a page that the thread still owns, that is free and
\* committed and not reset, and that is queued once (segment.c:278-337).
THEOREM SegmentResets == Spec => []ResetQueueOwn
<1>1. Init => FieldsInv /\ ResetsOwn
  BY FieldsInit, ResetsInit
<1>2. FieldsInv /\ ResetsOwn /\ [Next]_vars => (FieldsInv /\ ResetsOwn)'
  BY FieldsStep, ResetsStep
<1>3. FieldsInv /\ ResetsOwn => ResetQueueOwn
  <2>1. SUFFICES ASSUME FieldsInv, ResetsOwn, NEW t \in Thread, NEW i \in DOMAIN pages_reset[t],
                        NEW s, NEW p, s = pages_reset[t][i].s, p = pages_reset[t][i].p
                 PROVE  /\ mapped[s] /\ thread_id[s] = t /\ ~Cached(s) /\ p \in Pages(s)
                        /\ page[s][p].committed /\ ~page[s][p].in_use /\ ~page[s][p].reset
                        /\ \A j \in DOMAIN pages_reset[t] :
                             s = pages_reset[t][j].s /\ p = pages_reset[t][j].p => i = j
    BY DEF ResetQueueOwn
  <2>2. s \in Segment /\ p \in Unit
    <3>1. pages_reset[t][i] \in Entry
      BY <2>1, QueueTypes DEF FieldsInv
    <3> QED
      BY <2>1, <3>1 DEF Entry
  <2>3. Delayed(t, s, p) /\ OncePending(t)
    BY <2>1, <2>2 DEF ResetsOwn, Pending
  <2> QED
    BY <2>1, <2>3 DEF Delayed, OncePending
<1> QED
  BY <1>1, <1>2, <1>3, PTL DEF Spec

-----------------------------------------------------------------------------
(***************************************************************************)
(* No segment is lost: one that has pages in use has one of a heap, or is  *)
(* being abandoned, or its thread is ending; and, as long as nothing goes  *)
(* wrong that the code does not recover from, one that is empty is in a    *)
(* cache or in the hands of the running call.                              *)
(***************************************************************************)

\* A segment with pages in use is left by all heaps only while it is
\* abandoned, and has abandoned pages only when its thread is ending; the
\* thread is not gone.
Tended(s) == mapped[s] /\ thread_id[s] # NULL /\ kind[s] # "huge" =>
  /\ InUse(s) # {} /\ Orphans(s) = InUse(s) => pc \in Abandoning /\ s = cur.s
  /\ Orphans(s) # {} => status[thread_id[s]] # "alive"
  /\ InUse(s) # {} => status[thread_id[s]] # "gone"

\* An empty segment that is in no cache is about to be used or to be freed.
InHand(s) == mapped[s] /\ InUse(s) = {} /\ ~Cached(s) => pc \in {"claim", "free"} /\ s = cur.s

\* A search for a segment goes on only while the thread has none with a free
\* page, so that the page is taken from the segment that is found.
Searching == cur.k \in Queued /\ (pc \in {"try", "fresh"} \/ (pc = "free" /\ cur.ret \in {"try", "fresh"}))
Alone == Searching => \A s \in Segment : ~InQueue(me, cur.k, s)

NotLost ==
  /\ \A s \in Segment : Tended(s)
  /\ \A t \in Thread : status[t] = "gone" => cache[t] = <<>>
  /\ pc \in {"delay_free", "clear"} => cur.ret = "idle"
  /\ Undisturbed => Alone /\ \A s \in Segment : InHand(s)

\* a step that leaves segment s with the pages in use and orphans it has
Unchanged(s) ==
  /\ mapped'[s] = mapped[s] /\ thread_id'[s] = thread_id[s] /\ kind'[s] = kind[s]
  /\ InUse(s)' = InUse(s) /\ Orphans(s)' = Orphans(s) /\ (Cached(s) => Cached(s)')

\* what a step may do to the status of a thread that has segment s
StatusKept(s) == \A t \in Thread : thread_id[s] = t =>
  status'[t] = status[t] \/ status'[t] = "exiting" \/ InUse(s) = {}

\* A queue without an index is empty.
LEMMA EmptyQueue ==
  ASSUME NEW S, NEW q \in Seq(S), \A i \in DOMAIN q : FALSE
  PROVE  q = <<>>
<1>1. Len(q) \in Nat /\ DOMAIN q = 1 .. Len(q)
  BY LenProperties
<1>2. 1 \notin 1 .. Len(q)
  BY <1>1
<1>3. Len(q) = 0
  BY <1>1, <1>2
<1> QED
  BY <1>3, EmptySeq

\* Segments that a step leaves alone are still tended.
LEMMA TendedKept ==
  ASSUME TypeOK, NEW s \in Segment, Tended(s), Unchanged(s), StatusKept(s),
         pc \in Abandoning /\ s = cur.s => pc' \in Abandoning /\ s = cur'.s
  PROVE  Tended(s)'
<1>1. SUFFICES ASSUME mapped'[s], thread_id'[s] # NULL, kind'[s] # "huge"
               PROVE  /\ InUse(s)' # {} /\ Orphans(s)' = InUse(s)' => pc' \in Abandoning /\ s = cur'.s
                      /\ Orphans(s)' # {} => status'[thread_id'[s]] # "alive"
                      /\ InUse(s)' # {} => status'[thread_id'[s]] # "gone"
  BY DEF Tended
<1>2. /\ mapped[s] /\ thread_id[s] # NULL /\ kind[s] # "huge" /\ thread_id'[s] = thread_id[s]
      /\ InUse(s)' = InUse(s) /\ Orphans(s)' = Orphans(s)
  BY <1>1 DEF Unchanged
<1>3. PICK t \in Thread : t = thread_id[s]
  BY <1>2 DEF TypeOK
<1>4. Orphans(s) \subseteq InUse(s)
  BY DEF Orphans
<1>5. /\ InUse(s) # {} /\ Orphans(s) = InUse(s) => pc \in Abandoning /\ s = cur.s
      /\ Orphans(s) # {} => status[t] # "alive"
      /\ InUse(s) # {} => status[t] # "gone"
  BY <1>2, <1>3 DEF Tended
<1>6. InUse(s) = {} \/ status'[t] = status[t] \/ status'[t] = "exiting"
  BY <1>3 DEF StatusKept
<1> QED
  BY <1>2, <1>3, <1>4, <1>5, <1>6

\* A step that takes segments of A only: what it has to establish of them.
LEMMA LostKept ==
  ASSUME TypeOK, NotLost, NEW A \in SUBSET Segment,
         \A s \in Segment \ A : Unchanged(s) /\ StatusKept(s),
         \A s \in Segment \ A : pc \in Abandoning /\ s = cur.s => pc' \in Abandoning /\ s = cur'.s,
         \A s \in Segment \ A : pc \in {"claim", "free"} /\ s = cur.s => pc' \in {"claim", "free"} /\ s = cur'.s,
         \A s \in A : Tended(s)',
         Undisturbed' => Undisturbed,
         Undisturbed' => \A s \in A : InHand(s)',
         \A t \in Thread : status'[t] = "gone" => cache'[t] = <<>> \/ (status[t] = "gone" /\ cache'[t] = cache[t]),
         pc' \in {"delay_free", "clear"} => cur'.ret = "idle",
         Undisturbed' => Alone'
  PROVE  NotLost'
<1>1. \A s \in Segment : Tended(s)'
  <2>1. SUFFICES ASSUME NEW s \in Segment
                 PROVE  Tended(s)'
    OBVIOUS
  <2>2. CASE s \in A
    BY <2>2
  <2>3. CASE s \notin A
    <3>1. Tended(s)
      BY DEF NotLost
    <3> QED
      BY <2>3, <3>1, TendedKept
  <2> QED
    BY <2>2, <2>3
<1>2. \A t \in Thread : status'[t] = "gone" => cache'[t] = <<>>
  BY DEF NotLost
<1>3. ASSUME Undisturbed'
      PROVE  \A s \in Segment : InHand(s)'
  <2>1. SUFFICES ASSUME NEW s \in Segment
                 PROVE  InHand(s)'
    OBVIOUS
  <2>2. CASE s \in A
    BY <1>3, <2>2
  <2>3. CASE s \notin A
    <3>1. InHand(s)
      BY <1>3 DEF NotLost
    <3>2. Unchanged(s)
      BY <2>3
    <3>3. mapped'[s] /\ InUse(s)' = {} /\ ~(Cached(s)') => pc \in {"claim", "free"} /\ s = cur.s
      BY <3>1, <3>2 DEF InHand, Unchanged
    <3> QED
      BY <2>3, <3>3 DEF InHand
  <2> QED
    BY <2>2, <2>3
<1> QED
  BY <1>1, <1>2, <1>3 DEF NotLost

\* A search goes on: the queues of the thread get nothing.
LEMMA AloneStays ==
  ASSUME TypeOK, NEW t \in Thread, t = me, me' = me, cur'.k = cur.k, Searching' => Searching, Alone,
         \A k \in Queued, s \in Segment : k = cur.k => (InQueue(t, k, s)' => InQueue(t, k, s))
  PROVE  Alone'
<1>1. SUFFICES ASSUME Searching', NEW s \in Segment
               PROVE  ~(InQueue(t, cur.k, s)')
  BY DEF Alone
<1>2. PICK k \in Queued : k = cur.k
  BY <1>1 DEF Searching
<1>3. ~InQueue(t, k, s)
  BY <1>1, <1>2 DEF Alone
<1>4. ~(InQueue(t, k, s)')
  BY <1>2, <1>3
<1> QED
  BY <1>2, <1>4 DEF InQueue

\* The starts of calls and the ends of searches leave the segments alone.
LEMMA LostSame ==
  ASSUME FieldsInv, NotLost, FieldsInv', UNCHANGED <<segment, memory, abandoned_list>>,
         cache' = cache, Undisturbed' => Undisturbed,
         \A s \in Segment : StatusKept(s),
         \A s \in Segment : pc \in Abandoning /\ s = cur.s => pc' \in Abandoning /\ s = cur'.s,
         \A s \in Segment : pc \in {"claim", "free"} /\ s = cur.s => pc' \in {"claim", "free"} /\ s = cur'.s,
         \A t \in Thread : status'[t] = "gone" => status[t] = "gone",
         pc' \in {"delay_free", "clear"} => cur'.ret = "idle",
         Undisturbed' => Alone'
  PROVE  NotLost'
<1>1. TypeOK /\ TypeOK'
  BY DEF FieldsInv
<1>2. \A s \in Segment : InUse(s)' = InUse(s) /\ Orphans(s)' = Orphans(s)
  BY <1>1, FieldsSame
<1>3. UNCHANGED <<kind, thread_id, mapped>>
  BY DEF segment, memory
<1>4. \A s \in Segment : Unchanged(s)
  BY <1>2, <1>3 DEF Unchanged, Cached
<1>5. PICK A \in SUBSET Segment : A = {}
  OBVIOUS
<1> QED
  BY <1>1, <1>4, <1>5, LostKept

\* A call starts: a search only when there is no segment with a free page.
LEMMA LostStarts ==
  ASSUME FieldsInv, NotLost, FieldsInv',
         \/ \E t \in Thread, k \in Kinds : AllocStart(t, k)
         \/ \E t \in Thread : PageFree(t)
         \/ ReclaimAllStart
  PROVE  NotLost'
<1>1. TypeOK /\ TypeOK'
  BY DEF FieldsInv
<1>2. /\ UNCHANGED <<segment, memory, abandoned_list>>
      /\ UNCHANGED <<option, cache, status>> /\ pc = "idle"
  BY DEF AllocStart, PageFree, ReclaimAllStart, tld
<1>3. Undisturbed' => Undisturbed
  BY <1>2 DEF Undisturbed
<1>4. \A s \in Segment : StatusKept(s)
  BY <1>2 DEF StatusKept
<1>5. ASSUME pc' \notin {"delay_free", "clear"} \/ cur'.ret = "idle", Alone'
      PROVE  NotLost'
  BY <1>2, <1>3, <1>4, <1>5, LostSame DEF Abandoning
<1>6. ASSUME NEW t \in Thread, NEW k \in Kinds, AllocStart(t, k)
      PROVE  NotLost'
  <2>1. me' = t /\ pc' \in {"claim", "fresh", "try"} /\ UNCHANGED free_queue
    BY <1>6 DEF AllocStart, tld
  <2>2. pc' = "claim" \/ (cur'.k = k /\ k = "huge") \/ (cur'.k = k /\ (k \in Queued => free_queue[t][k] = <<>>))
    <3>1. k \in PageKind
      BY OptionAssumption
    <3>2. NoCall \in Call
      BY <1>1, TypeParts
    <3>3. [NoCall EXCEPT !.k = k].k = k
      BY <3>2 DEF Call
    <3> QED
      BY <1>6, <3>3 DEF AllocStart
  <2>3. Alone'
    <3>1. SUFFICES ASSUME Searching', NEW s \in Segment
                   PROVE  ~(InQueue(me, cur.k, s)')
      BY DEF Alone
    <3>2. k \in Queued /\ cur'.k = k /\ free_queue'[t][k] = <<>>
      BY <2>1, <2>2, <3>1 DEF Searching, Queued
    <3> QED
      BY <2>1, <3>2 DEF InQueue
  <2> QED
    BY <1>5, <2>1, <2>3
<1>7. ASSUME NEW t \in Thread, PageFree(t)
      PROVE  NotLost'
  <2>1. pc' = "delay_free" /\ cur'.ret = "idle"
    <3>1. PICK s \in Segment, p \in Unit, force \in BOOLEAN : cur' = [NoCall EXCEPT !.s = s, !.p = p, !.force = force]
      BY <1>7 DEF PageFree
    <3> QED
      BY <1>7, <3>1 DEF PageFree, NoCall
  <2>2. Alone'
    BY <2>1 DEF Alone, Searching
  <2> QED
    BY <1>5, <2>1, <2>2
<1>8. CASE ReclaimAllStart
  <2>1. pc' = "reclaim_all"
    BY <1>8 DEF ReclaimAllStart
  <2>2. Alone'
    BY <2>1 DEF Alone, Searching
  <2> QED
    BY <1>5, <2>1, <2>2
<1> QED
  BY <1>6, <1>7, <1>8

\* The other steps that leave the segments and the queues alone.
LEMMA LostStays ==
  ASSUME FieldsInv, NotLost, FieldsInv',
         \/ \E t \in Thread : ThreadExit(t)
         \/ TryEnd \/ Tick \/ SetCache \/ UNCHANGED vars
  PROVE  NotLost'
<1>1. TypeOK /\ TypeOK'
  BY DEF FieldsInv
<1>2. /\ UNCHANGED <<segment, memory, abandoned_list>>
      /\ UNCHANGED <<free_queue, cache, me, cur>>
      /\ pc' = pc \/ (pc = "try" /\ pc' = "fresh")
      /\ option' = option \/ \E n \in option.cache_sizes : option' = [option EXCEPT !.segment_cache = n]
      /\ status' = status \/ \E t \in Thread : status' = [status EXCEPT ![t] = "exiting"]
  BY DEF ThreadExit, TryEnd, Tick, SetCache, vars, tld, segment, memory
<1>3. Undisturbed' => Undisturbed
  BY <1>1, <1>2 DEF Undisturbed, TypeOK, Option
<1>4. \A t \in Thread : status'[t] = status[t] \/ status'[t] = "exiting"
  BY <1>1, <1>2 DEF TypeOK
<1>5. \A s \in Segment : StatusKept(s)
  BY <1>4 DEF StatusKept
<1>6. Searching' => Searching
  BY <1>2 DEF Searching
<1>7. Undisturbed' => Alone'
  <2>1. SUFFICES ASSUME Alone
                 PROVE  Alone'
    BY <1>3 DEF NotLost
  <2> QED
    BY <1>2, <1>6, <2>1 DEF Alone, InQueue
<1>8. pc' \in {"delay_free", "clear"} => cur'.ret = "idle"
  BY <1>2 DEF NotLost
<1> QED
  BY <1>2, <1>3, <1>4, <1>5, <1>7, <1>8, LostSame DEF Abandoning

\* A thread that starts has no segment and no cache.
LEMMA LostThreadStart ==
  ASSUME FieldsInv, NotLost, FieldsInv', NEW t \in Thread, ThreadStart(t)
  PROVE  NotLost'
<1>1. TypeOK /\ TypeOK'
  BY DEF FieldsInv
<1>2. /\ pc = "idle" /\ pc' = "idle" /\ count[t] = 0 /\ status[t] = "gone"
      /\ status' = [status EXCEPT ![t] = "alive"]
      /\ cache' = [cache EXCEPT ![t] = <<>>]
      /\ UNCHANGED <<segment, memory, abandoned_list>> /\ option' = option
  BY DEF ThreadStart
<1>3. \A s \in Segment : thread_id[s] # t
  <2>1. Owned(t) = {}
    BY <1>2, OwnedFinite, FS_EmptySet DEF FieldsInv, CountOwned
  <2> QED
    BY <2>1 DEF Owned
<1>4. cache' = cache
  BY <1>1, <1>2 DEF NotLost, TypeOK
<1>5. \A u \in Thread : u # t => status'[u] = status[u]
  BY <1>1, <1>2 DEF TypeOK
<1>6. \A s \in Segment : StatusKept(s)
  BY <1>3, <1>5 DEF StatusKept
<1>7. \A u \in Thread : status'[u] = "gone" => status[u] = "gone"
  BY <1>2, <1>5
<1>8. Alone'
  BY <1>2 DEF Alone, Searching
<1>9. Undisturbed' => Undisturbed
  BY <1>2 DEF Undisturbed
<1> QED
  BY <1>2, <1>4, <1>6, <1>7, <1>8, <1>9, LostSame DEF Abandoning

\* The delayed resets.
LEMMA LostResets ==
  ASSUME FieldsInv, NotLost, FieldsInv', ResetDelayed
  PROVE  NotLost'
<1>1. TypeOK /\ TypeOK'
  BY DEF FieldsInv
<1>2. /\ \A s \in Segment : OnlyResets(s)
      /\ UNCHANGED <<kind, used, abandoned, thread_id, mem_is_fixed, mapped, abandoned_list>>
      /\ UNCHANGED <<option, free_queue, cache, status>>
      /\ pc \in {"delay_alloc", "delay_free", "delay_abandon"}
      /\ pc = "delay_alloc" => pc' = "idle"
      /\ pc = "delay_free" => pc' = "clear" /\ cur' = cur
      /\ pc = "delay_abandon" => pc' = "abandon" /\ cur' = cur
  BY <1>1, ResetDelayedDoes DEF ResetDelayed, After, Finish
<1>3. \A s \in Segment : InUse(s)' = InUse(s) /\ Orphans(s)' = Orphans(s)
  BY <1>1, <1>2, FieldsResets
<1>4. \A s \in Segment : Unchanged(s) /\ StatusKept(s)
  BY <1>2, <1>3 DEF Unchanged, StatusKept, Cached
<1>5. PICK A \in SUBSET Segment : A = {}
  OBVIOUS
<1>6. Alone'
  BY <1>2 DEF Alone, Searching
<1>7. Undisturbed' => Undisturbed
  BY <1>2 DEF Undisturbed
<1>8. pc' \in {"delay_free", "clear"} => cur'.ret = "idle"
  BY <1>2 DEF NotLost
<1>9. \A s \in Segment : pc \in Abandoning /\ s = cur.s => pc' \in Abandoning /\ s = cur'.s
  BY <1>2 DEF Abandoning
<1>10. \A s \in Segment : pc \in {"claim", "free"} /\ s = cur.s => pc' \in {"claim", "free"} /\ s = cur'.s
  BY <1>2
<1>11. \A t \in Thread : status'[t] = "gone" => cache'[t] = <<>> \/ (status[t] = "gone" /\ cache'[t] = cache[t])
  BY <1>2
<1> QED
  BY <1>1, <1>4, <1>5, <1>6, <1>7, <1>8, <1>9, <1>10, <1>11, LostKept

\* A huge page is freed.
LEMMA LostHugeFree ==
  ASSUME FieldsInv, NotLost, FieldsInv', NEW t \in Thread, HugeFree(t)
  PROVE  NotLost'
<1>1. TypeOK /\ TypeOK'
  BY DEF FieldsInv
<1>2. PICK s \in Segment : /\ kind[s] = "huge" /\ InUse(s) # {} /\ thread_id' = [thread_id EXCEPT ![s] = t]
                           /\ cur' = [NoCall EXCEPT !.s = s, !.force = TRUE]
  BY DEF HugeFree
<1>3. /\ pc = "idle" /\ pc' = "delay_free"
      /\ UNCHANGED <<kind, used, abandoned, mem_is_fixed, page, memory, abandoned_list>>
      /\ UNCHANGED <<option, mapped, free_queue, cache, status>>
  BY DEF HugeFree, memory
<1>4. \A r \in Segment : InUse(r)' = InUse(r) /\ Orphans(r)' = Orphans(r)
  BY <1>1, <1>2, <1>3, FieldsHuge
<1>5. PICK A \in SUBSET Segment : A = {s}
  OBVIOUS
<1>6. \A r \in Segment \ A : Unchanged(r) /\ StatusKept(r)
  BY <1>1, <1>2, <1>3, <1>4, <1>5 DEF TypeOK, Unchanged, StatusKept, Cached
<1>7. Tended(s)'
  BY <1>2, <1>3 DEF Tended
<1>8. InHand(s)'
  BY <1>2, <1>4 DEF InHand
<1>9. cur'.ret = "idle"
  BY <1>2 DEF NoCall
<1>10. Alone'
  BY <1>3 DEF Alone, Searching
<1>11. Undisturbed' => Undisturbed
  BY <1>3 DEF Undisturbed
<1>12. \A r \in A : Tended(r)' /\ InHand(r)'
  BY <1>5, <1>7, <1>8
<1>13. \A u \in Thread : status'[u] = "gone" => cache'[u] = <<>> \/ (status[u] = "gone" /\ cache'[u] = cache[u])
  BY <1>3
<1> QED
  BY <1>1, <1>3, <1>6, <1>9, <1>10, <1>11, <1>12, <1>13, LostKept DEF Abandoning

\* A page is abandoned: with the last page that has a heap, the segment is.
LEMMA LostPageAbandon ==
  ASSUME FieldsInv, NotLost, FieldsInv', NEW t \in Thread, PageAbandon(t)
  PROVE  NotLost'
<1>1. TypeOK /\ TypeOK'
  BY DEF FieldsInv
<1>2. pc = "idle" /\ status[t] = "exiting"
  BY DEF PageAbandon
<1>3. \E s \in Segment, p \in Unit :
        /\ AbandonOf(t, s, p)
        /\ IF used[s] = abandoned[s] + 1
             THEN pc' = "delay_abandon" /\ cur' = [NoCall EXCEPT !.s = s]
             ELSE pc' = pc
  BY DEF PageAbandon, AbandonOf
<1>4. PICK s \in Segment, p \in Unit :
        /\ AbandonOf(t, s, p)
        /\ IF used[s] = abandoned[s] + 1
             THEN pc' = "delay_abandon" /\ cur' = [NoCall EXCEPT !.s = s]
             ELSE pc' = pc
  BY <1>3
<1>5. /\ thread_id[s] = t /\ p \in InUse(s) /\ page' = [page EXCEPT ![s][p].heap = NULL]
      /\ abandoned' = [abandoned EXCEPT ![s] = @ + 1] /\ used' = used
      /\ UNCHANGED <<option, kind, thread_id, mapped, cache, status>>
  BY <1>4 DEF AbandonOf, memory, tld
<1>6. /\ \A r \in Segment : InUse(r)' = InUse(r)
      /\ mapped[s] /\ kind[s] # "huge" /\ abandoned'[s] = Cardinality(Orphans(s)')
  BY <1>1, <1>4, FieldsAbandonPage
<1>7. \A r \in Segment : r # s => page'[r] = page[r]
  BY <1>1, <1>5 DEF TypeOK
<1>8. \A r \in Segment : r # s => Orphans(r)' = Orphans(r)
  BY <1>6, <1>7 DEF Orphans
<1>9. PICK A \in SUBSET Segment : A = {s}
  OBVIOUS
<1>10. \A r \in Segment \ A : Unchanged(r) /\ StatusKept(r)
  BY <1>5, <1>6, <1>8, <1>9 DEF Unchanged, StatusKept, Cached
<1>11. Tended(s)'
  <2>1. SUFFICES ASSUME Orphans(s)' = InUse(s)'
                 PROVE  pc' \in Abandoning /\ s = cur'.s
    BY <1>2, <1>5 DEF Tended
  <2>2. used[s] = abandoned[s] + 1
    <3>1. used[s] = Cardinality(InUse(s)) /\ abandoned[s] \in Nat
      BY <1>1, <1>6 DEF FieldsInv, SegmentFields, TypeOK
    <3>2. abandoned'[s] = abandoned[s] + 1
      BY <1>1, <1>5 DEF TypeOK
    <3> QED
      BY <1>6, <2>1, <3>1, <3>2
  <2> QED
    BY <1>4, <2>2 DEF Abandoning, NoCall
<1>12. InHand(s)'
  BY <1>5, <1>6 DEF InHand
<1>13. pc' \in {"delay_abandon", "idle"}
  BY <1>2, <1>4
<1>14. Alone'
  BY <1>13 DEF Alone, Searching
<1>15. Undisturbed' => Undisturbed
  BY <1>5 DEF Undisturbed
<1>16. \A r \in A : Tended(r)' /\ InHand(r)'
  BY <1>9, <1>11, <1>12
<1>17. \A u \in Thread : status'[u] = "gone" => cache'[u] = <<>> \/ (status[u] = "gone" /\ cache'[u] = cache[u])
  BY <1>5
<1> QED
  BY <1>1, <1>2, <1>10, <1>13, <1>14, <1>15, <1>16, <1>17, LostKept DEF Abandoning

\* A segment is abandoned: it is nobody's.
LEMMA LostAbandonSegment ==
  ASSUME FieldsInv, NotLost, FieldsInv', AbandonSegment
  PROVE  NotLost'
<1>1. TypeOK /\ TypeOK'
  BY DEF FieldsInv
<1>2. PICK s \in Segment : s = cur.s
  BY <1>1 DEF AbandonSegment, TypeOK
<1>3. /\ pc = "abandon" /\ pc' = "idle" /\ InUse(s) # {}
      /\ thread_id' = [thread_id EXCEPT ![s] = NULL]
      /\ UNCHANGED <<option, kind, mapped, cache, status>>
  BY <1>2 DEF AbandonSegment, Finish, FieldsInv, Role, Abandoning
<1>4. \A r \in Segment : InUse(r)' = InUse(r) /\ Orphans(r)' = Orphans(r)
  BY <1>1, FieldsAbandonSegment
<1>5. PICK A \in SUBSET Segment : A = {s}
  OBVIOUS
<1>6. \A r \in Segment \ A : thread_id'[r] = thread_id[r]
  BY <1>1, <1>3, <1>5 DEF TypeOK
<1>7. \A r \in Segment \ A : Unchanged(r) /\ StatusKept(r)
  BY <1>3, <1>4, <1>6 DEF Unchanged, StatusKept, Cached
<1>8. thread_id'[s] = NULL
  BY <1>1, <1>3 DEF TypeOK
<1>9. \A r \in A : Tended(r)' /\ InHand(r)'
  BY <1>3, <1>4, <1>5, <1>8 DEF Tended, InHand
<1>10. Alone'
  BY <1>3 DEF Alone, Searching
<1>11. Undisturbed' => Undisturbed
  BY <1>3 DEF Undisturbed
<1>12. \A u \in Thread : status'[u] = "gone" => cache'[u] = <<>> \/ (status[u] = "gone" /\ cache'[u] = cache[u])
  BY <1>3
<1>13. \A r \in Segment \ A : r # cur.s
  BY <1>2, <1>5
<1> QED
  BY <1>1, <1>3, <1>7, <1>9, <1>10, <1>11, <1>12, <1>13, LostKept

\* A page of the segment in hand is claimed; without a refused commit there is one.
LEMMA LostClaim ==
  ASSUME FieldsInv, NotLost, FieldsInv', Claim
  PROVE  NotLost'
<1>1. TypeOK /\ TypeOK'
  BY DEF FieldsInv
<1>2. /\ pc = "claim" /\ pc' = "delay_alloc"
      /\ UNCHANGED <<option, kind, thread_id, mapped, cache, status, me, cur>>
  BY ClaimSteps
<1>3. PICK s \in Segment, t \in Thread : s = cur.s /\ t = me
  BY <1>1, <1>2 DEF TypeOK
<1>4. Alone'
  BY <1>2 DEF Alone, Searching
<1>5. Undisturbed' => Undisturbed
  BY <1>2 DEF Undisturbed
<1>6. \A r \in Segment : StatusKept(r)
  BY <1>2 DEF StatusKept
<1>7. PICK A \in SUBSET Segment : A = {s}
  OBVIOUS
<1>8. ASSUME \A r \in Segment \ A : Unchanged(r), Tended(s)', Undisturbed' => InHand(s)'
      PROVE  NotLost'
  <2>1. \A r \in Segment \ A : r # cur.s
    BY <1>3, <1>7
  <2>2. (\A r \in A : Tended(r)') /\ (Undisturbed' => \A r \in A : InHand(r)')
    BY <1>7, <1>8
  <2>3. \A u \in Thread : status'[u] = "gone" => cache'[u] = <<>> \/ (status[u] = "gone" /\ cache'[u] = cache[u])
    BY <1>2
  <2> QED
    BY <1>1, <1>2, <1>4, <1>5, <1>6, <1>8, <2>1, <2>2, <2>3, LostKept
<1>9. CASE option.commit_fails /\ UNCHANGED <<page, backed, used, pages_reset, free_queue>>
  <2>1. \A r \in Segment : InUse(r)' = InUse(r) /\ Orphans(r)' = Orphans(r)
    BY <1>2, <1>9 DEF InUse, Orphans, Pages
  <2>2. \A r \in Segment : Unchanged(r)
    BY <1>2, <2>1 DEF Unchanged, Cached
  <2>3. ~Undisturbed'
    BY <1>2, <1>9 DEF Undisturbed
  <2>4. Tended(s)'
    <3>1. Tended(s)
      BY DEF NotLost
    <3>2. pc \notin Abandoning
      BY <1>2 DEF Abandoning
    <3> QED
      BY <1>1, <1>6, <2>2, <3>1, <3>2, TendedKept
  <2> QED
    BY <1>8, <2>2, <2>3, <2>4
<1>10. CASE \E p \in Pages(cur.s) \ InUse(cur.s) : ClaimOf(cur.s, p)
  <2>1. Pages(s) \subseteq Unit /\ InUse(s) \subseteq Pages(s)
    BY <1>1, PageSets
  <2>2. PICK p \in Unit : p \in Pages(s) /\ p \notin InUse(s) /\ ClaimOf(s, p)
    BY <1>3, <1>10, <2>1
  <2>3. PICK pg \in Page : pg = [in_use |-> TRUE, committed |-> TRUE, reset |-> FALSE,
                                 heap |-> IF kind[s] = "huge" THEN NULL ELSE t]
    <3>1. [in_use |-> TRUE, committed |-> TRUE, reset |-> FALSE,
           heap |-> IF kind[s] = "huge" THEN NULL ELSE t] \in Page
      BY <1>3 DEF Page
    <3> QED
      BY <3>1
  <2>4. page' = [page EXCEPT ![s][p] = pg] /\ pg.in_use /\ (kind[s] # "huge" => pg.heap = t)
    BY <1>3, <2>2, <2>3 DEF ClaimOf
  <2>5. /\ \A q \in Unit : q # p => page'[s][q] = page[s][q]
        /\ page'[s][p] = pg
        /\ \A r \in Segment : r # s => page'[r] = page[r]
    BY <1>1, <2>4, PageSet
  <2>6. InUse(s)' = InUse(s) \cup {p}
    BY <1>2, <2>1, <2>2, <2>4, <2>5 DEF InUse, Pages
  <2>7. \A r \in Segment : r # s => InUse(r)' = InUse(r) /\ Orphans(r)' = Orphans(r)
    BY <1>2, <2>5 DEF InUse, Orphans, Pages
  <2>8. \A r \in Segment \ A : Unchanged(r)
    BY <1>2, <1>7, <2>7 DEF Unchanged, Cached
  <2>9. InHand(s)'
    BY <2>6 DEF InHand
  <2>10. Tended(s)'
    <3>1. SUFFICES ASSUME mapped'[s], thread_id'[s] # NULL, kind'[s] # "huge"
                   PROVE  /\ Orphans(s)' # InUse(s)'
                          /\ Orphans(s)' # {} => status'[thread_id'[s]] # "alive"
                          /\ status'[thread_id'[s]] # "gone"
      BY DEF Tended
    <3>2. mapped[s] /\ thread_id[s] # NULL /\ kind[s] # "huge"
      BY <1>2, <3>1
    <3>3. pg.heap # NULL
      BY <2>4, <3>2, NULLAssumption
    <3>4. p \notin Orphans(s)' /\ p \in InUse(s)'
      BY <2>5, <2>6, <3>3 DEF Orphans
    <3>5. Orphans(s)' \subseteq Orphans(s)
      BY <2>1, <2>5, <2>6, <3>4 DEF Orphans
    <3>6. thread_id[s] = t /\ status[t] # "gone"
      BY <1>2, <1>3, <3>2 DEF FieldsInv, Role
    <3>7. Orphans(s) # {} => status[t] # "alive"
      BY <3>2, <3>6 DEF NotLost, Tended
    <3> QED
      BY <1>2, <3>4, <3>5, <3>6, <3>7
  <2> QED
    BY <1>8, <2>8, <2>9, <2>10
<1> QED
  BY <1>9, <1>10, ClaimSteps

\* mi_segment_alloc: the page is taken from the new segment, for the thread had
\* none with a free page.
LEMMA LostFresh ==
  ASSUME FieldsInv, NotLost, FieldsInv', Fresh
  PROVE  NotLost'
<1>1. TypeOK /\ TypeOK'
  BY DEF FieldsInv
<1>2. pc = "fresh" /\ UNCHANGED <<option, abandoned_list, me>>
  BY FreshSteps
<1>3. Undisturbed' => Undisturbed
  BY <1>2 DEF Undisturbed
<1>4. CASE pc' = "delay_alloc" /\ UNCHANGED <<segment, memory, tld, cur>>
  <2>1. /\ UNCHANGED <<segment, memory, abandoned_list>>
        /\ UNCHANGED <<cache, status>>
    BY <1>2, <1>4 DEF tld
  <2>2. \A s \in Segment : StatusKept(s)
    BY <2>1 DEF StatusKept
  <2>3. Alone'
    BY <1>4 DEF Alone, Searching
  <2> QED
    BY <1>2, <1>3, <1>4, <2>1, <2>2, <2>3, LostSame DEF Abandoning
<1>5. ASSUME NEW s \in Segment, NEW anew \in BOOLEAN, NEW large \in BOOLEAN, FreshOf(s, anew, large)
      PROVE  NotLost'
  <2>1. PICK t \in Thread, k \in PageKind : t = me /\ k = cur.k
    BY <1>1, <1>2 DEF TypeOK, Call
  <2>2. /\ mapped' = [mapped EXCEPT ![s] = TRUE]
        /\ kind' = [kind EXCEPT ![s] = k]
        /\ IF k = "huge" THEN thread_id' = [thread_id EXCEPT ![s] = NULL]
                         ELSE thread_id' = [thread_id EXCEPT ![s] = t]
        /\ cur' = [cur EXCEPT !.s = IF k \in Queued /\ free_queue[t][k] # <<>>
                                     THEN Head(free_queue[t][k]) ELSE s]
        /\ pc' = "claim" /\ UNCHANGED <<cache, status>>
    BY <1>5, <2>1 DEF FreshOf
  <2>3. PICK pg : page' = [page EXCEPT ![s] = pg] /\ \A p \in Unit : ~pg[p].in_use
    <3>1. PICK b \in BOOLEAN : b = FreshCommit(s, anew, large)
      BY DEF FreshCommit
    <3>2. page' = [page EXCEPT ![s] = NewPages(k, b)]
      BY <1>5, <2>1, <3>1 DEF FreshOf
    <3> QED
      BY <3>2, NewPagesFree
  <2>4. PICK A \in SUBSET Segment : A = {s}
    OBVIOUS
  <2>5. \A r \in Segment \ A : /\ mapped'[r] = mapped[r] /\ kind'[r] = kind[r]
                               /\ thread_id'[r] = thread_id[r] /\ page'[r] = page[r]
    <3>1. PICK th : thread_id' = [thread_id EXCEPT ![s] = th]
      BY <2>2
    <3>2. \A r \in Segment : r # s => mapped'[r] = mapped[r] /\ kind'[r] = kind[r]
      BY <1>1, <2>2 DEF TypeOK
    <3>3. \A r \in Segment : r # s => thread_id'[r] = thread_id[r] /\ page'[r] = page[r]
      BY <1>1, <2>3, <3>1 DEF TypeOK
    <3> QED
      BY <2>4, <3>2, <3>3
  <2>6. \A r \in Segment \ A : InUse(r)' = InUse(r) /\ Orphans(r)' = Orphans(r)
    BY <2>5 DEF InUse, Orphans, Pages
  <2>7. \A r \in Segment \ A : Unchanged(r) /\ StatusKept(r)
    BY <2>2, <2>5, <2>6 DEF Unchanged, StatusKept, Cached
  <2>8. InUse(s)' = {} /\ Orphans(s)' = {}
    <3>1. \A p \in Unit : ~page'[s][p].in_use
      BY <1>1, <2>3 DEF TypeOK
    <3>2. Pages(s)' \subseteq Unit
      <4>1. kind'[s] = k
        BY <1>1, <2>2 DEF TypeOK
      <4> QED
        BY <4>1, CapacityFacts DEF Pages
    <3> QED
      BY <3>1, <3>2 DEF InUse, Orphans
  <2>9. Tended(s)'
    BY <2>8 DEF Tended
  <2>10. Undisturbed' => InHand(s)'
    <3>1. SUFFICES ASSUME Undisturbed
                   PROVE  cur'.s = s
      BY <1>3, <2>2 DEF InHand
    <3>2. cur \in Call
      BY <1>1 DEF TypeOK
    <3>3. k \in Queued => free_queue[t][k] = <<>>
      <4>1. SUFFICES ASSUME k \in Queued
                     PROVE  free_queue[t][k] = <<>>
        OBVIOUS
      <4>2. \A r \in Segment : ~InQueue(t, k, r)
        BY <1>2, <2>1, <3>1, <4>1 DEF NotLost, Alone, Searching
      <4>3. PICK q \in Seq(Segment) : q = free_queue[t][k] /\ \A i \in DOMAIN q : q[i] \in Segment
        BY <1>1, <4>1, QueueTypes
      <4>4. \A i \in DOMAIN q : FALSE
        BY <4>1, <4>2, <4>3 DEF InQueue
      <4> QED
        BY <4>3, <4>4, EmptyQueue
    <3> QED
      BY <2>2, <3>2, <3>3 DEF Call
  <2>11. Alone'
    BY <2>2 DEF Alone, Searching
  <2>12. (\A r \in A : Tended(r)') /\ (Undisturbed' => \A r \in A : InHand(r)')
    BY <2>4, <2>9, <2>10
  <2>13. \A u \in Thread : status'[u] = "gone" => cache'[u] = <<>> \/ (status[u] = "gone" /\ cache'[u] = cache[u])
    BY <2>2
  <2> QED
    BY <1>1, <1>2, <1>3, <2>2, <2>7, <2>11, <2>12, <2>13, LostKept DEF Abandoning
<1> QED
  BY <1>4, <1>5, FreshSteps

\* A segment is taken from the cache; its page is claimed next.
LEMMA LostCacheReuse ==
  ASSUME FieldsInv, NotLost, FieldsInv', NEW t \in Thread, NEW k \in Kinds, CacheReuse(t, k)
  PROVE  NotLost'
<1>1. TypeOK /\ TypeOK'
  BY DEF FieldsInv
<1>2. PICK s : s = Head(cache[t]) /\ CacheReuseOf(t, k, s)
  BY <1>1, CacheReuseDoes
<1>3. /\ s \in Segment /\ s = cache[t][1] /\ 1 \in DOMAIN cache[t]
      /\ thread_id[s] = t /\ mapped[s] /\ InUse(s) = {} /\ Cached(s)
  BY <1>2, CacheHead DEF CacheReuseOf
<1>4. /\ pc = "idle" /\ pc' = "claim" /\ status[t] = "alive" /\ cache[t] # <<>>
      /\ kind' = [kind EXCEPT ![s] = k] /\ thread_id' = [thread_id EXCEPT ![s] = t]
      /\ cache' = [cache EXCEPT ![t] = Tail(@)]
      /\ page' = page \/ page' = [page EXCEPT ![s] = NewPages(k, Eager(t, k))]
      /\ cur' = [NoCall EXCEPT !.k = k, !.s = s]
      /\ UNCHANGED <<option, mapped, status>>
  BY <1>2 DEF CacheReuseOf
<1>5. PICK A \in SUBSET Segment : A = {s}
  BY <1>3
<1>6. \A r \in Segment \ A : page'[r] = page[r] /\ kind'[r] = kind[r] /\ thread_id'[r] = thread_id[r]
  <2>1. PICK pg : page' = page \/ page' = [page EXCEPT ![s] = pg]
    BY <1>4
  <2> QED
    BY <1>1, <1>3, <1>4, <1>5, <2>1 DEF TypeOK
<1>7. \A u \in Thread : u # t => cache'[u] = cache[u]
  BY <1>1, <1>4 DEF TypeOK
<1>8. \A r \in Segment : r # s /\ Cached(r) => Cached(r)'
  <2>1. SUFFICES ASSUME NEW r \in Segment, r # s, Cached(r)
                 PROVE  Cached(r)'
    OBVIOUS
  <2>2. PICK u \in Thread : \E i \in DOMAIN cache[u] : cache[u][i] = r
    BY <2>1 DEF Cached
  <2>3. CASE u # t
    BY <1>7, <2>2, <2>3 DEF Cached
  <2>4. CASE u = t
    <3>1. PICK i \in DOMAIN cache[t] : cache[t][i] = r
      BY <2>2, <2>4
    <3>2. PICK q \in Seq(Segment) : q = cache[t]
      BY <1>1, QueueTypes
    <3>3. cache'[t] = Tail(q) /\ q # <<>>
      BY <1>1, <1>4, <3>2 DEF TypeOK
    <3>4. i \in 1 .. Len(q) /\ i # 1
      BY <1>3, <2>1, <3>1, <3>2
    <3>5. i - 1 \in DOMAIN Tail(q) /\ Tail(q)[i - 1] = q[i]
      BY <3>2, <3>3, <3>4
    <3> QED
      BY <3>1, <3>2, <3>3, <3>5 DEF Cached
  <2> QED
    BY <2>3, <2>4
<1>9. \A r \in Segment \ A : InUse(r)' = InUse(r) /\ Orphans(r)' = Orphans(r)
  BY <1>6 DEF InUse, Orphans, Pages
<1>10. \A r \in Segment \ A : Unchanged(r) /\ StatusKept(r)
  BY <1>4, <1>5, <1>6, <1>8, <1>9 DEF Unchanged, StatusKept
<1>11. Orphans(s)' = {} /\ InUse(s)' = {}
  <2>1. \A p \in Unit : ~page'[s][p].in_use
    <3>1. CASE page' = page
      <4>1. \A p \in Unit : ~page[s][p].in_use
        BY <1>1, <1>3, EmptyPages DEF FieldsInv
      <4> QED
        BY <3>1, <4>1
    <3>2. CASE page' = [page EXCEPT ![s] = NewPages(k, Eager(t, k))]
      <4>1. PICK b \in BOOLEAN : b = Eager(t, k)
        BY <1>1 DEF Eager, TypeOK, Option
      <4>2. page'[s] = NewPages(k, b)
        BY <1>1, <1>3, <3>2, <4>1 DEF TypeOK
      <4> QED
        BY <4>2, NewPagesFree
    <3> QED
      BY <1>4, <3>1, <3>2
  <2>2. Pages(s)' \subseteq Unit
    <3>1. kind'[s] = k /\ k \in PageKind
      BY <1>1, <1>3, <1>4, OptionAssumption DEF TypeOK
    <3> QED
      BY <3>1, CapacityFacts DEF Pages
  <2> QED
    BY <2>1, <2>2 DEF InUse, Orphans
<1>12. Tended(s)'
  BY <1>11 DEF Tended
<1>13. InHand(s)'
  BY <1>4 DEF InHand, NoCall
<1>14. \A r \in A : Tended(r)' /\ InHand(r)'
  BY <1>5, <1>12, <1>13
<1>15. Alone'
  BY <1>4 DEF Alone, Searching
<1>16. Undisturbed' => Undisturbed
  BY <1>4 DEF Undisturbed
<1>17. \A u \in Thread : status'[u] = "gone" => cache'[u] = <<>> \/ (status[u] = "gone" /\ cache'[u] = cache[u])
  BY <1>4, <1>7
<1> QED
  BY <1>1, <1>4, <1>10, <1>14, <1>15, <1>16, <1>17, LostKept DEF Abandoning

\* A segment is reclaimed: its pages are of the heap of the thread, and when
\* none is left, the call goes on to free it.
LEMMA LostReclaim ==
  ASSUME FieldsInv, NotLost, FieldsInv', NEW s \in abandoned_list, NEW F \in SUBSET InUse(s),
         ReclaimStep(s, F), pc \in {"try", "reclaim_all"}
  PROVE  NotLost'
<1>1. TypeOK /\ TypeOK' /\ s \in Segment
  BY DEF FieldsInv, TypeOK
<1>2. PICK t \in Thread : t = me
  BY <1>1 DEF TypeOK
<1>3. /\ thread_id' = [thread_id EXCEPT ![s] = t]
      /\ UNCHANGED <<option, kind, mapped, cache, status, me>>
  BY <1>2 DEF ReclaimStep, ReclaimFields
<1>4. /\ \A r \in Segment : r # s => InUse(r)' = InUse(r) /\ Orphans(r)' = Orphans(r)
      /\ InUse(s)' = InUse(s) \ F /\ Orphans(s)' = {} /\ Pages(s)' = Pages(s)
      /\ mapped[s] /\ kind[s] # "huge" /\ thread_id[s] = NULL /\ thread_id'[s] = t
      /\ used'[s] = Cardinality(InUse(s) \ F)
  BY <1>1, <1>2, FieldsReclaim
<1>5. PICK A \in SUBSET Segment : A = {s}
  BY <1>1
<1>6. \A r \in Segment \ A : Unchanged(r) /\ StatusKept(r)
  <2>1. \A r \in Segment \ A : thread_id'[r] = thread_id[r]
    BY <1>1, <1>3, <1>5 DEF TypeOK
  <2> QED
    BY <1>3, <1>4, <1>5, <2>1 DEF Unchanged, StatusKept, Cached
<1>7. status[t] # "gone"
  BY <1>2 DEF FieldsInv, Role
<1>8. Tended(s)'
  <2>1. InUse(s)' # {} => Orphans(s)' # InUse(s)'
    BY <1>4
  <2>2. status'[thread_id'[s]] # "gone"
    BY <1>3, <1>4, <1>7
  <2> QED
    BY <1>4, <2>1, <2>2 DEF Tended
<1>9. cur \in Call
  BY <1>1 DEF TypeOK
<1>10. InHand(s)'
  <2>1. CASE FreedEmpty(s, F)
    <3>1. pc' = "free" /\ cur'.s = s
      BY <1>9, <2>1 DEF FreedEmpty, Call
    <3> QED
      BY <3>1 DEF InHand
  <2>2. CASE F # InUse(s)
    <3>1. InUse(s)' # {}
      BY <1>4, <2>2
    <3> QED
      BY <3>1 DEF InHand
  <2> QED
    BY <2>1, <2>2 DEF ReclaimStep, TookPage, TookSegment, PassedBy
<1>11. Undisturbed' => Undisturbed
  BY <1>3 DEF Undisturbed
<1>12. ASSUME Undisturbed
       PROVE  Alone'
  <2>1. Alone /\ ~option.late_frees
    BY <1>12 DEF NotLost, Undisturbed
  <2>2. CASE TookPage(s, F) \/ TookSegment(s, F)
    BY <2>2 DEF TookPage, TookSegment, Alone, Searching
  <2>3. CASE FreedEmpty(s, F)
    <3>1. cur'.k = cur.k /\ free_queue' = free_queue
      BY <1>9, <2>3 DEF FreedEmpty, Call
    <3>2. Searching' => Searching
      <4>1. CASE pc = "try"
        BY <3>1, <4>1 DEF Searching
      <4>2. CASE pc # "try"
        <5>1. pc' = "free" /\ cur'.ret = "reclaim_all"
          BY <1>9, <2>3, <4>2 DEF FreedEmpty, Call
        <5> QED
          BY <5>1 DEF Searching
      <4> QED
        BY <4>1, <4>2
    <3>3. \A k \in Queued, r \in Segment : k = cur.k => (InQueue(t, k, r)' => InQueue(t, k, r))
      BY <3>1 DEF InQueue
    <3> QED
      BY <1>1, <1>2, <1>3, <2>1, <3>1, <3>2, <3>3, AloneStays
  <2>4. CASE PassedBy(s, F)
    <3>1. pc' = pc /\ cur' = cur
      BY <2>4 DEF PassedBy
    <3>2. CASE pc = "reclaim_all"
      BY <3>1, <3>2 DEF Alone, Searching
    <3>3. CASE pc = "try"
      <4>1. kind[s] # cur.k \/ (F = {} /\ InUse(s) = Pages(s))
        BY <2>1, <2>4, <3>3 DEF PassedBy
      <4>2. \A k \in Queued, r \in Segment : k = cur.k => (InQueue(t, k, r)' => InQueue(t, k, r))
        <5>1. CASE free_queue' = free_queue
          BY <5>1 DEF InQueue
        <5>2. CASE kind[s] \in Queued /\ used'[s] < Capacity[kind[s]] /\ Enqueue(t, s)
          <6>1. PICK c \in Queued : c = kind[s] /\ free_queue' = [free_queue EXCEPT ![t][c] = Append(@, s)]
            BY <5>2 DEF Enqueue
          <6>2. \A k \in Queued, r \in Segment :
                  InQueue(t, k, r)' => InQueue(t, k, r) \/ (k = c /\ r = s)
            <7>1. \A u \in Thread, k \in Queued, r \in Segment :
                    InQueue(u, k, r)' => InQueue(u, k, r) \/ (u = t /\ k = c /\ r = s)
              <8>1. TypeOK /\ t \in Thread /\ s \in Segment
                BY <1>1
              <8>2. Adds(t, c, s)
                BY <6>1 DEF Adds
              <8> QED
                BY <8>1, <8>2, Enqueued
            <7> QED
              BY <7>1
          <6>3. ~(F = {} /\ InUse(s) = Pages(s))
            <7>1. Cardinality(Pages(s)) = Capacity[kind[s]] /\ Capacity[kind[s]] \in Nat
              BY <1>1, PageSets
            <7>2. F = {} => InUse(s) \ F = InUse(s)
              OBVIOUS
            <7> QED
              BY <1>4, <5>2, <7>1, <7>2
          <6> QED
            BY <4>1, <6>1, <6>2, <6>3
        <5> QED
          BY <1>2, <2>4, <5>1, <5>2 DEF PassedBy, ReclaimQueue
      <4>3. Searching' => Searching
        BY <3>1 DEF Searching
      <4> QED
        BY <1>1, <1>2, <1>3, <2>1, <3>1, <4>2, <4>3, AloneStays
    <3> QED
      BY <3>2, <3>3
  <2> QED
    BY <2>2, <2>3, <2>4 DEF ReclaimStep
<1>13. \A r \in A : Tended(r)' /\ InHand(r)'
  BY <1>5, <1>8, <1>10
<1>14. \A u \in Thread : status'[u] = "gone" => cache'[u] = <<>> \/ (status[u] = "gone" /\ cache'[u] = cache[u])
  BY <1>3
<1>15. pc' \notin {"delay_free", "clear"}
  BY DEF ReclaimStep, FreedEmpty, TookPage, TookSegment, PassedBy
<1>16. pc \notin Abandoning /\ pc \notin {"claim", "free"}
  BY DEF Abandoning
<1>17. Undisturbed' => Alone'
  BY <1>11, <1>12
<1> QED
  BY <1>1, <1>6, <1>11, <1>13, <1>14, <1>15, <1>16, <1>17, LostKept

\* the searches of abandoned segments
LEMMA LostReclaims ==
  ASSUME FieldsInv, NotLost, FieldsInv', TryReclaim \/ ReclaimAll
  PROVE  NotLost'
<1>1. TypeOK
  BY DEF FieldsInv
<1>2. pc \in {"try", "reclaim_all"}
  BY DEF TryReclaim, ReclaimAll
<1>3. CASE /\ pc = "reclaim_all" /\ abandoned_list = {} /\ Finish
           /\ UNCHANGED <<option, segment, memory, abandoned_list, tld>>
  <2>1. /\ UNCHANGED <<segment, memory, abandoned_list>>
        /\ UNCHANGED <<option, cache, status>> /\ pc' = "idle"
    BY <1>3 DEF tld, Finish
  <2>2. \A s \in Segment : StatusKept(s)
    BY <2>1 DEF StatusKept
  <2>3. Alone'
    BY <2>1 DEF Alone, Searching
  <2>4. Undisturbed' => Undisturbed
    BY <2>1 DEF Undisturbed
  <2> QED
    BY <1>3, <2>1, <2>2, <2>3, <2>4, LostSame DEF Abandoning
<1>4. CASE \E s \in abandoned_list : \E F \in SUBSET InUse(s) : ReclaimStep(s, F)
  BY <1>2, <1>4, LostReclaim
<1> QED
  BY <1>1, <1>3, <1>4, ReclaimSteps

\* A page is cleared: what is left of the segment is freed or abandoned when
\* no heap has a page of it any more.
LEMMA LostPageClear ==
  ASSUME FieldsInv, NotLost, FieldsInv', PageClear
  PROVE  NotLost'
<1>1. TypeOK /\ TypeOK'
  BY DEF FieldsInv
<1>2. /\ pc = "clear" /\ cur.ret = "idle"
      /\ UNCHANGED <<option, kind, abandoned, thread_id, mapped, cache, status>>
  BY PageClearSteps DEF NotLost
<1>3. PICK s \in Segment, p \in Unit, t \in Thread : s = cur.s /\ p = cur.p /\ t = me
  BY <1>2, ClearFacts
<1>4. /\ p \in InUse(s) /\ mapped[s] /\ thread_id[s] = t /\ ~Cached(s)
      /\ kind[s] # "huge" => page[s][p].heap # NULL
      /\ Cardinality(InUse(s) \ {p}) = used[s] - 1
  BY <1>2, <1>3, ClearFacts
<1>5. /\ \A r \in Segment : r # s => InUse(r)' = InUse(r) /\ Orphans(r)' = Orphans(r)
      /\ InUse(s)' = InUse(s) \ {p} /\ Orphans(s)' = Orphans(s) \ {p}
  BY <1>1, <1>3, FieldsClear
<1>6. \/ used[s] - 1 = 0 /\ pc' = "free" /\ cur' = cur
      \/ used[s] - 1 # 0 /\ used[s] - 1 = abandoned[s] /\ pc' = "delay_abandon" /\ cur' = cur
      \/ used[s] - 1 # 0 /\ used[s] - 1 # abandoned[s] /\ pc' = "idle"
  BY <1>3, PageClearSteps DEF Finish
<1>7. PICK A \in SUBSET Segment : A = {s}
  OBVIOUS
<1>8. \A r \in Segment \ A : Unchanged(r) /\ StatusKept(r)
  BY <1>2, <1>5, <1>7 DEF Unchanged, StatusKept, Cached
<1>9. Tended(s)'
  <2>1. SUFFICES ASSUME kind[s] # "huge"
                 PROVE  /\ InUse(s)' # {} /\ Orphans(s)' = InUse(s)' => pc' \in Abandoning /\ s = cur'.s
                        /\ Orphans(s)' # {} => status'[thread_id'[s]] # "alive"
                        /\ status'[thread_id'[s]] # "gone"
    BY <1>2 DEF Tended
  <2>2. Orphans(s)' = Orphans(s)
    BY <1>4, <1>5, <2>1 DEF Orphans
  <2>3. abandoned[s] = Cardinality(Orphans(s)) /\ used[s] \in Nat /\ IsFiniteSet(InUse(s))
    <3>1. abandoned[s] = Cardinality(Orphans(s))
      BY <1>4, <2>1 DEF FieldsInv, SegmentFields
    <3>2. used[s] \in Nat
      BY <1>1 DEF TypeOK
    <3>3. IsFiniteSet(InUse(s))
      BY <1>1, PageSets
    <3> QED
      BY <3>1, <3>2, <3>3
  <2>4. ASSUME InUse(s)' # {}, Orphans(s)' = InUse(s)'
        PROVE  pc' \in Abandoning /\ s = cur'.s
    <3>1. used[s] - 1 = abandoned[s]
      BY <1>4, <1>5, <2>2, <2>3, <2>4
    <3>2. used[s] - 1 # 0
      <4>1. IsFiniteSet(InUse(s) \ {p})
        BY <2>3, FS_RemoveElement
      <4>2. InUse(s) \ {p} # {}
        BY <1>5, <2>4
      <4> QED
        BY <1>4, <4>1, <4>2, FS_EmptySet
    <3> QED
      BY <1>3, <1>6, <3>1, <3>2 DEF Abandoning
  <2>5. Orphans(s) # {} => status[t] # "alive"
    BY <1>4, <2>1, NULLAssumption DEF NotLost, Tended
  <2>6. status[t] # "gone"
    BY <1>2, <1>3 DEF FieldsInv, Role
  <2> QED
    BY <1>2, <1>4, <2>2, <2>4, <2>5, <2>6
<1>10. InHand(s)'
  <2>1. SUFFICES ASSUME InUse(s)' = {}
                 PROVE  pc' = "free" /\ s = cur'.s
    BY DEF InHand
  <2>2. used[s] - 1 = 0
    BY <1>4, <1>5, <2>1, FS_EmptySet
  <2> QED
    BY <1>3, <1>6, <2>2
<1>11. Alone'
  BY <1>2, <1>6 DEF Alone, Searching
<1>12. Undisturbed' => Undisturbed
  BY <1>2 DEF Undisturbed
<1>13. \A r \in A : Tended(r)' /\ InHand(r)'
  BY <1>7, <1>9, <1>10
<1>14. \A u \in Thread : status'[u] = "gone" => cache'[u] = <<>> \/ (status[u] = "gone" /\ cache'[u] = cache[u])
  BY <1>2
<1>15. pc' \notin {"delay_free", "clear"}
  BY <1>6
<1> QED
  BY <1>1, <1>2, <1>8, <1>11, <1>12, <1>13, <1>14, <1>15, LostKept DEF Abandoning

\* The segments that mi_segment_free gives to the OS are nobody's, and the one
\* it keeps is in the cache.
LEMMA LostSegmentFree ==
  ASSUME FieldsInv, NotLost, FieldsInv', SegmentFree
  PROVE  NotLost'
<1>1. TypeOK /\ TypeOK'
  BY DEF FieldsInv
<1>2. PICK s \in Segment, t \in Thread, S \in SUBSET Segment, force \in BOOLEAN : FreeIs(s, t, S, force)
  BY <1>1, FreeDoes
<1>3. /\ pc = "free" /\ s = cur.s /\ t = me /\ thread_id[s] = t /\ InUse(s) = {}
      /\ Dequeue(t, s)
      /\ UNCHANGED <<option, status>>
      /\ IF cur.ret = "idle" THEN Finish
         ELSE pc' = cur.ret /\ cur' = [cur EXCEPT !.s = NULL] /\ me' = me
  BY <1>2, SegmentFreeSteps DEF FreeIs
<1>4. PICK A \in SUBSET Segment : A = S \cup {s}
  OBVIOUS
<1>5. /\ \A r \in S : ~mapped'[r] /\ thread_id'[r] = NULL
      /\ s \notin S => Cached(s)'
      /\ \A r \in Segment \ A : /\ thread_id'[r] = thread_id[r] /\ kind'[r] = kind[r]
                                /\ mapped'[r] = mapped[r] /\ page'[r] = PagesReset(s, force)[r]
                                /\ Cached(r) => Cached(r)'
  BY <1>2, <1>4 DEF FreeIs
<1>6. \A r \in Segment : r # s => PagesReset(s, force)[r] = page[r]
  BY <1>1, PagesResetType
<1>7. \A r \in Segment \ A : InUse(r)' = InUse(r) /\ Orphans(r)' = Orphans(r)
  BY <1>4, <1>5, <1>6 DEF InUse, Orphans, Pages
<1>8. \A r \in Segment \ A : Unchanged(r) /\ StatusKept(r)
  BY <1>3, <1>5, <1>7 DEF Unchanged, StatusKept
<1>9. \A r \in A : Tended(r)' /\ InHand(r)'
  <2>1. \A r \in S : Tended(r)' /\ InHand(r)'
    BY <1>5 DEF Tended, InHand
  <2>2. ASSUME s \notin S
        PROVE  Tended(s)' /\ InHand(s)'
    <3>1. Cached(s)'
      BY <1>5, <2>2
    <3>2. InHand(s)'
      BY <3>1 DEF InHand
    <3>3. InUse(s)' = {}
      BY <3>1 DEF FieldsInv, CacheOwn, Cached
    <3>4. Orphans(s)' = {}
      BY <3>3 DEF Orphans
    <3> QED
      BY <3>2, <3>3, <3>4 DEF Tended
  <2> QED
    BY <1>4, <2>1, <2>2
<1>10. \A r \in Segment \ A : r # cur.s
  BY <1>3, <1>4
<1>11. \A u \in Thread : status'[u] = "gone" => cache'[u] = <<>> \/ (status[u] = "gone" /\ cache'[u] = cache[u])
  <2>1. SUFFICES ASSUME NEW u \in Thread, status[u] = "gone"
                 PROVE  cache'[u] = cache[u]
    BY <1>3
  <2>2. u # me
    BY <1>3, <2>1 DEF FieldsInv, Role
  <2>3. PICK q : cache' = [cache EXCEPT ![me] = q] \/ cache' = cache
    BY SegmentFreeSteps DEF FreeToCache, FreeToOs
  <2> QED
    BY <1>1, <2>1, <2>2, <2>3 DEF TypeOK
<1>12. cur \in Call
  BY <1>1 DEF TypeOK
<1>13. ASSUME Undisturbed'
       PROVE  Alone'
  <2>1. Alone
    BY <1>3, <1>13 DEF NotLost, Undisturbed
  <2>2. CASE cur.ret = "idle"
    BY <1>3, <2>2 DEF Finish, Alone, Searching
  <2>3. CASE cur.ret # "idle"
    <3>1. me' = me /\ cur'.k = cur.k /\ pc' = cur.ret
      BY <1>3, <1>12, <2>3 DEF Call
    <3>2. Searching' => Searching
      <4>1. cur.ret \in {"try", "fresh", "reclaim_all"}
        BY <1>12, <2>3 DEF Call
      <4> QED
        BY <1>3, <3>1, <4>1 DEF Searching
    <3>3. \A k \in Queued, r \in Segment : k = cur.k => (InQueue(t, k, r)' => InQueue(t, k, r))
      <4>1. \A u \in Thread, k \in Queued, r \in Segment : InQueue(u, k, r)' => InQueue(u, k, r) /\ r # s
        BY <1>1, <1>3, Dequeued
      <4> QED
        BY <4>1
    <3> QED
      BY <1>1, <1>3, <2>1, <3>1, <3>2, <3>3, AloneStays
  <2> QED
    BY <2>2, <2>3
<1>14. pc' \notin {"delay_free", "clear"}
  <2>1. cur.ret \in {"idle", "try", "fresh", "reclaim_all"}
    BY <1>12 DEF Call
  <2> QED
    BY <1>3, <2>1 DEF Finish
<1>15. Undisturbed' => Undisturbed
  BY <1>3 DEF Undisturbed
<1> QED
  BY <1>1, <1>3, <1>8, <1>9, <1>10, <1>11, <1>13, <1>14, <1>15, LostKept DEF Abandoning

\* A thread gives up its cache; one that ends has no page in use in any segment
\* that it still owns.
LEMMA LostCollect ==
  ASSUME FieldsInv, NotLost, FieldsInv', NEW t \in Thread, ThreadCollect(t)
  PROVE  NotLost'
<1>1. TypeOK /\ TypeOK'
  BY DEF FieldsInv
<1>2. PICK S \in SUBSET Segment : S = {cache[t][i] : i \in DOMAIN cache[t]}
  BY <1>1, QueueTypes
<1>3. /\ pc = "idle" /\ pc' = "idle" /\ OsFree(t, S, page, backed)
      /\ cache' = [cache EXCEPT ![t] = <<>>] /\ option' = option
      /\ \/ status' = status
         \/ /\ status' = [status EXCEPT ![t] = "gone"]
            /\ \A s \in Segment, p \in Unit : page[s][p].heap # t
  BY <1>2 DEF ThreadCollect
<1>4. PICK pg, bk : pg = page /\ bk = backed
  OBVIOUS
<1>5. OsFree(t, S, pg, bk)
  BY <1>3, <1>4
<1>6. /\ \A r \in Segment : r \notin S => /\ thread_id'[r] = thread_id[r] /\ kind'[r] = kind[r]
                                          /\ mapped'[r] = mapped[r] /\ page'[r] = pg[r]
      /\ \A r \in Segment : r \in S => ~mapped'[r] /\ thread_id'[r] = NULL
  BY <1>1, <1>5, OsFreeIs
<1>7. \A u \in Thread : cache'[u] = IF u = t THEN <<>> ELSE cache[u]
  BY <1>1, <1>3 DEF TypeOK
<1>8. \A r \in Segment : r \notin S => InUse(r)' = InUse(r) /\ Orphans(r)' = Orphans(r)
  BY <1>4, <1>6 DEF InUse, Orphans, Pages
<1>9. \A r \in Segment : r \notin S /\ Cached(r) => Cached(r)'
  <2>1. SUFFICES ASSUME NEW r \in Segment, r \notin S, Cached(r)
                 PROVE  Cached(r)'
    OBVIOUS
  <2>2. PICK u \in Thread : \E i \in DOMAIN cache[u] : cache[u][i] = r
    BY <2>1 DEF Cached
  <2>3. u # t
    BY <1>2, <2>1, <2>2
  <2> QED
    BY <1>7, <2>2, <2>3 DEF Cached
<1>10. \A r \in Segment \ S : Unchanged(r)
  BY <1>6, <1>8, <1>9 DEF Unchanged
<1>11. \A r \in Segment \ S : StatusKept(r)
  <2>1. CASE status' = status
    BY <2>1 DEF StatusKept
  <2>2. CASE /\ status' = [status EXCEPT ![t] = "gone"]
             /\ \A s \in Segment, p \in Unit : page[s][p].heap # t
    <3>1. \A u \in Thread : u # t => status'[u] = status[u]
      BY <1>1, <2>2 DEF TypeOK
    <3>2. ASSUME NEW r \in Segment, thread_id[r] = t
          PROVE  InUse(r) = {}
      <4>1. mapped[r] /\ kind[r] # "huge" /\ thread_id[r] # NULL
        <5>1. mapped[r] /\ thread_id[r] # NULL
          BY <3>2, NULLAssumption DEF FieldsInv, SegmentFields
        <5> QED
          BY <1>3, <5>1, HugeFree0 DEF Freeing
      <4>2. \A p \in InUse(r) : p \in Unit
        BY <1>1, PageSets
      <4>3. \A p \in InUse(r) : page[r][p].heap = NULL
        BY <2>2, <3>2, <4>2 DEF FieldsInv, SegmentFields
      <4>4. Orphans(r) = InUse(r)
        BY <4>3 DEF Orphans
      <4> QED
        BY <1>3, <4>1, <4>4 DEF NotLost, Tended, Abandoning
    <3> QED
      BY <3>1, <3>2 DEF StatusKept
  <2> QED
    BY <1>3, <2>1, <2>2
<1>12. \A r \in S : Tended(r)' /\ InHand(r)'
  BY <1>6 DEF Tended, InHand
<1>13. \A u \in Thread : status'[u] = "gone" => cache'[u] = <<>> \/ (status[u] = "gone" /\ cache'[u] = cache[u])
  BY <1>1, <1>3, <1>7 DEF TypeOK
<1>14. Alone'
  BY <1>3 DEF Alone, Searching
<1>15. Undisturbed' => Undisturbed
  BY <1>3 DEF Undisturbed
<1> QED
  BY <1>1, <1>3, <1>10, <1>11, <1>12, <1>13, <1>14, <1>15, LostKept DEF Abandoning

\* No segment is lost at the start.
LEMMA LostInit ==
  ASSUME Init
  PROVE  NotLost
BY DEF Init, NotLost, Tended, InHand, Alone, Searching

\* Every step keeps the segments from being lost.
LEMMA LostStep ==
  ASSUME FieldsInv, NotLost, [Next]_vars
  PROVE  NotLost'
<1>1. FieldsInv'
  BY FieldsStep
<1>2. ASSUME NEW t \in Thread, NEW k \in Kinds, AllocStart(t, k)
      PROVE  NotLost'
  BY <1>1, <1>2, LostStarts
<1>3. ASSUME NEW t \in Thread, NEW k \in Kinds, CacheReuse(t, k)
      PROVE  NotLost'
  BY <1>1, <1>3, LostCacheReuse
<1>4. ASSUME NEW t \in Thread, PageFree(t)
      PROVE  NotLost'
  BY <1>1, <1>4, LostStarts
<1>5. ASSUME NEW t \in Thread, ThreadExit(t)
      PROVE  NotLost'
  BY <1>1, <1>5, LostStays
<1>6. ASSUME NEW t \in Thread, HugeFree(t)
      PROVE  NotLost'
  BY <1>1, <1>6, LostHugeFree
<1>7. ASSUME NEW t \in Thread, PageAbandon(t)
      PROVE  NotLost'
  BY <1>1, <1>7, LostPageAbandon
<1>8. ASSUME NEW t \in Thread, ThreadCollect(t)
      PROVE  NotLost'
  BY <1>1, <1>8, LostCollect
<1>9. ASSUME NEW t \in Thread, ThreadStart(t)
      PROVE  NotLost'
  BY <1>1, <1>9, LostThreadStart
<1>10. CASE ReclaimAllStart
  BY <1>1, <1>10, LostStarts
<1>11. CASE TryEnd \/ Tick \/ SetCache \/ UNCHANGED vars
  BY <1>1, <1>11, LostStays
<1>12. CASE Fresh
  BY <1>1, <1>12, LostFresh
<1>13. CASE Claim
  BY <1>1, <1>13, LostClaim
<1>14. CASE TryReclaim \/ ReclaimAll
  BY <1>1, <1>14, LostReclaims
<1>15. CASE PageClear
  BY <1>1, <1>15, LostPageClear
<1>16. CASE SegmentFree
  BY <1>1, <1>16, LostSegmentFree
<1>17. CASE AbandonSegment
  BY <1>1, <1>17, LostAbandonSegment
<1>18. CASE ResetDelayed
  BY <1>1, <1>18, LostResets
<1> QED
  BY <1>2, <1>3, <1>4, <1>5, <1>6, <1>7, <1>8, <1>9, <1>10, <1>11, <1>12, <1>13, <1>14, <1>15,
     <1>16, <1>17, <1>18 DEF Next

\* Between calls no segment is lost, and a thread that ended has none left:
\* its tld can be freed (segment.c:540-547, init.c:262).
THEOREM SegmentNothingLost == Spec => []NothingLost
<1>1. Init => FieldsInv /\ ResetsOwn /\ NotLost
  BY FieldsInit, ResetsInit, LostInit
<1>2. FieldsInv /\ ResetsOwn /\ NotLost /\ [Next]_vars => (FieldsInv /\ ResetsOwn /\ NotLost)'
  BY FieldsStep, ResetsStep, LostStep
<1>3. FieldsInv /\ ResetsOwn /\ NotLost => NothingLost
  <2>1. SUFFICES ASSUME FieldsInv, ResetsOwn, NotLost
                 PROVE  NothingLost
    OBVIOUS
  <2>2. TypeOK
    BY <2>1 DEF FieldsInv
  <2>3. ASSUME pc = "idle", NEW s \in Segment, mapped[s]
        PROVE  /\ InUse(s) = {} /\ Undisturbed => Cached(s)
               /\ Cached(s) => InUse(s) = {}
               /\ (thread_id[s] = NULL /\ kind[s] # "huge") <=> s \in abandoned_list
               /\ s \in abandoned_list => \A p \in InUse(s) : page[s][p].heap = NULL
               /\ thread_id[s] # NULL => \A p \in InUse(s) :
                    page[s][p].heap = thread_id[s] \/ status[thread_id[s]] = "exiting"
    <3>1. InUse(s) = {} /\ Undisturbed => Cached(s)
      BY <2>1, <2>3 DEF NotLost, InHand
    <3>2. Cached(s) => InUse(s) = {}
      BY <2>1, CachedIs
    <3>3. (thread_id[s] = NULL /\ kind[s] # "huge") <=> s \in abandoned_list
      BY <2>1, <2>3 DEF FieldsInv, SegmentFields
    <3>4. \A p \in InUse(s) : p \in Unit /\ (page[s][p].heap # NULL => page[s][p].heap = thread_id[s])
      BY <2>1, <2>2, PageSets DEF FieldsInv, SegmentFields
    <3>5. ASSUME thread_id[s] # NULL, NEW p \in InUse(s), page[s][p].heap # thread_id[s]
          PROVE  status[thread_id[s]] = "exiting"
      <4>1. kind[s] # "huge"
        BY <2>1, <2>3, <3>5, HugeFree0 DEF Freeing
      <4>2. p \in Orphans(s)
        BY <3>4, <3>5 DEF Orphans
      <4>3. PICK t \in Thread : t = thread_id[s]
        BY <2>2, <3>5 DEF TypeOK
      <4>4. status[t] # "alive" /\ status[t] # "gone"
        BY <2>1, <2>3, <3>5, <4>1, <4>2, <4>3 DEF NotLost, Tended
      <4> QED
        BY <2>2, <4>3, <4>4 DEF TypeOK
    <3> QED
      BY <3>1, <3>2, <3>3, <3>4, <3>5
  <2>4. ASSUME NEW t \in Thread, status[t] = "gone", Undisturbed
        PROVE  /\ count[t] = 0 /\ cache[t] = <<>> /\ pages_reset[t] = <<>>
               /\ \A k \in Queued : free_queue[t][k] = <<>>
    <3>1. cache[t] = <<>>
      BY <2>1, <2>4 DEF NotLost
    <3>2. pc # "idle" => me # t
      BY <2>1, <2>4 DEF FieldsInv, Role
    <3>3. ASSUME NEW s \in Segment
          PROVE  thread_id[s] # t
      <4>1. SUFFICES ASSUME thread_id[s] = t
                     PROVE  FALSE
        OBVIOUS
      <4>2. mapped[s] /\ thread_id[s] # NULL
        BY <2>1, <4>1, NULLAssumption DEF FieldsInv, SegmentFields
      <4>3. kind[s] # "huge"
        BY <2>1, <3>2, <4>1, <4>2 DEF FieldsInv, Role, Freeing
      <4>4. InUse(s) = {}
        BY <2>1, <2>4, <4>1, <4>2, <4>3 DEF NotLost, Tended
      <4>5. ~Cached(s)
        <5>1. SUFFICES ASSUME Cached(s)
                       PROVE  FALSE
          OBVIOUS
        <5>2. PICK u \in Thread : \E i \in DOMAIN cache[u] : cache[u][i] = s
          BY <5>1 DEF Cached
        <5>3. u = t
          BY <2>1, <4>1, <5>2 DEF FieldsInv, CacheOwn
        <5> QED
          BY <3>1, <5>2, <5>3
      <4>6. pc \in {"claim", "free"} /\ s = cur.s
        BY <2>1, <2>4, <4>2, <4>4, <4>5 DEF NotLost, InHand
      <4> QED
        BY <2>1, <3>2, <4>1, <4>3, <4>6 DEF FieldsInv, Role, Freeing
    <3>4. count[t] = 0
      <4>1. Owned(t) = {}
        BY <3>3 DEF Owned
      <4> QED
        BY <2>1, <4>1, FS_EmptySet DEF FieldsInv, CountOwned
    <3>5. pages_reset[t] = <<>>
      <4>1. PICK q \in Seq(Entry) : q = pages_reset[t] /\ \A i \in DOMAIN q : q[i] \in Entry
        BY <2>2, QueueTypes
      <4>2. \A i \in DOMAIN q : FALSE
        <5>1. SUFFICES ASSUME NEW i \in DOMAIN q
                       PROVE  FALSE
          OBVIOUS
        <5>2. PICK s \in Segment, p \in Unit : s = q[i].s /\ p = q[i].p
          BY <4>1 DEF Entry
        <5>3. Pending(t, s, p)
          BY <4>1, <5>2 DEF Pending
        <5> QED
          BY <2>1, <3>3, <5>3 DEF ResetsOwn, Delayed
      <4> QED
        BY <4>1, <4>2, EmptyQueue
    <3>6. ASSUME NEW k \in Queued
          PROVE  free_queue[t][k] = <<>>
      <4>1. PICK q \in Seq(Segment) : q = free_queue[t][k] /\ \A i \in DOMAIN q : q[i] \in Segment
        BY <2>2, QueueTypes
      <4>2. \A i \in DOMAIN q : FALSE
        BY <2>1, <3>3, <4>1 DEF FieldsInv, QueueOwn
      <4> QED
        BY <4>1, <4>2, EmptyQueue
    <3> QED
      BY <3>1, <3>4, <3>5, <3>6
  <2> QED
    BY <2>3, <2>4 DEF NothingLost
<1> QED
  BY <1>1, <1>2, <1>3, PTL DEF Spec

-----------------------------------------------------------------------------
(***************************************************************************)
(* The memory of a page in use is there.                                   *)
(***************************************************************************)

\* The settings under which the code can rely on what it knows of the memory:
\* what the OS may refuse to commit was not decommitted by a reset
\* (mi_page_unreset does not look, segment.c:255), and segments that are committed
\* page by page do not go through the cache (mi_segment_init takes the memory of a
\* cached segment for committed, segment.c:667).
CommitOptions == \A o \in Options :
  /\ o.commit_fails => ~(o.page_reset /\ o.reset_decommits)
  /\ o.eager_commit_delay # 0 => o.segment_cache = 0 /\ o.cache_sizes \subseteq {0}
Settings ==
  /\ option.commit_fails => ~(option.page_reset /\ option.reset_decommits)
  /\ option.eager_commit_delay # 0 =>
       /\ option.segment_cache = 0 /\ option.cache_sizes \subseteq {0}
       /\ \A s \in Segment : ~Cached(s)

\* The memory of a page is committed when the page is said to be, unless it was
\* reset by a decommit; pages are reset only when the option is on; and with eager
\* commits every page is committed at once.
MemoryIs(s) == mapped[s] => \A p \in Pages(s) :
  /\ page[s][p].committed /\ ~(page[s][p].reset /\ option.reset_decommits) => UnitsOf(s, p) \subseteq backed[s]
  /\ page[s][p].reset => option.page_reset
  /\ option.eager_commit /\ option.eager_commit_delay = 0 => page[s][p].committed

MemoryInv == Settings /\ \A s \in Segment : MemoryIs(s)

\* the options that MemoryIs depends on stay
SameOptions ==
  /\ option'.eager_commit = option.eager_commit /\ option'.eager_commit_delay = option.eager_commit_delay
  /\ option'.page_reset = option.page_reset /\ option'.reset_decommits = option.reset_decommits
  /\ option'.commit_fails = option.commit_fails /\ option'.cache_sizes = option.cache_sizes
  /\ option.eager_commit_delay # 0 /\ option.segment_cache = 0 /\ option.cache_sizes \subseteq {0} =>
       option'.segment_cache = 0

\* Pages of a segment have no memory in common, and together they have it all.
LEMMA UnitsSplit ==
  ASSUME TypeOK, NEW s \in Segment
  PROVE  /\ \A p, q : p # q => UnitsOf(s, p) \cap UnitsOf(s, q) = {}
         /\ \A u \in Unit : \E p \in Pages(s) : u \in UnitsOf(s, p)
         /\ \A p \in Pages(s) : UnitsOf(s, p) \subseteq Unit
<1> DEFINE c == Capacity[kind[s]]
<1>1. c \in Nat \ {0} /\ Units \in Nat \ {0} /\ Unit = 0 .. Units - 1 /\ Pages(s) = 0 .. c - 1
  BY PageSets, CapacityFacts
<1>2. \A p : UnitsOf(s, p) = {u \in Unit : (u * c) \div Units = p}
  BY DEF UnitsOf, UnitsIn
<1> HIDE DEF c
<1>3. ASSUME NEW u \in Unit
      PROVE  (u * c) \div Units \in Pages(s)
  <2>1. u \in Nat /\ u <= Units - 1
    BY <1>1
  <2>2. u * c \in Nat
    BY <1>1, <2>1
  <2>3. u * c <= (Units - 1) * c
    BY <1>1, <2>1
  <2>4. (Units - 1) * c = Units * c - c
    BY <1>1
  <2>5. Units * c \in Nat
    BY <1>1
  <2>6. u * c < Units * c
    BY <1>1, <2>2, <2>3, <2>4, <2>5
  <2> DEFINE d == (u * c) \div Units
  <2>7. d \in Int /\ Units * d <= u * c /\ u * c < Units * d + Units
    BY <1>1, <2>2
  <2> HIDE DEF d
  <2>8. d >= 0
    <3>1. SUFFICES ASSUME d <= 0 - 1
                   PROVE  FALSE
      BY <2>7
    <3>2. Units * d <= Units * (0 - 1)
      BY <1>1, <2>7, <3>1
    <3> QED
      BY <1>1, <2>2, <2>7, <3>2
  <2>9. d <= c - 1
    <3>1. SUFFICES ASSUME d >= c
                   PROVE  FALSE
      BY <1>1, <2>7
    <3>2. Units * d >= Units * c
      BY <1>1, <2>7, <3>1
    <3>3. Units * d \in Int
      BY <1>1, <2>7
    <3> QED
      BY <2>2, <2>5, <2>6, <2>7, <3>2, <3>3
  <2>10. d \in 0 .. c - 1
    BY <1>1, <2>7, <2>8, <2>9
  <2> QED
    BY <1>1, <2>10 DEF d
<1> QED
  BY <1>2, <1>3

\* A segment keeps its memory as long as its pages do.
LEMMA MemoryKept ==
  ASSUME TypeOK, NEW s \in Segment, MemoryIs(s), SameOptions,
         mapped'[s] => mapped[s] /\ kind'[s] = kind[s],
         \A p \in Pages(s) :
           /\ page'[s][p].committed = page[s][p].committed
           /\ page'[s][p].reset => page[s][p].reset \/ option.page_reset
           /\ ~(page'[s][p].reset /\ option.reset_decommits) =>
                /\ ~(page[s][p].reset /\ option.reset_decommits)
                /\ UnitsOf(s, p) \cap backed[s] \subseteq backed'[s]
  PROVE  MemoryIs(s)'
<1>1. SUFFICES ASSUME mapped'[s]
               PROVE  MemoryIs(s)'
  BY DEF MemoryIs
<1>2. Pages(s)' = Pages(s) /\ \A p : UnitsOf(s, p)' = UnitsOf(s, p)
  BY <1>1 DEF Pages, UnitsOf
<1>3. ASSUME NEW p \in Pages(s)
      PROVE  /\ page'[s][p].committed /\ ~(page'[s][p].reset /\ option'.reset_decommits) =>
                  UnitsOf(s, p) \subseteq backed'[s]
             /\ page'[s][p].reset => option'.page_reset
             /\ option'.eager_commit /\ option'.eager_commit_delay = 0 => page'[s][p].committed
  <2>1. /\ page[s][p].committed /\ ~(page[s][p].reset /\ option.reset_decommits) => UnitsOf(s, p) \subseteq backed[s]
        /\ page[s][p].reset => option.page_reset
        /\ option.eager_commit /\ option.eager_commit_delay = 0 => page[s][p].committed
    BY <1>1, <1>3 DEF MemoryIs
  <2>2. /\ option'.reset_decommits = option.reset_decommits /\ option'.page_reset = option.page_reset
        /\ option'.eager_commit = option.eager_commit /\ option'.eager_commit_delay = option.eager_commit_delay
    BY DEF SameOptions
  <2> QED
    BY <1>3, <2>1, <2>2
<1> QED
  BY <1>2, <1>3 DEF MemoryIs

\* A segment whose memory is left alone.
LEMMA MemorySame ==
  ASSUME TypeOK, NEW s \in Segment, MemoryIs(s), SameOptions,
         mapped'[s] => /\ mapped[s] /\ kind'[s] = kind[s] /\ backed'[s] = backed[s]
                       /\ \A p \in Pages(s) : /\ page'[s][p].committed = page[s][p].committed
                                              /\ page'[s][p].reset = page[s][p].reset
  PROVE  MemoryIs(s)'
<1>1. CASE ~mapped'[s]
  BY <1>1 DEF MemoryIs
<1>2. CASE mapped'[s]
  <2>1. \A p \in Pages(s) :
          /\ page'[s][p].committed = page[s][p].committed
          /\ page'[s][p].reset => page[s][p].reset \/ option.page_reset
          /\ ~(page'[s][p].reset /\ option.reset_decommits) =>
               /\ ~(page[s][p].reset /\ option.reset_decommits)
               /\ UnitsOf(s, p) \cap backed[s] \subseteq backed'[s]
    BY <1>2
  <2> QED
    BY <1>2, <2>1, MemoryKept
<1> QED
  BY <1>1, <1>2

\* The pages R of a segment are reset, of pages that have their memory.
LEMMA MemoryResets ==
  ASSUME TypeOK, NEW s \in Segment, MemoryIs(s), SameOptions,
         mapped'[s] = mapped[s], kind'[s] = kind[s],
         NEW R \in SUBSET Unit, R # {} => option.page_reset,
         \A p \in Pages(s) : /\ page'[s][p].committed = page[s][p].committed
                             /\ page'[s][p].reset = (p \in R \/ page[s][p].reset),
         backed'[s] = ResetMemory(s, R)
  PROVE  MemoryIs(s)'
<1>1. ASSUME NEW p \in Pages(s)
      PROVE  /\ page'[s][p].reset => page[s][p].reset \/ option.page_reset
             /\ ~(page'[s][p].reset /\ option.reset_decommits) =>
                  /\ ~(page[s][p].reset /\ option.reset_decommits)
                  /\ UnitsOf(s, p) \cap backed[s] \subseteq backed'[s]
  <2>1. page'[s][p].reset => page[s][p].reset \/ option.page_reset
    BY <1>1
  <2>2. ASSUME ~(page'[s][p].reset /\ option.reset_decommits)
        PROVE  /\ ~(page[s][p].reset /\ option.reset_decommits)
               /\ UnitsOf(s, p) \cap backed[s] \subseteq backed'[s]
    <3>1. ~(page[s][p].reset /\ option.reset_decommits)
      BY <1>1, <2>2
    <3>2. CASE option.reset_decommits
      <4>1. p \notin R
        BY <1>1, <2>2, <3>2
      <4>2. \A q \in R : UnitsOf(s, p) \cap UnitsOf(s, q) = {}
        BY <1>1, <4>1, UnitsSplit
      <4> QED
        BY <3>1, <3>2, <4>2 DEF ResetMemory, AllUnits
    <3>3. CASE ~option.reset_decommits
      BY <3>1, <3>3 DEF ResetMemory
    <3> QED
      BY <3>2, <3>3
  <2> QED
    BY <2>1, <2>2
<1> QED
  BY <1>1, MemoryKept

\* mi_pages_reset_add resets pages at once, or leaves their memory as it is.
LEMMA MemoryAdds ==
  ASSUME TypeOK, NEW t \in Thread, NEW s \in Segment, NEW P \in SUBSET Pages(s),
         NEW pg \in [Unit -> Page], ResetAdd(t, s, P, pg), SameOptions,
         \A p \in Unit : pg[p].committed = page[s][p].committed /\ pg[p].reset = page[s][p].reset,
         mapped' = mapped, kind' = kind, \A r \in Segment : MemoryIs(r)
  PROVE  \A r \in Segment : MemoryIs(r)'
<1>1. Pages(s) \subseteq Unit /\ P \in SUBSET Unit
  BY PageSets
<1>2. PICK R \in SUBSET P : R = ToReset(s, P, pg)
  BY DEF ToReset
<1>3. \A p \in Unit : pg[p] \in Page
  OBVIOUS
<1>4. ASSUME NEW r \in Segment, r # s
      PROVE  MemoryIs(r)'
  <2>1. page'[r] = page[r] /\ backed'[r] = backed[r]
    BY <1>1, <1>4, ResetAddPages
  <2> QED
    BY <2>1, MemorySame
<1>5. MemoryIs(s)'
  <2>1. CASE option.reset_delay = 0
    <3> DEFINE new == [p \in Unit |-> IF p \in R THEN [pg[p] EXCEPT !.reset = TRUE] ELSE pg[p]]
    <3>1. page' = [page EXCEPT ![s] = new] /\ backed' = [backed EXCEPT ![s] = ResetMemory(s, R)]
      BY <1>2, <2>1 DEF ResetAdd
    <3>2. \A p \in Unit : new[p] = IF p \in R THEN [pg[p] EXCEPT !.reset = TRUE] ELSE pg[p]
      OBVIOUS
    <3> HIDE DEF new
    <3>3. page'[s] = new /\ backed'[s] = ResetMemory(s, R)
      BY <3>1 DEF TypeOK
    <3>4. \A p \in Pages(s) : /\ page'[s][p].committed = page[s][p].committed
                              /\ page'[s][p].reset = (p \in R \/ page[s][p].reset)
      BY <1>1, <1>3, <3>2, <3>3 DEF Page
    <3>5. R # {} => option.page_reset
      BY <1>2 DEF ToReset
    <3>6. R \in SUBSET Unit
      BY <1>1, <1>2
    <3> QED
      BY <3>3, <3>4, <3>5, <3>6, MemoryResets
  <2>2. CASE option.reset_delay # 0
    <3>1. page' = [page EXCEPT ![s] = pg] /\ backed' = backed
      BY <2>2 DEF ResetAdd
    <3>2. page'[s] = pg /\ backed'[s] = backed[s]
      BY <3>1 DEF TypeOK
    <3>3. \A p \in Pages(s) : /\ page'[s][p].committed = page[s][p].committed
                              /\ page'[s][p].reset = page[s][p].reset
      BY <1>1, <3>2
    <3> QED
      BY <3>2, <3>3, MemorySame
  <2> QED
    BY <2>1, <2>2
<1> QED
  BY <1>4, <1>5

\* The pages that are reset with their segment, when it is given up.
LEMMA MemoryGivenUp ==
  ASSUME TypeOK, NEW s \in Segment, NEW force \in BOOLEAN, NEW r \in Segment, MemoryIs(r), SameOptions,
         mapped'[r] = mapped[r], kind'[r] = kind[r],
         page'[r] = PagesReset(s, force)[r], backed'[r] = MemoryReset(s, force)[r]
  PROVE  MemoryIs(r)'
<1>1. Pages(s) \subseteq Unit /\ Removed(s) \subseteq Pages(s)
  BY PageSets DEF Removed
<1>2. CASE r # s
  <2>1. page'[r] = page[r] /\ backed'[r] = backed[r]
    BY <1>2, PagesResetType
  <2> QED
    BY <2>1, MemorySame
<1>3. CASE r = s
  <2>1. PICK R \in SUBSET Unit : R = IF force THEN {p \in Removed(s) : Resettable(s, p)} ELSE {}
    BY <1>1
  <2>2. \A p \in Unit : page'[s][p] = IF p \in R THEN [page[s][p] EXCEPT !.reset = TRUE] ELSE page[s][p]
    <3>1. \A p \in Unit : PagesReset(s, force)[s][p] =
            IF force /\ p \in Removed(s) /\ Resettable(s, p) THEN [page[s][p] EXCEPT !.reset = TRUE]
                                                             ELSE page[s][p]
      BY PagesResetType
    <3> QED
      BY <1>3, <2>1, <3>1
  <2>3. \A p \in Unit : page[s][p] \in Page
    BY DEF TypeOK
  <2>4. \A p \in Pages(s) : /\ page'[s][p].committed = page[s][p].committed
                            /\ page'[s][p].reset = (p \in R \/ page[s][p].reset)
    BY <1>1, <2>2, <2>3 DEF Page
  <2>5. R # {} => option.page_reset
    BY <2>1 DEF Resettable
  <2>6. backed'[s] = ResetMemory(s, R)
    <3>1. MemoryReset(s, force)[s] =
            IF force THEN ResetMemory(s, {p \in Removed(s) : Resettable(s, p)}) ELSE backed[s]
      BY PagesResetType
    <3>2. ResetMemory(s, {}) = backed[s]
      BY DEF ResetMemory, AllUnits
    <3> QED
      BY <1>3, <2>1, <3>1, <3>2
  <2> QED
    BY <1>3, <2>4, <2>5, <2>6, MemoryResets
<1> QED
  BY <1>2, <1>3

\* The delayed resets of a thread.
LEMMA MemoryDelayed ==
  ASSUME TypeOK, ResetDelayed, \A s \in Segment : MemoryIs(s)
  PROVE  \A s \in Segment : MemoryIs(s)'
<1>1. SameOptions /\ mapped' = mapped /\ kind' = kind
  BY DEF ResetDelayed, SameOptions
<1>2. SUFFICES ASSUME NEW s \in Segment
               PROVE  MemoryIs(s)'
  OBVIOUS
<1>3. Pages(s) \subseteq Unit
  BY PageSets
<1>4. CASE ~option.page_reset
  <2>1. page' = page /\ backed' = backed
    BY <1>4 DEF ResetDelayed
  <2> QED
    BY <1>1, <2>1, MemorySame
<1>5. CASE option.page_reset
  <2> DEFINE R == [r \in Segment |-> {p \in Expired(me, r) : Resettable(r, p)}]
             pg == [r \in Segment |-> [p \in Unit |->
                      IF p \in R[r] THEN [page[r][p] EXCEPT !.reset = TRUE] ELSE page[r][p]]]
  <2>1. page' = pg /\ backed' = [r \in Segment |-> ResetMemory(r, R[r])]
    BY <1>5 DEF ResetDelayed
  <2>2. \A p \in Unit : pg[s][p] = IF p \in R[s] THEN [page[s][p] EXCEPT !.reset = TRUE] ELSE page[s][p]
    OBVIOUS
  <2>3. PICK Q \in SUBSET Unit : Q = R[s]
    <3>1. Expired(me, s) \subseteq Unit
      <4>1. me \in Thread
        BY DEF TypeOK, ResetDelayed, After
      <4>2. \A i \in DOMAIN pages_reset[me] : pages_reset[me][i].p \in Unit
        BY <4>1, QueueTypes DEF Entry
      <4> QED
        BY <4>2 DEF Expired
    <3> QED
      BY <3>1
  <2> HIDE DEF R, pg
  <2>4. backed'[s] = ResetMemory(s, Q) /\ page'[s] = pg[s]
    BY <2>1, <2>3
  <2>5. \A p \in Unit : page[s][p] \in Page
    BY DEF TypeOK
  <2>6. ASSUME NEW p \in Pages(s)
        PROVE  /\ page'[s][p].committed = page[s][p].committed
               /\ page'[s][p].reset = (p \in Q \/ page[s][p].reset)
    <3>1. PICK g \in Page : g = page[s][p]
      BY <1>3, <2>5
    <3>2. page'[s][p] = IF p \in Q THEN [g EXCEPT !.reset = TRUE] ELSE g
      BY <1>3, <2>2, <2>3, <2>4, <3>1
    <3>3. [g EXCEPT !.reset = TRUE].committed = g.committed /\ [g EXCEPT !.reset = TRUE].reset
      BY DEF Page
    <3>4. CASE p \in Q
      BY <3>1, <3>2, <3>3, <3>4
    <3>5. CASE p \notin Q
      <4>1. page'[s][p] = page[s][p]
        BY <3>1, <3>2, <3>5
      <4>2. page[s][p].reset \in BOOLEAN
        BY <3>1 DEF Page
      <4> QED
        BY <3>5, <4>1, <4>2
    <3> QED
      BY <3>4, <3>5
  <2> QED
    BY <1>1, <1>5, <2>4, <2>6, MemoryResets
<1> QED
  BY <1>4, <1>5

\* The settings stay, and a cache that is not used stays empty.
LEMMA SettingsKept ==
  ASSUME Settings, SameOptions,
         option.eager_commit_delay # 0 => \A s \in Segment : Cached(s)' => Cached(s)
  PROVE  Settings'
BY DEF Settings, SameOptions

\* A page is claimed with its memory: it is there, or is committed.
LEMMA MemoryClaim ==
  ASSUME FieldsInv, MemoryInv, Claim
  PROVE  MemoryInv'
<1>1. TypeOK
  BY DEF FieldsInv
<1>2. PICK s \in Segment : s = cur.s
  BY <1>1 DEF Claim, TypeOK
<1>3. /\ UNCHANGED <<option, kind, mapped, cache>>
      /\ \/ \E p \in Pages(s) \ InUse(s) : ClaimOf(s, p)
         \/ UNCHANGED <<page, backed>>
  BY <1>2, ClaimSteps
<1>4. SameOptions /\ mapped' = mapped /\ kind' = kind /\ \A r \in Segment : Cached(r)' => Cached(r)
  BY <1>3 DEF SameOptions, Cached
<1>5. Settings'
  BY <1>4, SettingsKept DEF MemoryInv
<1>6. CASE UNCHANGED <<page, backed>>
  <2>1. \A r \in Segment : MemoryIs(r)'
    BY <1>1, <1>4, <1>6, MemorySame DEF MemoryInv
  <2> QED
    BY <1>5, <2>1 DEF MemoryInv
<1>7. ASSUME NEW p \in Pages(s) \ InUse(s), ClaimOf(s, p)
      PROVE  MemoryInv'
  <2> DEFINE h == IF kind[s] = "huge" THEN NULL ELSE me
             new == [in_use |-> TRUE, committed |-> TRUE, reset |-> FALSE, heap |-> h]
  <2>1. page' = [page EXCEPT ![s][p] = new]
    BY <1>7 DEF ClaimOf
  <2>2. p \in Unit
    BY <1>1, PageSets
  <2>3. /\ page'[s][p].committed /\ ~page'[s][p].reset
        /\ \A q \in Unit : q # p => page'[s][q] = page[s][q]
        /\ \A r \in Segment : r # s => page'[r] = page[r]
    <3>1. new.committed /\ ~new.reset
      OBVIOUS
    <3> HIDE DEF new
    <3> QED
      BY <1>1, <2>1, <2>2, <3>1 DEF TypeOK
  <2>4. /\ \A r \in Segment : r # s => backed'[r] = backed[r]
        /\ backed[s] \subseteq backed'[s]
        /\ NeedsCommit(s, p) => UnitsOf(s, p) \subseteq backed'[s] \/ (page[s][p].committed /\ option.commit_fails)
    <3>1. CASE NeedsCommit(s, p) /\ backed' = [backed EXCEPT ![s] = @ \cup UnitsOf(s, p)]
      BY <1>1, <3>1 DEF TypeOK
    <3>2. CASE (NeedsCommit(s, p) => page[s][p].committed /\ option.commit_fails) /\ backed' = backed
      BY <3>2
    <3> QED
      BY <1>7, <3>1, <3>2 DEF ClaimOf
  <2>5. ASSUME NEW r \in Segment, r # s
        PROVE  MemoryIs(r)'
    BY <1>1, <1>4, <2>3, <2>4, <2>5, MemorySame DEF MemoryInv
  <2>6. MemoryIs(s)'
    <3>1. SUFFICES ASSUME mapped[s]
                   PROVE  MemoryIs(s)'
      BY <1>3 DEF MemoryIs
    <3>2. Pages(s)' = Pages(s) /\ \A q : UnitsOf(s, q)' = UnitsOf(s, q)
      BY <1>3 DEF Pages, UnitsOf
    <3>3. ASSUME NEW q \in Pages(s)
          PROVE  /\ page[s][q].committed /\ ~(page[s][q].reset /\ option.reset_decommits) =>
                       UnitsOf(s, q) \subseteq backed[s]
                 /\ page[s][q].reset => option.page_reset
                 /\ option.eager_commit /\ option.eager_commit_delay = 0 => page[s][q].committed
      BY <3>1, <3>3 DEF MemoryInv, MemoryIs
    <3>4. UnitsOf(s, p) \subseteq backed'[s]
      <4>1. CASE NeedsCommit(s, p)
        <5>1. ~(page[s][p].committed /\ option.commit_fails)
          BY <3>3, <4>1 DEF NeedsCommit, MemoryInv, Settings
        <5> QED
          BY <2>4, <4>1, <5>1
      <4>2. CASE ~NeedsCommit(s, p)
        BY <2>4, <3>3, <4>2 DEF NeedsCommit
      <4> QED
        BY <4>1, <4>2
    <3>5. Pages(s) \subseteq Unit
      BY <1>1, PageSets
    <3>6. ASSUME NEW q \in Pages(s)
          PROVE  /\ page'[s][q].committed /\ ~(page'[s][q].reset /\ option.reset_decommits) =>
                       UnitsOf(s, q) \subseteq backed'[s]
                 /\ page'[s][q].reset => option.page_reset
                 /\ option.eager_commit /\ option.eager_commit_delay = 0 => page'[s][q].committed
      <4>1. CASE q = p
        BY <2>3, <3>4, <4>1
      <4>2. CASE q # p
        <5>1. page'[s][q] = page[s][q]
          BY <2>3, <3>5, <4>2
        <5> QED
          BY <2>4, <3>3, <5>1
      <4> QED
        BY <4>1, <4>2
    <3> QED
      BY <1>3, <3>2, <3>6 DEF MemoryIs
  <2> QED
    BY <1>5, <2>5, <2>6 DEF MemoryInv
<1> QED
  BY <1>3, <1>6, <1>7

\* A segment is set up with pages that are committed or not, all of them.
LEMMA MemoryNew ==
  ASSUME TypeOK', NEW s \in Segment, NEW k \in PageKind, NEW commit \in BOOLEAN,
         kind'[s] = k, page'[s] = NewPages(k, commit), commit => backed'[s] = Unit,
         option.eager_commit /\ option.eager_commit_delay = 0 => commit, SameOptions
  PROVE  MemoryIs(s)'
<1>1. Pages(s)' = 0 .. Capacity[k] - 1 /\ \A q : UnitsOf(s, q)' \subseteq Unit
  BY DEF Pages, UnitsOf, UnitsIn
<1>2. \A p \in Unit : NewPages(k, commit)[p].reset = FALSE /\ NewPages(k, commit)[p].committed = (commit /\ p < Capacity[k])
  BY NewPagesFree
<1>3. Capacity[k] \in 1 .. Units /\ Units \in Nat /\ Unit = 0 .. Units - 1
  BY CapacityFacts
<1>4. \A p \in Pages(s)' : ~page'[s][p].reset /\ page'[s][p].committed = commit
  BY <1>1, <1>2, <1>3
<1>5. ASSUME NEW p \in Pages(s)'
      PROVE  /\ page'[s][p].committed /\ ~(page'[s][p].reset /\ option'.reset_decommits) =>
                   UnitsOf(s, p)' \subseteq backed'[s]
             /\ page'[s][p].reset => option'.page_reset
             /\ option'.eager_commit /\ option'.eager_commit_delay = 0 => page'[s][p].committed
  BY <1>1, <1>4, <1>5 DEF SameOptions
<1> QED
  BY <1>5 DEF MemoryIs

\* A segment comes from the regions.
LEMMA MemoryFresh ==
  ASSUME FieldsInv, MemoryInv, FieldsInv', Fresh
  PROVE  MemoryInv'
<1>1. TypeOK /\ TypeOK'
  BY DEF FieldsInv
<1>2. PICK t \in Thread : t = me
  BY <1>1 DEF Fresh, TypeOK
<1>3. PICK k \in PageKind : k = cur.k
  BY <1>1 DEF TypeOK, Call
<1>4. option' = option
  BY FreshSteps
<1>5. SameOptions
  BY <1>4 DEF SameOptions
<1>6. CASE UNCHANGED <<segment, memory, tld, cur>>
  <2>1. UNCHANGED <<page, backed, mapped, kind, cache>>
    BY <1>6 DEF segment, memory, tld
  <2>2. \A r \in Segment : MemoryIs(r)'
    BY <1>1, <1>5, <2>1, MemorySame DEF MemoryInv
  <2>3. Settings'
    BY <1>5, <2>1, SettingsKept DEF MemoryInv, Cached
  <2> QED
    BY <2>2, <2>3 DEF MemoryInv
<1>7. ASSUME NEW s \in Segment, NEW anew \in BOOLEAN, NEW large \in BOOLEAN, FreshOf(s, anew, large)
      PROVE  MemoryInv'
  <2>1. PICK commit \in BOOLEAN : commit = FreshCommit(s, anew, large)
    BY DEF FreshCommit
  <2>2. /\ mapped' = [mapped EXCEPT ![s] = TRUE]
        /\ backed' = [backed EXCEPT ![s] = IF commit THEN Unit ELSE IF anew THEN {} ELSE backed[s]]
        /\ kind' = [kind EXCEPT ![s] = k]
        /\ page' = [page EXCEPT ![s] = NewPages(k, commit)]
        /\ cache' = cache
    BY <1>3, <1>7, <2>1 DEF FreshOf
  <2>3. /\ kind'[s] = k /\ page'[s] = NewPages(k, commit) /\ (commit => backed'[s] = Unit)
        /\ \A r \in Segment : r # s => /\ mapped'[r] = mapped[r] /\ kind'[r] = kind[r]
                                       /\ page'[r] = page[r] /\ backed'[r] = backed[r]
    BY <1>1, <2>2 DEF TypeOK
  <2>4. option.eager_commit /\ option.eager_commit_delay = 0 => commit
    <3>1. count[t] \in Nat
      BY <1>1 DEF TypeOK
    <3>2. option.eager_commit_delay = 0 => ~(count[t] < option.eager_commit_delay)
      BY <3>1
    <3> QED
      BY <1>2, <2>1, <3>2, Zenon DEF FreshCommit, Eager
  <2>5. MemoryIs(s)'
    BY <1>1, <1>5, <2>3, <2>4, MemoryNew
  <2>6. ASSUME NEW r \in Segment, r # s
        PROVE  MemoryIs(r)'
    BY <1>1, <1>5, <2>3, <2>6, MemorySame DEF MemoryInv
  <2>7. Settings'
    BY <1>5, <2>2, SettingsKept DEF MemoryInv, Cached
  <2> QED
    BY <2>5, <2>6, <2>7 DEF MemoryInv
<1> QED
  BY <1>6, <1>7, FreshSteps

\* A segment comes from the cache: either its pages stay, or all its memory is
\* there when it is taken for committed.
LEMMA MemoryCacheReuse ==
  ASSUME FieldsInv, MemoryInv, FieldsInv', NEW t \in Thread, NEW k \in Kinds, CacheReuse(t, k)
  PROVE  MemoryInv'
<1>1. TypeOK /\ TypeOK' /\ k \in PageKind
  BY OptionAssumption DEF FieldsInv
<1>2. cache[t] # <<>>
  BY DEF CacheReuse
<1>3. PICK s \in Segment : s = Head(cache[t]) /\ mapped[s] /\ Cached(s)
  BY <1>2, CacheHead
<1>4. CacheReuseOf(t, k, s)
  BY <1>1, <1>3, CacheReuseDoes
<1>5. /\ UNCHANGED <<option, mapped>>
      /\ kind' = [kind EXCEPT ![s] = k]
      /\ IF StillGood(s, k) THEN page' = page /\ backed' = backed
         ELSE page' = [page EXCEPT ![s] = NewPages(k, Eager(t, k))] /\ backed' = [backed EXCEPT ![s] = ReuseMemory(t, k)]
  BY <1>4 DEF CacheReuseOf
<1>6. SameOptions
  BY <1>5 DEF SameOptions
<1>7. option.eager_commit_delay = 0
  BY <1>3 DEF MemoryInv, Settings
<1>8. Settings'
  BY <1>6, <1>7, SettingsKept DEF MemoryInv
<1>9. CASE StillGood(s, k)
  <2>1. kind[s] = k
    BY <1>9 DEF StillGood
  <2>2. \A r \in Segment : kind'[r] = kind[r]
    BY <1>1, <1>5, <2>1 DEF TypeOK
  <2>3. \A r \in Segment : MemoryIs(r)'
    BY <1>1, <1>5, <1>6, <1>9, <2>2, MemorySame DEF MemoryInv
  <2> QED
    BY <1>8, <2>3 DEF MemoryInv
<1>10. CASE ~StillGood(s, k)
  <2>1. PICK commit \in BOOLEAN : commit = Eager(t, k)
    BY <1>1 DEF Eager, TypeOK, Option
  <2>2. /\ kind'[s] = k /\ page'[s] = NewPages(k, commit) /\ backed'[s] = ReuseMemory(t, k)
        /\ \A r \in Segment : r # s => /\ mapped'[r] = mapped[r] /\ kind'[r] = kind[r]
                                       /\ page'[r] = page[r] /\ backed'[r] = backed[r]
    BY <1>1, <1>5, <1>10, <2>1 DEF TypeOK
  <2>3. option.eager_commit /\ option.eager_commit_delay = 0 <=> commit
    <3>1. count[t] \in Nat
      BY <1>1 DEF TypeOK
    <3>2. ~(count[t] < option.eager_commit_delay)
      BY <1>7, <3>1
    <3>3. commit <=> option.eager_commit
      BY <2>1, <3>2, Zenon DEF Eager
    <3> QED
      BY <1>7, <3>3
  <2>4. commit => backed'[s] = Unit
    <3>1. SUFFICES ASSUME commit
                   PROVE  ReuseMemory(t, k) = Unit
      BY <2>2
    <3>2. PICK R \in SUBSET Pages(s) : R = {p \in Pages(s) : page[s][p].reset /\ (Eager(t, k) \/ ~option.reset_decommits)}
      OBVIOUS
    <3>3. ReuseMemory(t, k) = IF option.reset_decommits THEN backed[s] \cup AllUnits(s, R) ELSE backed[s]
      BY <1>3, <3>2 DEF ReuseMemory
    <3>4. \A p \in Pages(s) : page[s][p].reset => p \in R
      BY <2>1, <3>1, <3>2
    <3>5. \A p \in Pages(s) : ~(page[s][p].reset /\ option.reset_decommits) => UnitsOf(s, p) \subseteq backed[s]
      BY <1>3, <2>3, <3>1 DEF MemoryInv, MemoryIs
    <3>6. backed[s] \subseteq Unit
      BY <1>1 DEF TypeOK
    <3>7. ASSUME NEW u \in Unit
          PROVE  u \in ReuseMemory(t, k)
      <4>1. PICK p \in Pages(s) : u \in UnitsOf(s, p)
        BY <1>1, UnitsSplit
      <4> QED
        BY <3>3, <3>4, <3>5, <4>1 DEF AllUnits
    <3>8. ReuseMemory(t, k) \subseteq Unit
      <4>1. AllUnits(s, R) \subseteq Unit
        BY <1>1, UnitsSplit DEF AllUnits
      <4> QED
        BY <3>3, <3>6, <4>1
    <3> QED
      BY <3>7, <3>8
  <2>5. MemoryIs(s)'
    BY <1>1, <1>6, <2>2, <2>3, <2>4, MemoryNew
  <2>6. ASSUME NEW r \in Segment, r # s
        PROVE  MemoryIs(r)'
    BY <1>1, <1>6, <2>2, <2>6, MemorySame DEF MemoryInv
  <2> QED
    BY <1>8, <2>5, <2>6 DEF MemoryInv
<1> QED
  BY <1>9, <1>10

\* A segment that is freed, or goes to the cache when there is one.
LEMMA MemoryFree ==
  ASSUME FieldsInv, MemoryInv, FieldsInv', SegmentFree
  PROVE  MemoryInv'
<1>1. TypeOK /\ TypeOK'
  BY DEF FieldsInv
<1>2. PICK s \in Segment, t \in Thread, S \in SUBSET Segment, force \in BOOLEAN : FreeIs(s, t, S, force)
  BY <1>1, FreeDoes
<1>3. option' = option
  BY SegmentFreeSteps
<1>4. SameOptions
  BY <1>3 DEF SameOptions
<1>5. /\ \A r \in Segment \ S : mapped'[r] = mapped[r] /\ kind'[r] = kind[r] /\ page'[r] = PagesReset(s, force)[r]
      /\ \A r \in S : ~mapped'[r]
      /\ backed' = MemoryReset(s, force)
      /\ \A r \in Segment : Cached(r)' => Cached(r) \/ CacheRoom(t)
  BY <1>2 DEF FreeIs
<1>6. \A r \in Segment : MemoryIs(r)'
  <2>1. SUFFICES ASSUME NEW r \in Segment
                 PROVE  MemoryIs(r)'
    OBVIOUS
  <2>2. CASE r \in S
    BY <1>5, <2>2 DEF MemoryIs
  <2>3. CASE r \notin S
    <3>1. /\ mapped'[r] = mapped[r] /\ kind'[r] = kind[r]
          /\ page'[r] = PagesReset(s, force)[r] /\ backed'[r] = MemoryReset(s, force)[r]
      BY <1>5, <2>3
    <3>2. MemoryIs(r)
      BY DEF MemoryInv
    <3> QED
      BY <1>1, <1>4, <3>1, <3>2, MemoryGivenUp
  <2> QED
    BY <2>2, <2>3
<1>7. option.eager_commit_delay # 0 => ~CacheRoom(t)
  <2>1. Len(cache[t]) \in Nat
    BY <1>1, QueueTypes
  <2> QED
    BY <2>1 DEF CacheRoom, MemoryInv, Settings
<1>8. Settings'
  BY <1>4, <1>5, <1>7, SettingsKept DEF MemoryInv
<1> QED
  BY <1>6, <1>8 DEF MemoryInv

\* A segment is abandoned.
LEMMA MemoryAbandon ==
  ASSUME FieldsInv, MemoryInv, AbandonSegment
  PROVE  MemoryInv'
<1>1. TypeOK
  BY DEF FieldsInv
<1>2. PICK s \in Segment, force \in BOOLEAN : s = cur.s /\ force = option.abandoned_page_reset
  BY <1>1 DEF AbandonSegment, TypeOK, Option
<1>3. /\ UNCHANGED <<option, kind, mapped, cache>>
      /\ page' = PagesReset(s, force) /\ backed' = MemoryReset(s, force)
  BY <1>2 DEF AbandonSegment
<1>4. SameOptions
  BY <1>3 DEF SameOptions
<1>5. \A r \in Segment : MemoryIs(r)'
  BY <1>1, <1>3, <1>4, MemoryGivenUp DEF MemoryInv
<1>6. Settings'
  BY <1>3, <1>4, SettingsKept DEF MemoryInv, Cached
<1> QED
  BY <1>5, <1>6 DEF MemoryInv

\* A segment is reclaimed: the pages that have become free are reset, or will be.
LEMMA MemoryReclaims ==
  ASSUME FieldsInv, MemoryInv, TryReclaim \/ ReclaimAll
  PROVE  MemoryInv'
<1>1. TypeOK
  BY DEF FieldsInv
<1>2. CASE UNCHANGED <<option, segment, memory, abandoned_list, tld>>
  <2>1. UNCHANGED <<option, page, backed, mapped, kind, cache>>
    BY <1>2 DEF segment, memory, tld
  <2>2. SameOptions
    BY <2>1 DEF SameOptions
  <2>3. \A r \in Segment : MemoryIs(r)'
    BY <1>1, <2>1, <2>2, MemorySame DEF MemoryInv
  <2>4. Settings'
    BY <2>1, <2>2, SettingsKept DEF MemoryInv, Cached
  <2> QED
    BY <2>3, <2>4 DEF MemoryInv
<1>3. ASSUME NEW s \in abandoned_list, NEW F \in SUBSET InUse(s), ReclaimStep(s, F)
      PROVE  MemoryInv'
  <2>1. s \in Segment
    BY <1>1 DEF TypeOK
  <2>2. PICK t \in Thread : t = me
    <3>1. pc # "idle"
      BY DEF TryReclaim, ReclaimAll
    <3> QED
      BY <1>1, <3>1 DEF TypeOK
  <2>3. /\ ResetAdd(t, s, F, Reclaimed(t, s, F))
        /\ UNCHANGED <<option, kind, mapped, cache>>
    BY <1>3, <2>2 DEF ReclaimStep, ReclaimFields, Reclaimed
  <2>4. SameOptions
    BY <2>3 DEF SameOptions
  <2>5. \A p \in Unit : page[s][p] \in Page
    BY <1>1, <2>1 DEF TypeOK
  <2>6. PICK pg \in [Unit -> Page] : pg = Reclaimed(t, s, F)
    BY <2>5 DEF Reclaimed, Page
  <2>7. \A p \in Unit : pg[p].committed = page[s][p].committed /\ pg[p].reset = page[s][p].reset
    BY <2>5, <2>6 DEF Reclaimed, Page
  <2>8. F \in SUBSET Pages(s)
    BY DEF InUse
  <2>9. \A r \in Segment : MemoryIs(r)'
    BY <1>1, <2>1, <2>3, <2>4, <2>6, <2>7, <2>8, MemoryAdds DEF MemoryInv
  <2>10. Settings'
    BY <2>3, <2>4, SettingsKept DEF MemoryInv, Cached
  <2> QED
    BY <2>9, <2>10 DEF MemoryInv
<1> QED
  BY <1>1, <1>2, <1>3, ReclaimSteps

\* A page is cleared.
LEMMA MemoryPageClear ==
  ASSUME FieldsInv, MemoryInv, PageClear
  PROVE  MemoryInv'
<1>1. TypeOK
  BY DEF FieldsInv
<1>2. PICK s \in Segment, p \in Unit, t \in Thread : s = cur.s /\ p = cur.p /\ t = me /\ p \in InUse(s)
  BY PageClearSteps, ClearFacts
<1>3. /\ ResetAdd(t, s, {p}, Cleared(s, p))
      /\ UNCHANGED <<option, kind, mapped, cache>>
  BY <1>2, PageClearSteps
<1>4. SameOptions
  BY <1>3 DEF SameOptions
<1>5. \A q \in Unit : page[s][q] \in Page
  BY <1>1 DEF TypeOK
<1>6. \A q \in Unit : /\ Cleared(s, p)[q] \in Page
                      /\ Cleared(s, p)[q].committed = page[s][q].committed
                      /\ Cleared(s, p)[q].reset = page[s][q].reset
  BY <1>1, <1>5 DEF Cleared, Page, TypeOK
<1>7. PICK pg \in [Unit -> Page] : pg = Cleared(s, p)
  <2>1. Cleared(s, p) = [q \in Unit |-> Cleared(s, p)[q]]
    BY <1>1 DEF Cleared, TypeOK
  <2> QED
    BY <1>6, <2>1
<1>8. {p} \in SUBSET Pages(s)
  BY <1>2 DEF InUse
<1>9. \A r \in Segment : MemoryIs(r)'
  BY <1>1, <1>3, <1>4, <1>6, <1>7, <1>8, MemoryAdds DEF MemoryInv
<1>10. Settings'
  BY <1>3, <1>4, SettingsKept DEF MemoryInv, Cached
<1> QED
  BY <1>9, <1>10 DEF MemoryInv

\* A thread gives its cache to the OS.
LEMMA MemoryCollect ==
  ASSUME FieldsInv, MemoryInv, NEW t \in Thread, ThreadCollect(t)
  PROVE  MemoryInv'
<1>1. TypeOK
  BY DEF FieldsInv
<1>2. PICK S : S = {cache[t][i] : i \in DOMAIN cache[t]}
  OBVIOUS
<1>3. PICK pg, bk : pg = page /\ bk = backed
  OBVIOUS
<1>4. OsFree(t, S, pg, bk) /\ cache' = [cache EXCEPT ![t] = <<>>] /\ option' = option
  BY <1>2, <1>3 DEF ThreadCollect
<1>5. SameOptions
  BY <1>4 DEF SameOptions
<1>6. \A r \in Segment : MemoryIs(r)'
  <2>1. /\ backed' = bk
        /\ \A r \in Segment : r \notin S => mapped'[r] = mapped[r] /\ kind'[r] = kind[r] /\ page'[r] = pg[r]
        /\ \A r \in Segment : r \in S => ~mapped'[r]
    BY <1>1, <1>4, OsFreeIs
  <2>2. \A r \in Segment : mapped'[r] => /\ mapped[r] /\ kind'[r] = kind[r] /\ backed'[r] = backed[r]
                                         /\ page'[r] = page[r]
    BY <1>3, <2>1
  <2> QED
    BY <1>1, <1>5, <2>2, MemorySame DEF MemoryInv
<1>7. \A r \in Segment : Cached(r)' => Cached(r)
  <2>1. \A u \in Thread : cache'[u] = IF u = t THEN <<>> ELSE cache[u]
    BY <1>1, <1>4 DEF TypeOK
  <2> QED
    BY <2>1 DEF Cached
<1>8. Settings'
  BY <1>5, <1>7, SettingsKept DEF MemoryInv
<1> QED
  BY <1>6, <1>8 DEF MemoryInv

\* The steps that change nothing of the memory.
LEMMA MemoryStays ==
  ASSUME FieldsInv, MemoryInv, FieldsInv',
         \/ \E t \in Thread : \/ \E k \in Kinds : AllocStart(t, k)
                              \/ PageFree(t) \/ HugeFree(t) \/ ThreadExit(t) \/ ThreadStart(t)
         \/ TryEnd \/ ReclaimAllStart \/ Tick \/ SetCache \/ UNCHANGED vars
  PROVE  MemoryInv'
<1>1. TypeOK
  BY DEF FieldsInv
<1>2. /\ UNCHANGED <<page, backed, mapped, kind>>
      /\ \/ cache' = cache
         \/ \E t \in Thread : cache' = [cache EXCEPT ![t] = <<>>]
      /\ \/ option' = option
         \/ \E n \in option.cache_sizes : option' = [option EXCEPT !.segment_cache = n]
  BY DEF AllocStart, PageFree, HugeFree, ThreadExit, ThreadStart, TryEnd, ReclaimAllStart, Tick,
         SetCache, segment, memory, tld, vars
<1>3. SameOptions
  <2>1. CASE option' = option
    BY <2>1 DEF SameOptions
  <2>2. ASSUME NEW n \in option.cache_sizes, option' = [option EXCEPT !.segment_cache = n]
        PROVE  SameOptions
    BY <1>1, <2>2 DEF TypeOK, Option, SameOptions
  <2> QED
    BY <1>2, <2>1, <2>2
<1>4. \A r \in Segment : MemoryIs(r)'
  BY <1>1, <1>2, <1>3, MemorySame DEF MemoryInv
<1>5. \A r \in Segment : Cached(r)' => Cached(r)
  <2>1. CASE cache' = cache
    BY <2>1 DEF Cached
  <2>2. ASSUME NEW t \in Thread, cache' = [cache EXCEPT ![t] = <<>>]
        PROVE  \A r \in Segment : Cached(r)' => Cached(r)
    <3>1. \A u \in Thread : cache'[u] = IF u = t THEN <<>> ELSE cache[u]
      BY <1>1, <2>2 DEF TypeOK
    <3> QED
      BY <3>1 DEF Cached
  <2> QED
    BY <1>2, <2>1, <2>2
<1>6. Settings'
  BY <1>3, <1>5, SettingsKept DEF MemoryInv
<1> QED
  BY <1>4, <1>6 DEF MemoryInv

\* A page is abandoned: its memory stays.
LEMMA MemoryPageAbandon ==
  ASSUME FieldsInv, MemoryInv, FieldsInv', NEW t \in Thread, PageAbandon(t)
  PROVE  MemoryInv'
<1>1. TypeOK
  BY DEF FieldsInv
<1>2. PICK s \in Segment, p \in Unit : page' = [page EXCEPT ![s][p].heap = NULL]
  BY DEF PageAbandon
<1>3. UNCHANGED <<option, backed, mapped, kind, cache>>
  BY DEF PageAbandon, memory, tld
<1>4. SameOptions
  BY <1>3 DEF SameOptions
<1>5. \A r \in Segment, q \in Unit : /\ page'[r][q].committed = page[r][q].committed
                                     /\ page'[r][q].reset = page[r][q].reset
  <2>1. \A r \in Segment, q \in Unit : page[r][q] \in Page
    BY <1>1 DEF TypeOK
  <2>2. PICK pg : pg = [page[s][p] EXCEPT !.heap = NULL]
    OBVIOUS
  <2>3. pg.committed = page[s][p].committed /\ pg.reset = page[s][p].reset
    BY <2>1, <2>2 DEF Page
  <2>4. \A r \in Segment, q \in Unit : page'[r][q] = IF r = s /\ q = p THEN pg ELSE page[r][q]
    BY <1>1, <1>2, <2>2 DEF TypeOK
  <2> QED
    BY <2>3, <2>4
<1>6. \A r \in Segment : \A q \in Pages(r) : q \in Unit
  BY <1>1, PageSets
<1>7. \A r \in Segment : MemoryIs(r)'
  BY <1>1, <1>3, <1>4, <1>5, <1>6, MemorySame DEF MemoryInv
<1>8. Settings'
  BY <1>3, <1>4, SettingsKept DEF MemoryInv, Cached
<1> QED
  BY <1>7, <1>8 DEF MemoryInv

\* The delayed resets of a thread are done.
LEMMA MemoryResetDelayed ==
  ASSUME FieldsInv, MemoryInv, ResetDelayed
  PROVE  MemoryInv'
<1>1. TypeOK /\ UNCHANGED <<option, cache>>
  BY DEF FieldsInv, ResetDelayed
<1>2. \A s \in Segment : MemoryIs(s)'
  BY <1>1, MemoryDelayed DEF MemoryInv
<1>3. SameOptions
  BY <1>1 DEF SameOptions
<1>4. Settings'
  BY <1>1, <1>3, SettingsKept DEF MemoryInv, Cached
<1> QED
  BY <1>2, <1>4 DEF MemoryInv

\* There is no memory at the start.
LEMMA MemoryInit ==
  ASSUME CommitOptions, Init
  PROVE  MemoryInv
<1>1. \A s \in Segment : MemoryIs(s)
  BY DEF Init, MemoryIs
<1>2. \A s \in Segment : ~Cached(s)
  BY DEF Init, Cached
<1>3. Settings
  BY <1>2 DEF Init, CommitOptions, Settings
<1> QED
  BY <1>1, <1>3 DEF MemoryInv

\* Every step keeps the memory of the pages.
LEMMA MemoryStep ==
  ASSUME FieldsInv, MemoryInv, [Next]_vars
  PROVE  MemoryInv'
<1>1. FieldsInv'
  BY FieldsStep
<1>2. CASE \/ \E t \in Thread : \/ \E k \in Kinds : AllocStart(t, k)
                                \/ PageFree(t) \/ HugeFree(t) \/ ThreadExit(t) \/ ThreadStart(t)
           \/ TryEnd \/ ReclaimAllStart \/ Tick \/ SetCache \/ UNCHANGED vars
  BY <1>1, <1>2, MemoryStays
<1>3. ASSUME NEW t \in Thread, NEW k \in Kinds, CacheReuse(t, k)
      PROVE  MemoryInv'
  BY <1>1, <1>3, MemoryCacheReuse
<1>4. ASSUME NEW t \in Thread, PageAbandon(t)
      PROVE  MemoryInv'
  BY <1>1, <1>4, MemoryPageAbandon
<1>5. ASSUME NEW t \in Thread, ThreadCollect(t)
      PROVE  MemoryInv'
  BY <1>5, MemoryCollect
<1>6. CASE Fresh
  BY <1>1, <1>6, MemoryFresh
<1>7. CASE Claim
  BY <1>7, MemoryClaim
<1>8. CASE TryReclaim \/ ReclaimAll
  BY <1>8, MemoryReclaims
<1>9. CASE PageClear
  BY <1>9, MemoryPageClear
<1>10. CASE SegmentFree
  BY <1>1, <1>10, MemoryFree
<1>11. CASE AbandonSegment
  BY <1>11, MemoryAbandon
<1>12. CASE ResetDelayed
  BY <1>12, MemoryResetDelayed
<1> QED
  BY <1>2, <1>3, <1>4, <1>5, <1>6, <1>7, <1>8, <1>9, <1>10, <1>11, <1>12 DEF Next

\* All the memory of a page in use is committed and none of it reset, whichever
\* way the page came (segment.c:1287-1290), under the settings of CommitOptions.
THEOREM SegmentPagesUsable ==
  ASSUME CommitOptions
  PROVE  Spec => []PageUsable
<1>1. Init => FieldsInv /\ MemoryInv
  BY FieldsInit, MemoryInit
<1>2. FieldsInv /\ MemoryInv /\ [Next]_vars => (FieldsInv /\ MemoryInv)'
  BY FieldsStep, MemoryStep
<1>3. FieldsInv /\ MemoryInv => PageUsable
  <2>1. SUFFICES ASSUME FieldsInv, MemoryInv, NEW s \in Segment, mapped[s], NEW p \in InUse(s)
                 PROVE  UnitsOf(s, p) \subseteq backed[s] /\ ~page[s][p].reset
    BY DEF PageUsable
  <2>2. p \in Pages(s) /\ p \in Unit /\ page[s][p].in_use
    BY <2>1, PageSets DEF InUse, FieldsInv
  <2>3. page[s][p].committed /\ ~page[s][p].reset
    BY <2>1, <2>2 DEF FieldsInv, SegmentFields
  <2> QED
    BY <2>1, <2>2, <2>3 DEF MemoryInv, MemoryIs
<1> QED
  BY <1>1, <1>2, <1>3, PTL DEF Spec

=============================================================================
