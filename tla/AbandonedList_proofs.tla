------------------------- MODULE AbandonedList_proofs -------------------------
(***************************************************************************)
(* The invariants of AbandonedList for every set of threads, segments and  *)
(* tags, and that its lists implement AbandonedSet.                        *)
(*                                                                         *)
(* The lists first: what Reach is, and how it changes when an element is   *)
(* taken off, pushed, or a list appended to another.  Inv is the inductive *)
(* invariant: each segment is in one place (OnePlace), the lists end       *)
(* (ListsEnd), what a call holds at each label (Locals), the tag is not    *)
(* used twice (TagBound), and what abandoned_readers counts (Readers).     *)
(* Every step moves segments from one place to another (Moves): one        *)
(* segment, a whole list that is grabbed or put back, or none.             *)
(***************************************************************************)
EXTENDS AbandonedList, FiniteSetTheorems, TLAPS

(***************************************************************************)
(* Lists.                                                                  *)
(***************************************************************************)

\* The first element is on its list, and the list is closed and in the domain.
LEMMA ReachIs ==
  ASSUME NEW l, NEW s
  PROVE  /\ Reach(s, l) \subseteq DOMAIN l /\ Closed(Reach(s, l), l)
         /\ s \in DOMAIN l => s \in Reach(s, l)
         /\ s \notin DOMAIN l => Reach(s, l) = {}
<1>1. ASSUME NEW y \in Reach(s, l), l[y] \in DOMAIN l
      PROVE  l[y] \in Reach(s, l)
  <2>1. ASSUME NEW S \in SUBSET DOMAIN l, s \in S, Closed(S, l)
        PROVE  l[y] \in S
    <3>1. y \in S
      BY <1>1, <2>1 DEF Reach
    <3> QED
      BY <1>1, <2>1, <3>1 DEF Closed
  <2> QED
    BY <1>1, <2>1 DEF Reach
<1> QED
  BY <1>1 DEF Reach, Closed

\* It is the least such set.
LEMMA ReachLeast ==
  ASSUME NEW l, NEW s, NEW S, S \subseteq DOMAIN l, s \in DOMAIN l => s \in S, Closed(S, l)
  PROVE  Reach(s, l) \subseteq S
BY DEF Reach

\* A list is its first element and the list of the rest.
LEMMA ReachStep ==
  ASSUME NEW l, NEW s, s \in DOMAIN l
  PROVE  Reach(s, l) = {s} \cup Reach(l[s], l)
<1>1. Reach(l[s], l) \subseteq Reach(s, l)
  <2>1. Reach(s, l) \subseteq DOMAIN l /\ Closed(Reach(s, l), l) /\ s \in Reach(s, l)
    BY ReachIs
  <2>2. l[s] \in DOMAIN l => l[s] \in Reach(s, l)
    BY <2>1 DEF Closed
  <2> QED
    BY <2>1, <2>2, ReachLeast
<1>2. Reach(s, l) \subseteq {s} \cup Reach(l[s], l)
  <2>1. Reach(l[s], l) \subseteq DOMAIN l /\ Closed(Reach(l[s], l), l)
    BY ReachIs
  <2>2. l[s] \in DOMAIN l => l[s] \in Reach(l[s], l)
    BY ReachIs
  <2>3. Closed({s} \cup Reach(l[s], l), l)
    BY <2>1, <2>2 DEF Closed
  <2>4. {s} \cup Reach(l[s], l) \subseteq DOMAIN l
    BY <2>1
  <2> QED
    BY <2>3, <2>4, ReachLeast
<1>3. s \in Reach(s, l)
  BY ReachIs
<1> QED
  BY <1>1, <1>2, <1>3

\* The list does not change with the links of other elements.
LEMMA ReachSame ==
  ASSUME NEW l, NEW m, NEW s, DOMAIN m = DOMAIN l,
         \A y \in Reach(s, l) : m[y] = l[y]
  PROVE  Reach(s, m) = Reach(s, l) /\ (EndsIn(s, l) => EndsIn(s, m))
<1>1. Reach(s, m) \subseteq Reach(s, l)
  <2>1. Reach(s, l) \subseteq DOMAIN m /\ Closed(Reach(s, l), m) /\ (s \in DOMAIN m => s \in Reach(s, l))
    BY ReachIs DEF Closed
  <2> QED
    BY <2>1, ReachLeast
<1>2. Reach(s, l) \subseteq Reach(s, m)
  <2>1. Reach(s, m) \subseteq DOMAIN l /\ Closed(Reach(s, m), m) /\ (s \in DOMAIN l => s \in Reach(s, m))
    BY ReachIs
  <2>2. Closed(Reach(s, m), l)
    BY <1>1, <2>1 DEF Closed
  <2> QED
    BY <2>1, <2>2, ReachLeast
<1>3. Reach(s, m) = Reach(s, l)
  BY <1>1, <1>2
<1>4. ASSUME EndsIn(s, l)
      PROVE  EndsIn(s, m)
  BY <1>3, <1>4 DEF EndsIn
<1> QED
  BY <1>3, <1>4

\* A list that ends does not come back to its first element.
LEMMA NoCycle ==
  ASSUME NEW l, NEW s, s \in DOMAIN l, EndsIn(s, l)
  PROVE  s \notin Reach(l[s], l) /\ EndsIn(l[s], l)
<1>1. PICK e \in Reach(s, l) : l[e] \notin DOMAIN l
  BY DEF EndsIn
<1>2. PICK C : C = {y \in Reach(s, l) : s \in Reach(y, l)}
  OBVIOUS
<1>3. SUFFICES ASSUME s \in Reach(l[s], l)
               PROVE  FALSE
  <2>1. e = s \/ e \in Reach(l[s], l)
    BY <1>1, ReachStep
  <2>2. CASE e = s
    BY <1>1, <2>2, ReachIs DEF EndsIn
  <2>3. CASE e \in Reach(l[s], l)
    BY <1>1, <2>3 DEF EndsIn
  <2> QED
    BY <2>1, <2>2, <2>3
<1>4. ASSUME NEW y \in C, l[y] \in DOMAIN l
      PROVE  l[y] \in C
  <2>1. l[y] \in Reach(s, l) /\ y \in DOMAIN l
    BY <1>2, <1>4, ReachIs DEF Closed
  <2>2. s = y \/ s \in Reach(l[y], l)
    BY <1>2, <2>1, ReachStep
  <2>3. s \in Reach(l[y], l)
    BY <1>3, <2>2
  <2> QED
    BY <1>2, <2>1, <2>3
<1>5. C \subseteq DOMAIN l /\ s \in C /\ Closed(C, l)
  BY <1>2, <1>4, ReachIs DEF Closed
<1>6. Reach(s, l) \subseteq C
  BY <1>5, ReachLeast
<1>7. s \in Reach(e, l) /\ e \in DOMAIN l
  BY <1>1, <1>2, <1>5, <1>6
<1>8. Reach(l[e], l) = {}
  BY <1>1, ReachIs
<1>9. s = e
  BY <1>7, <1>8, ReachStep
<1> QED
  BY <1>1, <1>3, <1>8, <1>9

\* The end is one element.
LEMMA OneEnd ==
  ASSUME NEW l, NEW s, NEW x \in Reach(s, l), NEW y \in Reach(s, l),
         l[x] \notin DOMAIN l, l[y] \notin DOMAIN l
  PROVE  x = y
<1>1. PICK D : D = {z \in Reach(s, l) : x \in Reach(z, l)}
  OBVIOUS
<1>2. Reach(s, l) \subseteq DOMAIN l /\ Closed(Reach(s, l), l) /\ s \in DOMAIN l /\ s \in Reach(s, l)
  BY ReachIs
<1>3. ASSUME NEW z \in D, l[z] \in DOMAIN l
      PROVE  l[z] \in D
  <2>1. l[z] \in Reach(s, l) /\ z \in DOMAIN l
    BY <1>1, <1>2, <1>3 DEF Closed
  <2>2. x = z \/ x \in Reach(l[z], l)
    BY <1>1, <2>1, ReachStep
  <2> QED
    BY <1>1, <1>3, <2>1, <2>2
<1>4. D \subseteq DOMAIN l /\ s \in D /\ Closed(D, l)
  BY <1>1, <1>2, <1>3 DEF Closed
<1>5. Reach(s, l) \subseteq D
  BY <1>4, ReachLeast
<1>6. x \in Reach(y, l) /\ y \in DOMAIN l
  BY <1>1, <1>2, <1>5
<1>7. Reach(l[y], l) = {}
  BY ReachIs
<1> QED
  BY <1>6, <1>7, ReachStep

\* Linking the end of a list to another list appends that.
LEMMA ReachAppend ==
  ASSUME NEW l, NEW s, NEW x \in Reach(s, l), l[x] \notin DOMAIN l, NEW v, x \notin Reach(v, l), EndsIn(v, l),
         NEW m, DOMAIN m = DOMAIN l, m[x] = v, \A y \in DOMAIN l : y # x => m[y] = l[y]
  PROVE  Reach(s, m) = Reach(s, l) \cup Reach(v, l) /\ EndsIn(s, m)
<1>1. Reach(s, l) \subseteq DOMAIN l /\ Closed(Reach(s, l), l) /\ s \in DOMAIN l /\ s \in Reach(s, l)
  BY ReachIs
<1>2. DOMAIN m = DOMAIN l /\ m[x] = v /\ \A y \in DOMAIN l : y # x => m[y] = l[y]
  OBVIOUS
<1>3. Reach(v, m) = Reach(v, l) /\ EndsIn(v, m)
  <2>1. \A y \in Reach(v, l) : m[y] = l[y]
    <3>1. Reach(v, l) \subseteq DOMAIN l
      BY ReachIs
    <3> QED
      BY <1>2, <3>1
  <2> QED
    BY <1>2, <2>1, ReachSame
<1>4. Reach(v, m) \subseteq DOMAIN l /\ Closed(Reach(v, m), m) /\ (v \in DOMAIN l => v \in Reach(v, m))
  BY <1>2, ReachIs
<1>5. Reach(s, m) \subseteq Reach(s, l) \cup Reach(v, l)
  <2>1. PICK S : S = Reach(s, l) \cup Reach(v, m)
    OBVIOUS
  <2>2. Closed(S, m)
    BY <1>1, <1>2, <1>4, <2>1 DEF Closed
  <2>3. Reach(s, m) \subseteq S
    BY <1>1, <1>2, <1>4, <2>1, <2>2, ReachLeast
  <2> QED
    BY <1>3, <2>1, <2>3
<1>6. Reach(s, m) \subseteq DOMAIN l /\ Closed(Reach(s, m), m) /\ s \in Reach(s, m)
  BY <1>1, <1>2, ReachIs
<1>7. Reach(s, l) \subseteq Reach(s, m)
  <2>1. Closed(Reach(s, m), l)
    BY <1>2, <1>6 DEF Closed
  <2> QED
    BY <1>6, <2>1, ReachLeast
<1>8. Reach(v, l) \subseteq Reach(s, m)
  <2>1. v \in DOMAIN m => v \in Reach(s, m)
    BY <1>2, <1>6, <1>7 DEF Closed
  <2> QED
    BY <1>2, <1>3, <1>6, <2>1, ReachLeast
<1>9. Reach(s, m) = Reach(s, l) \cup Reach(v, l)
  BY <1>5, <1>7, <1>8
<1>10. EndsIn(s, m)
  <2>1. CASE v \in DOMAIN l
    BY <1>2, <1>3, <1>9, <2>1 DEF EndsIn
  <2>2. CASE v \notin DOMAIN l
    <3>1. x \in Reach(s, m) /\ m[x] \notin DOMAIN m
      BY <1>2, <1>9, <2>2
    <3> QED
      BY <3>1 DEF EndsIn
  <2> QED
    BY <2>1, <2>2
<1> QED
  BY <1>9, <1>10

\* An element linked to the first of a list becomes the first.
LEMMA ReachPush ==
  ASSUME NEW l, NEW s, s \in DOMAIN l, s \notin Reach(l[s], l), EndsIn(l[s], l)
  PROVE  Reach(s, l) = {s} \cup Reach(l[s], l) /\ EndsIn(s, l)
<1>1. Reach(s, l) = {s} \cup Reach(l[s], l)
  BY ReachStep
<1>2. EndsIn(s, l)
  BY <1>1 DEF EndsIn
<1> QED
  BY <1>1, <1>2

(***************************************************************************)
(* Where a segment is: owned by a thread, in its hands during a call,      *)
(* on the list it carries from abandoned_visited to abandoned, with the    *)
(* region layer, or on one of the two lists.                               *)
(***************************************************************************)
Place == {"own", "hand", "flight"} \X Thread \cup {"unused", "stack", "visited"} \X {NULL}
Own(t)  == {s \in Segment : thread_id[s] = t}
Hand(t) == IF pc[t] \in HandLabel THEN {seg[t]} \cap Segment ELSE {}
At(p) ==
  CASE p[1] = "own"     -> Own(p[2])
    [] p[1] = "hand"    -> Hand(p[2])
    [] p[1] = "flight"  -> InFlight(p[2])
    [] p[1] = "unused"  -> unused
    [] p[1] = "stack"   -> Stack
    [] p[1] = "visited" -> Visited
OnePlace ==
  /\ \A s \in Segment : \E p \in Place : s \in At(p)
  /\ \A p \in Place, q \in Place : p # q => At(p) \cap At(q) = {}

\* The lists end.
FlightEnds(t) ==
  pc[t] \in FlightLabel => EndsIn(seg[t], Cut(t)) /\ (last[t] # NULL => last[t] \in InFlight(t))
ListsEnd ==
  /\ EndsIn(abandoned.seg, abandoned_next) /\ EndsIn(abandoned_visited, abandoned_next)
  /\ \A t \in Thread : FlightEnds(t)

\* What the locals of a call hold at a label.
HasSeg(t)  == pc[t] \in FlightLabel \cup (HandLabel \ {"pop_dec"})
SegLocal(t) ==
  /\ HasSeg(t) => seg[t] \in Segment
  /\ pc[t] # "pop_dec" /\ ~HasSeg(t) => seg[t] = NULL
LastLocal(t) ==
  /\ pc[t] \in {"rv_link", "rv_cas"} => last[t] # NULL
  /\ pc[t] \notin {"rv_again", "rv_link", "rv_cas"} => last[t] = NULL
TsLocal(t) ==
  /\ pc[t] = "rv_swap" => ts[t].seg = NULL
  /\ pc[t] \in {"pop_next", "pop_cas"} => ts[t].seg # NULL
LinkLocal(t) ==
  /\ pc[t] \in {"push_cas", "v_cas"} => abandoned_next[seg[t]] = ts[t].seg
  /\ pc[t] = "rv_cas" => abandoned_next[last[t]] = ts[t].seg
  /\ pc[t] = "pop_cas" /\ abandoned = ts[t] => anext[t] = abandoned_next[ts[t].seg]
Locals == \A t \in Thread : SegLocal(t) /\ LastLocal(t) /\ TsLocal(t) /\ LinkLocal(t)

\* The tag does not come round: a call still has this many updates to make.
TwoLabel == {"rv_check", "rv_grab"} \cup FlightLabel
OneLabel == TwoLabel \cup {"push_read", "push_link", "push_cas", "pop_inc", "pop_read", "pop_next", "pop_cas"}
AtLabel(L) == {t \in Thread : pc[t] \in L}
TagBound ==
  /\ abandoned.tag + Cardinality(AtLabel(OneLabel)) + Cardinality(AtLabel(TwoLabel)) <= 2 * calls
  /\ \A t \in Thread : ts[t].tag <= abandoned.tag

\* abandoned_readers counts the pops that may read a link, and memory that is
\* reset is with the region layer.
ReadLabel == {"pop_read", "pop_next", "pop_cas", "pop_dec"}
Readers == abandoned_readers = Cardinality(AtLabel(ReadLabel))
ResetUnused == \A s \in Segment : memory[s] = "reset" => s \in unused
MemoryKept == Direct = {} => NoReadOfReset

\* A pop without an excuse finds a segment.
Finds(t) ==
  pc[t] \in PopLabel /\ ~excused[t] =>
    /\ ~Excuse(t)
    /\ pc[t] \in {"rv_check", "rv_grab"} => abandoned_visited # NULL
    /\ pc[t] \in {"pop_inc", "pop_read", "pop_next", "pop_cas"} => abandoned.seg # NULL
    /\ pc[t] = "pop_dec" => seg[t] # NULL
AllFind == \A t \in Thread : Finds(t)

Inv ==
  TypeOK /\ OnePlace /\ ListsEnd /\ Locals /\ TagBound /\ Readers /\ ResetUnused /\ MemoryKept /\ AllFind

(***************************************************************************)
(* Steps.                                                                  *)
(***************************************************************************)

Do(t) == Call(t) \/ Continue(t)

\* The values of the variables.
LEMMA TypeFacts ==
  ASSUME TypeOK, NEW t \in Thread
  PROVE  /\ abandoned = [seg |-> abandoned.seg, tag |-> abandoned.tag]
         /\ abandoned.seg \in Segment \cup {NULL} /\ abandoned.tag \in 0 .. TagMod - 1
         /\ ts[t] = [seg |-> ts[t].seg, tag |-> ts[t].tag]
         /\ ts[t].seg \in Segment \cup {NULL} /\ ts[t].tag \in 0 .. TagMod - 1
         /\ seg[t] \in Segment \cup {NULL} /\ last[t] \in Segment \cup {NULL}
         /\ anext[t] \in Segment \cup {NULL}
         /\ abandoned_next \in [Segment -> Segment \cup {NULL}]
         /\ abandoned_visited \in Segment \cup {NULL}
         /\ None \in Tagged /\ TagMod \in Nat \ {0}
BY TagAssumption DEF TypeOK, Tagged, None

\* The other threads keep their label and locals.
Others(t) ==
  \A u \in Thread : u # t => /\ pc'[u] = pc[u] /\ seg'[u] = seg[u] /\ ts'[u] = ts[u]
                             /\ anext'[u] = anext[u] /\ last'[u] = last[u]

\* A step leaves the other threads where they are.
LEMMA OthersKept ==
  ASSUME TypeOK, NEW t \in Thread, Do(t)
  PROVE  Others(t)
<1>1. CASE SegmentInit(t)
  BY <1>1 DEF SegmentInit, TypeOK, Others, Goto, Return, shared, segment, locals
<1>2. CASE OsFree(t)
  BY <1>2 DEF OsFree, TypeOK, Others, Goto, Return, shared, segment, locals
<1>3. CASE AwaitReaders(t)
  BY <1>3 DEF AwaitReaders, TypeOK, Others, Goto, Return, shared, segment, locals
<1>4. CASE Abandon(t)
  BY <1>4 DEF Abandon, TypeOK, Others, Goto, Return, shared, segment, locals
<1>5. CASE PushRead(t)
  BY <1>5 DEF PushRead, TypeOK, Others, Goto, Return, shared, segment, locals
<1>6. CASE PushLink(t)
  BY <1>6 DEF PushLink, TypeOK, Others, Goto, Return, shared, segment, locals
<1>7. CASE PushCas(t)
  BY <1>7 DEF PushCas, TypeOK, Others, Goto, Return, shared, segment, locals
<1>8. CASE Pop(t)
  BY <1>8 DEF Pop, TypeOK, Others, Goto, Return, shared, segment, locals
<1>9. CASE RevisitCheck(t)
  BY <1>9 DEF RevisitCheck, TypeOK, Others, Goto, Return, shared, segment, locals
<1>10. CASE RevisitGrab(t)
  BY <1>10 DEF RevisitGrab, TypeOK, Others, Goto, Return, shared, segment, locals
<1>11. CASE RevisitRead(t)
  BY <1>11 DEF RevisitRead, TypeOK, Others, Goto, Return, shared, segment, locals
<1>12. CASE RevisitSwap(t)
  BY <1>12 DEF RevisitSwap, TypeOK, Others, Goto, Return, shared, segment, locals
<1>13. CASE RevisitAgain(t)
  BY <1>13 DEF RevisitAgain, TypeOK, Others, Goto, Return, shared, segment, locals
<1>14. CASE RevisitLink(t)
  BY <1>14 DEF RevisitLink, TypeOK, Others, Goto, Return, shared, segment, locals
<1>15. CASE RevisitCas(t)
  BY <1>15 DEF RevisitCas, TypeOK, Others, Goto, Return, shared, segment, locals
<1>16. CASE PopInc(t)
  BY <1>16 DEF PopInc, TypeOK, Others, Goto, Return, shared, segment, locals
<1>17. CASE PopRead(t)
  BY <1>17 DEF PopRead, TypeOK, Others, Goto, Return, shared, segment, locals
<1>18. CASE PopNext(t)
  BY <1>18 DEF PopNext, TypeOK, Others, Goto, Return, shared, segment, locals
<1>19. CASE PopCas(t)
  BY <1>19 DEF PopCas, TypeOK, Others, Goto, Return, shared, segment, locals
<1>20. CASE PopDec(t)
  BY <1>20 DEF PopDec, TypeOK, Others, Goto, Return, shared, segment, locals
<1>21. CASE PopClear(t)
  BY <1>21 DEF PopClear, TypeOK, Others, Goto, Return, shared, segment, locals
<1>22. CASE Reclaim(t)
  BY <1>22 DEF Reclaim, TypeOK, Others, Goto, Return, shared, segment, locals
<1>23. CASE PutAside(t)
  BY <1>23 DEF PutAside, TypeOK, Others, Goto, Return, shared, segment, locals
<1>24. CASE VisitedRead(t)
  BY <1>24 DEF VisitedRead, TypeOK, Others, Goto, Return, shared, segment, locals
<1>25. CASE VisitedLink(t)
  BY <1>25 DEF VisitedLink, TypeOK, Others, Goto, Return, shared, segment, locals
<1>26. CASE VisitedCas(t)
  BY <1>26 DEF VisitedCas, TypeOK, Others, Goto, Return, shared, segment, locals
<1> QED
  BY <1>1, <1>2, <1>3, <1>4, <1>5, <1>6, <1>7, <1>8, <1>9, <1>10, <1>11, <1>12, <1>13, <1>14,
     <1>15, <1>16, <1>17, <1>18, <1>19, <1>20, <1>21, <1>22, <1>23, <1>24, <1>25, <1>26 DEF Do,
     Call, Continue

\* A tagged value has a segment or NULL, and a tag.
LEMMA TaggedTypes ==
  ASSUME NEW s \in Segment \cup {NULL}, NEW x \in Tagged
  PROVE  TaggedNext(s, x) \in Tagged
<1>1. x.tag \in Nat /\ TagMod \in Nat \ {0}
  BY TagAssumption DEF Tagged
<1>2. (x.tag + 1) % TagMod \in 0 .. TagMod - 1
  BY <1>1
<1> QED
  BY <1>2 DEF TaggedNext, Tagged

\* The values of the shared variables after a step.
SharedTypes ==
  /\ abandoned \in Tagged
  /\ abandoned_visited \in Segment \cup {NULL}
  /\ abandoned_next \in [Segment -> Segment \cup {NULL}]

\* The shared variables stay in their types.
LEMMA SharedStep ==
  ASSUME TypeOK, Locals, NEW t \in Thread, Do(t)
  PROVE  SharedTypes'
<1> USE DEF SharedTypes
<1>0. /\ abandoned \in Tagged /\ abandoned_visited \in Segment \cup {NULL}
      /\ abandoned_next \in [Segment -> Segment \cup {NULL}]
      /\ seg[t] \in Segment \cup {NULL} /\ anext[t] \in Segment \cup {NULL} /\ ts[t] \in Tagged
      /\ ts[t].seg \in Segment \cup {NULL}
  BY TypeFacts DEF TypeOK
<1>1. CASE SegmentInit(t)
  BY <1>1, <1>0, TaggedTypes DEF SegmentInit, Goto, Return, shared, segment, locals
<1>2. CASE OsFree(t)
  BY <1>2, <1>0, TaggedTypes DEF OsFree, Goto, Return, shared, segment, locals
<1>3. CASE AwaitReaders(t)
  BY <1>3, <1>0, TaggedTypes DEF AwaitReaders, Goto, Return, shared, segment, locals
<1>4. CASE Abandon(t)
  BY <1>4, <1>0, TaggedTypes DEF Abandon, Goto, Return, shared, segment, locals
<1>5. CASE PushRead(t)
  BY <1>5, <1>0, TaggedTypes DEF PushRead, Goto, Return, shared, segment, locals
<1>6. CASE PushLink(t)
  BY <1>6, <1>0, TaggedTypes DEF PushLink, Goto, Return, shared, segment, locals
<1>7. CASE PushCas(t)
  BY <1>7, <1>0, TaggedTypes DEF PushCas, Goto, Return, shared, segment, locals
<1>8. CASE Pop(t)
  BY <1>8, <1>0, TaggedTypes DEF Pop, Goto, Return, shared, segment, locals
<1>9. CASE RevisitCheck(t)
  BY <1>9, <1>0, TaggedTypes DEF RevisitCheck, Goto, Return, shared, segment, locals
<1>10. CASE RevisitGrab(t)
  BY <1>10, <1>0, TaggedTypes DEF RevisitGrab, Goto, Return, shared, segment, locals
<1>11. CASE RevisitRead(t)
  BY <1>11, <1>0, TaggedTypes DEF RevisitRead, Goto, Return, shared, segment, locals
<1>12. CASE RevisitSwap(t)
  BY <1>12, <1>0, TaggedTypes DEF RevisitSwap, Goto, Return, shared, segment, locals
<1>13. CASE RevisitAgain(t)
  BY <1>13, <1>0, TaggedTypes DEF RevisitAgain, Goto, Return, shared, segment, locals
<1>14. CASE RevisitLink(t)
  BY <1>14, <1>0, TaggedTypes DEF RevisitLink, Goto, Return, shared, segment, locals
<1>15. CASE RevisitCas(t)
  BY <1>15, <1>0, TaggedTypes DEF RevisitCas, Goto, Return, shared, segment, locals
<1>16. CASE PopInc(t)
  BY <1>16, <1>0, TaggedTypes DEF PopInc, Goto, Return, shared, segment, locals
<1>17. CASE PopRead(t)
  BY <1>17, <1>0, TaggedTypes DEF PopRead, Goto, Return, shared, segment, locals
<1>18. CASE PopNext(t)
  BY <1>18, <1>0, TaggedTypes DEF PopNext, Goto, Return, shared, segment, locals
<1>19. CASE PopCas(t)
  BY <1>19, <1>0, TaggedTypes DEF PopCas, Goto, Return, shared, segment, locals
<1>20. CASE PopDec(t)
  BY <1>20, <1>0, TaggedTypes DEF PopDec, Goto, Return, shared, segment, locals
<1>21. CASE PopClear(t)
  BY <1>21, <1>0, TaggedTypes DEF PopClear, Goto, Return, shared, segment, locals
<1>22. CASE Reclaim(t)
  BY <1>22, <1>0, TaggedTypes DEF Reclaim, Goto, Return, shared, segment, locals
<1>23. CASE PutAside(t)
  BY <1>23, <1>0, TaggedTypes DEF PutAside, Goto, Return, shared, segment, locals
<1>24. CASE VisitedRead(t)
  BY <1>24, <1>0, TaggedTypes DEF VisitedRead, Goto, Return, shared, segment, locals
<1>25. CASE VisitedLink(t)
  BY <1>25, <1>0, TaggedTypes DEF VisitedLink, Goto, Return, shared, segment, locals
<1>26. CASE VisitedCas(t)
  BY <1>26, <1>0, TaggedTypes DEF VisitedCas, Goto, Return, shared, segment, locals
<1> QED
  BY <1>1, <1>2, <1>3, <1>4, <1>5, <1>6, <1>7, <1>8, <1>9, <1>10, <1>11, <1>12, <1>13, <1>14,
     <1>15, <1>16, <1>17, <1>18, <1>19, <1>20, <1>21, <1>22, <1>23, <1>24, <1>25, <1>26 DEF Do,
     Call, Continue

\* The other variables of the segments.
SegmentTypes ==
  /\ thread_id \in [Segment -> Thread \cup {NULL}]
  /\ memory \in [Segment -> {"mapped", "reset"}]
  /\ unused \subseteq Segment

\* So do those of the segments.
LEMMA SegmentStep ==
  ASSUME TypeOK, Locals, NEW t \in Thread, Do(t)
  PROVE  SegmentTypes'
<1> USE DEF SegmentTypes
<1>0. /\ thread_id \in [Segment -> Thread \cup {NULL}] /\ memory \in [Segment -> {"mapped", "reset"}]
      /\ unused \subseteq Segment /\ SegLocal(t)
  BY DEF TypeOK, Locals
<1>1. CASE SegmentInit(t)
  BY <1>1, <1>0 DEF SegmentInit, SegLocal, HasSeg, HandLabel, Goto, Return, shared, segment, locals
<1>2. CASE OsFree(t)
  BY <1>2, <1>0 DEF OsFree, SegLocal, HasSeg, HandLabel, Goto, Return, shared, segment, locals
<1>3. CASE AwaitReaders(t)
  BY <1>3, <1>0 DEF AwaitReaders, SegLocal, HasSeg, HandLabel, Goto, Return, shared, segment, locals
<1>4. CASE Abandon(t)
  BY <1>4, <1>0 DEF Abandon, SegLocal, HasSeg, HandLabel, Goto, Return, shared, segment, locals
<1>5. CASE PushRead(t)
  BY <1>5, <1>0 DEF PushRead, SegLocal, HasSeg, HandLabel, Goto, Return, shared, segment, locals
<1>6. CASE PushLink(t)
  BY <1>6, <1>0 DEF PushLink, SegLocal, HasSeg, HandLabel, Goto, Return, shared, segment, locals
<1>7. CASE PushCas(t)
  BY <1>7, <1>0 DEF PushCas, SegLocal, HasSeg, HandLabel, Goto, Return, shared, segment, locals
<1>8. CASE Pop(t)
  BY <1>8, <1>0 DEF Pop, SegLocal, HasSeg, HandLabel, Goto, Return, shared, segment, locals
<1>9. CASE RevisitCheck(t)
  BY <1>9, <1>0 DEF RevisitCheck, SegLocal, HasSeg, HandLabel, Goto, Return, shared, segment, locals
<1>10. CASE RevisitGrab(t)
  BY <1>10, <1>0 DEF RevisitGrab, SegLocal, HasSeg, HandLabel, Goto, Return, shared, segment, locals
<1>11. CASE RevisitRead(t)
  BY <1>11, <1>0 DEF RevisitRead, SegLocal, HasSeg, HandLabel, Goto, Return, shared, segment, locals
<1>12. CASE RevisitSwap(t)
  BY <1>12, <1>0 DEF RevisitSwap, SegLocal, HasSeg, HandLabel, Goto, Return, shared, segment, locals
<1>13. CASE RevisitAgain(t)
  BY <1>13, <1>0 DEF RevisitAgain, SegLocal, HasSeg, HandLabel, Goto, Return, shared, segment,
     locals
<1>14. CASE RevisitLink(t)
  BY <1>14, <1>0 DEF RevisitLink, SegLocal, HasSeg, HandLabel, Goto, Return, shared, segment, locals
<1>15. CASE RevisitCas(t)
  BY <1>15, <1>0 DEF RevisitCas, SegLocal, HasSeg, HandLabel, Goto, Return, shared, segment, locals
<1>16. CASE PopInc(t)
  BY <1>16, <1>0 DEF PopInc, SegLocal, HasSeg, HandLabel, Goto, Return, shared, segment, locals
<1>17. CASE PopRead(t)
  BY <1>17, <1>0 DEF PopRead, SegLocal, HasSeg, HandLabel, Goto, Return, shared, segment, locals
<1>18. CASE PopNext(t)
  BY <1>18, <1>0 DEF PopNext, SegLocal, HasSeg, HandLabel, Goto, Return, shared, segment, locals
<1>19. CASE PopCas(t)
  BY <1>19, <1>0 DEF PopCas, SegLocal, HasSeg, HandLabel, Goto, Return, shared, segment, locals
<1>20. CASE PopDec(t)
  BY <1>20, <1>0 DEF PopDec, SegLocal, HasSeg, HandLabel, Goto, Return, shared, segment, locals
<1>21. CASE PopClear(t)
  BY <1>21, <1>0 DEF PopClear, SegLocal, HasSeg, HandLabel, Goto, Return, shared, segment, locals
<1>22. CASE Reclaim(t)
  BY <1>22, <1>0 DEF Reclaim, SegLocal, HasSeg, HandLabel, Goto, Return, shared, segment, locals
<1>23. CASE PutAside(t)
  BY <1>23, <1>0 DEF PutAside, SegLocal, HasSeg, HandLabel, Goto, Return, shared, segment, locals
<1>24. CASE VisitedRead(t)
  BY <1>24, <1>0 DEF VisitedRead, SegLocal, HasSeg, HandLabel, Goto, Return, shared, segment, locals
<1>25. CASE VisitedLink(t)
  BY <1>25, <1>0 DEF VisitedLink, SegLocal, HasSeg, HandLabel, Goto, Return, shared, segment, locals
<1>26. CASE VisitedCas(t)
  BY <1>26, <1>0 DEF VisitedCas, SegLocal, HasSeg, HandLabel, Goto, Return, shared, segment, locals
<1> QED
  BY <1>1, <1>2, <1>3, <1>4, <1>5, <1>6, <1>7, <1>8, <1>9, <1>10, <1>11, <1>12, <1>13, <1>14,
     <1>15, <1>16, <1>17, <1>18, <1>19, <1>20, <1>21, <1>22, <1>23, <1>24, <1>25, <1>26 DEF Do,
     Call, Continue

\* The list that t holds ends.
LEMMA AgainEnd ==
  ASSUME TypeOK, Locals, ListsEnd, NEW t \in Thread, pc[t] \in FlightLabel
  PROVE  /\ seg[t] \in Segment /\ InFlight(t) = Reach(seg[t], Cut(t))
         /\ Cut(t) \in [Segment -> Segment \cup {NULL}]
         /\ \E x \in InFlight(t) : Cut(t)[x] = NULL
         /\ last[t] = NULL => \E x \in Reach(seg[t], abandoned_next) : abandoned_next[x] = NULL
<1>1. seg[t] \in Segment /\ EndsIn(seg[t], Cut(t))
  BY DEF Locals, SegLocal, HasSeg, ListsEnd, FlightEnds
<1>2. Cut(t) \in [Segment -> Segment \cup {NULL}]
  BY TypeFacts DEF Cut
<1>3. PICK x \in Reach(seg[t], Cut(t)) : Cut(t)[x] \notin Segment
  BY <1>1, <1>2 DEF EndsIn
<1>4. x \in Segment
  BY <1>2, ReachIs
<1> QED
  BY <1>1, <1>2, <1>3, <1>4 DEF InFlight, Cut

\* The label and the locals.
LocalTypes ==
  /\ pc \in [Thread -> Label]
  /\ seg \in [Thread -> Segment \cup {NULL}]
  /\ ts \in [Thread -> Tagged]
  /\ anext \in [Thread -> Segment \cup {NULL}]
  /\ last \in [Thread -> Segment \cup {NULL}]
  /\ calls \in 0 .. MaxCalls

\* And the locals: the end of a list is found, so `last` is a segment.
LEMMA LocalStep ==
  ASSUME TypeOK, Locals, ListsEnd, NEW t \in Thread, Do(t)
  PROVE  LocalTypes'
<1> USE DEF LocalTypes
<1>0. /\ pc \in [Thread -> Label] /\ seg \in [Thread -> Segment \cup {NULL}] /\ ts \in [Thread -> Tagged]
      /\ anext \in [Thread -> Segment \cup {NULL}] /\ last \in [Thread -> Segment \cup {NULL}]
      /\ calls \in 0 .. MaxCalls /\ MaxCalls \in Nat /\ None \in Tagged /\ abandoned \in Tagged
      /\ abandoned_visited \in Segment \cup {NULL} /\ ts[t].seg \in Segment \cup {NULL}
      /\ abandoned_next \in [Segment -> Segment \cup {NULL}] /\ ts[t].seg \in Segment \cup {NULL}
  BY TypeFacts, TagAssumption DEF TypeOK
<1>1. CASE SegmentInit(t)
  BY <1>1, <1>0 DEF SegmentInit, Label, PopLabel, Goto, Return, shared, segment, locals
<1>2. CASE OsFree(t)
  BY <1>2, <1>0 DEF OsFree, Label, PopLabel, Goto, Return, shared, segment, locals
<1>3. CASE AwaitReaders(t)
  BY <1>3, <1>0 DEF AwaitReaders, Label, PopLabel, Goto, Return, shared, segment, locals
<1>4. CASE Abandon(t)
  BY <1>4, <1>0 DEF Abandon, Label, PopLabel, Goto, Return, shared, segment, locals
<1>5. CASE PushRead(t)
  BY <1>5, <1>0 DEF PushRead, Label, PopLabel, Goto, Return, shared, segment, locals
<1>6. CASE PushLink(t)
  BY <1>6, <1>0 DEF PushLink, Label, PopLabel, Goto, Return, shared, segment, locals
<1>7. CASE PushCas(t)
  BY <1>7, <1>0 DEF PushCas, Label, PopLabel, Goto, Return, shared, segment, locals
<1>8. CASE Pop(t)
  BY <1>8, <1>0 DEF Pop, Label, PopLabel, Goto, Return, shared, segment, locals
<1>9. CASE RevisitCheck(t)
  BY <1>9, <1>0 DEF RevisitCheck, Label, PopLabel, Goto, Return, shared, segment, locals
<1>10. CASE RevisitGrab(t)
  BY <1>10, <1>0 DEF RevisitGrab, Label, PopLabel, Goto, Return, shared, segment, locals
<1>11. CASE RevisitRead(t)
  BY <1>11, <1>0 DEF RevisitRead, Label, PopLabel, Goto, Return, shared, segment, locals
<1>12. CASE RevisitSwap(t)
  BY <1>12, <1>0 DEF RevisitSwap, Label, PopLabel, Goto, Return, shared, segment, locals
<1>13. CASE RevisitAgain(t)
  <2>1. PICK x \in Segment \cup {NULL} : last' = [last EXCEPT ![t] = x]
    <3>1. CASE last[t] # NULL
      BY <1>13, <3>1, <1>0 DEF RevisitAgain
    <3>2. CASE last[t] = NULL
      <4>1. PICK x : x = CHOOSE s \in Reach(seg[t], abandoned_next) : abandoned_next[s] = NULL
        OBVIOUS
      <4>2. \E s \in Reach(seg[t], abandoned_next) : abandoned_next[s] = NULL
        BY <1>13, <3>2, AgainEnd DEF RevisitAgain, FlightLabel
      <4>3. x \in Segment
        BY <1>0, <4>1, <4>2, ReachIs
      <4> QED
        BY <1>13, <1>0, <3>2, <4>1, <4>3 DEF RevisitAgain
    <3> QED
      BY <3>1, <3>2
  <2> QED
    BY <1>13, <1>0, <2>1 DEF RevisitAgain, Label, PopLabel, Goto, shared, segment
<1>14. CASE RevisitLink(t)
  BY <1>14, <1>0 DEF RevisitLink, Label, PopLabel, Goto, Return, shared, segment, locals
<1>15. CASE RevisitCas(t)
  BY <1>15, <1>0 DEF RevisitCas, Label, PopLabel, Goto, Return, shared, segment, locals
<1>16. CASE PopInc(t)
  BY <1>16, <1>0 DEF PopInc, Label, PopLabel, Goto, Return, shared, segment, locals
<1>17. CASE PopRead(t)
  BY <1>17, <1>0 DEF PopRead, Label, PopLabel, Goto, Return, shared, segment, locals
<1>18. CASE PopNext(t)
  <2>1. ts[t].seg \in Segment
    BY <1>18, <1>0 DEF PopNext, Locals, TsLocal
  <2> QED
    BY <1>18, <1>0, <2>1 DEF PopNext, Label, PopLabel, Goto, shared, segment
<1>19. CASE PopCas(t)
  BY <1>19, <1>0 DEF PopCas, Label, PopLabel, Goto, Return, shared, segment, locals
<1>20. CASE PopDec(t)
  BY <1>20, <1>0 DEF PopDec, Label, PopLabel, Goto, Return, shared, segment, locals
<1>21. CASE PopClear(t)
  BY <1>21, <1>0 DEF PopClear, Label, PopLabel, Goto, Return, shared, segment, locals
<1>22. CASE Reclaim(t)
  BY <1>22, <1>0 DEF Reclaim, Label, PopLabel, Goto, Return, shared, segment, locals
<1>23. CASE PutAside(t)
  BY <1>23, <1>0 DEF PutAside, Label, PopLabel, Goto, Return, shared, segment, locals
<1>24. CASE VisitedRead(t)
  <2>1. [seg |-> abandoned_visited, tag |-> 0] \in Tagged
    BY <1>0, TagAssumption DEF Tagged
  <2> QED
    BY <1>24, <1>0, <2>1 DEF VisitedRead, Label, Goto, shared, segment
<1>25. CASE VisitedLink(t)
  BY <1>25, <1>0 DEF VisitedLink, Label, PopLabel, Goto, Return, shared, segment, locals
<1>26. CASE VisitedCas(t)
  BY <1>26, <1>0 DEF VisitedCas, Label, PopLabel, Goto, Return, shared, segment, locals
<1> QED
  BY <1>1, <1>2, <1>3, <1>4, <1>5, <1>6, <1>7, <1>8, <1>9, <1>10, <1>11, <1>12, <1>13, <1>14,
     <1>15, <1>16, <1>17, <1>18, <1>19, <1>20, <1>21, <1>22, <1>23, <1>24, <1>25, <1>26 DEF Do,
     Call, Continue

(***************************************************************************)
(* Counting the threads at labels.                                         *)
(***************************************************************************)

\* One thread moves to another label.
LEMMA Count ==
  ASSUME TypeOK, NEW t \in Thread, NEW k, pc' = [pc EXCEPT ![t] = k], NEW L,
         NEW T, T = {u \in Thread : pc'[u] \in L}
  PROVE  /\ Cardinality(T) \in Nat /\ Cardinality(AtLabel(L)) \in Nat
         /\ Cardinality(T) <= Cardinality(Thread)
         /\ Cardinality(T) = IF pc[t] \in L /\ k \notin L THEN Cardinality(AtLabel(L)) - 1
                             ELSE IF pc[t] \notin L /\ k \in L THEN Cardinality(AtLabel(L)) + 1
                             ELSE Cardinality(AtLabel(L))
         /\ t \in AtLabel(L) => Cardinality(AtLabel(L)) > 0
<1>1. PICK A : A = AtLabel(L)
  OBVIOUS
<1>2. A \subseteq Thread /\ T \subseteq Thread /\ IsFiniteSet(Thread)
  BY <1>1, ThreadAssumption DEF AtLabel
<1>3. IsFiniteSet(A) /\ IsFiniteSet(T) /\ Cardinality(T) <= Cardinality(Thread)
  BY <1>2, FS_Subset
<1>4. Cardinality(A) \in Nat /\ Cardinality(T) \in Nat
  BY <1>3, FS_CardinalityType
<1>5. \A u \in Thread : u # t => pc'[u] = pc[u]
  BY DEF TypeOK
<1>6. pc'[t] = k
  BY DEF TypeOK
<1>7. CASE pc[t] \in L /\ k \notin L
  <2>1. T = A \ {t} /\ t \in A
    BY <1>1, <1>5, <1>6, <1>7 DEF AtLabel
  <2>2. Cardinality(T) = Cardinality(A) - 1
    BY <1>3, <2>1, FS_RemoveElement
  <2> QED
    BY <1>1, <1>3, <1>4, <1>7, <2>2
<1>8. CASE pc[t] \notin L /\ k \in L
  <2>1. T = A \cup {t} /\ t \notin A
    BY <1>1, <1>5, <1>6, <1>8 DEF AtLabel
  <2>2. Cardinality(T) = Cardinality(A) + 1
    BY <1>3, <2>1, FS_AddElement
  <2> QED
    BY <1>1, <1>3, <1>4, <1>8, <2>1, <2>2
<1>9. CASE (pc[t] \in L) <=> (k \in L)
  <2>1. T = A
    BY <1>1, <1>5, <1>6, <1>9 DEF AtLabel
  <2>2. t \in A => Cardinality(A) > 0
    BY <1>3, <1>4, FS_EmptySet
  <2> QED
    BY <1>1, <1>3, <1>4, <1>9, <2>1, <2>2
<1> QED
  BY <1>7, <1>8, <1>9

\* Where a thread is counted.
LEMMA CountedIs ==
  ASSUME TypeOK, NEW L, NEW u \in Thread, pc[u] \in L
  PROVE  Cardinality(AtLabel(L)) \in Nat \ {0}
<1>1. AtLabel(L) \subseteq Thread /\ IsFiniteSet(Thread) /\ u \in AtLabel(L)
  BY ThreadAssumption DEF AtLabel
<1>2. IsFiniteSet(AtLabel(L))
  BY <1>1, FS_Subset
<1> QED
  BY <1>1, <1>2, FS_CardinalityType, FS_EmptySet

\* A step changes the label of its thread only.
LEMMA PcStep ==
  ASSUME TypeOK, Locals, ListsEnd, NEW t \in Thread, Do(t)
  PROVE  pc' = [pc EXCEPT ![t] = pc'[t]]
<1>1. pc \in [Thread -> Label] /\ pc' \in [Thread -> Label]
  BY LocalStep DEF TypeOK, LocalTypes
<1>2. \A u \in Thread : u # t => pc'[u] = pc[u]
  BY OthersKept DEF Others
<1> QED
  BY <1>1, <1>2

\* abandoned_readers counts the pops that may read.
LEMMA ReadersStep ==
  ASSUME TypeOK, Locals, ListsEnd, Readers, NEW t \in Thread, Do(t)
  PROVE  Readers' /\ abandoned_readers' \in 0 .. Cardinality(Thread)
<1>1. PICK T : T = {u \in Thread : pc'[u] \in ReadLabel}
  OBVIOUS
<1>2. T = AtLabel(ReadLabel)'
  BY <1>1 DEF AtLabel, ReadLabel
<1>3. PICK c \in Nat : c = Cardinality(AtLabel(ReadLabel)) /\ c <= Cardinality(Thread) /\ abandoned_readers = c
  <2>1. AtLabel(ReadLabel) \subseteq Thread /\ IsFiniteSet(Thread)
    BY ThreadAssumption DEF AtLabel
  <2> QED
    BY <2>1, FS_Subset, FS_CardinalityType DEF Readers
<1>4. PICK k : k = pc'[t]
  OBVIOUS
<1>5. PICK n \in Nat :
        /\ n = Cardinality(T) /\ n <= Cardinality(Thread)
        /\ n = IF pc[t] \in ReadLabel /\ k \notin ReadLabel THEN c - 1
               ELSE IF pc[t] \notin ReadLabel /\ k \in ReadLabel THEN c + 1
               ELSE c
  BY <1>1, <1>3, <1>4, PcStep, Count
<1>6. abandoned_readers' = n
  <2>0. pc \in [Thread -> Label]
    BY DEF TypeOK
  <2>1. CASE SegmentInit(t)
    BY <2>1, <1>3, <1>4, <1>5, <2>0 DEF SegmentInit, ReadLabel, Goto, Return, shared, segment,
       locals
  <2>2. CASE OsFree(t)
    BY <2>2, <1>3, <1>4, <1>5, <2>0 DEF OsFree, ReadLabel, Goto, Return, shared, segment, locals
  <2>3. CASE AwaitReaders(t)
    BY <2>3, <1>3, <1>4, <1>5, <2>0 DEF AwaitReaders, ReadLabel, Goto, Return, shared, segment,
       locals
  <2>4. CASE Abandon(t)
    BY <2>4, <1>3, <1>4, <1>5, <2>0 DEF Abandon, ReadLabel, Goto, Return, shared, segment, locals
  <2>5. CASE PushRead(t)
    BY <2>5, <1>3, <1>4, <1>5, <2>0 DEF PushRead, ReadLabel, Goto, Return, shared, segment, locals
  <2>6. CASE PushLink(t)
    BY <2>6, <1>3, <1>4, <1>5, <2>0 DEF PushLink, ReadLabel, Goto, Return, shared, segment, locals
  <2>7. CASE PushCas(t)
    BY <2>7, <1>3, <1>4, <1>5, <2>0 DEF PushCas, ReadLabel, Goto, Return, shared, segment, locals
  <2>8. CASE Pop(t)
    BY <2>8, <1>3, <1>4, <1>5, <2>0 DEF Pop, ReadLabel, Goto, Return, shared, segment, locals
  <2>9. CASE RevisitCheck(t)
    BY <2>9, <1>3, <1>4, <1>5, <2>0 DEF RevisitCheck, ReadLabel, Goto, Return, shared, segment,
       locals
  <2>10. CASE RevisitGrab(t)
    BY <2>10, <1>3, <1>4, <1>5, <2>0 DEF RevisitGrab, ReadLabel, Goto, Return, shared, segment,
       locals
  <2>11. CASE RevisitRead(t)
    BY <2>11, <1>3, <1>4, <1>5, <2>0 DEF RevisitRead, ReadLabel, Goto, Return, shared, segment,
       locals
  <2>12. CASE RevisitSwap(t)
    BY <2>12, <1>3, <1>4, <1>5, <2>0 DEF RevisitSwap, ReadLabel, Goto, Return, shared, segment,
       locals
  <2>13. CASE RevisitAgain(t)
    BY <2>13, <1>3, <1>4, <1>5, <2>0 DEF RevisitAgain, ReadLabel, Goto, Return, shared, segment,
       locals
  <2>14. CASE RevisitLink(t)
    BY <2>14, <1>3, <1>4, <1>5, <2>0 DEF RevisitLink, ReadLabel, Goto, Return, shared, segment,
       locals
  <2>15. CASE RevisitCas(t)
    BY <2>15, <1>3, <1>4, <1>5, <2>0 DEF RevisitCas, ReadLabel, Goto, Return, shared, segment,
       locals
  <2>16. CASE PopInc(t)
    BY <2>16, <1>3, <1>4, <1>5, <2>0 DEF PopInc, ReadLabel, Goto, Return, shared, segment, locals
  <2>17. CASE PopRead(t)
    BY <2>17, <1>3, <1>4, <1>5, <2>0 DEF PopRead, ReadLabel, Goto, Return, shared, segment, locals
  <2>18. CASE PopNext(t)
    BY <2>18, <1>3, <1>4, <1>5, <2>0 DEF PopNext, ReadLabel, Goto, Return, shared, segment, locals
  <2>19. CASE PopCas(t)
    BY <2>19, <1>3, <1>4, <1>5, <2>0 DEF PopCas, ReadLabel, Goto, Return, shared, segment, locals
  <2>20. CASE PopDec(t)
    BY <2>20, <1>3, <1>4, <1>5, <2>0 DEF PopDec, ReadLabel, Goto, Return, shared, segment, locals
  <2>21. CASE PopClear(t)
    BY <2>21, <1>3, <1>4, <1>5, <2>0 DEF PopClear, ReadLabel, Goto, Return, shared, segment, locals
  <2>22. CASE Reclaim(t)
    BY <2>22, <1>3, <1>4, <1>5, <2>0 DEF Reclaim, ReadLabel, Goto, Return, shared, segment, locals
  <2>23. CASE PutAside(t)
    BY <2>23, <1>3, <1>4, <1>5, <2>0 DEF PutAside, ReadLabel, Goto, Return, shared, segment, locals
  <2>24. CASE VisitedRead(t)
    BY <2>24, <1>3, <1>4, <1>5, <2>0 DEF VisitedRead, ReadLabel, Goto, Return, shared, segment,
       locals
  <2>25. CASE VisitedLink(t)
    BY <2>25, <1>3, <1>4, <1>5, <2>0 DEF VisitedLink, ReadLabel, Goto, Return, shared, segment,
       locals
  <2>26. CASE VisitedCas(t)
    BY <2>26, <1>3, <1>4, <1>5, <2>0 DEF VisitedCas, ReadLabel, Goto, Return, shared, segment,
       locals
  <2> QED
    BY <2>1, <2>2, <2>3, <2>4, <2>5, <2>6, <2>7, <2>8, <2>9, <2>10, <2>11, <2>12, <2>13, <2>14,
       <2>15, <2>16, <2>17, <2>18, <2>19, <2>20, <2>21, <2>22, <2>23, <2>24, <2>25, <2>26 DEF Do,
       Call, Continue
<1>7. Cardinality(Thread) \in Nat
  BY ThreadAssumption, FS_CardinalityType
<1> QED
  BY <1>2, <1>5, <1>6, <1>7 DEF Readers

\* The word `abandoned` stays, or gets the next tag.
LEMMA TagsStep ==
  ASSUME TypeOK, Locals, ListsEnd, TagBound, NEW t \in Thread, Do(t)
  PROVE  /\ TagBound'
         /\ \/ abandoned' = abandoned
            \/ abandoned'.tag = abandoned.tag + 1
<1>1. PICK S, T : S = {u \in Thread : pc'[u] \in OneLabel} /\ T = {u \in Thread : pc'[u] \in TwoLabel}
  OBVIOUS
<1>2. S = AtLabel(OneLabel)' /\ T = AtLabel(TwoLabel)'
  BY <1>1 DEF AtLabel, OneLabel, TwoLabel, FlightLabel
<1>3. PICK c, d : c = Cardinality(AtLabel(OneLabel)) /\ d = Cardinality(AtLabel(TwoLabel))
  OBVIOUS
<1>4. c \in Nat /\ d \in Nat /\ (t \in AtLabel(OneLabel) => c > 0)
  <2>1. AtLabel(OneLabel) \subseteq Thread /\ AtLabel(TwoLabel) \subseteq Thread /\ IsFiniteSet(Thread)
    BY ThreadAssumption DEF AtLabel
  <2>2. IsFiniteSet(AtLabel(OneLabel)) /\ IsFiniteSet(AtLabel(TwoLabel))
    BY <2>1, FS_Subset
  <2> QED
    BY <1>3, <2>2, FS_CardinalityType, FS_EmptySet
<1>5. PICK g \in 0 .. TagMod - 1 : g = abandoned.tag
  BY TypeFacts
<1>6. g + c + d <= 2 * calls /\ calls \in 0 .. MaxCalls /\ MaxCalls \in Nat /\ TagMod \in Nat /\ TagMod > 2 * MaxCalls
  BY <1>3, <1>5, TagAssumption DEF TagBound, TypeOK
<1>7. PICK k : k = pc'[t]
  OBVIOUS
<1>8. PICK m \in Nat :
        /\ m = Cardinality(S)
        /\ m = IF pc[t] \in OneLabel /\ k \notin OneLabel THEN c - 1
               ELSE IF pc[t] \notin OneLabel /\ k \in OneLabel THEN c + 1
               ELSE c
  BY <1>1, <1>3, <1>7, PcStep, Count
<1>12. PICK n \in Nat :
        /\ n = Cardinality(T)
        /\ n = IF pc[t] \in TwoLabel /\ k \notin TwoLabel THEN d - 1
               ELSE IF pc[t] \notin TwoLabel /\ k \in TwoLabel THEN d + 1
               ELSE d
  <2>1. pc' = [pc EXCEPT ![t] = k]
    BY <1>7, PcStep
  <2>2. Cardinality(T) \in Nat
    BY <1>1, <2>1, Count
  <2>3. Cardinality(T) = IF pc[t] \in TwoLabel /\ k \notin TwoLabel THEN Cardinality(AtLabel(TwoLabel)) - 1
                         ELSE IF pc[t] \notin TwoLabel /\ k \in TwoLabel THEN Cardinality(AtLabel(TwoLabel)) + 1
                         ELSE Cardinality(AtLabel(TwoLabel))
    BY <1>1, <2>1, Count
  <2> QED
    BY <1>3, <2>2, <2>3
<1>9. \A s : abandoned = ts[t] /\ pc[t] \in OneLabel =>
        TaggedNext(s, ts[t]).tag = g + 1
  <2>1. pc[t] \in OneLabel => (g + 1) % TagMod = g + 1
    <3>1. pc[t] \in OneLabel => c > 0
      BY <1>4 DEF AtLabel
    <3>2. c > 0 => g + 1 < TagMod
      BY <1>4, <1>5, <1>6
    <3>3. g + 1 < TagMod => (g + 1) % TagMod = g + 1
      BY <1>5, <1>6
    <3> QED
      BY <3>1, <3>2, <3>3
  <2> QED
    BY <1>5, <2>1 DEF TaggedNext
<1>10. /\ \/ abandoned' = abandoned
          \/ abandoned'.tag = g + 1
       /\ abandoned'.tag + m + n <= 2 * calls'
       /\ abandoned'.tag \in Nat /\ abandoned'.tag >= g
  <2>0. pc \in [Thread -> Label]
    BY DEF TypeOK
  <2>1. CASE SegmentInit(t)
    BY <2>1, <1>4, <1>5, <1>6, <1>7, <1>8, <1>12, <2>0 DEF SegmentInit, OneLabel, TwoLabel,
       FlightLabel, Goto, Return, shared, segment, locals
  <2>2. CASE OsFree(t)
    BY <2>2, <1>4, <1>5, <1>6, <1>7, <1>8, <1>12, <2>0 DEF OsFree, OneLabel, TwoLabel, FlightLabel,
       Goto, Return, shared, segment, locals
  <2>3. CASE AwaitReaders(t)
    BY <2>3, <1>4, <1>5, <1>6, <1>7, <1>8, <1>12, <2>0 DEF AwaitReaders, OneLabel, TwoLabel,
       FlightLabel, Goto, Return, shared, segment, locals
  <2>4. CASE Abandon(t)
    BY <2>4, <1>4, <1>5, <1>6, <1>7, <1>8, <1>12, <2>0 DEF Abandon, OneLabel, TwoLabel, FlightLabel,
       Goto, Return, shared, segment, locals
  <2>5. CASE PushRead(t)
    BY <2>5, <1>4, <1>5, <1>6, <1>7, <1>8, <1>12, <2>0 DEF PushRead, OneLabel, TwoLabel,
       FlightLabel, Goto, Return, shared, segment, locals
  <2>6. CASE PushLink(t)
    BY <2>6, <1>4, <1>5, <1>6, <1>7, <1>8, <1>12, <2>0 DEF PushLink, OneLabel, TwoLabel,
       FlightLabel, Goto, Return, shared, segment, locals
  <2>7. CASE PushCas(t)
    <3>1. CASE abandoned = ts[t]
      <4>1. abandoned' = TaggedNext(seg[t], ts[t]) /\ pc[t] = "push_cas"
        BY <2>7, <3>1 DEF PushCas
      <4>2. abandoned'.tag = g + 1
        BY <1>9, <3>1, <4>1 DEF OneLabel, TwoLabel, FlightLabel
      <4> QED
        BY <2>7, <1>4, <1>5, <1>6, <1>7, <1>8, <1>12, <2>0, <3>1, <4>2
           DEF PushCas, OneLabel, TwoLabel, FlightLabel, Goto, Return
    <3>2. CASE abandoned # ts[t]
      BY <2>7, <1>4, <1>5, <1>6, <1>7, <1>8, <1>12, <2>0, <3>2
         DEF PushCas, OneLabel, TwoLabel, FlightLabel, Goto, Return
    <3> QED
      BY <3>1, <3>2
  <2>8. CASE Pop(t)
    BY <2>8, <1>4, <1>5, <1>6, <1>7, <1>8, <1>12, <2>0 DEF Pop, OneLabel, TwoLabel, FlightLabel,
       Goto, Return, shared, segment, locals
  <2>9. CASE RevisitCheck(t)
    BY <2>9, <1>4, <1>5, <1>6, <1>7, <1>8, <1>12, <2>0 DEF RevisitCheck, OneLabel, TwoLabel,
       FlightLabel, Goto, Return, shared, segment, locals
  <2>10. CASE RevisitGrab(t)
    BY <2>10, <1>4, <1>5, <1>6, <1>7, <1>8, <1>12, <2>0 DEF RevisitGrab, OneLabel, TwoLabel,
       FlightLabel, Goto, Return, shared, segment, locals
  <2>11. CASE RevisitRead(t)
    BY <2>11, <1>4, <1>5, <1>6, <1>7, <1>8, <1>12, <2>0 DEF RevisitRead, OneLabel, TwoLabel,
       FlightLabel, Goto, Return, shared, segment, locals
  <2>12. CASE RevisitSwap(t)
    <3>1. CASE abandoned = ts[t]
      <4>1. abandoned' = TaggedNext(seg[t], ts[t]) /\ pc[t] = "rv_swap"
        BY <2>12, <3>1 DEF RevisitSwap
      <4>2. abandoned'.tag = g + 1
        BY <1>9, <3>1, <4>1 DEF OneLabel, TwoLabel, FlightLabel
      <4> QED
        BY <2>12, <1>4, <1>5, <1>6, <1>7, <1>8, <1>12, <2>0, <3>1, <4>2
           DEF RevisitSwap, OneLabel, TwoLabel, FlightLabel, Goto, Return
    <3>2. CASE abandoned # ts[t]
      BY <2>12, <1>4, <1>5, <1>6, <1>7, <1>8, <1>12, <2>0, <3>2
         DEF RevisitSwap, OneLabel, TwoLabel, FlightLabel, Goto, Return
    <3> QED
      BY <3>1, <3>2
  <2>13. CASE RevisitAgain(t)
    BY <2>13, <1>4, <1>5, <1>6, <1>7, <1>8, <1>12, <2>0 DEF RevisitAgain, OneLabel, TwoLabel,
       FlightLabel, Goto, Return, shared, segment, locals
  <2>14. CASE RevisitLink(t)
    BY <2>14, <1>4, <1>5, <1>6, <1>7, <1>8, <1>12, <2>0 DEF RevisitLink, OneLabel, TwoLabel,
       FlightLabel, Goto, Return, shared, segment, locals
  <2>15. CASE RevisitCas(t)
    <3>1. CASE abandoned = ts[t]
      <4>1. abandoned' = TaggedNext(seg[t], ts[t]) /\ pc[t] = "rv_cas"
        BY <2>15, <3>1 DEF RevisitCas
      <4>2. abandoned'.tag = g + 1
        BY <1>9, <3>1, <4>1 DEF OneLabel, TwoLabel, FlightLabel
      <4> QED
        BY <2>15, <1>4, <1>5, <1>6, <1>7, <1>8, <1>12, <2>0, <3>1, <4>2
           DEF RevisitCas, OneLabel, TwoLabel, FlightLabel, Goto, Return
    <3>2. CASE abandoned # ts[t]
      BY <2>15, <1>4, <1>5, <1>6, <1>7, <1>8, <1>12, <2>0, <3>2
         DEF RevisitCas, OneLabel, TwoLabel, FlightLabel, Goto, Return
    <3> QED
      BY <3>1, <3>2
  <2>16. CASE PopInc(t)
    BY <2>16, <1>4, <1>5, <1>6, <1>7, <1>8, <1>12, <2>0 DEF PopInc, OneLabel, TwoLabel, FlightLabel,
       Goto, Return, shared, segment, locals
  <2>17. CASE PopRead(t)
    BY <2>17, <1>4, <1>5, <1>6, <1>7, <1>8, <1>12, <2>0 DEF PopRead, OneLabel, TwoLabel,
       FlightLabel, Goto, Return, shared, segment, locals
  <2>18. CASE PopNext(t)
    BY <2>18, <1>4, <1>5, <1>6, <1>7, <1>8, <1>12, <2>0 DEF PopNext, OneLabel, TwoLabel,
       FlightLabel, Goto, Return, shared, segment, locals
  <2>19. CASE PopCas(t)
    <3>1. CASE abandoned = ts[t]
      <4>1. abandoned' = TaggedNext(anext[t], ts[t]) /\ pc[t] = "pop_cas"
        BY <2>19, <3>1 DEF PopCas
      <4>2. abandoned'.tag = g + 1
        BY <1>9, <3>1, <4>1 DEF OneLabel, TwoLabel, FlightLabel
      <4> QED
        BY <2>19, <1>4, <1>5, <1>6, <1>7, <1>8, <1>12, <2>0, <3>1, <4>2
           DEF PopCas, OneLabel, TwoLabel, FlightLabel, Goto, Return
    <3>2. CASE abandoned # ts[t]
      BY <2>19, <1>4, <1>5, <1>6, <1>7, <1>8, <1>12, <2>0, <3>2
         DEF PopCas, OneLabel, TwoLabel, FlightLabel, Goto, Return
    <3> QED
      BY <3>1, <3>2
  <2>20. CASE PopDec(t)
    BY <2>20, <1>4, <1>5, <1>6, <1>7, <1>8, <1>12, <2>0 DEF PopDec, OneLabel, TwoLabel, FlightLabel,
       Goto, Return, shared, segment, locals
  <2>21. CASE PopClear(t)
    BY <2>21, <1>4, <1>5, <1>6, <1>7, <1>8, <1>12, <2>0 DEF PopClear, OneLabel, TwoLabel,
       FlightLabel, Goto, Return, shared, segment, locals
  <2>22. CASE Reclaim(t)
    BY <2>22, <1>4, <1>5, <1>6, <1>7, <1>8, <1>12, <2>0 DEF Reclaim, OneLabel, TwoLabel,
       FlightLabel, Goto, Return, shared, segment, locals
  <2>23. CASE PutAside(t)
    BY <2>23, <1>4, <1>5, <1>6, <1>7, <1>8, <1>12, <2>0 DEF PutAside, OneLabel, TwoLabel,
       FlightLabel, Goto, Return, shared, segment, locals
  <2>24. CASE VisitedRead(t)
    BY <2>24, <1>4, <1>5, <1>6, <1>7, <1>8, <1>12, <2>0 DEF VisitedRead, OneLabel, TwoLabel,
       FlightLabel, Goto, Return, shared, segment, locals
  <2>25. CASE VisitedLink(t)
    BY <2>25, <1>4, <1>5, <1>6, <1>7, <1>8, <1>12, <2>0 DEF VisitedLink, OneLabel, TwoLabel,
       FlightLabel, Goto, Return, shared, segment, locals
  <2>26. CASE VisitedCas(t)
    BY <2>26, <1>4, <1>5, <1>6, <1>7, <1>8, <1>12, <2>0 DEF VisitedCas, OneLabel, TwoLabel,
       FlightLabel, Goto, Return, shared, segment, locals
  <2> QED
    BY <2>1, <2>2, <2>3, <2>4, <2>5, <2>6, <2>7, <2>8, <2>9, <2>10, <2>11, <2>12, <2>13, <2>14,
       <2>15, <2>16, <2>17, <2>18, <2>19, <2>20, <2>21, <2>22, <2>23, <2>24, <2>25, <2>26 DEF Do,
       Call, Continue
<1>11. \A u \in Thread : ts'[u].tag <= abandoned'.tag
  <2>1. ASSUME NEW u \in Thread
        PROVE  ts[u].tag \in Nat /\ ts[u].tag <= g
    <3>1. ts[u].tag \in 0 .. TagMod - 1 /\ TagMod \in Nat
      BY TypeFacts
    <3>2. ts[u].tag <= abandoned.tag
      BY DEF TagBound
    <3> QED
      BY <1>5, <3>1, <3>2
  <2>2. ASSUME NEW u \in Thread, u # t
        PROVE  ts'[u].tag <= abandoned'.tag
    <3>1. ts'[u] = ts[u]
      BY <2>2, OthersKept DEF Others
    <3> QED
      BY <1>5, <1>10, <2>1, <3>1
  <2>3. ts'[t] = ts[t] \/ ts'[t].tag = 0 \/ ts'[t] = abandoned
    <3>0. ts \in [Thread -> Tagged] /\ None.tag = 0
      BY DEF TypeOK, None
    <3>1. CASE SegmentInit(t)
      BY <3>1, <3>0 DEF SegmentInit, Goto, Return, shared, segment, locals
    <3>2. CASE OsFree(t)
      BY <3>2, <3>0 DEF OsFree, Goto, Return, shared, segment, locals
    <3>3. CASE AwaitReaders(t)
      BY <3>3, <3>0 DEF AwaitReaders, Goto, Return, shared, segment, locals
    <3>4. CASE Abandon(t)
      BY <3>4, <3>0 DEF Abandon, Goto, Return, shared, segment, locals
    <3>5. CASE PushRead(t)
      BY <3>5, <3>0 DEF PushRead, Goto, Return, shared, segment, locals
    <3>6. CASE PushLink(t)
      BY <3>6, <3>0 DEF PushLink, Goto, Return, shared, segment, locals
    <3>7. CASE PushCas(t)
      BY <3>7, <3>0 DEF PushCas, Goto, Return, shared, segment, locals
    <3>8. CASE Pop(t)
      BY <3>8, <3>0 DEF Pop, Goto, Return, shared, segment, locals
    <3>9. CASE RevisitCheck(t)
      BY <3>9, <3>0 DEF RevisitCheck, Goto, Return, shared, segment, locals
    <3>10. CASE RevisitGrab(t)
      BY <3>10, <3>0 DEF RevisitGrab, Goto, Return, shared, segment, locals
    <3>11. CASE RevisitRead(t)
      BY <3>11, <3>0 DEF RevisitRead, Goto, Return, shared, segment, locals
    <3>12. CASE RevisitSwap(t)
      BY <3>12, <3>0 DEF RevisitSwap, Goto, Return, shared, segment, locals
    <3>13. CASE RevisitAgain(t)
      BY <3>13, <3>0 DEF RevisitAgain, Goto, Return, shared, segment, locals
    <3>14. CASE RevisitLink(t)
      BY <3>14, <3>0 DEF RevisitLink, Goto, Return, shared, segment, locals
    <3>15. CASE RevisitCas(t)
      BY <3>15, <3>0 DEF RevisitCas, Goto, Return, shared, segment, locals
    <3>16. CASE PopInc(t)
      BY <3>16, <3>0 DEF PopInc, Goto, Return, shared, segment, locals
    <3>17. CASE PopRead(t)
      BY <3>17, <3>0 DEF PopRead, Goto, Return, shared, segment, locals
    <3>18. CASE PopNext(t)
      BY <3>18, <3>0 DEF PopNext, Goto, Return, shared, segment, locals
    <3>19. CASE PopCas(t)
      BY <3>19, <3>0 DEF PopCas, Goto, Return, shared, segment, locals
    <3>20. CASE PopDec(t)
      BY <3>20, <3>0 DEF PopDec, Goto, Return, shared, segment, locals
    <3>21. CASE PopClear(t)
      BY <3>21, <3>0 DEF PopClear, Goto, Return, shared, segment, locals
    <3>22. CASE Reclaim(t)
      BY <3>22, <3>0 DEF Reclaim, Goto, Return, shared, segment, locals
    <3>23. CASE PutAside(t)
      BY <3>23, <3>0 DEF PutAside, Goto, Return, shared, segment, locals
    <3>24. CASE VisitedRead(t)
      BY <3>24, <3>0 DEF VisitedRead, Goto, Return, shared, segment, locals
    <3>25. CASE VisitedLink(t)
      BY <3>25, <3>0 DEF VisitedLink, Goto, Return, shared, segment, locals
    <3>26. CASE VisitedCas(t)
      BY <3>26, <3>0 DEF VisitedCas, Goto, Return, shared, segment, locals
    <3> QED
      BY <3>1, <3>2, <3>3, <3>4, <3>5, <3>6, <3>7, <3>8, <3>9, <3>10, <3>11, <3>12, <3>13, <3>14,
         <3>15, <3>16, <3>17, <3>18, <3>19, <3>20, <3>21, <3>22, <3>23, <3>24, <3>25, <3>26 DEF Do,
         Call, Continue
  <2>4. ts'[t].tag <= abandoned'.tag
    BY <1>5, <1>10, <2>1, <2>3
  <2> QED
    BY <2>2, <2>4
<1> QED
  BY <1>2, <1>5, <1>8, <1>12, <1>10, <1>11 DEF TagBound

(***************************************************************************)
(* Places.                                                                 *)
(***************************************************************************)

\* The places, by name.
LEMMA PlaceIs ==
  /\ \A t \in Thread :
       /\ <<"own", t>> \in Place /\ At(<<"own", t>>) = Own(t)
       /\ <<"hand", t>> \in Place /\ At(<<"hand", t>>) = Hand(t)
       /\ <<"flight", t>> \in Place /\ At(<<"flight", t>>) = InFlight(t)
  /\ <<"unused", NULL>> \in Place /\ At(<<"unused", NULL>>) = unused
  /\ <<"stack", NULL>> \in Place /\ At(<<"stack", NULL>>) = Stack
  /\ <<"visited", NULL>> \in Place /\ At(<<"visited", NULL>>) = Visited
  /\ \A p \in Place : \/ \E t \in Thread : p = <<"own", t>> \/ p = <<"hand", t>> \/ p = <<"flight", t>>
                      \/ p = <<"unused", NULL>> \/ p = <<"stack", NULL>> \/ p = <<"visited", NULL>>
<1>1. ASSUME NEW t \in Thread
      PROVE  /\ <<"own", t>> \in Place /\ At(<<"own", t>>) = Own(t)
             /\ <<"hand", t>> \in Place /\ At(<<"hand", t>>) = Hand(t)
             /\ <<"flight", t>> \in Place /\ At(<<"flight", t>>) = InFlight(t)
  BY DEF Place, At
<1>2. /\ <<"unused", NULL>> \in Place /\ At(<<"unused", NULL>>) = unused
      /\ <<"stack", NULL>> \in Place /\ At(<<"stack", NULL>>) = Stack
      /\ <<"visited", NULL>> \in Place /\ At(<<"visited", NULL>>) = Visited
  BY DEF Place, At
<1>3. ASSUME NEW p \in Place
      PROVE  \/ \E t \in Thread : p = <<"own", t>> \/ p = <<"hand", t>> \/ p = <<"flight", t>>
             \/ p = <<"unused", NULL>> \/ p = <<"stack", NULL>> \/ p = <<"visited", NULL>>
  BY DEF Place
<1> QED
  BY <1>1, <1>2, <1>3

\* A segment of one place is at no other.
LEMMA Apart ==
  ASSUME OnePlace
  PROVE  /\ \A t \in Thread, u \in Thread :
              /\ Own(t) \cap Hand(u) = {} /\ Own(t) \cap InFlight(u) = {} /\ Hand(t) \cap InFlight(u) = {}
              /\ t # u => Hand(t) \cap Hand(u) = {} /\ InFlight(t) \cap InFlight(u) = {}
         /\ \A t \in Thread :
              /\ Own(t) \cap unused = {} /\ Own(t) \cap Stack = {} /\ Own(t) \cap Visited = {}
              /\ Hand(t) \cap unused = {} /\ Hand(t) \cap Stack = {} /\ Hand(t) \cap Visited = {}
              /\ InFlight(t) \cap unused = {} /\ InFlight(t) \cap Stack = {} /\ InFlight(t) \cap Visited = {}
         /\ unused \cap Stack = {} /\ unused \cap Visited = {} /\ Stack \cap Visited = {}
<1>1. \A p \in Place, q \in Place : p # q => At(p) \cap At(q) = {}
  BY DEF OnePlace
<1>2. ASSUME NEW t \in Thread, NEW u \in Thread
      PROVE  /\ Own(t) \cap Hand(u) = {} /\ Own(t) \cap InFlight(u) = {} /\ Hand(t) \cap InFlight(u) = {}
             /\ t # u => Hand(t) \cap Hand(u) = {} /\ InFlight(t) \cap InFlight(u) = {}
  <2>1. <<"own", t>> # <<"hand", u>> /\ <<"own", t>> # <<"flight", u>> /\ <<"hand", t>> # <<"flight", u>>
    OBVIOUS
  <2>2. t # u => <<"hand", t>> # <<"hand", u>> /\ <<"flight", t>> # <<"flight", u>>
    OBVIOUS
  <2>3. \A v \in Thread : /\ <<"own", v>> \in Place /\ At(<<"own", v>>) = Own(v)
                          /\ <<"hand", v>> \in Place /\ At(<<"hand", v>>) = Hand(v)
                          /\ <<"flight", v>> \in Place /\ At(<<"flight", v>>) = InFlight(v)
    BY PlaceIs
  <2>4. Own(t) \cap Hand(u) = {} /\ Own(t) \cap InFlight(u) = {} /\ Hand(t) \cap InFlight(u) = {}
    BY <1>1, <2>1, <2>3
  <2>5. t # u => Hand(t) \cap Hand(u) = {} /\ InFlight(t) \cap InFlight(u) = {}
    BY <1>1, <2>2, <2>3
  <2> QED
    BY <2>4, <2>5
<1>3. ASSUME NEW t \in Thread
      PROVE  /\ Own(t) \cap unused = {} /\ Own(t) \cap Stack = {} /\ Own(t) \cap Visited = {}
             /\ Hand(t) \cap unused = {} /\ Hand(t) \cap Stack = {} /\ Hand(t) \cap Visited = {}
             /\ InFlight(t) \cap unused = {} /\ InFlight(t) \cap Stack = {} /\ InFlight(t) \cap Visited = {}
  <2>1. \A k \in {"own", "hand", "flight"}, j \in {"unused", "stack", "visited"} : <<k, t>> # <<j, NULL>>
    OBVIOUS
  <2> QED
    BY <1>1, <2>1, PlaceIs
<1>4. unused \cap Stack = {} /\ unused \cap Visited = {} /\ Stack \cap Visited = {}
  <2>1. /\ <<"unused", NULL>> # <<"stack", NULL>> /\ <<"unused", NULL>> # <<"visited", NULL>>
        /\ <<"stack", NULL>> # <<"visited", NULL>>
    OBVIOUS
  <2> QED
    BY <1>1, <2>1, PlaceIs
<1> QED
  BY <1>2, <1>3, <1>4

\* A step moves the segments X from place p to q.
Moved(p, q, X) ==
  \A r \in Place : At(r)' = IF r = p THEN At(r) \ X ELSE IF r = q THEN At(r) \cup X ELSE At(r)

\* A step that moves segments leaves every segment in one place.
LEMMA MovedApart ==
  ASSUME OnePlace, NEW p \in Place, NEW q \in Place, p # q, NEW X, X \subseteq At(p), Moved(p, q, X)
  PROVE  OnePlace'
<1>1. ASSUME NEW s \in Segment
      PROVE  \E r \in Place : s \in At(r)'
  <2>1. PICK r \in Place : s \in At(r)
    BY DEF OnePlace
  <2>2. s \in At(r)' \/ s \in At(q)'
    BY <2>1 DEF Moved
  <2> QED
    BY <2>2
<1>2. ASSUME NEW r \in Place, NEW o \in Place, r # o, NEW s, s \in At(r)', s \in At(o)'
      PROVE  FALSE
  <2>1. \A x \in Place : s \in At(x)' => s \in At(x) \/ (x = q /\ s \in X)
    BY DEF Moved
  <2>2. \A x \in Place, y \in Place : s \in At(x) /\ s \in At(y) => x = y
    BY DEF OnePlace
  <2>3. s \in X => s \notin At(p)'
    BY DEF Moved
  <2>4. s \in X => s \in At(p)
    OBVIOUS
  <2> QED
    BY <1>2, <2>1, <2>2, <2>3, <2>4
<1>3. \A r \in Place, o \in Place : r # o => At(r)' \cap At(o)' = {}
  BY <1>2
<1> QED
  BY <1>1, <1>3 DEF OnePlace, Place

\* The segments at each place after a step, from those at one.
Changed(p, q, X, r, S) == IF r = p THEN S \ X ELSE IF r = q THEN S \cup X ELSE S

\* The places one by one.
LEMMA MovedIs ==
  ASSUME NEW p, NEW q, NEW X,
         \A u \in Thread : /\ Own(u)' = Changed(p, q, X, <<"own", u>>, Own(u))
                           /\ Hand(u)' = Changed(p, q, X, <<"hand", u>>, Hand(u))
                           /\ InFlight(u)' = Changed(p, q, X, <<"flight", u>>, InFlight(u)),
         unused' = Changed(p, q, X, <<"unused", NULL>>, unused),
         Stack' = Changed(p, q, X, <<"stack", NULL>>, Stack),
         Visited' = Changed(p, q, X, <<"visited", NULL>>, Visited)
  PROVE  Moved(p, q, X)
<1>1. ASSUME NEW r \in Place
      PROVE  At(r)' = Changed(p, q, X, r, At(r))
  <2>1. CASE \E t \in Thread : r = <<"own", t>> \/ r = <<"hand", t>> \/ r = <<"flight", t>>
    <3>1. PICK t \in Thread : r = <<"own", t>> \/ r = <<"hand", t>> \/ r = <<"flight", t>>
      BY <2>1
    <3>2. /\ At(<<"own", t>>)' = Own(t)' /\ At(<<"hand", t>>)' = Hand(t)'
          /\ At(<<"flight", t>>)' = InFlight(t)'
      BY DEF At
    <3>3. At(<<"own", t>>) = Own(t) /\ At(<<"hand", t>>) = Hand(t) /\ At(<<"flight", t>>) = InFlight(t)
      BY DEF At
    <3> QED
      BY <3>1, <3>2, <3>3
  <2>2. CASE r = <<"unused", NULL>> \/ r = <<"stack", NULL>> \/ r = <<"visited", NULL>>
    <3>1. /\ At(<<"unused", NULL>>)' = unused' /\ At(<<"stack", NULL>>)' = Stack'
          /\ At(<<"visited", NULL>>)' = Visited'
      BY DEF At
    <3>2. /\ At(<<"unused", NULL>>) = unused /\ At(<<"stack", NULL>>) = Stack
          /\ At(<<"visited", NULL>>) = Visited
      BY DEF At
    <3> QED
      BY <2>2, <3>1, <3>2
  <2> QED
    BY <2>1, <2>2, PlaceIs
<1> QED
  BY <1>1 DEF Moved, Changed

(***************************************************************************)
(* Links.                                                                  *)
(***************************************************************************)

\* A link is written only where no list has the segment, or at the end of the
\* list that t has grabbed.
Free(t) == unused \cup Own(t) \cup Hand(t)
Written(t, n) ==
  \A y \in Segment : n[y] # abandoned_next[y] => y \in Free(t) \/ (pc[t] = "rv_link" /\ y = last[t])

\* No action writes another link.
LEMMA WrittenIs ==
  ASSUME TypeOK, Locals, NEW t \in Thread, Do(t)
  PROVE  Written(t, abandoned_next')
<1>0. abandoned_next \in [Segment -> Segment \cup {NULL}] /\ SegLocal(t)
  BY DEF TypeOK, Locals
<1> USE DEF Written
<1>1. CASE SegmentInit(t)
  BY <1>1, <1>0 DEF SegmentInit, Goto, Return, shared, segment, locals, Free, Own
<1>2. CASE OsFree(t)
  BY <1>2, <1>0 DEF OsFree, Goto, Return, shared, segment, locals
<1>3. CASE AwaitReaders(t)
  BY <1>3, <1>0 DEF AwaitReaders, Goto, Return, shared, segment, locals
<1>4. CASE Abandon(t)
  BY <1>4, <1>0 DEF Abandon, Goto, Return, shared, segment, locals, Free, Own
<1>5. CASE PushRead(t)
  BY <1>5, <1>0 DEF PushRead, Goto, Return, shared, segment, locals
<1>6. CASE PushLink(t)
  BY <1>6, <1>0 DEF PushLink, Goto, Return, shared, segment, locals, Free, Hand, SegLocal, HasSeg,
     HandLabel
<1>7. CASE PushCas(t)
  BY <1>7, <1>0 DEF PushCas, Goto, Return, shared, segment, locals
<1>8. CASE Pop(t)
  BY <1>8, <1>0 DEF Pop, Goto, Return, shared, segment, locals
<1>9. CASE RevisitCheck(t)
  BY <1>9, <1>0 DEF RevisitCheck, Goto, Return, shared, segment, locals
<1>10. CASE RevisitGrab(t)
  BY <1>10, <1>0 DEF RevisitGrab, Goto, Return, shared, segment, locals
<1>11. CASE RevisitRead(t)
  BY <1>11, <1>0 DEF RevisitRead, Goto, Return, shared, segment, locals
<1>12. CASE RevisitSwap(t)
  BY <1>12, <1>0 DEF RevisitSwap, Goto, Return, shared, segment, locals
<1>13. CASE RevisitAgain(t)
  BY <1>13, <1>0 DEF RevisitAgain, Goto, Return, shared, segment, locals
<1>14. CASE RevisitLink(t)
  BY <1>14, <1>0 DEF RevisitLink, Goto, Return, shared, segment, locals
<1>15. CASE RevisitCas(t)
  BY <1>15, <1>0 DEF RevisitCas, Goto, Return, shared, segment, locals
<1>16. CASE PopInc(t)
  BY <1>16, <1>0 DEF PopInc, Goto, Return, shared, segment, locals
<1>17. CASE PopRead(t)
  BY <1>17, <1>0 DEF PopRead, Goto, Return, shared, segment, locals
<1>18. CASE PopNext(t)
  BY <1>18, <1>0 DEF PopNext, Goto, Return, shared, segment, locals
<1>19. CASE PopCas(t)
  BY <1>19, <1>0 DEF PopCas, Goto, Return, shared, segment, locals
<1>20. CASE PopDec(t)
  BY <1>20, <1>0 DEF PopDec, Goto, Return, shared, segment, locals
<1>21. CASE PopClear(t)
  BY <1>21, <1>0 DEF PopClear, Goto, Return, shared, segment, locals, Free, Hand, SegLocal, HasSeg,
     HandLabel
<1>22. CASE Reclaim(t)
  BY <1>22, <1>0 DEF Reclaim, Goto, Return, shared, segment, locals
<1>23. CASE PutAside(t)
  BY <1>23, <1>0 DEF PutAside, Goto, Return, shared, segment, locals
<1>24. CASE VisitedRead(t)
  BY <1>24, <1>0 DEF VisitedRead, Goto, Return, shared, segment, locals
<1>25. CASE VisitedLink(t)
  BY <1>25, <1>0 DEF VisitedLink, Goto, Return, shared, segment, locals, Free, Hand, SegLocal,
     HasSeg, HandLabel
<1>26. CASE VisitedCas(t)
  BY <1>26, <1>0 DEF VisitedCas, Goto, Return, shared, segment, locals
<1> QED
  BY <1>1, <1>2, <1>3, <1>4, <1>5, <1>6, <1>7, <1>8, <1>9, <1>10, <1>11, <1>12, <1>13, <1>14,
     <1>15, <1>16, <1>17, <1>18, <1>19, <1>20, <1>21, <1>22, <1>23, <1>24, <1>25, <1>26 DEF Do,
     Call, Continue

\* n up to the segment x.
CutOf(n, x) == IF x = NULL THEN n ELSE [n EXCEPT ![x] = NULL]

\* The lists after such a write, before their heads change.
LEMMA Frame ==
  ASSUME TypeOK, OnePlace, ListsEnd, Locals, NEW t \in Thread,
         NEW n, n \in [Segment -> Segment \cup {NULL}], Written(t, n)
  PROVE  /\ Reach(abandoned.seg, n) = Stack /\ EndsIn(abandoned.seg, n)
         /\ Reach(abandoned_visited, n) = Visited /\ EndsIn(abandoned_visited, n)
         /\ \A u \in Thread : pc[u] \in FlightLabel =>
              /\ Reach(seg[u], CutOf(n, last[u])) = InFlight(u)
              /\ EndsIn(seg[u], CutOf(n, last[u]))
         /\ \A y \in Stack \cup Visited : n[y] = abandoned_next[y]
<1>1. abandoned_next \in [Segment -> Segment \cup {NULL}] /\ DOMAIN n = DOMAIN abandoned_next
  BY DEF TypeOK
<1>2. Stack \subseteq Segment /\ Visited \subseteq Segment
  BY <1>1, ReachIs DEF Stack, Visited
<1>3. pc[t] = "rv_link" => last[t] \in InFlight(t)
  BY DEF Locals, LastLocal, ListsEnd, FlightEnds, FlightLabel
<1>4. ASSUME NEW y \in Stack \cup Visited
      PROVE  n[y] = abandoned_next[y]
  <2>1. y \notin Free(t)
    BY Apart DEF Free
  <2>2. y \notin InFlight(t)
    BY Apart
  <2> QED
    BY <1>2, <1>3, <2>1, <2>2 DEF Written
<1>5. /\ Reach(abandoned.seg, n) = Stack /\ EndsIn(abandoned.seg, n)
      /\ Reach(abandoned_visited, n) = Visited /\ EndsIn(abandoned_visited, n)
  <2>1. \A y \in Reach(abandoned.seg, abandoned_next) : n[y] = abandoned_next[y]
    BY <1>4 DEF Stack
  <2>2. \A y \in Reach(abandoned_visited, abandoned_next) : n[y] = abandoned_next[y]
    BY <1>4 DEF Visited
  <2>3. EndsIn(abandoned.seg, abandoned_next) /\ EndsIn(abandoned_visited, abandoned_next)
    BY DEF ListsEnd
  <2>4. Reach(abandoned.seg, n) = Stack /\ EndsIn(abandoned.seg, n)
    BY <1>1, <2>1, <2>3, ReachSame DEF Stack
  <2>5. Reach(abandoned_visited, n) = Visited /\ EndsIn(abandoned_visited, n)
    BY <1>1, <2>2, <2>3, ReachSame DEF Visited
  <2> QED
    BY <2>4, <2>5
<1>6. ASSUME NEW u \in Thread, pc[u] \in FlightLabel
      PROVE  /\ Reach(seg[u], CutOf(n, last[u])) = InFlight(u)
             /\ EndsIn(seg[u], CutOf(n, last[u]))
  <2>1. /\ InFlight(u) = Reach(seg[u], Cut(u)) /\ EndsIn(seg[u], Cut(u))
        /\ Cut(u) \in [Segment -> Segment \cup {NULL}] /\ last[u] \in Segment \cup {NULL}
    BY <1>6, AgainEnd, TypeFacts DEF ListsEnd, FlightEnds
  <2>2. PICK c : c = CutOf(n, last[u])
    OBVIOUS
  <2>3. c \in [Segment -> Segment \cup {NULL}]
    BY <2>1, <2>2 DEF CutOf
  <2>4. ASSUME NEW y \in InFlight(u)
        PROVE  c[y] = Cut(u)[y]
    <3>1. y \in Segment
      BY <2>1, ReachIs
    <3>2. CASE y = last[u]
      BY <1>1, <2>1, <2>2, <3>1, <3>2, SegmentAssumption DEF CutOf, Cut
    <3>3. CASE y # last[u]
      <4>1. y \notin Free(t)
        BY Apart DEF Free
      <4>2. t # u => y \notin InFlight(t)
        BY Apart
      <4>3. n[y] = abandoned_next[y]
        BY <1>3, <3>1, <3>3, <4>1, <4>2 DEF Written
      <4>4. c[y] = n[y] /\ Cut(u)[y] = abandoned_next[y]
        BY <1>1, <2>2, <3>1, <3>3 DEF CutOf, Cut
      <4> QED
        BY <4>3, <4>4
    <3> QED
      BY <3>2, <3>3
  <2>5. Reach(seg[u], c) = Reach(seg[u], Cut(u)) /\ EndsIn(seg[u], c)
    BY <2>1, <2>3, <2>4, ReachSame
  <2> QED
    BY <2>1, <2>2, <2>5
<1> QED
  BY <1>4, <1>5, <1>6

(***************************************************************************)
(* Moves.                                                                  *)
(***************************************************************************)

\* What a move needs of the state before it.
Core == TypeOK /\ OnePlace /\ ListsEnd /\ Locals /\ TagBound

\* The links after a step.
LEMMA LinksStep ==
  ASSUME Core, NEW t \in Thread, Do(t)
  PROVE  /\ abandoned_next' \in [Segment -> Segment \cup {NULL}] /\ Written(t, abandoned_next')
         /\ Reach(abandoned.seg, abandoned_next') = Stack /\ EndsIn(abandoned.seg, abandoned_next')
         /\ Reach(abandoned_visited, abandoned_next') = Visited /\ EndsIn(abandoned_visited, abandoned_next')
         /\ \A u \in Thread : pc[u] \in FlightLabel =>
              /\ Reach(seg[u], CutOf(abandoned_next', last[u])) = InFlight(u)
              /\ EndsIn(seg[u], CutOf(abandoned_next', last[u]))
<1>1. abandoned_next' \in [Segment -> Segment \cup {NULL}] /\ Written(t, abandoned_next')
  BY SharedStep, WrittenIs DEF Core, SharedTypes
<1> QED
  BY <1>1, Frame DEF Core

\* The places of the other threads.
LEMMA OtherPlaces ==
  ASSUME Core, NEW t \in Thread, Do(t), NEW u \in Thread, u # t
  PROVE  Hand(u)' = Hand(u) /\ InFlight(u)' = InFlight(u) /\ FlightEnds(u)'
<1>1. pc'[u] = pc[u] /\ seg'[u] = seg[u] /\ last'[u] = last[u]
  BY OthersKept DEF Others, Core
<1>2. Hand(u)' = Hand(u)
  BY <1>1 DEF Hand
<1>3. Cut(u)' = CutOf(abandoned_next', last[u])
  BY <1>1 DEF Cut, CutOf
<1>4. InFlight(u)' = InFlight(u) /\ (pc[u] \in FlightLabel => EndsIn(seg[u], CutOf(abandoned_next', last[u])))
  BY <1>1, <1>3, LinksStep DEF InFlight
<1>5. FlightEnds(u)'
  <2>1. EndsIn(seg[u], Cut(u))' <=> EndsIn(seg[u], CutOf(abandoned_next', last[u]))
    BY <1>1, <1>3 DEF EndsIn
  <2>2. pc[u] \in FlightLabel /\ last[u] # NULL => last[u] \in InFlight(u)
    BY DEF Core, ListsEnd, FlightEnds
  <2> QED
    BY <1>1, <1>4, <2>1, <2>2 DEF FlightEnds
<1> QED
  BY <1>2, <1>4, <1>5

\* The list that t goes on holding.
LEMMA KeptFlight ==
  ASSUME Core, NEW t \in Thread, Do(t), pc[t] \in FlightLabel, pc'[t] \in FlightLabel,
         seg'[t] = seg[t], last'[t] = last[t]
  PROVE  InFlight(t)' = InFlight(t) /\ FlightEnds(t)'
<1>1. Cut(t)' = CutOf(abandoned_next', last[t])
  BY DEF Cut, CutOf
<1>2. InFlight(t)' = InFlight(t) /\ EndsIn(seg[t], CutOf(abandoned_next', last[t]))
  BY <1>1, LinksStep DEF InFlight
<1>3. EndsIn(seg[t], Cut(t))' <=> EndsIn(seg[t], CutOf(abandoned_next', last[t]))
  BY <1>1 DEF EndsIn
<1>4. last[t] # NULL => last[t] \in InFlight(t)
  BY DEF Core, ListsEnd, FlightEnds
<1> QED
  BY <1>2, <1>3, <1>4 DEF FlightEnds

\* Its end is found.
LEMMA FoundEnd ==
  ASSUME Core, NEW t \in Thread, RevisitAgain(t)
  PROVE  InFlight(t)' = InFlight(t) /\ FlightEnds(t)'
<1>1. /\ pc[t] = "rv_again" /\ pc[t] \in FlightLabel /\ pc'[t] = "rv_link" /\ seg' = seg
      /\ abandoned_next' = abandoned_next
  BY DEF RevisitAgain, Core, TypeOK, Goto, segment, FlightLabel
<1>2. CASE last[t] # NULL
  <2>1. last'[t] = last[t] /\ Do(t) /\ pc'[t] \in FlightLabel
    BY <1>1, <1>2 DEF RevisitAgain, Core, TypeOK, Do, Continue, FlightLabel
  <2> QED
    BY <1>1, <2>1, KeptFlight
<1>3. CASE last[t] = NULL
  <2>1. PICK e : e = CHOOSE s \in Reach(seg[t], abandoned_next) : abandoned_next[s] = NULL
    OBVIOUS
  <2>2. /\ InFlight(t) = Reach(seg[t], abandoned_next) /\ seg[t] \in Segment
        /\ \E s \in Reach(seg[t], abandoned_next) : abandoned_next[s] = NULL
    BY <1>1, <1>3, AgainEnd DEF Core, Cut
  <2>3. e \in Reach(seg[t], abandoned_next) /\ abandoned_next[e] = NULL
    BY <2>1, <2>2
  <2>4. last'[t] = e
    BY <1>3, <2>1 DEF RevisitAgain, Core, TypeOK
  <2>5. abandoned_next \in [Segment -> Segment \cup {NULL}] /\ NULL \notin Segment
    BY SegmentAssumption DEF Core, TypeOK
  <2>6. e \in Segment
    BY <2>3, <2>5, ReachIs
  <2>7. Cut(t)' = [abandoned_next EXCEPT ![e] = NULL]
    BY <1>1, <2>4, <2>5, <2>6 DEF Cut
  <2>8. Cut(t)' = abandoned_next
    BY <2>3, <2>5, <2>6, <2>7
  <2>9. InFlight(t)' = InFlight(t)
    BY <1>1, <2>2, <2>8 DEF InFlight, FlightLabel
  <2>10. EndsIn(seg[t], Cut(t))'
    BY <1>1, <2>3, <2>5, <2>8 DEF EndsIn
  <2> QED
    BY <1>1, <2>2, <2>3, <2>4, <2>9, <2>10 DEF FlightEnds
<1> QED
  BY <1>2, <1>3

\* The lists.
ListPlace == {"flight"} \X Thread \cup {"stack", "visited"} \X {NULL}

\* What a step does: it moves the segments X from one place to another.
Moves(p, q, X) ==
  /\ p \in Place /\ q \in Place /\ p # q /\ X \subseteq At(p) /\ Moved(p, q, X) /\ ListsEnd'
  /\ X = {} \/ (\E s \in Segment : X = {s}) \/ (p \in ListPlace /\ q \in ListPlace)

\* The heads of the lists stay.
LEMMA HeadsKept ==
  ASSUME Core, NEW t \in Thread, Do(t), abandoned'.seg = abandoned.seg, abandoned_visited' = abandoned_visited,
         FlightEnds(t)'
  PROVE  Stack' = Stack /\ Visited' = Visited /\ ListsEnd'
<1>1. Stack' = Stack /\ Visited' = Visited
  BY LinksStep DEF Stack, Visited
<1>2. EndsIn(abandoned.seg, abandoned_next)' /\ EndsIn(abandoned_visited, abandoned_next)'
  BY LinksStep DEF EndsIn
<1>3. \A u \in Thread : FlightEnds(u)'
  BY OtherPlaces
<1> QED
  BY <1>1, <1>2, <1>3 DEF ListsEnd

\* No segment moves.
LEMMA NoMove ==
  ASSUME Core, NEW t \in Thread, Do(t), abandoned'.seg = abandoned.seg, abandoned_visited' = abandoned_visited,
         thread_id' = thread_id, unused' = unused,
         Hand(t)' = Hand(t), InFlight(t)' = InFlight(t), FlightEnds(t)'
  PROVE  Moves(<<"unused", NULL>>, <<"stack", NULL>>, {})
<1>1. Stack' = Stack /\ Visited' = Visited /\ ListsEnd'
  BY HeadsKept
<1>2. \A u \in Thread : Own(u)' = Own(u)
  BY DEF Own
<1>3. \A u \in Thread : Hand(u)' = Hand(u) /\ InFlight(u)' = InFlight(u)
  BY OtherPlaces
<1>4. PICK p, q : p = <<"unused", NULL>> /\ q = <<"stack", NULL>>
  OBVIOUS
<1>5. \A r, S : Changed(p, q, {}, r, S) = S
  BY DEF Changed
<1>6. Moved(p, q, {})
  BY <1>1, <1>2, <1>3, <1>5, MovedIs
<1>7. p \in Place /\ q \in Place /\ p # q
  BY <1>4, PlaceIs
<1> QED
  BY <1>1, <1>4, <1>6, <1>7 DEF Moves

\* A segment moves between the hands of t, its own segments and the unused ones.
LEMMA HandMove ==
  ASSUME Core, NEW t \in Thread, Do(t), abandoned'.seg = abandoned.seg, abandoned_visited' = abandoned_visited,
         pc[t] \notin FlightLabel, pc'[t] \notin FlightLabel,
         NEW p, NEW q, p \in {<<"own", t>>, <<"hand", t>>, <<"unused", NULL>>},
         q \in {<<"own", t>>, <<"hand", t>>, <<"unused", NULL>>}, p # q,
         NEW s \in At(p), s \in Segment,
         \A u \in Thread : u # t => Own(u)' = Own(u),
         Own(t)' = Changed(p, q, {s}, <<"own", t>>, Own(t)),
         Hand(t)' = Changed(p, q, {s}, <<"hand", t>>, Hand(t)),
         unused' = Changed(p, q, {s}, <<"unused", NULL>>, unused)
  PROVE  Moves(p, q, {s})
<1>1. InFlight(t)' = {} /\ InFlight(t) = {} /\ FlightEnds(t)'
  BY DEF InFlight, FlightEnds
<1>2. Stack' = Stack /\ Visited' = Visited /\ ListsEnd'
  BY <1>1, HeadsKept
<1>3. /\ \A u \in Thread : u # t => Hand(u)' = Hand(u) /\ InFlight(u)' = InFlight(u)
  BY OtherPlaces
<1>4. \A S, u : /\ u # t => Changed(p, q, {s}, <<"own", u>>, S) = S /\ Changed(p, q, {s}, <<"hand", u>>, S) = S
                /\ Changed(p, q, {s}, <<"flight", u>>, S) = S
                /\ Changed(p, q, {s}, <<"stack", NULL>>, S) = S /\ Changed(p, q, {s}, <<"visited", NULL>>, S) = S
  BY DEF Changed
<1>5. Moved(p, q, {s})
  <2>1. ASSUME NEW u \in Thread
        PROVE  /\ Own(u)' = Changed(p, q, {s}, <<"own", u>>, Own(u))
               /\ Hand(u)' = Changed(p, q, {s}, <<"hand", u>>, Hand(u))
               /\ InFlight(u)' = Changed(p, q, {s}, <<"flight", u>>, InFlight(u))
    BY <1>1, <1>3, <1>4
  <2>2. /\ unused' = Changed(p, q, {s}, <<"unused", NULL>>, unused)
        /\ Stack' = Changed(p, q, {s}, <<"stack", NULL>>, Stack)
        /\ Visited' = Changed(p, q, {s}, <<"visited", NULL>>, Visited)
    BY <1>2, <1>4
  <2> QED
    BY <2>1, <2>2, MovedIs
<1>6. p \in Place /\ q \in Place
  BY PlaceIs
<1> QED
  BY <1>2, <1>5, <1>6 DEF Moves

\* Steps of a call that holds no list, and of one that holds one.
LEMMA QuietMove ==
  ASSUME Core, NEW t \in Thread, Do(t), abandoned'.seg = abandoned.seg, abandoned_visited' = abandoned_visited,
         thread_id' = thread_id, unused' = unused,
         pc[t] \notin FlightLabel, pc'[t] \notin FlightLabel, Hand(t)' = Hand(t)
  PROVE  Moves(<<"unused", NULL>>, <<"stack", NULL>>, {})
<1>1. InFlight(t)' = {} /\ InFlight(t) = {} /\ FlightEnds(t)'
  BY DEF InFlight, FlightEnds
<1> QED
  BY <1>1, NoMove

\* The same for a step of t on the list it has grabbed.
LEMMA FlightMove ==
  ASSUME Core, NEW t \in Thread, Do(t), abandoned'.seg = abandoned.seg, abandoned_visited' = abandoned_visited,
         thread_id' = thread_id, unused' = unused,
         pc[t] \in FlightLabel, pc'[t] \in FlightLabel, seg'[t] = seg[t], last'[t] = last[t]
  PROVE  Moves(<<"unused", NULL>>, <<"stack", NULL>>, {})
<1>1. InFlight(t)' = InFlight(t) /\ FlightEnds(t)'
  BY KeptFlight
<1>2. Hand(t)' = {} /\ Hand(t) = {}
  BY DEF Hand, FlightLabel, HandLabel
<1> QED
  BY <1>1, <1>2, NoMove

\* A step writes one of the two heads, and the other places keep their
\* segments but for those of t.
LEMMA HeadMove ==
  ASSUME Core, NEW t \in Thread, Do(t), thread_id' = thread_id, unused' = unused,
         NEW p \in Place, NEW q \in Place, p # q, NEW X, X \subseteq At(p),
         X = {} \/ (\E s \in Segment : X = {s}) \/ (p \in ListPlace /\ q \in ListPlace),
         p \in {<<"hand", t>>, <<"flight", t>>, <<"stack", NULL>>, <<"visited", NULL>>},
         q \in {<<"hand", t>>, <<"flight", t>>, <<"stack", NULL>>, <<"visited", NULL>>},
         Hand(t)' = Changed(p, q, X, <<"hand", t>>, Hand(t)),
         InFlight(t)' = Changed(p, q, X, <<"flight", t>>, InFlight(t)), FlightEnds(t)',
         Stack' = Changed(p, q, X, <<"stack", NULL>>, Stack), EndsIn(abandoned.seg, abandoned_next)',
         Visited' = Changed(p, q, X, <<"visited", NULL>>, Visited), EndsIn(abandoned_visited, abandoned_next)'
  PROVE  Moves(p, q, X)
<1>1. \A u \in Thread : u # t => Hand(u)' = Hand(u) /\ InFlight(u)' = InFlight(u) /\ FlightEnds(u)'
  BY OtherPlaces
<1>2. ListsEnd'
  BY <1>1 DEF ListsEnd
<1>3. \A S, u : /\ u # t => Changed(p, q, X, <<"hand", u>>, S) = S /\ Changed(p, q, X, <<"flight", u>>, S) = S
                /\ Changed(p, q, X, <<"own", u>>, S) = S /\ Changed(p, q, X, <<"unused", NULL>>, S) = S
  BY DEF Changed
<1>4. Moved(p, q, X)
  <2>1. ASSUME NEW u \in Thread
        PROVE  /\ Own(u)' = Changed(p, q, X, <<"own", u>>, Own(u))
               /\ Hand(u)' = Changed(p, q, X, <<"hand", u>>, Hand(u))
               /\ InFlight(u)' = Changed(p, q, X, <<"flight", u>>, InFlight(u))
    <3>1. Own(u)' = Own(u)
      BY DEF Own
    <3> QED
      BY <1>1, <1>3, <3>1
  <2>2. unused' = Changed(p, q, X, <<"unused", NULL>>, unused)
    BY <1>3
  <2> QED
    BY <2>1, <2>2, MovedIs
<1> QED
  BY <1>2, <1>4 DEF Moves

\* mi_segment_init takes a segment from the region layer.
LEMMA SegmentInitMove ==
  ASSUME Core, NEW t \in Thread, SegmentInit(t)
  PROVE  \E p \in Place, q \in Place, X \in SUBSET Segment : Moves(p, q, X)
<1>1. /\ Do(t) /\ pc \in [Thread -> Label] /\ seg \in [Thread -> Segment \cup {NULL}] /\ NULL \notin Segment
      /\ thread_id \in [Segment -> Thread \cup {NULL}] /\ unused \subseteq Segment /\ NULL \notin Thread
      /\ last \in [Thread -> Segment \cup {NULL}] /\ abandoned_next \in [Segment -> Segment \cup {NULL}]
  BY SegmentAssumption, ThreadAssumption DEF Core, TypeOK, Do, Call, Continue
<1>2. PICK s \in unused : /\ unused' = unused \ {s} /\ thread_id' = [thread_id EXCEPT ![s] = t]
  BY DEF SegmentInit
<1>20. s \in Segment /\ thread_id[s] = NULL
  <2>1. \A u \in Thread : s \notin Own(u)
    BY Apart DEF Core
  <2> QED
    BY <1>1, <1>2, <2>1 DEF Own
<1>3. /\ abandoned'.seg = abandoned.seg /\ abandoned_visited' = abandoned_visited
      /\ pc[t] \notin FlightLabel /\ pc'[t] \notin FlightLabel
  BY <1>1, <1>2 DEF SegmentInit, FlightLabel, Goto, Return, shared, segment, locals
<1>4. PICK p, q : p = <<"unused", NULL>> /\ q = <<"own", t>>
  OBVIOUS
<1>5. p # q /\ At(p) = unused
  BY <1>4, PlaceIs
<1>6. s \in At(p)
  BY <1>1, <1>2, <1>20, <1>5 DEF SegmentInit, Own, Hand, HandLabel
<1>7. \A u \in Thread : Own(u)' = IF u = t THEN Own(u) \cup {s} ELSE Own(u)
  BY <1>1, <1>2, <1>20 DEF SegmentInit, Own
<1>8. Hand(t)' = Hand(t) /\ unused' = unused \ {s}
  BY <1>1, <1>2, <1>20 DEF SegmentInit, Hand, HandLabel, Goto, Return, shared, segment, locals
<1>9. /\ Own(t)' = Changed(p, q, {s}, <<"own", t>>, Own(t))
      /\ Hand(t)' = Changed(p, q, {s}, <<"hand", t>>, Hand(t))
      /\ unused' = Changed(p, q, {s}, <<"unused", NULL>>, unused)
  BY <1>4, <1>7, <1>8 DEF Changed, Hand, HandLabel
<1>10. Moves(p, q, {s})
  BY <1>1, <1>20, <1>3, <1>4, <1>5, <1>6, <1>7, <1>9, HandMove
<1> QED
  BY <1>4, <1>10, <1>20, PlaceIs

\* A segment is reset and goes back to the region layer.
LEMMA AwaitReadersMove ==
  ASSUME Core, NEW t \in Thread, AwaitReaders(t)
  PROVE  \E p \in Place, q \in Place, X \in SUBSET Segment : Moves(p, q, X)
<1>1. /\ Do(t) /\ pc \in [Thread -> Label] /\ seg \in [Thread -> Segment \cup {NULL}] /\ NULL \notin Segment
      /\ thread_id \in [Segment -> Thread \cup {NULL}] /\ unused \subseteq Segment /\ NULL \notin Thread
      /\ last \in [Thread -> Segment \cup {NULL}] /\ abandoned_next \in [Segment -> Segment \cup {NULL}]
  BY SegmentAssumption, ThreadAssumption DEF Core, TypeOK, Do, Call, Continue
<1>2. PICK s \in Segment : s = seg[t]
  BY DEF AwaitReaders, Core, Locals, SegLocal, HasSeg, HandLabel
<1>20. s \in Segment
  OBVIOUS
<1>3. /\ abandoned'.seg = abandoned.seg /\ abandoned_visited' = abandoned_visited
      /\ pc[t] \notin FlightLabel /\ pc'[t] \notin FlightLabel
  BY <1>1, <1>2 DEF AwaitReaders, FlightLabel, Goto, Return, shared, segment, locals
<1>4. PICK p, q : p = <<"hand", t>> /\ q = <<"unused", NULL>>
  OBVIOUS
<1>5. p # q /\ At(p) = Hand(t)
  BY <1>4, PlaceIs
<1>6. s \in At(p)
  BY <1>1, <1>2, <1>20, <1>5 DEF AwaitReaders, Own, Hand, HandLabel
<1>7. \A u \in Thread : Own(u)' = Own(u)
  BY <1>1, <1>2, <1>20 DEF AwaitReaders, Own
<1>8. Hand(t)' = {} /\ unused' = unused \cup {s}
  BY <1>1, <1>2, <1>20 DEF AwaitReaders, Hand, HandLabel, Goto, Return, shared, segment, locals
<1>9. /\ Own(t)' = Changed(p, q, {s}, <<"own", t>>, Own(t))
      /\ Hand(t)' = Changed(p, q, {s}, <<"hand", t>>, Hand(t))
      /\ unused' = Changed(p, q, {s}, <<"unused", NULL>>, unused)
  BY <1>4, <1>7, <1>8, <1>2 DEF Changed, Hand, HandLabel
<1>10. Moves(p, q, {s})
  BY <1>1, <1>20, <1>3, <1>4, <1>5, <1>6, <1>7, <1>9, HandMove
<1> QED
  BY <1>4, <1>10, <1>20, PlaceIs

\* mi_segment_abandon takes a segment of its thread.
LEMMA AbandonMove ==
  ASSUME Core, NEW t \in Thread, Abandon(t)
  PROVE  \E p \in Place, q \in Place, X \in SUBSET Segment : Moves(p, q, X)
<1>1. /\ Do(t) /\ pc \in [Thread -> Label] /\ seg \in [Thread -> Segment \cup {NULL}] /\ NULL \notin Segment
      /\ thread_id \in [Segment -> Thread \cup {NULL}] /\ unused \subseteq Segment /\ NULL \notin Thread
      /\ last \in [Thread -> Segment \cup {NULL}] /\ abandoned_next \in [Segment -> Segment \cup {NULL}]
  BY SegmentAssumption, ThreadAssumption DEF Core, TypeOK, Do, Call, Continue
<1>2. PICK s \in Segment : /\ thread_id[s] = t /\ thread_id' = [thread_id EXCEPT ![s] = NULL]
                           /\ seg' = [seg EXCEPT ![t] = s]
  BY DEF Abandon
<1>20. s \in Segment
  OBVIOUS
<1>3. /\ abandoned'.seg = abandoned.seg /\ abandoned_visited' = abandoned_visited
      /\ pc[t] \notin FlightLabel /\ pc'[t] \notin FlightLabel
  BY <1>1, <1>2 DEF Abandon, FlightLabel, Goto, Return, shared, segment, locals
<1>4. PICK p, q : p = <<"own", t>> /\ q = <<"hand", t>>
  OBVIOUS
<1>5. p # q /\ At(p) = Own(t)
  BY <1>4, PlaceIs
<1>6. s \in At(p)
  BY <1>1, <1>2, <1>20, <1>5 DEF Abandon, Own, Hand, HandLabel
<1>7. \A u \in Thread : Own(u)' = IF u = t THEN Own(u) \ {s} ELSE Own(u)
  BY <1>1, <1>2, <1>20 DEF Abandon, Own
<1>8. Hand(t)' = {s} /\ unused' = unused
  BY <1>1, <1>2, <1>20 DEF Abandon, Hand, HandLabel, Goto, Return, shared, segment, locals
<1>30. Hand(t) = {}
  BY DEF Abandon, Hand, HandLabel
<1>9. /\ Own(t)' = Changed(p, q, {s}, <<"own", t>>, Own(t))
      /\ Hand(t)' = Changed(p, q, {s}, <<"hand", t>>, Hand(t))
      /\ unused' = Changed(p, q, {s}, <<"unused", NULL>>, unused)
  BY <1>4, <1>7, <1>8, <1>30 DEF Changed, Hand, HandLabel
<1>10. Moves(p, q, {s})
  BY <1>1, <1>20, <1>3, <1>4, <1>5, <1>6, <1>7, <1>9, HandMove
<1> QED
  BY <1>4, <1>10, <1>20, PlaceIs

\* mi_segment_reclaim makes a segment its own.
LEMMA ReclaimMove ==
  ASSUME Core, NEW t \in Thread, Reclaim(t)
  PROVE  \E p \in Place, q \in Place, X \in SUBSET Segment : Moves(p, q, X)
<1>1. /\ Do(t) /\ pc \in [Thread -> Label] /\ seg \in [Thread -> Segment \cup {NULL}] /\ NULL \notin Segment
      /\ thread_id \in [Segment -> Thread \cup {NULL}] /\ unused \subseteq Segment /\ NULL \notin Thread
      /\ last \in [Thread -> Segment \cup {NULL}] /\ abandoned_next \in [Segment -> Segment \cup {NULL}]
  BY SegmentAssumption, ThreadAssumption DEF Core, TypeOK, Do, Call, Continue
<1>2. PICK s \in Segment : s = seg[t]
  BY DEF Reclaim, Core, Locals, SegLocal, HasSeg, HandLabel
<1>20. s \in Segment
  OBVIOUS
<1>3. /\ abandoned'.seg = abandoned.seg /\ abandoned_visited' = abandoned_visited
      /\ pc[t] \notin FlightLabel /\ pc'[t] \notin FlightLabel
  BY <1>1, <1>2 DEF Reclaim, FlightLabel, Goto, Return, shared, segment, locals
<1>4. PICK p, q : p = <<"hand", t>> /\ q = <<"own", t>>
  OBVIOUS
<1>5. p # q /\ At(p) = Hand(t)
  BY <1>4, PlaceIs
<1>6. s \in At(p)
  BY <1>1, <1>2, <1>20, <1>5 DEF Reclaim, Own, Hand, HandLabel
<1>21. thread_id[s] = NULL
  <2>1. s \in Hand(t)
    BY <1>2 DEF Reclaim, Hand, HandLabel
  <2>2. \A u \in Thread : s \notin Own(u)
    BY <2>1, Apart DEF Core
  <2> QED
    BY <1>1, <2>2 DEF Own
<1>7. \A u \in Thread : Own(u)' = IF u = t THEN Own(u) \cup {s} ELSE Own(u)
  BY <1>1, <1>2, <1>21 DEF Reclaim, Own
<1>8. Hand(t)' = {} /\ unused' = unused
  BY <1>1, <1>2, <1>20 DEF Reclaim, Hand, HandLabel, Goto, Return, shared, segment, locals
<1>9. /\ Own(t)' = Changed(p, q, {s}, <<"own", t>>, Own(t))
      /\ Hand(t)' = Changed(p, q, {s}, <<"hand", t>>, Hand(t))
      /\ unused' = Changed(p, q, {s}, <<"unused", NULL>>, unused)
  BY <1>4, <1>7, <1>8, <1>2 DEF Changed, Hand, HandLabel
<1>10. Moves(p, q, {s})
  BY <1>1, <1>20, <1>3, <1>4, <1>5, <1>6, <1>7, <1>9, HandMove
<1> QED
  BY <1>4, <1>10, <1>20, PlaceIs

\* _mi_mem_free: the segment is unused, or waits for the readers.
LEMMA OsFreeMove ==
  ASSUME Core, NEW t \in Thread, OsFree(t)
  PROVE  \E p \in Place, q \in Place, X \in SUBSET Segment : Moves(p, q, X)
<1>1. /\ Do(t) /\ pc \in [Thread -> Label] /\ seg \in [Thread -> Segment \cup {NULL}] /\ NULL \notin Segment
      /\ thread_id \in [Segment -> Thread \cup {NULL}] /\ unused \subseteq Segment /\ NULL \notin Thread
      /\ last \in [Thread -> Segment \cup {NULL}] /\ abandoned_next \in [Segment -> Segment \cup {NULL}]
  BY SegmentAssumption, ThreadAssumption DEF Core, TypeOK, Do, Call, Continue
<1>2. PICK s \in Segment :
        /\ thread_id[s] = t /\ thread_id' = [thread_id EXCEPT ![s] = NULL]
        /\ \/ unused' = unused \cup {s} /\ UNCHANGED <<pc, seg>>
           \/ unused' = unused /\ seg' = [seg EXCEPT ![t] = s] /\ pc' = [pc EXCEPT ![t] = "await"]
  BY DEF OsFree, Goto
<1>3. /\ abandoned'.seg = abandoned.seg /\ abandoned_visited' = abandoned_visited
      /\ pc[t] \notin FlightLabel /\ pc'[t] \notin FlightLabel
  BY <1>1, <1>2 DEF OsFree, FlightLabel, shared
<1>4. Hand(t) = {} /\ s \in Own(t) /\ At(<<"own", t>>) = Own(t)
  BY <1>2, PlaceIs DEF OsFree, Hand, HandLabel, Own
<1>5. \A u \in Thread : Own(u)' = IF u = t THEN Own(u) \ {s} ELSE Own(u)
  BY <1>1, <1>2 DEF Own
<1>6. PICK p : p = <<"own", t>>
  OBVIOUS
<1>7. CASE unused' = unused \cup {s} /\ UNCHANGED <<pc, seg>>
  <2>1. PICK q : q = <<"unused", NULL>>
    OBVIOUS
  <2>2. Hand(t)' = Hand(t)
    BY <1>7 DEF Hand
  <2>3. /\ Own(t)' = Changed(p, q, {s}, <<"own", t>>, Own(t))
        /\ Hand(t)' = Changed(p, q, {s}, <<"hand", t>>, Hand(t))
        /\ unused' = Changed(p, q, {s}, <<"unused", NULL>>, unused)
    BY <1>5, <1>6, <1>7, <2>1, <2>2 DEF Changed
  <2>4. p # q /\ s \in At(p)
    BY <1>4, <1>6, <2>1
  <2>5. Moves(p, q, {s})
    BY <1>1, <1>3, <1>5, <1>6, <2>1, <2>3, <2>4, HandMove
  <2> QED
    BY <1>6, <2>1, <2>5, PlaceIs
<1>8. CASE unused' = unused /\ seg' = [seg EXCEPT ![t] = s] /\ pc' = [pc EXCEPT ![t] = "await"]
  <2>1. PICK q : q = <<"hand", t>>
    OBVIOUS
  <2>2. Hand(t)' = {s}
    BY <1>1, <1>8 DEF Hand, HandLabel
  <2>3. /\ Own(t)' = Changed(p, q, {s}, <<"own", t>>, Own(t))
        /\ Hand(t)' = Changed(p, q, {s}, <<"hand", t>>, Hand(t))
        /\ unused' = Changed(p, q, {s}, <<"unused", NULL>>, unused)
    BY <1>4, <1>5, <1>6, <1>8, <2>1, <2>2 DEF Changed
  <2>4. p # q /\ s \in At(p)
    BY <1>4, <1>6, <2>1
  <2>5. Moves(p, q, {s})
    BY <1>1, <1>3, <1>5, <1>6, <2>1, <2>3, <2>4, HandMove
  <2> QED
    BY <1>6, <2>1, <2>5, PlaceIs
<1> QED
  BY <1>2, <1>7, <1>8

\* mi_abandoned_push.
LEMMA PushCasMove ==
  ASSUME Core, NEW t \in Thread, PushCas(t)
  PROVE  \E p \in Place, q \in Place, X \in SUBSET Segment : Moves(p, q, X)
<1>1. /\ Do(t) /\ pc \in [Thread -> Label] /\ seg \in [Thread -> Segment \cup {NULL}] /\ NULL \notin Segment
      /\ thread_id \in [Segment -> Thread \cup {NULL}] /\ unused \subseteq Segment /\ NULL \notin Thread
      /\ last \in [Thread -> Segment \cup {NULL}] /\ abandoned_next \in [Segment -> Segment \cup {NULL}]
  BY SegmentAssumption, ThreadAssumption DEF Core, TypeOK, Do, Call, Continue
<1>2. CASE ~(abandoned = ts[t])
  <2>1. /\ abandoned'.seg = abandoned.seg /\ abandoned_visited' = abandoned_visited
        /\ thread_id' = thread_id /\ unused' = unused
        /\ pc[t] \notin FlightLabel /\ pc'[t] \notin FlightLabel /\ Hand(t)' = Hand(t)
    BY <1>1, <1>2 DEF PushCas, Hand, FlightLabel, HandLabel, Goto, Return, shared, segment, locals
  <2>2. Moves(<<"unused", NULL>>, <<"stack", NULL>>, {})
    BY <1>1, <2>1, QuietMove
  <2> QED
    BY <2>2, PlaceIs
<1>3. CASE abandoned = ts[t]
  <2>1. PICK s \in Segment : s = seg[t] /\ abandoned_next[s] = abandoned.seg
    BY <1>3 DEF PushCas, Core, Locals, SegLocal, HasSeg, HandLabel, LinkLocal
  <2>2. Hand(t) = {s} /\ Hand(t)' = {} /\ InFlight(t) = {} /\ InFlight(t)' = {} /\ FlightEnds(t)'
    BY <1>1, <1>3, <2>1 DEF PushCas, Hand, HandLabel, InFlight, FlightLabel, FlightEnds, Goto,
       Return
  <2>3. /\ abandoned'.seg = s /\ abandoned_visited' = abandoned_visited /\ abandoned_next' = abandoned_next
        /\ thread_id' = thread_id /\ unused' = unused
    BY <1>1, <1>3, <2>1 DEF PushCas, TaggedNext, segment
  <2>4. Reach(s, abandoned_next) = {s} \cup Stack /\ EndsIn(s, abandoned_next)
    <3>1. s \notin Reach(abandoned.seg, abandoned_next) /\ EndsIn(abandoned.seg, abandoned_next)
      BY <2>2, Apart DEF Core, ListsEnd, Stack
    <3>2. s \in DOMAIN abandoned_next
      BY <1>1
    <3> QED
      BY <2>1, <3>1, <3>2, ReachPush DEF Stack
  <2>5. Stack' = Stack \cup {s} /\ EndsIn(abandoned.seg, abandoned_next)'
    BY <2>3, <2>4 DEF Stack, EndsIn
  <2>6. Visited' = Visited /\ EndsIn(abandoned_visited, abandoned_next)'
    BY <2>3 DEF Visited, EndsIn, Core, ListsEnd
  <2>30. PICK p, q : p = <<"hand", t>> /\ q = <<"stack", NULL>>
    OBVIOUS
  <2>31. p \in Place /\ q \in Place /\ p # q /\ {s} \subseteq At(p)
    BY <2>30, PlaceIs, <2>2
  <2>32. /\ Hand(t)' = Changed(p, q, {s}, <<"hand", t>>, Hand(t))
         /\ InFlight(t)' = Changed(p, q, {s}, <<"flight", t>>, InFlight(t))
         /\ Stack' = Changed(p, q, {s}, <<"stack", NULL>>, Stack)
         /\ Visited' = Changed(p, q, {s}, <<"visited", NULL>>, Visited)
    BY <2>30, <2>2, <2>5, <2>6 DEF Changed
  <2>40. Moves(p, q, {s})
    BY <1>1, <2>30, <2>31, <2>32, <2>1, <2>2, <2>3, <2>5, <2>6, HeadMove
  <2> QED
    BY <2>1, <2>2, <2>3, <2>5, <2>6, <2>31, <2>40
<1> QED
  BY <1>2, <1>3

\* mi_abandoned_visited_push.
LEMMA VisitedCasMove ==
  ASSUME Core, NEW t \in Thread, VisitedCas(t)
  PROVE  \E p \in Place, q \in Place, X \in SUBSET Segment : Moves(p, q, X)
<1>1. /\ Do(t) /\ pc \in [Thread -> Label] /\ seg \in [Thread -> Segment \cup {NULL}] /\ NULL \notin Segment
      /\ thread_id \in [Segment -> Thread \cup {NULL}] /\ unused \subseteq Segment /\ NULL \notin Thread
      /\ last \in [Thread -> Segment \cup {NULL}] /\ abandoned_next \in [Segment -> Segment \cup {NULL}]
  BY SegmentAssumption, ThreadAssumption DEF Core, TypeOK, Do, Call, Continue
<1>2. CASE ~(abandoned_visited = ts[t].seg)
  <2>1. /\ abandoned'.seg = abandoned.seg /\ abandoned_visited' = abandoned_visited
        /\ thread_id' = thread_id /\ unused' = unused
        /\ pc[t] \notin FlightLabel /\ pc'[t] \notin FlightLabel /\ Hand(t)' = Hand(t)
    BY <1>1, <1>2 DEF VisitedCas, Hand, FlightLabel, HandLabel, Goto, Return, shared, segment,
       locals
  <2>2. Moves(<<"unused", NULL>>, <<"stack", NULL>>, {})
    BY <1>1, <2>1, QuietMove
  <2> QED
    BY <2>2, PlaceIs
<1>3. CASE abandoned_visited = ts[t].seg
  <2>1. PICK s \in Segment : s = seg[t] /\ abandoned_next[s] = abandoned_visited
    BY <1>3 DEF VisitedCas, Core, Locals, SegLocal, HasSeg, HandLabel, LinkLocal
  <2>2. Hand(t) = {s} /\ Hand(t)' = {} /\ InFlight(t) = {} /\ InFlight(t)' = {} /\ FlightEnds(t)'
    BY <1>1, <1>3, <2>1 DEF VisitedCas, Hand, HandLabel, InFlight, FlightLabel, FlightEnds, Goto,
       Return
  <2>3. /\ abandoned' = abandoned /\ abandoned_visited' = s /\ abandoned_next' = abandoned_next
        /\ thread_id' = thread_id /\ unused' = unused
    BY <1>1, <1>3, <2>1 DEF VisitedCas, segment
  <2>4. Reach(s, abandoned_next) = {s} \cup Visited /\ EndsIn(s, abandoned_next)
    <3>1. s \notin Reach(abandoned_visited, abandoned_next) /\ EndsIn(abandoned_visited, abandoned_next)
      BY <2>2, Apart DEF Core, ListsEnd, Visited
    <3>2. s \in DOMAIN abandoned_next
      BY <1>1
    <3> QED
      BY <2>1, <3>1, <3>2, ReachPush DEF Visited
  <2>5. Visited' = Visited \cup {s} /\ EndsIn(abandoned_visited, abandoned_next)'
    BY <2>3, <2>4 DEF Visited, EndsIn
  <2>6. Stack' = Stack /\ EndsIn(abandoned.seg, abandoned_next)'
    BY <2>3 DEF Stack, EndsIn, Core, ListsEnd
  <2>30. PICK p, q : p = <<"hand", t>> /\ q = <<"visited", NULL>>
    OBVIOUS
  <2>31. p \in Place /\ q \in Place /\ p # q /\ {s} \subseteq At(p)
    BY <2>30, PlaceIs, <2>2
  <2>32. /\ Hand(t)' = Changed(p, q, {s}, <<"hand", t>>, Hand(t))
         /\ InFlight(t)' = Changed(p, q, {s}, <<"flight", t>>, InFlight(t))
         /\ Stack' = Changed(p, q, {s}, <<"stack", NULL>>, Stack)
         /\ Visited' = Changed(p, q, {s}, <<"visited", NULL>>, Visited)
    BY <2>30, <2>2, <2>5, <2>6 DEF Changed
  <2>40. Moves(p, q, {s})
    BY <1>1, <2>30, <2>31, <2>32, <2>1, <2>2, <2>3, <2>5, <2>6, HeadMove
  <2> QED
    BY <2>1, <2>2, <2>3, <2>5, <2>6, <2>31, <2>40
<1> QED
  BY <1>2, <1>3

\* mi_abandoned_pop takes the first segment.  As the tag is that of its read, so is
\* the link.
LEMMA PopCasMove ==
  ASSUME Core, NEW t \in Thread, PopCas(t)
  PROVE  \E p \in Place, q \in Place, X \in SUBSET Segment : Moves(p, q, X)
<1>1. /\ Do(t) /\ pc \in [Thread -> Label] /\ seg \in [Thread -> Segment \cup {NULL}] /\ NULL \notin Segment
      /\ thread_id \in [Segment -> Thread \cup {NULL}] /\ unused \subseteq Segment /\ NULL \notin Thread
      /\ last \in [Thread -> Segment \cup {NULL}] /\ abandoned_next \in [Segment -> Segment \cup {NULL}]
  BY SegmentAssumption, ThreadAssumption DEF Core, TypeOK, Do, Call, Continue
<1>2. CASE ~(abandoned = ts[t])
  <2>1. /\ abandoned'.seg = abandoned.seg /\ abandoned_visited' = abandoned_visited
        /\ thread_id' = thread_id /\ unused' = unused
        /\ pc[t] \notin FlightLabel /\ pc'[t] \notin FlightLabel /\ Hand(t)' = Hand(t)
    BY <1>1, <1>2 DEF PopCas, Hand, FlightLabel, HandLabel, Goto, Return, shared, segment, locals
  <2>2. Moves(<<"unused", NULL>>, <<"stack", NULL>>, {})
    BY <1>1, <2>1, QuietMove
  <2> QED
    BY <2>2, PlaceIs
<1>3. CASE abandoned = ts[t]
  <2>1. PICK s \in Segment : s = abandoned.seg /\ abandoned_next[s] = anext[t] /\ s = ts[t].seg
    BY <1>3, TypeFacts DEF PopCas, Core, Locals, TsLocal, LinkLocal
  <2>2. Hand(t) = {} /\ Hand(t)' = {s} /\ InFlight(t) = {} /\ InFlight(t)' = {} /\ FlightEnds(t)'
    BY <1>1, <1>3, <2>1 DEF PopCas, Hand, HandLabel, InFlight, FlightLabel, FlightEnds, Goto
  <2>3. /\ abandoned'.seg = anext[t] /\ abandoned_visited' = abandoned_visited /\ abandoned_next' = abandoned_next
        /\ thread_id' = thread_id /\ unused' = unused
    BY <1>1, <1>3, <2>1 DEF PopCas, TaggedNext, segment
  <2>4. /\ Stack = {s} \cup Reach(anext[t], abandoned_next) /\ s \notin Reach(anext[t], abandoned_next)
        /\ EndsIn(anext[t], abandoned_next)
    <3>1. s \in DOMAIN abandoned_next /\ EndsIn(s, abandoned_next)
      BY <1>1, <2>1 DEF Core, ListsEnd
    <3> QED
      BY <2>1, <3>1, ReachStep, NoCycle DEF Stack
  <2>5. Stack' = Stack \ {s} /\ EndsIn(abandoned.seg, abandoned_next)'
    BY <2>3, <2>4 DEF Stack, EndsIn
  <2>6. Visited' = Visited /\ EndsIn(abandoned_visited, abandoned_next)'
    BY <2>3 DEF Visited, EndsIn, Core, ListsEnd
  <2>30. PICK p, q : p = <<"stack", NULL>> /\ q = <<"hand", t>>
    OBVIOUS
  <2>31. p \in Place /\ q \in Place /\ p # q /\ {s} \subseteq At(p)
    BY <2>30, PlaceIs, <2>4
  <2>32. /\ Hand(t)' = Changed(p, q, {s}, <<"hand", t>>, Hand(t))
         /\ InFlight(t)' = Changed(p, q, {s}, <<"flight", t>>, InFlight(t))
         /\ Stack' = Changed(p, q, {s}, <<"stack", NULL>>, Stack)
         /\ Visited' = Changed(p, q, {s}, <<"visited", NULL>>, Visited)
    BY <2>30, <2>2, <2>5, <2>6 DEF Changed
  <2>40. Moves(p, q, {s})
    BY <1>1, <2>30, <2>31, <2>32, <2>1, <2>2, <2>3, <2>5, <2>6, HeadMove
  <2> QED
    BY <2>1, <2>2, <2>3, <2>5, <2>6, <2>31, <2>40
<1> QED
  BY <1>2, <1>3

\* The visited list is taken as a whole.
LEMMA RevisitGrabMove ==
  ASSUME Core, NEW t \in Thread, RevisitGrab(t)
  PROVE  \E p \in Place, q \in Place, X \in SUBSET Segment : Moves(p, q, X)
<1>1. /\ Do(t) /\ pc \in [Thread -> Label] /\ seg \in [Thread -> Segment \cup {NULL}] /\ NULL \notin Segment
      /\ thread_id \in [Segment -> Thread \cup {NULL}] /\ unused \subseteq Segment /\ NULL \notin Thread
      /\ last \in [Thread -> Segment \cup {NULL}] /\ abandoned_next \in [Segment -> Segment \cup {NULL}]
  BY SegmentAssumption, ThreadAssumption DEF Core, TypeOK, Do, Call, Continue
<1>4. PICK X \in SUBSET Segment : X = Visited
  BY <1>1, ReachIs DEF Visited
<1>2. CASE abandoned_visited = NULL
  <2>1. /\ abandoned'.seg = abandoned.seg /\ abandoned_visited' = abandoned_visited
        /\ thread_id' = thread_id /\ unused' = unused
        /\ pc[t] \notin FlightLabel /\ pc'[t] \notin FlightLabel /\ Hand(t)' = Hand(t)
    BY <1>1, <1>2 DEF RevisitGrab, Hand, FlightLabel, HandLabel, Goto, segment
  <2>2. Moves(<<"unused", NULL>>, <<"stack", NULL>>, {})
    BY <1>1, <2>1, QuietMove
  <2> QED
    BY <2>2, PlaceIs
<1>3. CASE abandoned_visited # NULL
  <2>1. /\ Hand(t) = {} /\ Hand(t)' = {} /\ InFlight(t) = {} /\ pc'[t] = "rv_read" /\ seg'[t] = abandoned_visited
        /\ last'[t] = NULL
    BY <1>1, <1>3
       DEF RevisitGrab, Hand, HandLabel, InFlight, FlightLabel, Goto, Core, Locals, LastLocal
  <2>3. /\ abandoned' = abandoned /\ abandoned_visited' = NULL /\ abandoned_next' = abandoned_next
        /\ thread_id' = thread_id /\ unused' = unused
    BY <1>1, <1>3 DEF RevisitGrab, segment
  <2>4. Cut(t)' = abandoned_next
    BY <2>1, <2>3 DEF Cut
  <2>5. InFlight(t)' = X /\ FlightEnds(t)'
    <3>1. InFlight(t)' = Reach(abandoned_visited, abandoned_next)
      BY <2>1, <2>4 DEF InFlight, FlightLabel
    <3>2. EndsIn(seg[t], Cut(t))'
      BY <2>1, <2>4 DEF EndsIn, Core, ListsEnd
    <3> QED
      BY <1>4, <2>1, <3>1, <3>2 DEF FlightEnds, Visited
  <2>6. Visited' = {} /\ EndsIn(abandoned_visited, abandoned_next)'
    <3>1. NULL \notin DOMAIN abandoned_next
      BY <1>1
    <3> QED
      BY <2>3, <3>1, ReachIs DEF Visited, EndsIn
  <2>7. Stack' = Stack /\ EndsIn(abandoned.seg, abandoned_next)'
    BY <2>3 DEF Stack, EndsIn, Core, ListsEnd
  <2>30. PICK p, q : p = <<"visited", NULL>> /\ q = <<"flight", t>>
    OBVIOUS
  <2>31. p \in Place /\ q \in Place /\ p # q /\ X \subseteq At(p)
    BY <2>30, PlaceIs, <1>4
  <2>32. /\ Hand(t)' = Changed(p, q, X, <<"hand", t>>, Hand(t))
         /\ InFlight(t)' = Changed(p, q, X, <<"flight", t>>, InFlight(t))
         /\ Stack' = Changed(p, q, X, <<"stack", NULL>>, Stack)
         /\ Visited' = Changed(p, q, X, <<"visited", NULL>>, Visited)
    BY <2>30, <1>4, <2>1, <2>5, <2>6, <2>7 DEF Changed
  <2>33. p \in ListPlace /\ q \in ListPlace
    BY <2>30 DEF ListPlace
  <2>40. Moves(p, q, X)
    BY <1>1, <2>30, <2>31, <2>32, <2>3, <2>5, <2>6, <2>7, <2>33, HeadMove
  <2> QED
    BY <2>3, <2>5, <2>6, <2>7, <2>33, <2>31, <2>40
<1> QED
  BY <1>2, <1>3

\* It becomes the abandoned list, which is empty.
LEMMA RevisitSwapMove ==
  ASSUME Core, NEW t \in Thread, RevisitSwap(t)
  PROVE  \E p \in Place, q \in Place, X \in SUBSET Segment : Moves(p, q, X)
<1>1. /\ Do(t) /\ pc \in [Thread -> Label] /\ seg \in [Thread -> Segment \cup {NULL}] /\ NULL \notin Segment
      /\ thread_id \in [Segment -> Thread \cup {NULL}] /\ unused \subseteq Segment /\ NULL \notin Thread
      /\ last \in [Thread -> Segment \cup {NULL}] /\ abandoned_next \in [Segment -> Segment \cup {NULL}]
  BY SegmentAssumption, ThreadAssumption DEF Core, TypeOK, Do, Call, Continue
<1>2. CASE ~(abandoned = ts[t])
  <2>1. /\ abandoned'.seg = abandoned.seg /\ abandoned_visited' = abandoned_visited
        /\ thread_id' = thread_id /\ unused' = unused
        /\ pc[t] \in FlightLabel /\ pc'[t] \in FlightLabel /\ seg'[t] = seg[t] /\ last'[t] = last[t]
    BY <1>1, <1>2 DEF RevisitSwap, FlightLabel, Goto, Return, shared, segment, locals
  <2>2. Moves(<<"unused", NULL>>, <<"stack", NULL>>, {})
    BY <1>1, <2>1, FlightMove
  <2> QED
    BY <2>2, PlaceIs
<1>3. CASE abandoned = ts[t]
  <2>1. PICK X \in SUBSET Segment : X = InFlight(t) /\ X = Reach(seg[t], abandoned_next) /\ EndsIn(seg[t], abandoned_next)
    <3>1. pc[t] \in FlightLabel /\ last[t] = NULL
      BY DEF RevisitSwap, FlightLabel, Core, Locals, LastLocal
    <3>2. InFlight(t) = Reach(seg[t], abandoned_next) /\ EndsIn(seg[t], abandoned_next)
      BY <3>1, AgainEnd DEF Core, Cut, ListsEnd, FlightEnds
    <3> QED
      BY <1>1, <3>2, ReachIs
  <2>2. Stack = {}
    <3>1. abandoned.seg \notin DOMAIN abandoned_next
      BY <1>1, <1>3 DEF RevisitSwap, Core, Locals, TsLocal
    <3> QED
      BY <3>1, ReachIs DEF Stack
  <2>3. /\ abandoned'.seg = seg[t] /\ abandoned_visited' = abandoned_visited /\ abandoned_next' = abandoned_next
        /\ thread_id' = thread_id /\ unused' = unused
    BY <1>1, <1>3 DEF RevisitSwap, TaggedNext, segment
  <2>4. Hand(t) = {} /\ Hand(t)' = {} /\ InFlight(t)' = {} /\ FlightEnds(t)'
    BY <1>1, <1>3 DEF RevisitSwap, Hand, HandLabel, InFlight, FlightLabel, FlightEnds, Goto
  <2>5. Stack' = X /\ EndsIn(abandoned.seg, abandoned_next)'
    BY <2>1, <2>3 DEF Stack, EndsIn
  <2>6. Visited' = Visited /\ EndsIn(abandoned_visited, abandoned_next)'
    BY <2>3 DEF Visited, EndsIn, Core, ListsEnd
  <2>30. PICK p, q : p = <<"flight", t>> /\ q = <<"stack", NULL>>
    OBVIOUS
  <2>31. p \in Place /\ q \in Place /\ p # q /\ X \subseteq At(p)
    BY <2>30, PlaceIs, <2>1
  <2>32. /\ Hand(t)' = Changed(p, q, X, <<"hand", t>>, Hand(t))
         /\ InFlight(t)' = Changed(p, q, X, <<"flight", t>>, InFlight(t))
         /\ Stack' = Changed(p, q, X, <<"stack", NULL>>, Stack)
         /\ Visited' = Changed(p, q, X, <<"visited", NULL>>, Visited)
    BY <2>30, <2>1, <2>2, <2>4, <2>5, <2>6 DEF Changed
  <2>33. p \in ListPlace /\ q \in ListPlace
    BY <2>30 DEF ListPlace
  <2>40. Moves(p, q, X)
    BY <1>1, <2>30, <2>31, <2>32, <2>3, <2>4, <2>5, <2>6, <2>33, HeadMove
  <2> QED
    BY <2>3, <2>4, <2>5, <2>6, <2>33, <2>31, <2>40
<1> QED
  BY <1>2, <1>3

\* Or it is prepended.
LEMMA RevisitCasMove ==
  ASSUME Core, NEW t \in Thread, RevisitCas(t)
  PROVE  \E p \in Place, q \in Place, X \in SUBSET Segment : Moves(p, q, X)
<1>1. /\ Do(t) /\ pc \in [Thread -> Label] /\ seg \in [Thread -> Segment \cup {NULL}] /\ NULL \notin Segment
      /\ thread_id \in [Segment -> Thread \cup {NULL}] /\ unused \subseteq Segment /\ NULL \notin Thread
      /\ last \in [Thread -> Segment \cup {NULL}] /\ abandoned_next \in [Segment -> Segment \cup {NULL}]
  BY SegmentAssumption, ThreadAssumption DEF Core, TypeOK, Do, Call, Continue
<1>2. CASE ~(abandoned = ts[t])
  <2>1. /\ abandoned'.seg = abandoned.seg /\ abandoned_visited' = abandoned_visited
        /\ thread_id' = thread_id /\ unused' = unused
        /\ pc[t] \in FlightLabel /\ pc'[t] \in FlightLabel /\ seg'[t] = seg[t] /\ last'[t] = last[t]
    BY <1>1, <1>2 DEF RevisitCas, FlightLabel, Goto, Return, shared, segment, locals
  <2>2. Moves(<<"unused", NULL>>, <<"stack", NULL>>, {})
    BY <1>1, <2>1, FlightMove
  <2> QED
    BY <2>2, PlaceIs
<1>3. CASE abandoned = ts[t]
  <2>1. PICK e \in Segment : e = last[t] /\ e \in InFlight(t) /\ abandoned_next[e] = abandoned.seg
    BY <1>1, <1>3 DEF RevisitCas, Core, Locals, LastLocal, LinkLocal, ListsEnd, FlightEnds,
       FlightLabel
  <2>2. PICK l : l = Cut(t)
    OBVIOUS
  <2>3. l = [abandoned_next EXCEPT ![e] = NULL] /\ InFlight(t) = Reach(seg[t], l) /\ DOMAIN l = Segment /\ l[e] = NULL
    BY <1>1, <2>1, <2>2 DEF RevisitCas, Cut, InFlight, FlightLabel
  <2>4. DOMAIN abandoned_next = DOMAIN l /\ \A y \in DOMAIN l : y # e => abandoned_next[y] = l[y]
    BY <1>1, <2>1, <2>3
  <2>5. e \notin Stack /\ Reach(abandoned.seg, l) = Stack /\ EndsIn(abandoned.seg, l)
    <3>1. e \notin Stack
      BY <2>1, Apart DEF Core
    <3>2. e \notin Reach(abandoned.seg, abandoned_next) /\ EndsIn(abandoned.seg, abandoned_next)
      BY <3>1 DEF Stack, Core, ListsEnd
    <3>3. \A y \in Reach(abandoned.seg, abandoned_next) : l[y] = abandoned_next[y]
      <4>1. Reach(abandoned.seg, abandoned_next) \subseteq Segment
        BY <1>1, ReachIs
      <4> QED
        BY <1>1, <2>3, <3>2, <4>1
    <3>4. Reach(abandoned.seg, l) = Reach(abandoned.seg, abandoned_next) /\ EndsIn(abandoned.seg, l)
      BY <1>1, <2>3, <3>2, <3>3, ReachSame
    <3> QED
      BY <3>1, <3>4 DEF Stack
  <2>6. PICK X \in SUBSET Segment : X = InFlight(t)
    BY <2>3, ReachIs
  <2>7. Reach(seg[t], abandoned_next) = X \cup Stack /\ EndsIn(seg[t], abandoned_next)
    <3>1. e \in Reach(seg[t], l) /\ l[e] \notin DOMAIN l /\ e \notin Reach(abandoned.seg, l)
      BY <1>1, <2>1, <2>3, <2>5
    <3>2. /\ Reach(seg[t], abandoned_next) = Reach(seg[t], l) \cup Reach(abandoned.seg, l)
          /\ EndsIn(seg[t], abandoned_next)
      BY <2>1, <2>4, <2>5, <3>1, ReachAppend
    <3> QED
      BY <2>3, <2>5, <2>6, <3>2
  <2>8. /\ abandoned'.seg = seg[t] /\ abandoned_visited' = abandoned_visited /\ abandoned_next' = abandoned_next
        /\ thread_id' = thread_id /\ unused' = unused
    BY <1>1, <1>3 DEF RevisitCas, TaggedNext, segment
  <2>9. Hand(t) = {} /\ Hand(t)' = {} /\ InFlight(t)' = {} /\ FlightEnds(t)'
    BY <1>1, <1>3 DEF RevisitCas, Hand, HandLabel, InFlight, FlightLabel, FlightEnds, Goto
  <2>10. Stack' = Stack \cup X /\ EndsIn(abandoned.seg, abandoned_next)'
    BY <2>7, <2>8 DEF Stack, EndsIn
  <2>11. Visited' = Visited /\ EndsIn(abandoned_visited, abandoned_next)'
    BY <2>8 DEF Visited, EndsIn, Core, ListsEnd
  <2>30. PICK p, q : p = <<"flight", t>> /\ q = <<"stack", NULL>>
    OBVIOUS
  <2>31. p \in Place /\ q \in Place /\ p # q /\ X \subseteq At(p)
    BY <2>30, PlaceIs, <2>6
  <2>32. /\ Hand(t)' = Changed(p, q, X, <<"hand", t>>, Hand(t))
         /\ InFlight(t)' = Changed(p, q, X, <<"flight", t>>, InFlight(t))
         /\ Stack' = Changed(p, q, X, <<"stack", NULL>>, Stack)
         /\ Visited' = Changed(p, q, X, <<"visited", NULL>>, Visited)
    BY <2>30, <2>6, <2>9, <2>10, <2>11 DEF Changed
  <2>33. p \in ListPlace /\ q \in ListPlace
    BY <2>30 DEF ListPlace
  <2>40. Moves(p, q, X)
    BY <1>1, <2>30, <2>31, <2>32, <2>8, <2>9, <2>10, <2>11, <2>33, HeadMove
  <2> QED
    BY <2>8, <2>9, <2>10, <2>11, <2>33, <2>31, <2>40
<1> QED
  BY <1>2, <1>3

\* Every step moves segments from one place to another, or none.
LEMMA MoveStep ==
  ASSUME Core, NEW t \in Thread, Do(t)
  PROVE  \E p \in Place, q \in Place, X \in SUBSET Segment : Moves(p, q, X)
<1>0. /\ pc \in [Thread -> Label] /\ seg \in [Thread -> Segment \cup {NULL}] /\ NULL \notin Segment
      /\ last \in [Thread -> Segment \cup {NULL}]
  BY SegmentAssumption DEF Core, TypeOK
<1>99. Moves(<<"unused", NULL>>, <<"stack", NULL>>, {}) =>
            \E p \in Place, q \in Place, X \in SUBSET Segment : Moves(p, q, X)
  BY DEF Moves
<1> SUFFICES ASSUME ~\E p \in Place, q \in Place, X \in SUBSET Segment : Moves(p, q, X)
             PROVE  FALSE
  OBVIOUS
<1>1. CASE SegmentInit(t)
  BY <1>1, SegmentInitMove
<1>2. CASE OsFree(t)
  BY <1>2, OsFreeMove
<1>3. CASE AwaitReaders(t)
  BY <1>3, AwaitReadersMove
<1>4. CASE Abandon(t)
  BY <1>4, AbandonMove
<1>5. CASE PushRead(t)
  <2>1. /\ abandoned'.seg = abandoned.seg /\ abandoned_visited' = abandoned_visited
        /\ thread_id' = thread_id /\ unused' = unused
        /\ pc[t] \notin FlightLabel /\ pc'[t] \notin FlightLabel /\ Hand(t)' = Hand(t)
    BY <1>5, <1>0 DEF PushRead, Hand, FlightLabel, HandLabel, Goto, Return, shared, segment, locals
  <2> QED
    BY <1>5, <2>1, <1>99, QuietMove DEF Do, Call, Continue
<1>6. CASE PushLink(t)
  <2>1. /\ abandoned'.seg = abandoned.seg /\ abandoned_visited' = abandoned_visited
        /\ thread_id' = thread_id /\ unused' = unused
        /\ pc[t] \notin FlightLabel /\ pc'[t] \notin FlightLabel /\ Hand(t)' = Hand(t)
    BY <1>6, <1>0 DEF PushLink, Hand, FlightLabel, HandLabel, Goto, Return, shared, segment, locals
  <2> QED
    BY <1>6, <2>1, <1>99, QuietMove DEF Do, Call, Continue
<1>7. CASE PushCas(t)
  BY <1>7, PushCasMove
<1>8. CASE Pop(t)
  <2>1. /\ abandoned'.seg = abandoned.seg /\ abandoned_visited' = abandoned_visited
        /\ thread_id' = thread_id /\ unused' = unused
        /\ pc[t] \notin FlightLabel /\ pc'[t] \notin FlightLabel /\ Hand(t)' = Hand(t)
    BY <1>8, <1>0 DEF Pop, Hand, FlightLabel, HandLabel, Goto, Return, shared, segment, locals
  <2> QED
    BY <1>8, <2>1, <1>99, QuietMove DEF Do, Call, Continue
<1>9. CASE RevisitCheck(t)
  <2>1. /\ abandoned'.seg = abandoned.seg /\ abandoned_visited' = abandoned_visited
        /\ thread_id' = thread_id /\ unused' = unused
        /\ pc[t] \notin FlightLabel /\ pc'[t] \notin FlightLabel /\ Hand(t)' = Hand(t)
    BY <1>9, <1>0 DEF RevisitCheck, Hand, FlightLabel, HandLabel, Goto, Return, shared, segment,
       locals
  <2> QED
    BY <1>9, <2>1, <1>99, QuietMove DEF Do, Call, Continue
<1>10. CASE RevisitGrab(t)
  BY <1>10, RevisitGrabMove
<1>11. CASE RevisitRead(t)
  <2>1. /\ abandoned'.seg = abandoned.seg /\ abandoned_visited' = abandoned_visited
        /\ thread_id' = thread_id /\ unused' = unused
        /\ pc[t] \in FlightLabel /\ pc'[t] \in FlightLabel /\ seg'[t] = seg[t] /\ last'[t] = last[t]
    BY <1>11, <1>0 DEF RevisitRead, FlightLabel, Goto, Return, shared, segment, locals
  <2> QED
    BY <1>11, <2>1, <1>99, FlightMove DEF Do, Call, Continue
<1>12. CASE RevisitSwap(t)
  BY <1>12, RevisitSwapMove
<1>13. CASE RevisitAgain(t)
  <2>1. /\ abandoned'.seg = abandoned.seg /\ abandoned_visited' = abandoned_visited
        /\ thread_id' = thread_id /\ unused' = unused /\ Hand(t)' = {} /\ Hand(t) = {}
    BY <1>13, <1>0 DEF RevisitAgain, Hand, HandLabel, Goto, shared, segment
  <2>2. InFlight(t)' = InFlight(t) /\ FlightEnds(t)'
    BY <1>13, FoundEnd
  <2> QED
    BY <1>13, <2>1, <2>2, <1>99, NoMove DEF Do, Call, Continue
<1>14. CASE RevisitLink(t)
  <2>1. /\ abandoned'.seg = abandoned.seg /\ abandoned_visited' = abandoned_visited
        /\ thread_id' = thread_id /\ unused' = unused
        /\ pc[t] \in FlightLabel /\ pc'[t] \in FlightLabel /\ seg'[t] = seg[t] /\ last'[t] = last[t]
    BY <1>14, <1>0 DEF RevisitLink, FlightLabel, Goto, Return, shared, segment, locals
  <2> QED
    BY <1>14, <2>1, <1>99, FlightMove DEF Do, Call, Continue
<1>15. CASE RevisitCas(t)
  BY <1>15, RevisitCasMove
<1>16. CASE PopInc(t)
  <2>1. /\ abandoned'.seg = abandoned.seg /\ abandoned_visited' = abandoned_visited
        /\ thread_id' = thread_id /\ unused' = unused
        /\ pc[t] \notin FlightLabel /\ pc'[t] \notin FlightLabel /\ Hand(t)' = Hand(t)
    BY <1>16, <1>0 DEF PopInc, Hand, FlightLabel, HandLabel, Goto, Return, shared, segment, locals
  <2> QED
    BY <1>16, <2>1, <1>99, QuietMove DEF Do, Call, Continue
<1>17. CASE PopRead(t)
  <2>2. seg[t] = NULL
    BY <1>17 DEF PopRead, Core, Locals, SegLocal, HasSeg, FlightLabel, HandLabel
  <2>1. /\ abandoned'.seg = abandoned.seg /\ abandoned_visited' = abandoned_visited
        /\ thread_id' = thread_id /\ unused' = unused
        /\ pc[t] \notin FlightLabel /\ pc'[t] \notin FlightLabel /\ Hand(t)' = Hand(t)
    BY <1>17, <1>0, <2>2 DEF PopRead, Hand, FlightLabel, HandLabel, Goto, Return, shared, segment,
       locals
  <2> QED
    BY <1>17, <2>1, <1>99, QuietMove DEF Do, Call, Continue
<1>18. CASE PopNext(t)
  <2>1. /\ abandoned'.seg = abandoned.seg /\ abandoned_visited' = abandoned_visited
        /\ thread_id' = thread_id /\ unused' = unused
        /\ pc[t] \notin FlightLabel /\ pc'[t] \notin FlightLabel /\ Hand(t)' = Hand(t)
    BY <1>18, <1>0 DEF PopNext, Hand, FlightLabel, HandLabel, Goto, Return, shared, segment, locals
  <2> QED
    BY <1>18, <2>1, <1>99, QuietMove DEF Do, Call, Continue
<1>19. CASE PopCas(t)
  BY <1>19, PopCasMove
<1>20. CASE PopDec(t)
  <2>1. /\ abandoned'.seg = abandoned.seg /\ abandoned_visited' = abandoned_visited
        /\ thread_id' = thread_id /\ unused' = unused
        /\ pc[t] \notin FlightLabel /\ pc'[t] \notin FlightLabel /\ Hand(t)' = Hand(t)
    BY <1>20, <1>0 DEF PopDec, Hand, FlightLabel, HandLabel, Goto, Return, shared, segment, locals
  <2> QED
    BY <1>20, <2>1, <1>99, QuietMove DEF Do, Call, Continue
<1>21. CASE PopClear(t)
  <2>1. /\ abandoned'.seg = abandoned.seg /\ abandoned_visited' = abandoned_visited
        /\ thread_id' = thread_id /\ unused' = unused
        /\ pc[t] \notin FlightLabel /\ pc'[t] \notin FlightLabel /\ Hand(t)' = Hand(t)
    BY <1>21, <1>0 DEF PopClear, Hand, FlightLabel, HandLabel, Goto, Return, shared, segment, locals
  <2> QED
    BY <1>21, <2>1, <1>99, QuietMove DEF Do, Call, Continue
<1>22. CASE Reclaim(t)
  BY <1>22, ReclaimMove
<1>23. CASE PutAside(t)
  <2>1. /\ abandoned'.seg = abandoned.seg /\ abandoned_visited' = abandoned_visited
        /\ thread_id' = thread_id /\ unused' = unused
        /\ pc[t] \notin FlightLabel /\ pc'[t] \notin FlightLabel /\ Hand(t)' = Hand(t)
    BY <1>23, <1>0 DEF PutAside, Hand, FlightLabel, HandLabel, Goto, Return, shared, segment, locals
  <2> QED
    BY <1>23, <2>1, <1>99, QuietMove DEF Do, Call, Continue
<1>24. CASE VisitedRead(t)
  <2>1. /\ abandoned'.seg = abandoned.seg /\ abandoned_visited' = abandoned_visited
        /\ thread_id' = thread_id /\ unused' = unused
        /\ pc[t] \notin FlightLabel /\ pc'[t] \notin FlightLabel /\ Hand(t)' = Hand(t)
    BY <1>24, <1>0 DEF VisitedRead, Hand, FlightLabel, HandLabel, Goto, Return, shared, segment,
       locals
  <2> QED
    BY <1>24, <2>1, <1>99, QuietMove DEF Do, Call, Continue
<1>25. CASE VisitedLink(t)
  <2>1. /\ abandoned'.seg = abandoned.seg /\ abandoned_visited' = abandoned_visited
        /\ thread_id' = thread_id /\ unused' = unused
        /\ pc[t] \notin FlightLabel /\ pc'[t] \notin FlightLabel /\ Hand(t)' = Hand(t)
    BY <1>25, <1>0 DEF VisitedLink, Hand, FlightLabel, HandLabel, Goto, Return, shared, segment,
       locals
  <2> QED
    BY <1>25, <2>1, <1>99, QuietMove DEF Do, Call, Continue
<1>26. CASE VisitedCas(t)
  BY <1>26, VisitedCasMove
<1> QED
  BY <1>1, <1>2, <1>3, <1>4, <1>5, <1>6, <1>7, <1>8, <1>9, <1>10, <1>11, <1>12, <1>13, <1>14,
     <1>15, <1>16, <1>17, <1>18, <1>19, <1>20, <1>21, <1>22, <1>23, <1>24, <1>25, <1>26 DEF Do,
     Call, Continue

(***************************************************************************)
(* Locals.                                                                 *)
(***************************************************************************)

\* The labels with a segment, and the labels after each.
LEMMA LocalsOfOthers ==
  ASSUME Core, NEW t \in Thread, Do(t), NEW u \in Thread, u # t
  PROVE  SegLocal(u)' /\ LastLocal(u)' /\ TsLocal(u)' /\ LinkLocal(u)'
<1>1. pc'[u] = pc[u] /\ seg'[u] = seg[u] /\ ts'[u] = ts[u] /\ anext'[u] = anext[u] /\ last'[u] = last[u]
  BY OthersKept DEF Others, Core
<1>2. SegLocal(u) /\ LastLocal(u) /\ TsLocal(u) /\ LinkLocal(u)
  BY DEF Core, Locals
<1>3. SegLocal(u)' /\ LastLocal(u)' /\ TsLocal(u)'
  BY <1>1, <1>2 DEF SegLocal, HasSeg, LastLocal, TsLocal
<1>4. PICK n : n = abandoned_next' /\ Written(t, n)
  BY LinksStep
<1>5. pc[t] = "rv_link" => last[t] \in InFlight(t)
  BY DEF Core, Locals, LastLocal, ListsEnd, FlightEnds, FlightLabel
<1>6. ASSUME NEW y \in Segment, y \in Hand(u) \/ y \in InFlight(u) \/ y \in Stack
      PROVE  n[y] = abandoned_next[y]
  <2>1. y \notin Free(t) /\ y \notin InFlight(t)
    BY <1>6, Apart DEF Core, Free
  <2> QED
    BY <1>4, <1>5, <2>1 DEF Written
<1>7. ASSUME pc[u] \in {"push_cas", "v_cas"}
      PROVE  n[seg[u]] = ts[u].seg
  <2>1. seg[u] \in Segment /\ seg[u] \in Hand(u)
    BY <1>2, <1>7 DEF SegLocal, HasSeg, Hand, HandLabel
  <2> QED
    BY <1>2, <1>6, <1>7, <2>1 DEF LinkLocal
<1>8. ASSUME pc[u] = "rv_cas"
      PROVE  n[last[u]] = ts[u].seg
  <2>1. last[u] \in InFlight(u)
    BY <1>2, <1>8 DEF LastLocal, Core, ListsEnd, FlightEnds, FlightLabel
  <2>2. last[u] \in Segment
    BY <1>2, <1>8, TypeFacts DEF LastLocal, Core
  <2> QED
    BY <1>2, <1>6, <1>8, <2>1, <2>2 DEF LinkLocal
<1>9. ASSUME pc[u] = "pop_cas", abandoned' = ts[u]
      PROVE  anext[u] = n[ts[u].seg]
  <2>1. ts[u].tag <= abandoned.tag /\ abandoned.tag \in Nat /\ ts[u].tag \in Nat
    <3>1. abandoned.tag \in 0 .. TagMod - 1 /\ ts[u].tag \in 0 .. TagMod - 1
      BY TypeFacts DEF Core
    <3>2. ts[u].tag <= abandoned.tag
      BY DEF Core, TagBound
    <3> QED
      BY <3>1, <3>2
  <2>2. abandoned' = abandoned \/ abandoned'.tag = abandoned.tag + 1
    BY TagsStep DEF Core
  <2>3. abandoned = ts[u]
    BY <1>9, <2>1, <2>2
  <2>4. ts[u].seg \in Segment
    BY <1>2, <1>9, TypeFacts DEF TsLocal, Core
  <2>5. ts[u].seg \in Stack
    BY <2>3, <2>4, TypeFacts, ReachIs DEF Stack, Core
  <2> QED
    BY <1>2, <1>6, <1>9, <2>3, <2>4, <2>5 DEF LinkLocal
<1> QED
  BY <1>1, <1>3, <1>4, <1>7, <1>8, <1>9 DEF LinkLocal

\* A step of t sets what the next label needs.
LEMMA SegLocalStep ==
  ASSUME Core, NEW t \in Thread, Do(t)
  PROVE  SegLocal(t)'
<1>0. /\ pc \in [Thread -> Label] /\ seg \in [Thread -> Segment \cup {NULL}] /\ NULL \notin Segment
      /\ SegLocal(t) /\ TsLocal(t) /\ abandoned_visited \in Segment \cup {NULL} /\ ts[t].seg \in Segment \cup {NULL}
  BY SegmentAssumption, TypeFacts DEF Core, TypeOK, Locals
<1>1. CASE SegmentInit(t)
  BY <1>1, <1>0 DEF SegmentInit, SegLocal, HasSeg, TsLocal, FlightLabel, HandLabel, Goto, Return,
     shared, segment, locals
<1>2. CASE OsFree(t)
  BY <1>2, <1>0 DEF OsFree, SegLocal, HasSeg, TsLocal, FlightLabel, HandLabel, Goto, Return, shared,
     segment, locals
<1>3. CASE AwaitReaders(t)
  BY <1>3, <1>0 DEF AwaitReaders, SegLocal, HasSeg, TsLocal, FlightLabel, HandLabel, Goto, Return,
     shared, segment, locals
<1>4. CASE Abandon(t)
  BY <1>4, <1>0 DEF Abandon, SegLocal, HasSeg, TsLocal, FlightLabel, HandLabel, Goto, Return,
     shared, segment, locals
<1>5. CASE PushRead(t)
  BY <1>5, <1>0 DEF PushRead, SegLocal, HasSeg, TsLocal, FlightLabel, HandLabel, Goto, Return,
     shared, segment, locals
<1>6. CASE PushLink(t)
  BY <1>6, <1>0 DEF PushLink, SegLocal, HasSeg, TsLocal, FlightLabel, HandLabel, Goto, Return,
     shared, segment, locals
<1>7. CASE PushCas(t)
  BY <1>7, <1>0 DEF PushCas, SegLocal, HasSeg, TsLocal, FlightLabel, HandLabel, Goto, Return,
     shared, segment, locals
<1>8. CASE Pop(t)
  BY <1>8, <1>0 DEF Pop, SegLocal, HasSeg, TsLocal, FlightLabel, HandLabel, Goto, Return, shared,
     segment, locals
<1>9. CASE RevisitCheck(t)
  BY <1>9, <1>0 DEF RevisitCheck, SegLocal, HasSeg, TsLocal, FlightLabel, HandLabel, Goto, Return,
     shared, segment, locals
<1>10. CASE RevisitGrab(t)
  BY <1>10, <1>0 DEF RevisitGrab, SegLocal, HasSeg, TsLocal, FlightLabel, HandLabel, Goto, Return,
     shared, segment, locals
<1>11. CASE RevisitRead(t)
  BY <1>11, <1>0 DEF RevisitRead, SegLocal, HasSeg, TsLocal, FlightLabel, HandLabel, Goto, Return,
     shared, segment, locals
<1>12. CASE RevisitSwap(t)
  BY <1>12, <1>0 DEF RevisitSwap, SegLocal, HasSeg, TsLocal, FlightLabel, HandLabel, Goto, Return,
     shared, segment, locals
<1>13. CASE RevisitAgain(t)
  BY <1>13, <1>0 DEF RevisitAgain, SegLocal, HasSeg, TsLocal, FlightLabel, HandLabel, Goto, Return,
     shared, segment, locals
<1>14. CASE RevisitLink(t)
  BY <1>14, <1>0 DEF RevisitLink, SegLocal, HasSeg, TsLocal, FlightLabel, HandLabel, Goto, Return,
     shared, segment, locals
<1>15. CASE RevisitCas(t)
  BY <1>15, <1>0 DEF RevisitCas, SegLocal, HasSeg, TsLocal, FlightLabel, HandLabel, Goto, Return,
     shared, segment, locals
<1>16. CASE PopInc(t)
  BY <1>16, <1>0 DEF PopInc, SegLocal, HasSeg, TsLocal, FlightLabel, HandLabel, Goto, Return,
     shared, segment, locals
<1>17. CASE PopRead(t)
  BY <1>17, <1>0 DEF PopRead, SegLocal, HasSeg, TsLocal, FlightLabel, HandLabel, Goto, Return,
     shared, segment, locals
<1>18. CASE PopNext(t)
  BY <1>18, <1>0 DEF PopNext, SegLocal, HasSeg, TsLocal, FlightLabel, HandLabel, Goto, Return,
     shared, segment, locals
<1>19. CASE PopCas(t)
  BY <1>19, <1>0 DEF PopCas, SegLocal, HasSeg, TsLocal, FlightLabel, HandLabel, Goto, Return,
     shared, segment, locals
<1>20. CASE PopDec(t)
  BY <1>20, <1>0 DEF PopDec, SegLocal, HasSeg, TsLocal, FlightLabel, HandLabel, Goto, Return,
     shared, segment, locals
<1>21. CASE PopClear(t)
  BY <1>21, <1>0 DEF PopClear, SegLocal, HasSeg, TsLocal, FlightLabel, HandLabel, Goto, Return,
     shared, segment, locals
<1>22. CASE Reclaim(t)
  BY <1>22, <1>0 DEF Reclaim, SegLocal, HasSeg, TsLocal, FlightLabel, HandLabel, Goto, Return,
     shared, segment, locals
<1>23. CASE PutAside(t)
  BY <1>23, <1>0 DEF PutAside, SegLocal, HasSeg, TsLocal, FlightLabel, HandLabel, Goto, Return,
     shared, segment, locals
<1>24. CASE VisitedRead(t)
  BY <1>24, <1>0 DEF VisitedRead, SegLocal, HasSeg, TsLocal, FlightLabel, HandLabel, Goto, Return,
     shared, segment, locals
<1>25. CASE VisitedLink(t)
  BY <1>25, <1>0 DEF VisitedLink, SegLocal, HasSeg, TsLocal, FlightLabel, HandLabel, Goto, Return,
     shared, segment, locals
<1>26. CASE VisitedCas(t)
  BY <1>26, <1>0 DEF VisitedCas, SegLocal, HasSeg, TsLocal, FlightLabel, HandLabel, Goto, Return,
     shared, segment, locals
<1> QED
  BY <1>1, <1>2, <1>3, <1>4, <1>5, <1>6, <1>7, <1>8, <1>9, <1>10, <1>11, <1>12, <1>13, <1>14,
     <1>15, <1>16, <1>17, <1>18, <1>19, <1>20, <1>21, <1>22, <1>23, <1>24, <1>25, <1>26 DEF Do,
     Call, Continue

\* The last segment is known from the moment it was found to the swap.
LEMMA LastLocalStep ==
  ASSUME Core, NEW t \in Thread, Do(t)
  PROVE  LastLocal(t)'
<1>0. /\ pc \in [Thread -> Label] /\ last \in [Thread -> Segment \cup {NULL}] /\ NULL \notin Segment
      /\ LastLocal(t)
  BY SegmentAssumption DEF Core, TypeOK, Locals
<1>1. CASE SegmentInit(t)
  BY <1>1, <1>0 DEF SegmentInit, LastLocal, Goto, Return, shared, segment, locals
<1>2. CASE OsFree(t)
  BY <1>2, <1>0 DEF OsFree, LastLocal, Goto, Return, shared, segment, locals
<1>3. CASE AwaitReaders(t)
  BY <1>3, <1>0 DEF AwaitReaders, LastLocal, Goto, Return, shared, segment, locals
<1>4. CASE Abandon(t)
  BY <1>4, <1>0 DEF Abandon, LastLocal, Goto, Return, shared, segment, locals
<1>5. CASE PushRead(t)
  BY <1>5, <1>0 DEF PushRead, LastLocal, Goto, Return, shared, segment, locals
<1>6. CASE PushLink(t)
  BY <1>6, <1>0 DEF PushLink, LastLocal, Goto, Return, shared, segment, locals
<1>7. CASE PushCas(t)
  BY <1>7, <1>0 DEF PushCas, LastLocal, Goto, Return, shared, segment, locals
<1>8. CASE Pop(t)
  BY <1>8, <1>0 DEF Pop, LastLocal, Goto, Return, shared, segment, locals
<1>9. CASE RevisitCheck(t)
  BY <1>9, <1>0 DEF RevisitCheck, LastLocal, Goto, Return, shared, segment, locals
<1>10. CASE RevisitGrab(t)
  BY <1>10, <1>0 DEF RevisitGrab, LastLocal, Goto, Return, shared, segment, locals
<1>11. CASE RevisitRead(t)
  BY <1>11, <1>0 DEF RevisitRead, LastLocal, Goto, Return, shared, segment, locals
<1>12. CASE RevisitSwap(t)
  BY <1>12, <1>0 DEF RevisitSwap, LastLocal, Goto, Return, shared, segment, locals
<1>13. CASE RevisitAgain(t)
  <2>1. pc[t] = "rv_again" /\ pc'[t] = "rv_link" /\ (last[t] # NULL => last'[t] = last[t])
    BY <1>13, <1>0 DEF RevisitAgain, Goto
  <2>2. CASE last[t] = NULL
    <3>1. PICK e : e = CHOOSE s \in Reach(seg[t], abandoned_next) : abandoned_next[s] = NULL
      OBVIOUS
    <3>2. \E s \in Reach(seg[t], abandoned_next) : abandoned_next[s] = NULL
      BY <2>1, <2>2, AgainEnd DEF Core, FlightLabel
    <3>3. e \in Reach(seg[t], abandoned_next)
      BY <3>1, <3>2
    <3>4. e \in Segment
      BY <3>3, TypeFacts, ReachIs DEF Core
    <3>5. last'[t] = e
      BY <1>13, <1>0, <2>2, <3>1 DEF RevisitAgain
    <3> QED
      BY <1>0, <2>1, <3>4, <3>5 DEF LastLocal
  <2> QED
    BY <1>0, <2>1, <2>2 DEF LastLocal
<1>14. CASE RevisitLink(t)
  BY <1>14, <1>0 DEF RevisitLink, LastLocal, Goto, Return, shared, segment, locals
<1>15. CASE RevisitCas(t)
  BY <1>15, <1>0 DEF RevisitCas, LastLocal, Goto, Return, shared, segment, locals
<1>16. CASE PopInc(t)
  BY <1>16, <1>0 DEF PopInc, LastLocal, Goto, Return, shared, segment, locals
<1>17. CASE PopRead(t)
  BY <1>17, <1>0 DEF PopRead, LastLocal, Goto, Return, shared, segment, locals
<1>18. CASE PopNext(t)
  BY <1>18, <1>0 DEF PopNext, LastLocal, Goto, Return, shared, segment, locals
<1>19. CASE PopCas(t)
  BY <1>19, <1>0 DEF PopCas, LastLocal, Goto, Return, shared, segment, locals
<1>20. CASE PopDec(t)
  BY <1>20, <1>0 DEF PopDec, LastLocal, Goto, Return, shared, segment, locals
<1>21. CASE PopClear(t)
  BY <1>21, <1>0 DEF PopClear, LastLocal, Goto, Return, shared, segment, locals
<1>22. CASE Reclaim(t)
  BY <1>22, <1>0 DEF Reclaim, LastLocal, Goto, Return, shared, segment, locals
<1>23. CASE PutAside(t)
  BY <1>23, <1>0 DEF PutAside, LastLocal, Goto, Return, shared, segment, locals
<1>24. CASE VisitedRead(t)
  BY <1>24, <1>0 DEF VisitedRead, LastLocal, Goto, Return, shared, segment, locals
<1>25. CASE VisitedLink(t)
  BY <1>25, <1>0 DEF VisitedLink, LastLocal, Goto, Return, shared, segment, locals
<1>26. CASE VisitedCas(t)
  BY <1>26, <1>0 DEF VisitedCas, LastLocal, Goto, Return, shared, segment, locals
<1> QED
  BY <1>1, <1>2, <1>3, <1>4, <1>5, <1>6, <1>7, <1>8, <1>9, <1>10, <1>11, <1>12, <1>13, <1>14,
     <1>15, <1>16, <1>17, <1>18, <1>19, <1>20, <1>21, <1>22, <1>23, <1>24, <1>25, <1>26 DEF Do,
     Call, Continue

\* What a call read from `abandoned` was tested for NULL.
LEMMA TsLocalStep ==
  ASSUME Core, NEW t \in Thread, Do(t)
  PROVE  TsLocal(t)'
<1>0. pc \in [Thread -> Label] /\ ts \in [Thread -> Tagged] /\ TsLocal(t)
  BY DEF Core, TypeOK, Locals
<1>1. CASE SegmentInit(t)
  BY <1>1, <1>0 DEF SegmentInit, TsLocal, Goto, Return, shared, segment, locals
<1>2. CASE OsFree(t)
  BY <1>2, <1>0 DEF OsFree, TsLocal, Goto, Return, shared, segment, locals
<1>3. CASE AwaitReaders(t)
  BY <1>3, <1>0 DEF AwaitReaders, TsLocal, Goto, Return, shared, segment, locals
<1>4. CASE Abandon(t)
  BY <1>4, <1>0 DEF Abandon, TsLocal, Goto, Return, shared, segment, locals
<1>5. CASE PushRead(t)
  BY <1>5, <1>0 DEF PushRead, TsLocal, Goto, Return, shared, segment, locals
<1>6. CASE PushLink(t)
  BY <1>6, <1>0 DEF PushLink, TsLocal, Goto, Return, shared, segment, locals
<1>7. CASE PushCas(t)
  BY <1>7, <1>0 DEF PushCas, TsLocal, Goto, Return, shared, segment, locals
<1>8. CASE Pop(t)
  BY <1>8, <1>0 DEF Pop, TsLocal, Goto, Return, shared, segment, locals
<1>9. CASE RevisitCheck(t)
  BY <1>9, <1>0 DEF RevisitCheck, TsLocal, Goto, Return, shared, segment, locals
<1>10. CASE RevisitGrab(t)
  BY <1>10, <1>0 DEF RevisitGrab, TsLocal, Goto, Return, shared, segment, locals
<1>11. CASE RevisitRead(t)
  BY <1>11, <1>0 DEF RevisitRead, TsLocal, Goto, Return, shared, segment, locals
<1>12. CASE RevisitSwap(t)
  BY <1>12, <1>0 DEF RevisitSwap, TsLocal, Goto, Return, shared, segment, locals
<1>13. CASE RevisitAgain(t)
  BY <1>13, <1>0 DEF RevisitAgain, TsLocal, Goto, Return, shared, segment, locals
<1>14. CASE RevisitLink(t)
  BY <1>14, <1>0 DEF RevisitLink, TsLocal, Goto, Return, shared, segment, locals
<1>15. CASE RevisitCas(t)
  BY <1>15, <1>0 DEF RevisitCas, TsLocal, Goto, Return, shared, segment, locals
<1>16. CASE PopInc(t)
  BY <1>16, <1>0 DEF PopInc, TsLocal, Goto, Return, shared, segment, locals
<1>17. CASE PopRead(t)
  BY <1>17, <1>0 DEF PopRead, TsLocal, Goto, Return, shared, segment, locals
<1>18. CASE PopNext(t)
  BY <1>18, <1>0 DEF PopNext, TsLocal, Goto, Return, shared, segment, locals
<1>19. CASE PopCas(t)
  BY <1>19, <1>0 DEF PopCas, TsLocal, Goto, Return, shared, segment, locals
<1>20. CASE PopDec(t)
  BY <1>20, <1>0 DEF PopDec, TsLocal, Goto, Return, shared, segment, locals
<1>21. CASE PopClear(t)
  BY <1>21, <1>0 DEF PopClear, TsLocal, Goto, Return, shared, segment, locals
<1>22. CASE Reclaim(t)
  BY <1>22, <1>0 DEF Reclaim, TsLocal, Goto, Return, shared, segment, locals
<1>23. CASE PutAside(t)
  BY <1>23, <1>0 DEF PutAside, TsLocal, Goto, Return, shared, segment, locals
<1>24. CASE VisitedRead(t)
  BY <1>24, <1>0 DEF VisitedRead, TsLocal, Goto, Return, shared, segment, locals
<1>25. CASE VisitedLink(t)
  BY <1>25, <1>0 DEF VisitedLink, TsLocal, Goto, Return, shared, segment, locals
<1>26. CASE VisitedCas(t)
  BY <1>26, <1>0 DEF VisitedCas, TsLocal, Goto, Return, shared, segment, locals
<1> QED
  BY <1>1, <1>2, <1>3, <1>4, <1>5, <1>6, <1>7, <1>8, <1>9, <1>10, <1>11, <1>12, <1>13, <1>14,
     <1>15, <1>16, <1>17, <1>18, <1>19, <1>20, <1>21, <1>22, <1>23, <1>24, <1>25, <1>26 DEF Do,
     Call, Continue

\* The link that was written is the value that the swap expects; a pop whose swap
\* succeeds has read the link of the first segment as it is (the tag).
LEMMA LinkLocalStep ==
  ASSUME Core, NEW t \in Thread, Do(t)
  PROVE  LinkLocal(t)'
<1>0. /\ pc \in [Thread -> Label] /\ abandoned_next \in [Segment -> Segment \cup {NULL}] /\ NULL \notin Segment
      /\ seg[t] \in Segment \cup {NULL} /\ last[t] \in Segment \cup {NULL}
      /\ anext \in [Thread -> Segment \cup {NULL}]
      /\ SegLocal(t) /\ LastLocal(t) /\ LinkLocal(t)
  BY SegmentAssumption, TypeFacts DEF Core, TypeOK, Locals
<1>1. CASE SegmentInit(t)
  BY <1>1, <1>0 DEF SegmentInit, LinkLocal, Goto, Return, shared, segment, locals
<1>2. CASE OsFree(t)
  BY <1>2, <1>0 DEF OsFree, LinkLocal, Goto, Return, shared, segment, locals
<1>3. CASE AwaitReaders(t)
  BY <1>3, <1>0 DEF AwaitReaders, LinkLocal, Goto, Return, shared, segment, locals
<1>4. CASE Abandon(t)
  BY <1>4, <1>0 DEF Abandon, LinkLocal, Goto, Return, shared, segment, locals
<1>5. CASE PushRead(t)
  BY <1>5, <1>0 DEF PushRead, LinkLocal, Goto, Return, shared, segment, locals
<1>6. CASE PushLink(t)
  BY <1>6, <1>0 DEF PushLink, LinkLocal, Goto, Return, shared, segment, locals, SegLocal, HasSeg,
     HandLabel
<1>7. CASE PushCas(t)
  BY <1>7, <1>0 DEF PushCas, LinkLocal, Goto, Return, shared, segment, locals
<1>8. CASE Pop(t)
  BY <1>8, <1>0 DEF Pop, LinkLocal, Goto, Return, shared, segment, locals
<1>9. CASE RevisitCheck(t)
  BY <1>9, <1>0 DEF RevisitCheck, LinkLocal, Goto, Return, shared, segment, locals
<1>10. CASE RevisitGrab(t)
  BY <1>10, <1>0 DEF RevisitGrab, LinkLocal, Goto, Return, shared, segment, locals
<1>11. CASE RevisitRead(t)
  BY <1>11, <1>0 DEF RevisitRead, LinkLocal, Goto, Return, shared, segment, locals
<1>12. CASE RevisitSwap(t)
  BY <1>12, <1>0 DEF RevisitSwap, LinkLocal, Goto, Return, shared, segment, locals
<1>13. CASE RevisitAgain(t)
  BY <1>13, <1>0 DEF RevisitAgain, LinkLocal, Goto, Return, shared, segment, locals
<1>14. CASE RevisitLink(t)
  BY <1>14, <1>0 DEF RevisitLink, LinkLocal, Goto, Return, shared, segment, locals, LastLocal
<1>15. CASE RevisitCas(t)
  BY <1>15, <1>0 DEF RevisitCas, LinkLocal, Goto, Return, shared, segment, locals
<1>16. CASE PopInc(t)
  BY <1>16, <1>0 DEF PopInc, LinkLocal, Goto, Return, shared, segment, locals
<1>17. CASE PopRead(t)
  BY <1>17, <1>0 DEF PopRead, LinkLocal, Goto, Return, shared, segment, locals
<1>18. CASE PopNext(t)
  BY <1>18, <1>0 DEF PopNext, LinkLocal, Goto, Return, shared, segment, locals
<1>19. CASE PopCas(t)
  BY <1>19, <1>0 DEF PopCas, LinkLocal, Goto, Return, shared, segment, locals
<1>20. CASE PopDec(t)
  BY <1>20, <1>0 DEF PopDec, LinkLocal, Goto, Return, shared, segment, locals
<1>21. CASE PopClear(t)
  BY <1>21, <1>0 DEF PopClear, LinkLocal, Goto, Return, shared, segment, locals
<1>22. CASE Reclaim(t)
  BY <1>22, <1>0 DEF Reclaim, LinkLocal, Goto, Return, shared, segment, locals
<1>23. CASE PutAside(t)
  BY <1>23, <1>0 DEF PutAside, LinkLocal, Goto, Return, shared, segment, locals
<1>24. CASE VisitedRead(t)
  BY <1>24, <1>0 DEF VisitedRead, LinkLocal, Goto, Return, shared, segment, locals
<1>25. CASE VisitedLink(t)
  BY <1>25, <1>0 DEF VisitedLink, LinkLocal, Goto, Return, shared, segment, locals, SegLocal,
     HasSeg, HandLabel
<1>26. CASE VisitedCas(t)
  BY <1>26, <1>0 DEF VisitedCas, LinkLocal, Goto, Return, shared, segment, locals
<1> QED
  BY <1>1, <1>2, <1>3, <1>4, <1>5, <1>6, <1>7, <1>8, <1>9, <1>10, <1>11, <1>12, <1>13, <1>14,
     <1>15, <1>16, <1>17, <1>18, <1>19, <1>20, <1>21, <1>22, <1>23, <1>24, <1>25, <1>26 DEF Do,
     Call, Continue

\* What the locals hold, for all threads.
LEMMA LocalsStep ==
  ASSUME Core, NEW t \in Thread, Do(t)
  PROVE  Locals'
<1>1. ASSUME NEW u \in Thread
      PROVE  SegLocal(u)' /\ LastLocal(u)' /\ TsLocal(u)' /\ LinkLocal(u)'
  <2>1. CASE u = t
    BY <2>1, SegLocalStep, LastLocalStep, TsLocalStep, LinkLocalStep
  <2>2. CASE u # t
    BY <2>2, LocalsOfOthers
  <2> QED
    BY <2>1, <2>2
<1> QED
  BY <1>1 DEF Locals

(***************************************************************************)
(* Memory, and pops that find nothing.                                     *)
(***************************************************************************)

\* Memory that is reset is with the region layer.
LEMMA ResetStep ==
  ASSUME Core, ResetUnused, NEW t \in Thread, Do(t)
  PROVE  ResetUnused'
<1>0. /\ memory \in [Segment -> {"mapped", "reset"}] /\ unused \subseteq Segment
      /\ seg[t] \in Segment \cup {NULL} /\ SegLocal(t)
  BY TypeFacts DEF Core, TypeOK, Locals
<1> USE DEF ResetUnused
<1>1. CASE SegmentInit(t)
  BY <1>1, <1>0 DEF SegmentInit, Goto, Return, shared, segment, locals
<1>2. CASE OsFree(t)
  BY <1>2, <1>0 DEF OsFree, Goto, Return, shared, segment, locals
<1>3. CASE AwaitReaders(t)
  BY <1>3, <1>0 DEF AwaitReaders, Goto, Return, shared, segment, locals, SegLocal, HasSeg, HandLabel
<1>4. CASE Abandon(t)
  BY <1>4, <1>0 DEF Abandon, Goto, Return, shared, segment, locals
<1>5. CASE PushRead(t)
  BY <1>5, <1>0 DEF PushRead, Goto, Return, shared, segment, locals
<1>6. CASE PushLink(t)
  BY <1>6, <1>0 DEF PushLink, Goto, Return, shared, segment, locals
<1>7. CASE PushCas(t)
  BY <1>7, <1>0 DEF PushCas, Goto, Return, shared, segment, locals
<1>8. CASE Pop(t)
  BY <1>8, <1>0 DEF Pop, Goto, Return, shared, segment, locals
<1>9. CASE RevisitCheck(t)
  BY <1>9, <1>0 DEF RevisitCheck, Goto, Return, shared, segment, locals
<1>10. CASE RevisitGrab(t)
  BY <1>10, <1>0 DEF RevisitGrab, Goto, Return, shared, segment, locals
<1>11. CASE RevisitRead(t)
  BY <1>11, <1>0 DEF RevisitRead, Goto, Return, shared, segment, locals
<1>12. CASE RevisitSwap(t)
  BY <1>12, <1>0 DEF RevisitSwap, Goto, Return, shared, segment, locals
<1>13. CASE RevisitAgain(t)
  BY <1>13, <1>0 DEF RevisitAgain, Goto, Return, shared, segment, locals
<1>14. CASE RevisitLink(t)
  BY <1>14, <1>0 DEF RevisitLink, Goto, Return, shared, segment, locals
<1>15. CASE RevisitCas(t)
  BY <1>15, <1>0 DEF RevisitCas, Goto, Return, shared, segment, locals
<1>16. CASE PopInc(t)
  BY <1>16, <1>0 DEF PopInc, Goto, Return, shared, segment, locals
<1>17. CASE PopRead(t)
  BY <1>17, <1>0 DEF PopRead, Goto, Return, shared, segment, locals
<1>18. CASE PopNext(t)
  BY <1>18, <1>0 DEF PopNext, Goto, Return, shared, segment, locals
<1>19. CASE PopCas(t)
  BY <1>19, <1>0 DEF PopCas, Goto, Return, shared, segment, locals
<1>20. CASE PopDec(t)
  BY <1>20, <1>0 DEF PopDec, Goto, Return, shared, segment, locals
<1>21. CASE PopClear(t)
  BY <1>21, <1>0 DEF PopClear, Goto, Return, shared, segment, locals
<1>22. CASE Reclaim(t)
  BY <1>22, <1>0 DEF Reclaim, Goto, Return, shared, segment, locals
<1>23. CASE PutAside(t)
  BY <1>23, <1>0 DEF PutAside, Goto, Return, shared, segment, locals
<1>24. CASE VisitedRead(t)
  BY <1>24, <1>0 DEF VisitedRead, Goto, Return, shared, segment, locals
<1>25. CASE VisitedLink(t)
  BY <1>25, <1>0 DEF VisitedLink, Goto, Return, shared, segment, locals
<1>26. CASE VisitedCas(t)
  BY <1>26, <1>0 DEF VisitedCas, Goto, Return, shared, segment, locals
<1> QED
  BY <1>1, <1>2, <1>3, <1>4, <1>5, <1>6, <1>7, <1>8, <1>9, <1>10, <1>11, <1>12, <1>13, <1>14,
     <1>15, <1>16, <1>17, <1>18, <1>19, <1>20, <1>21, <1>22, <1>23, <1>24, <1>25, <1>26 DEF Do,
     Call, Continue

\* Only a segment that came from the OS, or one for which no pop was reading,
\* is reset.
LEMMA MemoryIs ==
  ASSUME Core, NEW t \in Thread, Do(t), Direct = {}, NEW s \in Segment, memory[s] = "mapped"
  PROVE  memory'[s] = "mapped" \/ AwaitReaders(t)
<1>0. memory \in [Segment -> {"mapped", "reset"}]
  BY DEF Core, TypeOK
<1>1. CASE SegmentInit(t)
  BY <1>1, <1>0 DEF SegmentInit, Goto, Return, shared, segment, locals
<1>2. CASE OsFree(t)
  BY <1>2, <1>0 DEF OsFree, Goto, Return, shared, segment, locals
<1>3. CASE AwaitReaders(t)
  BY <1>3, <1>0 DEF AwaitReaders, Goto, Return, shared, segment, locals
<1>4. CASE Abandon(t)
  BY <1>4, <1>0 DEF Abandon, Goto, Return, shared, segment, locals
<1>5. CASE PushRead(t)
  BY <1>5, <1>0 DEF PushRead, Goto, Return, shared, segment, locals
<1>6. CASE PushLink(t)
  BY <1>6, <1>0 DEF PushLink, Goto, Return, shared, segment, locals
<1>7. CASE PushCas(t)
  BY <1>7, <1>0 DEF PushCas, Goto, Return, shared, segment, locals
<1>8. CASE Pop(t)
  BY <1>8, <1>0 DEF Pop, Goto, Return, shared, segment, locals
<1>9. CASE RevisitCheck(t)
  BY <1>9, <1>0 DEF RevisitCheck, Goto, Return, shared, segment, locals
<1>10. CASE RevisitGrab(t)
  BY <1>10, <1>0 DEF RevisitGrab, Goto, Return, shared, segment, locals
<1>11. CASE RevisitRead(t)
  BY <1>11, <1>0 DEF RevisitRead, Goto, Return, shared, segment, locals
<1>12. CASE RevisitSwap(t)
  BY <1>12, <1>0 DEF RevisitSwap, Goto, Return, shared, segment, locals
<1>13. CASE RevisitAgain(t)
  BY <1>13, <1>0 DEF RevisitAgain, Goto, Return, shared, segment, locals
<1>14. CASE RevisitLink(t)
  BY <1>14, <1>0 DEF RevisitLink, Goto, Return, shared, segment, locals
<1>15. CASE RevisitCas(t)
  BY <1>15, <1>0 DEF RevisitCas, Goto, Return, shared, segment, locals
<1>16. CASE PopInc(t)
  BY <1>16, <1>0 DEF PopInc, Goto, Return, shared, segment, locals
<1>17. CASE PopRead(t)
  BY <1>17, <1>0 DEF PopRead, Goto, Return, shared, segment, locals
<1>18. CASE PopNext(t)
  BY <1>18, <1>0 DEF PopNext, Goto, Return, shared, segment, locals
<1>19. CASE PopCas(t)
  BY <1>19, <1>0 DEF PopCas, Goto, Return, shared, segment, locals
<1>20. CASE PopDec(t)
  BY <1>20, <1>0 DEF PopDec, Goto, Return, shared, segment, locals
<1>21. CASE PopClear(t)
  BY <1>21, <1>0 DEF PopClear, Goto, Return, shared, segment, locals
<1>22. CASE Reclaim(t)
  BY <1>22, <1>0 DEF Reclaim, Goto, Return, shared, segment, locals
<1>23. CASE PutAside(t)
  BY <1>23, <1>0 DEF PutAside, Goto, Return, shared, segment, locals
<1>24. CASE VisitedRead(t)
  BY <1>24, <1>0 DEF VisitedRead, Goto, Return, shared, segment, locals
<1>25. CASE VisitedLink(t)
  BY <1>25, <1>0 DEF VisitedLink, Goto, Return, shared, segment, locals
<1>26. CASE VisitedCas(t)
  BY <1>26, <1>0 DEF VisitedCas, Goto, Return, shared, segment, locals
<1> QED
  BY <1>1, <1>2, <1>3, <1>4, <1>5, <1>6, <1>7, <1>8, <1>9, <1>10, <1>11, <1>12, <1>13, <1>14,
     <1>15, <1>16, <1>17, <1>18, <1>19, <1>20, <1>21, <1>22, <1>23, <1>24, <1>25, <1>26 DEF Do,
     Call, Continue

\* A pop reads the link of a segment whose memory is mapped.
LEMMA MemoryStep ==
  ASSUME Core, Readers, ResetUnused, MemoryKept, NEW t \in Thread, Do(t)
  PROVE  MemoryKept'
<1> SUFFICES ASSUME Direct = {}, NEW u \in Thread, pc'[u] = "pop_next"
             PROVE  memory'[ts'[u].seg] = "mapped"
  BY DEF MemoryKept, NoReadOfReset
<1>1. CASE pc[u] = "pop_next" /\ ts'[u] = ts[u]
  <2>1. PICK s \in Segment : s = ts[u].seg /\ memory[s] = "mapped"
    <3>1. ts[u].seg \in Segment
      BY <1>1, TypeFacts DEF Core, Locals, TsLocal
    <3> QED
      BY <1>1, <3>1 DEF MemoryKept, NoReadOfReset
  <2>2. ~AwaitReaders(t)
    <3>1. abandoned_readers # 0
      BY <1>1, CountedIs DEF Core, Readers, ReadLabel
    <3> QED
      BY <3>1 DEF AwaitReaders
  <2> QED
    BY <1>1, <2>1, <2>2, MemoryIs
<1>2. CASE ~(pc[u] = "pop_next" /\ ts'[u] = ts[u])
  <2>1. u = t
    BY <1>2, OthersKept DEF Core, Others
  <2>2. PopRead(t)
    <3>0. pc \in [Thread -> Label] /\ pc'[t] = "pop_next"
      BY <2>1 DEF Core, TypeOK
    <3>1. CASE SegmentInit(t)
      BY <3>1, <3>0, <2>1, <1>2 DEF SegmentInit, Goto, Return, shared, segment, locals
    <3>2. CASE OsFree(t)
      BY <3>2, <3>0, <2>1, <1>2 DEF OsFree, Goto, Return, shared, segment, locals
    <3>3. CASE AwaitReaders(t)
      BY <3>3, <3>0, <2>1, <1>2 DEF AwaitReaders, Goto, Return, shared, segment, locals
    <3>4. CASE Abandon(t)
      BY <3>4, <3>0, <2>1, <1>2 DEF Abandon, Goto, Return, shared, segment, locals
    <3>5. CASE PushRead(t)
      BY <3>5, <3>0, <2>1, <1>2 DEF PushRead, Goto, Return, shared, segment, locals
    <3>6. CASE PushLink(t)
      BY <3>6, <3>0, <2>1, <1>2 DEF PushLink, Goto, Return, shared, segment, locals
    <3>7. CASE PushCas(t)
      BY <3>7, <3>0, <2>1, <1>2 DEF PushCas, Goto, Return, shared, segment, locals
    <3>8. CASE Pop(t)
      BY <3>8, <3>0, <2>1, <1>2 DEF Pop, Goto, Return, shared, segment, locals
    <3>9. CASE RevisitCheck(t)
      BY <3>9, <3>0, <2>1, <1>2 DEF RevisitCheck, Goto, Return, shared, segment, locals
    <3>10. CASE RevisitGrab(t)
      BY <3>10, <3>0, <2>1, <1>2 DEF RevisitGrab, Goto, Return, shared, segment, locals
    <3>11. CASE RevisitRead(t)
      BY <3>11, <3>0, <2>1, <1>2 DEF RevisitRead, Goto, Return, shared, segment, locals
    <3>12. CASE RevisitSwap(t)
      BY <3>12, <3>0, <2>1, <1>2 DEF RevisitSwap, Goto, Return, shared, segment, locals
    <3>13. CASE RevisitAgain(t)
      BY <3>13, <3>0, <2>1, <1>2 DEF RevisitAgain, Goto, Return, shared, segment, locals
    <3>14. CASE RevisitLink(t)
      BY <3>14, <3>0, <2>1, <1>2 DEF RevisitLink, Goto, Return, shared, segment, locals
    <3>15. CASE RevisitCas(t)
      BY <3>15, <3>0, <2>1, <1>2 DEF RevisitCas, Goto, Return, shared, segment, locals
    <3>16. CASE PopInc(t)
      BY <3>16, <3>0, <2>1, <1>2 DEF PopInc, Goto, Return, shared, segment, locals
    <3>17. CASE PopRead(t)
      BY <3>17, <3>0, <2>1, <1>2 DEF PopRead, Goto, Return, shared, segment, locals
    <3>18. CASE PopNext(t)
      BY <3>18, <3>0, <2>1, <1>2 DEF PopNext, Goto, Return, shared, segment, locals
    <3>19. CASE PopCas(t)
      BY <3>19, <3>0, <2>1, <1>2 DEF PopCas, Goto, Return, shared, segment, locals
    <3>20. CASE PopDec(t)
      BY <3>20, <3>0, <2>1, <1>2 DEF PopDec, Goto, Return, shared, segment, locals
    <3>21. CASE PopClear(t)
      BY <3>21, <3>0, <2>1, <1>2 DEF PopClear, Goto, Return, shared, segment, locals
    <3>22. CASE Reclaim(t)
      BY <3>22, <3>0, <2>1, <1>2 DEF Reclaim, Goto, Return, shared, segment, locals
    <3>23. CASE PutAside(t)
      BY <3>23, <3>0, <2>1, <1>2 DEF PutAside, Goto, Return, shared, segment, locals
    <3>24. CASE VisitedRead(t)
      BY <3>24, <3>0, <2>1, <1>2 DEF VisitedRead, Goto, Return, shared, segment, locals
    <3>25. CASE VisitedLink(t)
      BY <3>25, <3>0, <2>1, <1>2 DEF VisitedLink, Goto, Return, shared, segment, locals
    <3>26. CASE VisitedCas(t)
      BY <3>26, <3>0, <2>1, <1>2 DEF VisitedCas, Goto, Return, shared, segment, locals
    <3> QED
      BY <3>1, <3>2, <3>3, <3>4, <3>5, <3>6, <3>7, <3>8, <3>9, <3>10, <3>11, <3>12, <3>13, <3>14,
         <3>15, <3>16, <3>17, <3>18, <3>19, <3>20, <3>21, <3>22, <3>23, <3>24, <3>25, <3>26 DEF Do,
         Call, Continue
  <2>3. ts'[t] = abandoned /\ abandoned.seg # NULL /\ memory' = memory
    BY <2>1, <2>2 DEF PopRead, Core, TypeOK, Goto, segment
  <2>4. PICK s \in Segment : s = abandoned.seg
    BY <2>3, TypeFacts DEF Core
  <2>5. s \in Stack
    BY <2>4, TypeFacts, ReachIs DEF Core, Stack
  <2>6. s \notin unused
    BY <2>5, Apart DEF Core
  <2>7. memory[s] = "mapped"
    BY <2>6 DEF ResetUnused, Core, TypeOK
  <2> QED
    BY <2>1, <2>3, <2>4, <2>7
<1> QED
  BY <1>1, <1>2

\* A step of another call does not empty the lists.
LEMMA OtherKeeps ==
  ASSUME Core, NEW t \in Thread, Do(t), pc[t] \notin PopLabel, pc'[t] \notin PopLabel
  PROVE  /\ abandoned_visited' = abandoned_visited \/ abandoned_visited' # NULL
         /\ abandoned'.seg = abandoned.seg \/ abandoned'.seg # NULL
<1>0. pc \in [Thread -> Label] /\ NULL \notin Segment /\ SegLocal(t)
  BY SegmentAssumption DEF Core, TypeOK, Locals
<1>1. CASE SegmentInit(t)
  BY <1>1, <1>0 DEF SegmentInit, PopLabel, SegLocal, HasSeg, HandLabel, TaggedNext, Goto, Return,
     shared, segment, locals
<1>2. CASE OsFree(t)
  BY <1>2, <1>0 DEF OsFree, PopLabel, SegLocal, HasSeg, HandLabel, TaggedNext, Goto, Return, shared,
     segment, locals
<1>3. CASE AwaitReaders(t)
  BY <1>3, <1>0 DEF AwaitReaders, PopLabel, SegLocal, HasSeg, HandLabel, TaggedNext, Goto, Return,
     shared, segment, locals
<1>4. CASE Abandon(t)
  BY <1>4, <1>0 DEF Abandon, PopLabel, SegLocal, HasSeg, HandLabel, TaggedNext, Goto, Return,
     shared, segment, locals
<1>5. CASE PushRead(t)
  BY <1>5, <1>0 DEF PushRead, PopLabel, SegLocal, HasSeg, HandLabel, TaggedNext, Goto, Return,
     shared, segment, locals
<1>6. CASE PushLink(t)
  BY <1>6, <1>0 DEF PushLink, PopLabel, SegLocal, HasSeg, HandLabel, TaggedNext, Goto, Return,
     shared, segment, locals
<1>7. CASE PushCas(t)
  BY <1>7, <1>0 DEF PushCas, PopLabel, SegLocal, HasSeg, HandLabel, TaggedNext, Goto, Return,
     shared, segment, locals
<1>8. CASE Pop(t)
  BY <1>8, <1>0 DEF Pop, PopLabel, SegLocal, HasSeg, HandLabel, TaggedNext, Goto, Return, shared,
     segment, locals
<1>9. CASE RevisitCheck(t)
  BY <1>9, <1>0 DEF RevisitCheck, PopLabel, SegLocal, HasSeg, HandLabel, TaggedNext, Goto, Return,
     shared, segment, locals
<1>10. CASE RevisitGrab(t)
  BY <1>10, <1>0 DEF RevisitGrab, PopLabel, SegLocal, HasSeg, HandLabel, TaggedNext, Goto, Return,
     shared, segment, locals
<1>11. CASE RevisitRead(t)
  BY <1>11, <1>0 DEF RevisitRead, PopLabel, SegLocal, HasSeg, HandLabel, TaggedNext, Goto, Return,
     shared, segment, locals
<1>12. CASE RevisitSwap(t)
  BY <1>12, <1>0 DEF RevisitSwap, PopLabel, SegLocal, HasSeg, HandLabel, TaggedNext, Goto, Return,
     shared, segment, locals
<1>13. CASE RevisitAgain(t)
  BY <1>13, <1>0 DEF RevisitAgain, PopLabel, SegLocal, HasSeg, HandLabel, TaggedNext, Goto, Return,
     shared, segment, locals
<1>14. CASE RevisitLink(t)
  BY <1>14, <1>0 DEF RevisitLink, PopLabel, SegLocal, HasSeg, HandLabel, TaggedNext, Goto, Return,
     shared, segment, locals
<1>15. CASE RevisitCas(t)
  BY <1>15, <1>0 DEF RevisitCas, PopLabel, SegLocal, HasSeg, HandLabel, TaggedNext, Goto, Return,
     shared, segment, locals
<1>16. CASE PopInc(t)
  BY <1>16, <1>0 DEF PopInc, PopLabel, SegLocal, HasSeg, HandLabel, TaggedNext, Goto, Return,
     shared, segment, locals
<1>17. CASE PopRead(t)
  BY <1>17, <1>0 DEF PopRead, PopLabel, SegLocal, HasSeg, HandLabel, TaggedNext, Goto, Return,
     shared, segment, locals
<1>18. CASE PopNext(t)
  BY <1>18, <1>0 DEF PopNext, PopLabel, SegLocal, HasSeg, HandLabel, TaggedNext, Goto, Return,
     shared, segment, locals
<1>19. CASE PopCas(t)
  BY <1>19, <1>0 DEF PopCas, PopLabel, SegLocal, HasSeg, HandLabel, TaggedNext, Goto, Return,
     shared, segment, locals
<1>20. CASE PopDec(t)
  BY <1>20, <1>0 DEF PopDec, PopLabel, SegLocal, HasSeg, HandLabel, TaggedNext, Goto, Return,
     shared, segment, locals
<1>21. CASE PopClear(t)
  BY <1>21, <1>0 DEF PopClear, PopLabel, SegLocal, HasSeg, HandLabel, TaggedNext, Goto, Return,
     shared, segment, locals
<1>22. CASE Reclaim(t)
  BY <1>22, <1>0 DEF Reclaim, PopLabel, SegLocal, HasSeg, HandLabel, TaggedNext, Goto, Return,
     shared, segment, locals
<1>23. CASE PutAside(t)
  BY <1>23, <1>0 DEF PutAside, PopLabel, SegLocal, HasSeg, HandLabel, TaggedNext, Goto, Return,
     shared, segment, locals
<1>24. CASE VisitedRead(t)
  BY <1>24, <1>0 DEF VisitedRead, PopLabel, SegLocal, HasSeg, HandLabel, TaggedNext, Goto, Return,
     shared, segment, locals
<1>25. CASE VisitedLink(t)
  BY <1>25, <1>0 DEF VisitedLink, PopLabel, SegLocal, HasSeg, HandLabel, TaggedNext, Goto, Return,
     shared, segment, locals
<1>26. CASE VisitedCas(t)
  BY <1>26, <1>0 DEF VisitedCas, PopLabel, SegLocal, HasSeg, HandLabel, TaggedNext, Goto, Return,
     shared, segment, locals
<1> QED
  BY <1>1, <1>2, <1>3, <1>4, <1>5, <1>6, <1>7, <1>8, <1>9, <1>10, <1>11, <1>12, <1>13, <1>14,
     <1>15, <1>16, <1>17, <1>18, <1>19, <1>20, <1>21, <1>22, <1>23, <1>24, <1>25, <1>26 DEF Do,
     Call, Continue

\* What a pop without an excuse has ahead of it.
FindsAt(t) ==
  /\ pc[t] \in {"rv_check", "rv_grab"} => abandoned_visited # NULL
  /\ pc[t] \in {"pop_inc", "pop_read", "pop_next", "pop_cas"} => abandoned.seg # NULL
  /\ pc[t] = "pop_dec" => seg[t] # NULL

\* Such a pop goes on to a label at which it finds a segment.
LEMMA OwnFinds ==
  ASSUME Core, NEW t \in Thread, Do(t), pc'[t] \in PopLabel,
         pc[t] \in PopLabel => FindsAt(t),
         Pop(t) => abandoned.seg # NULL \/ abandoned_visited # NULL
  PROVE  FindsAt(t)'
<1>0. /\ pc \in [Thread -> Label] /\ seg \in [Thread -> Segment \cup {NULL}] /\ NULL \notin Segment
      /\ SegLocal(t) /\ TsLocal(t)
  BY SegmentAssumption DEF Core, TypeOK, Locals
<1>1. CASE SegmentInit(t)
  BY <1>1, <1>0 DEF SegmentInit, FindsAt, PopLabel, SegLocal, TsLocal, HasSeg, FlightLabel,
     HandLabel, TaggedNext, Goto, Return, shared, segment, locals
<1>2. CASE OsFree(t)
  BY <1>2, <1>0 DEF OsFree, FindsAt, PopLabel, SegLocal, TsLocal, HasSeg, FlightLabel, HandLabel,
     TaggedNext, Goto, Return, shared, segment, locals
<1>3. CASE AwaitReaders(t)
  BY <1>3, <1>0 DEF AwaitReaders, FindsAt, PopLabel, SegLocal, TsLocal, HasSeg, FlightLabel,
     HandLabel, TaggedNext, Goto, Return, shared, segment, locals
<1>4. CASE Abandon(t)
  BY <1>4, <1>0 DEF Abandon, FindsAt, PopLabel, SegLocal, TsLocal, HasSeg, FlightLabel, HandLabel,
     TaggedNext, Goto, Return, shared, segment, locals
<1>5. CASE PushRead(t)
  BY <1>5, <1>0 DEF PushRead, FindsAt, PopLabel, SegLocal, TsLocal, HasSeg, FlightLabel, HandLabel,
     TaggedNext, Goto, Return, shared, segment, locals
<1>6. CASE PushLink(t)
  BY <1>6, <1>0 DEF PushLink, FindsAt, PopLabel, SegLocal, TsLocal, HasSeg, FlightLabel, HandLabel,
     TaggedNext, Goto, Return, shared, segment, locals
<1>7. CASE PushCas(t)
  BY <1>7, <1>0 DEF PushCas, FindsAt, PopLabel, SegLocal, TsLocal, HasSeg, FlightLabel, HandLabel,
     TaggedNext, Goto, Return, shared, segment, locals
<1>8. CASE Pop(t)
  BY <1>8, <1>0 DEF Pop, FindsAt, PopLabel, SegLocal, TsLocal, HasSeg, FlightLabel, HandLabel,
     TaggedNext, Goto, Return, shared, segment, locals
<1>9. CASE RevisitCheck(t)
  BY <1>9, <1>0 DEF RevisitCheck, FindsAt, PopLabel, SegLocal, TsLocal, HasSeg, FlightLabel,
     HandLabel, TaggedNext, Goto, Return, shared, segment, locals
<1>10. CASE RevisitGrab(t)
  BY <1>10, <1>0 DEF RevisitGrab, FindsAt, PopLabel, SegLocal, TsLocal, HasSeg, FlightLabel,
     HandLabel, TaggedNext, Goto, Return, shared, segment, locals
<1>11. CASE RevisitRead(t)
  BY <1>11, <1>0 DEF RevisitRead, FindsAt, PopLabel, SegLocal, TsLocal, HasSeg, FlightLabel,
     HandLabel, TaggedNext, Goto, Return, shared, segment, locals
<1>12. CASE RevisitSwap(t)
  BY <1>12, <1>0 DEF RevisitSwap, FindsAt, PopLabel, SegLocal, TsLocal, HasSeg, FlightLabel,
     HandLabel, TaggedNext, Goto, Return, shared, segment, locals
<1>13. CASE RevisitAgain(t)
  BY <1>13, <1>0 DEF RevisitAgain, FindsAt, PopLabel, SegLocal, TsLocal, HasSeg, FlightLabel,
     HandLabel, TaggedNext, Goto, Return, shared, segment, locals
<1>14. CASE RevisitLink(t)
  BY <1>14, <1>0 DEF RevisitLink, FindsAt, PopLabel, SegLocal, TsLocal, HasSeg, FlightLabel,
     HandLabel, TaggedNext, Goto, Return, shared, segment, locals
<1>15. CASE RevisitCas(t)
  BY <1>15, <1>0 DEF RevisitCas, FindsAt, PopLabel, SegLocal, TsLocal, HasSeg, FlightLabel,
     HandLabel, TaggedNext, Goto, Return, shared, segment, locals
<1>16. CASE PopInc(t)
  BY <1>16, <1>0 DEF PopInc, FindsAt, PopLabel, SegLocal, TsLocal, HasSeg, FlightLabel, HandLabel,
     TaggedNext, Goto, Return, shared, segment, locals
<1>17. CASE PopRead(t)
  BY <1>17, <1>0 DEF PopRead, FindsAt, PopLabel, SegLocal, TsLocal, HasSeg, FlightLabel, HandLabel,
     TaggedNext, Goto, Return, shared, segment, locals
<1>18. CASE PopNext(t)
  BY <1>18, <1>0 DEF PopNext, FindsAt, PopLabel, SegLocal, TsLocal, HasSeg, FlightLabel, HandLabel,
     TaggedNext, Goto, Return, shared, segment, locals
<1>19. CASE PopCas(t)
  BY <1>19, <1>0 DEF PopCas, FindsAt, PopLabel, SegLocal, TsLocal, HasSeg, FlightLabel, HandLabel,
     TaggedNext, Goto, Return, shared, segment, locals
<1>20. CASE PopDec(t)
  BY <1>20, <1>0 DEF PopDec, FindsAt, PopLabel, SegLocal, TsLocal, HasSeg, FlightLabel, HandLabel,
     TaggedNext, Goto, Return, shared, segment, locals
<1>21. CASE PopClear(t)
  BY <1>21, <1>0 DEF PopClear, FindsAt, PopLabel, SegLocal, TsLocal, HasSeg, FlightLabel, HandLabel,
     TaggedNext, Goto, Return, shared, segment, locals
<1>22. CASE Reclaim(t)
  BY <1>22, <1>0 DEF Reclaim, FindsAt, PopLabel, SegLocal, TsLocal, HasSeg, FlightLabel, HandLabel,
     TaggedNext, Goto, Return, shared, segment, locals
<1>23. CASE PutAside(t)
  BY <1>23, <1>0 DEF PutAside, FindsAt, PopLabel, SegLocal, TsLocal, HasSeg, FlightLabel, HandLabel,
     TaggedNext, Goto, Return, shared, segment, locals
<1>24. CASE VisitedRead(t)
  BY <1>24, <1>0 DEF VisitedRead, FindsAt, PopLabel, SegLocal, TsLocal, HasSeg, FlightLabel,
     HandLabel, TaggedNext, Goto, Return, shared, segment, locals
<1>25. CASE VisitedLink(t)
  BY <1>25, <1>0 DEF VisitedLink, FindsAt, PopLabel, SegLocal, TsLocal, HasSeg, FlightLabel,
     HandLabel, TaggedNext, Goto, Return, shared, segment, locals
<1>26. CASE VisitedCas(t)
  BY <1>26, <1>0 DEF VisitedCas, FindsAt, PopLabel, SegLocal, TsLocal, HasSeg, FlightLabel,
     HandLabel, TaggedNext, Goto, Return, shared, segment, locals
<1> QED
  BY <1>1, <1>2, <1>3, <1>4, <1>5, <1>6, <1>7, <1>8, <1>9, <1>10, <1>11, <1>12, <1>13, <1>14,
     <1>15, <1>16, <1>17, <1>18, <1>19, <1>20, <1>21, <1>22, <1>23, <1>24, <1>25, <1>26 DEF Do,
     Call, Continue

\* A pop without an excuse finds a segment.
LEMMA FindsStep ==
  ASSUME Core, AllFind, NEW t \in Thread, Do(t), Remember
  PROVE  AllFind'
<1> SUFFICES ASSUME NEW u \in Thread, pc'[u] \in PopLabel, ~excused'[u]
             PROVE  ~Excuse(u)' /\ FindsAt(u)'
  BY DEF AllFind, Finds, FindsAt
<1>1. ~excused[u] /\ ~Excuse(u) /\ ~Excuse(u)'
  BY DEF Remember
<1>2. pc[u] \in PopLabel => FindsAt(u)
  BY <1>1 DEF AllFind, Finds, FindsAt
<1>3. CASE u = t
  <2>1. ASSUME Pop(t)
        PROVE  abandoned.seg # NULL \/ abandoned_visited # NULL
    <3>1. abandoned_next \in [Segment -> Segment \cup {NULL}] /\ NULL \notin Segment
      BY SegmentAssumption DEF Core, TypeOK
    <3>2. \A w \in Thread : InFlight(w) = {}
      <4>1. \A w \in Thread : w # u => pc[w] \notin PopLabel
        BY <1>1 DEF Excuse
      <4>2. pc[t] = "idle"
        BY <2>1 DEF Pop
      <4> QED
        BY <1>3, <4>1, <4>2 DEF InFlight, FlightLabel, PopLabel
    <3>3. Listed # {}
      BY <1>1 DEF Excuse
    <3>4. Stack # {} \/ Visited # {}
      BY <3>2, <3>3 DEF Listed
    <3> QED
      BY <3>1, <3>4, ReachIs DEF Stack, Visited
  <2> QED
    BY <1>1, <1>2, <1>3, <2>1, OwnFinds
<1>4. CASE u # t
  <2>1. pc'[u] = pc[u] /\ seg'[u] = seg[u]
    BY <1>4, OthersKept DEF Core, Others
  <2>2. pc[t] \notin PopLabel /\ pc'[t] \notin PopLabel
    BY <1>1, <1>4 DEF Excuse
  <2>3. /\ abandoned_visited' = abandoned_visited \/ abandoned_visited' # NULL
        /\ abandoned'.seg = abandoned.seg \/ abandoned'.seg # NULL
    BY <2>2, OtherKeeps
  <2>4. FindsAt(u)
    BY <1>2, <2>1
  <2> QED
    BY <1>1, <2>1, <2>3, <2>4 DEF FindsAt
<1> QED
  BY <1>3, <1>4

(***************************************************************************)
(* The invariant, and what it implies.                                     *)
(***************************************************************************)

\* Without a step.
LEMMA StutterKeeps ==
  ASSUME Inv, UNCHANGED vars
  PROVE  Inv'
<1>1. /\ UNCHANGED shared /\ UNCHANGED segment /\ UNCHANGED locals /\ UNCHANGED <<pc, calls, excused>>
  BY DEF vars
<1>2. UNCHANGED <<abandoned, abandoned_visited, abandoned_readers, abandoned_next, thread_id, memory, unused,
                  seg, ts, anext, last, pc, calls, excused>>
  BY <1>1 DEF shared, segment, locals
<1>3. TypeOK' /\ Readers' /\ ResetUnused' /\ MemoryKept' /\ TagBound'
  BY <1>2 DEF Inv, TypeOK, Readers, ResetUnused, MemoryKept, NoReadOfReset, TagBound, AtLabel
<1>4. /\ Stack' = Stack /\ Visited' = Visited
      /\ \A t \in Thread : Cut(t)' = Cut(t) /\ InFlight(t)' = InFlight(t) /\ Own(t)' = Own(t) /\ Hand(t)' = Hand(t)
  BY <1>2 DEF Stack, Visited, Cut, InFlight, Own, Hand
<1>5. OnePlace'
  <2>1. \A p \in Place : At(p)' = At(p)
    BY <1>2, <1>4 DEF At, Place
  <2> QED
    BY <2>1 DEF Inv, OnePlace
<1>6. ListsEnd'
  BY <1>2, <1>4 DEF Inv, ListsEnd, FlightEnds, EndsIn
<1>7. Locals'
  BY <1>2 DEF Inv, Locals, SegLocal, HasSeg, LastLocal, TsLocal, LinkLocal
<1>8. AllFind'
  <2>1. \A t \in Thread : Excuse(t)' <=> Excuse(t)
    BY <1>2, <1>4 DEF Excuse, Listed
  <2> QED
    BY <1>2, <2>1 DEF Inv, AllFind, Finds
<1> QED
  BY <1>3, <1>5, <1>6, <1>7, <1>8 DEF Inv

\* The inductive invariant.
LEMMA InvStep ==
  ASSUME Inv, [Next]_vars
  PROVE  Inv'
<1>1. CASE UNCHANGED vars
  BY <1>1, StutterKeeps
<1>2. ASSUME NEW t \in Thread, Do(t), Remember
      PROVE  Inv'
  <2>1. Core /\ Readers /\ ResetUnused /\ MemoryKept /\ AllFind
    BY DEF Inv, Core
  <2>2. TypeOK'
    <3>1. SharedTypes' /\ SegmentTypes' /\ LocalTypes' /\ abandoned_readers' \in 0 .. Cardinality(Thread)
      BY <1>2, <2>1, SharedStep, SegmentStep, LocalStep, ReadersStep DEF Core
    <3>2. excused' \in [Thread -> BOOLEAN]
      BY <1>2 DEF Remember
    <3> QED
      BY <3>1, <3>2 DEF TypeOK, SharedTypes, SegmentTypes, LocalTypes
  <2>3. OnePlace' /\ ListsEnd'
    <3>1. PICK p \in Place, q \in Place, X \in SUBSET Segment : Moves(p, q, X)
      BY <1>2, <2>1, MoveStep
    <3> QED
      BY <2>1, <3>1, MovedApart DEF Moves, Core
  <2>4. Locals' /\ TagBound' /\ Readers'
    BY <1>2, <2>1, LocalsStep, TagsStep, ReadersStep DEF Core
  <2>5. ResetUnused' /\ MemoryKept' /\ AllFind'
    BY <1>2, <2>1, ResetStep, MemoryStep, FindsStep
  <2> QED
    BY <2>2, <2>3, <2>4, <2>5 DEF Inv
<1> QED
  BY <1>1, <1>2 DEF Next, Do

\* It holds initially.
LEMMA InitInv == Init => Inv
<1> SUFFICES ASSUME Init
             PROVE  Inv
  OBVIOUS
<1> USE SegmentAssumption, ThreadAssumption, TagAssumption
<1>1. IsFiniteSet(Thread) /\ Cardinality(Thread) \in Nat
  BY FS_CardinalityType
<1>2. TypeOK
  <2>1. None \in Tagged
    BY DEF None, Tagged
  <2>2. 0 \in 0 .. MaxCalls /\ 0 \in 0 .. Cardinality(Thread)
    BY <1>1
  <2> QED
    BY <2>1, <2>2 DEF Init, TypeOK, Label
<1>3. \A L : "idle" \notin L => AtLabel(L) = {} /\ Cardinality(AtLabel(L)) = 0
  BY FS_EmptySet DEF Init, AtLabel
<1>4. abandoned.seg = NULL /\ abandoned.tag = 0 /\ DOMAIN abandoned_next = Segment
  BY DEF Init, None
<1>5. Stack = {} /\ Visited = {}
  BY <1>4, ReachIs DEF Init, Stack, Visited
<1>6. \A t \in Thread : Own(t) = {} /\ Hand(t) = {} /\ InFlight(t) = {}
  BY DEF Init, Own, Hand, HandLabel, InFlight, FlightLabel
<1>7. OnePlace
  <2>1. \A p \in Place : p # <<"unused", NULL>> => At(p) = {}
    BY <1>5, <1>6, PlaceIs
  <2>2. At(<<"unused", NULL>>) = Segment /\ <<"unused", NULL>> \in Place
    BY PlaceIs DEF Init
  <2> QED
    BY <2>1, <2>2 DEF OnePlace
<1>8. ListsEnd
  BY <1>4 DEF Init, ListsEnd, EndsIn, FlightEnds, FlightLabel
<1>9. Locals
  BY DEF Init, Locals, SegLocal, HasSeg, LastLocal, TsLocal, LinkLocal, FlightLabel, HandLabel
<1>10. TagBound
  <2>1. Cardinality(AtLabel(OneLabel)) = 0 /\ Cardinality(AtLabel(TwoLabel)) = 0
    BY <1>3 DEF OneLabel, TwoLabel, FlightLabel
  <2>2. \A t \in Thread : ts[t].tag = 0
    BY DEF Init, None
  <2> QED
    BY <1>4, <2>1, <2>2 DEF Init, TagBound
<1>11. Readers
  BY <1>3 DEF Init, Readers, ReadLabel
<1>12. ResetUnused /\ MemoryKept /\ AllFind
  BY DEF Init, ResetUnused, MemoryKept, NoReadOfReset, AllFind, Finds, PopLabel
<1> QED
  BY <1>2, <1>7, <1>8, <1>9, <1>10, <1>11, <1>12 DEF Inv

\* The invariant holds in every state.
THEOREM AbandonedInvariant == Spec => []Inv
<1>1. Inv /\ [Next]_vars => Inv'
  BY InvStep
<1> QED
  BY InitInv, <1>1, PTL DEF Spec

\* Every variable keeps its type: the readers stay within the threads, and the
\* tag is not used twice.
THEOREM AbandonedTypes == Spec => []TypeOK
<1>1. Inv => TypeOK
  BY DEF Inv
<1> QED
  BY AbandonedInvariant, <1>1, PTL

\* Every segment is in one place, and the two lists end.
LEMMA OnePlaceCounted ==
  ASSUME Inv, NEW s \in Segment
  PROVE  Places(s) = 1
<1>1. PICK p \in Place : s \in At(p) /\ \A q \in Place : q # p => s \notin At(q)
  BY DEF Inv, OnePlace
<1>2. PICK A, B, C, a, b, c :
        /\ A = {t \in Thread : thread_id[s] = t}
        /\ B = {t \in Thread : seg[t] = s /\ pc[t] \in HandLabel}
        /\ C = {t \in Thread : s \in InFlight(t)}
        /\ a = (IF s \in unused THEN 1 ELSE 0)
        /\ b = (IF s \in Stack THEN 1 ELSE 0)
        /\ c = (IF s \in Visited THEN 1 ELSE 0)
  OBVIOUS
<1>3. \A t \in Thread : /\ t \in A <=> p = <<"own", t>>
                        /\ t \in B <=> p = <<"hand", t>>
                        /\ t \in C <=> p = <<"flight", t>>
  <2>1. ASSUME NEW t \in Thread
        PROVE  (t \in A <=> s \in Own(t)) /\ (t \in B <=> s \in Hand(t)) /\ (t \in C <=> s \in InFlight(t))
    BY <1>2 DEF Own, Hand
  <2> QED
    BY <1>1, <2>1, PlaceIs
<1>4. /\ s \in unused <=> p = <<"unused", NULL>>
      /\ s \in Stack <=> p = <<"stack", NULL>>
      /\ s \in Visited <=> p = <<"visited", NULL>>
  BY <1>1, PlaceIs
<1>5. Places(s) = Cardinality(A) + Cardinality(B) + Cardinality(C) + a + b + c
  BY <1>2 DEF Places
<1>6. A \subseteq Thread /\ B \subseteq Thread /\ C \subseteq Thread
  BY <1>2
<1>7. /\ Cardinality({}) = 0 /\ \A t : Cardinality({t}) = 1
  BY FS_EmptySet, FS_Singleton
<1>8. CASE \E t \in Thread : p = <<"own", t>> \/ p = <<"hand", t>> \/ p = <<"flight", t>>
  <2>1. PICK t \in Thread : p = <<"own", t>> \/ p = <<"hand", t>> \/ p = <<"flight", t>>
    BY <1>8
  <2>2. a = 0 /\ b = 0 /\ c = 0
    BY <1>2, <1>4, <2>1
  <2>3. CASE p = <<"own", t>>
    <3>1. A = {t} /\ B = {} /\ C = {}
      BY <1>3, <1>6, <2>3
    <3>2. Cardinality(A) = 1 /\ Cardinality(B) = 0 /\ Cardinality(C) = 0
      BY <1>7, <3>1
    <3> QED
      BY <1>5, <2>2, <3>2
  <2>4. CASE p = <<"hand", t>>
    <3>1. A = {} /\ B = {t} /\ C = {}
      BY <1>3, <1>6, <2>4
    <3>2. Cardinality(A) = 0 /\ Cardinality(B) = 1 /\ Cardinality(C) = 0
      BY <1>7, <3>1
    <3> QED
      BY <1>5, <2>2, <3>2
  <2>5. CASE p = <<"flight", t>>
    <3>1. A = {} /\ B = {} /\ C = {t}
      BY <1>3, <1>6, <2>5
    <3>2. Cardinality(A) = 0 /\ Cardinality(B) = 0 /\ Cardinality(C) = 1
      BY <1>7, <3>1
    <3> QED
      BY <1>5, <2>2, <3>2
  <2> QED
    BY <2>1, <2>3, <2>4, <2>5
<1>9. CASE p = <<"unused", NULL>> \/ p = <<"stack", NULL>> \/ p = <<"visited", NULL>>
  <2>1. A = {} /\ B = {} /\ C = {}
    BY <1>3, <1>6, <1>9
  <2>2. a + b + c = 1 /\ a \in Nat /\ b \in Nat /\ c \in Nat
    BY <1>2, <1>4, <1>9
  <2> QED
    BY <1>5, <1>7, <2>1, <2>2
<1> QED
  BY <1>8, <1>9, PlaceIs

\* No interleaving of pushes, pops and revisits loses a segment, gives it to
\* two threads or ties the lists together.
THEOREM AbandonedListsIntact == Spec => []ListsIntact
<1>1. Inv => ListsIntact
  BY OnePlaceCounted DEF Inv, ListsIntact, ListsEnd
<1> QED
  BY AbandonedInvariant, <1>1, PTL

\* If no segment comes directly from the OS, a pop reads abandoned_next of
\* mapped memory only.
THEOREM PopReadsMapped == Direct = {} /\ Spec => []NoReadOfReset
<1> SUFFICES ASSUME Direct = {}
             PROVE  Spec => []NoReadOfReset
  OBVIOUS
<1>1. Inv => NoReadOfReset
  BY DEF Inv, MemoryKept
<1> QED
  BY AbandonedInvariant, <1>1, PTL

\* The labels that follow a pop's.
LEMMA PopEnds ==
  ASSUME Inv, NEW t \in Thread, NEW u \in Thread, Do(u), pc[t] \in PopLabel, pc'[t] = "idle"
  PROVE  excused[t]
<1>27. Finds(t) /\ t = u
  <2>1. t # u => pc'[t] = pc[t]
    BY OthersKept DEF Inv, Others
  <2> QED
    BY <2>1 DEF Inv, AllFind, PopLabel
<1>0. pc \in [Thread -> Label] /\ Do(t) /\ Finds(t)
  BY <1>27 DEF Inv, TypeOK
<1>1. CASE SegmentInit(t)
  BY <1>1, <1>0 DEF SegmentInit, Finds, PopLabel, Goto, Return, shared, segment, locals
<1>2. CASE OsFree(t)
  BY <1>2, <1>0 DEF OsFree, Finds, PopLabel, Goto, Return, shared, segment, locals
<1>3. CASE AwaitReaders(t)
  BY <1>3, <1>0 DEF AwaitReaders, Finds, PopLabel, Goto, Return, shared, segment, locals
<1>4. CASE Abandon(t)
  BY <1>4, <1>0 DEF Abandon, Finds, PopLabel, Goto, Return, shared, segment, locals
<1>5. CASE PushRead(t)
  BY <1>5, <1>0 DEF PushRead, Finds, PopLabel, Goto, Return, shared, segment, locals
<1>6. CASE PushLink(t)
  BY <1>6, <1>0 DEF PushLink, Finds, PopLabel, Goto, Return, shared, segment, locals
<1>7. CASE PushCas(t)
  BY <1>7, <1>0 DEF PushCas, Finds, PopLabel, Goto, Return, shared, segment, locals
<1>8. CASE Pop(t)
  BY <1>8, <1>0 DEF Pop, Finds, PopLabel, Goto, Return, shared, segment, locals
<1>9. CASE RevisitCheck(t)
  BY <1>9, <1>0 DEF RevisitCheck, Finds, PopLabel, Goto, Return, shared, segment, locals
<1>10. CASE RevisitGrab(t)
  BY <1>10, <1>0 DEF RevisitGrab, Finds, PopLabel, Goto, Return, shared, segment, locals
<1>11. CASE RevisitRead(t)
  BY <1>11, <1>0 DEF RevisitRead, Finds, PopLabel, Goto, Return, shared, segment, locals
<1>12. CASE RevisitSwap(t)
  BY <1>12, <1>0 DEF RevisitSwap, Finds, PopLabel, Goto, Return, shared, segment, locals
<1>13. CASE RevisitAgain(t)
  BY <1>13, <1>0 DEF RevisitAgain, Finds, PopLabel, Goto, Return, shared, segment, locals
<1>14. CASE RevisitLink(t)
  BY <1>14, <1>0 DEF RevisitLink, Finds, PopLabel, Goto, Return, shared, segment, locals
<1>15. CASE RevisitCas(t)
  BY <1>15, <1>0 DEF RevisitCas, Finds, PopLabel, Goto, Return, shared, segment, locals
<1>16. CASE PopInc(t)
  BY <1>16, <1>0 DEF PopInc, Finds, PopLabel, Goto, Return, shared, segment, locals
<1>17. CASE PopRead(t)
  BY <1>17, <1>0 DEF PopRead, Finds, PopLabel, Goto, Return, shared, segment, locals
<1>18. CASE PopNext(t)
  BY <1>18, <1>0 DEF PopNext, Finds, PopLabel, Goto, Return, shared, segment, locals
<1>19. CASE PopCas(t)
  BY <1>19, <1>0 DEF PopCas, Finds, PopLabel, Goto, Return, shared, segment, locals
<1>20. CASE PopDec(t)
  BY <1>20, <1>0 DEF PopDec, Finds, PopLabel, Goto, Return, shared, segment, locals
<1>21. CASE PopClear(t)
  BY <1>21, <1>0 DEF PopClear, Finds, PopLabel, Goto, Return, shared, segment, locals
<1>22. CASE Reclaim(t)
  BY <1>22, <1>0 DEF Reclaim, Finds, PopLabel, Goto, Return, shared, segment, locals
<1>23. CASE PutAside(t)
  BY <1>23, <1>0 DEF PutAside, Finds, PopLabel, Goto, Return, shared, segment, locals
<1>24. CASE VisitedRead(t)
  BY <1>24, <1>0 DEF VisitedRead, Finds, PopLabel, Goto, Return, shared, segment, locals
<1>25. CASE VisitedLink(t)
  BY <1>25, <1>0 DEF VisitedLink, Finds, PopLabel, Goto, Return, shared, segment, locals
<1>26. CASE VisitedCas(t)
  BY <1>26, <1>0 DEF VisitedCas, Finds, PopLabel, Goto, Return, shared, segment, locals
<1> QED
  BY <1>0, <1>1, <1>2, <1>3, <1>4, <1>5, <1>6, <1>7, <1>8, <1>9, <1>10, <1>11, <1>12, <1>13, <1>14,
     <1>15, <1>16, <1>17, <1>18, <1>19, <1>20, <1>21, <1>22, <1>23, <1>24, <1>25, <1>26 DEF Do,
     Call, Continue

\* A pop that returns NULL has an excuse.
THEOREM PopsExcused == Spec => PopNullExcused
<1>1. ASSUME Inv, [Next]_vars
      PROVE  [\A t \in Thread : pc[t] \in PopLabel /\ pc'[t] = "idle" => excused[t]]_vars
  BY <1>1, PopEnds DEF Next, Do
<1> QED
  BY AbandonedInvariant, <1>1, PTL DEF Spec, PopNullExcused

\* The segments on the lists, before and after a step.
LEMMA ListedIs ==
  /\ \A s : s \in Listed <=> \E p \in ListPlace : s \in At(p)
  /\ \A s : s \in Listed' <=> \E p \in ListPlace : s \in At(p)'
<1>1. /\ \A s : s \in Listed <=> s \in Stack \/ s \in Visited \/ \E t \in Thread : s \in InFlight(t)
      /\ \A s : s \in Listed' <=> s \in Stack' \/ s \in Visited' \/ \E t \in Thread : s \in InFlight(t)'
  BY DEF Listed
<1>2. /\ At(<<"stack", NULL>>) = Stack /\ At(<<"visited", NULL>>) = Visited
      /\ At(<<"stack", NULL>>)' = Stack' /\ At(<<"visited", NULL>>)' = Visited'
  BY DEF At
<1>3. \A t \in Thread : At(<<"flight", t>>) = InFlight(t) /\ At(<<"flight", t>>)' = InFlight(t)'
  BY DEF At
<1>4. \A p \in ListPlace : \/ \E t \in Thread : p = <<"flight", t>>
                           \/ p = <<"stack", NULL>> \/ p = <<"visited", NULL>>
  BY DEF ListPlace
<1>5. /\ \A t \in Thread : <<"flight", t>> \in ListPlace
      /\ <<"stack", NULL>> \in ListPlace /\ <<"visited", NULL>> \in ListPlace
  BY DEF ListPlace
<1>6. ASSUME NEW s
      PROVE  /\ s \in Listed <=> \E p \in ListPlace : s \in At(p)
             /\ s \in Listed' <=> \E p \in ListPlace : s \in At(p)'
  <2>1. ASSUME s \in Listed
        PROVE  \E p \in ListPlace : s \in At(p)
    BY <1>1, <1>2, <1>3, <1>5, <2>1
  <2>2. ASSUME NEW p \in ListPlace, s \in At(p)
        PROVE  s \in Listed
    BY <1>1, <1>2, <1>3, <1>4, <2>2
  <2>3. ASSUME s \in Listed'
        PROVE  \E p \in ListPlace : s \in At(p)'
    BY <1>1, <1>2, <1>3, <1>5, <2>3
  <2>4. ASSUME NEW p \in ListPlace, s \in At(p)'
        PROVE  s \in Listed'
    BY <1>1, <1>2, <1>3, <1>4, <2>4
  <2> QED
    BY <2>1, <2>2, <2>3, <2>4
<1> QED
  BY <1>6

\* A step adds or removes one segment, or changes nothing.
LEMMA SetStep ==
  ASSUME Inv, [Next]_vars
  PROVE  [Contents!SNext]_Listed
<1>1. CASE UNCHANGED vars
  <2>1. UNCHANGED Listed
    BY <1>1 DEF vars, shared, segment, locals, Listed, Stack, Visited, InFlight, Cut
  <2> QED
    BY <2>1
<1>2. ASSUME NEW t \in Thread, Do(t)
      PROVE  [Contents!SNext]_Listed
  <2>1. PICK p \in Place, q \in Place, X \in SUBSET Segment : Moves(p, q, X)
    BY <1>2, MoveStep DEF Inv, Core
  <2>2. ListPlace \subseteq Place
    BY DEF ListPlace, Place
  <2>3. \A s : s \in Listed' <=> \E r \in ListPlace : s \in At(r)'
    BY ListedIs
  <2>4. \A r \in ListPlace : At(r)' = IF r = p THEN At(r) \ X ELSE IF r = q THEN At(r) \cup X ELSE At(r)
    BY <2>1, <2>2 DEF Moves, Moved
  <2>5. \A r \in Place : r # p => At(r) \cap X = {}
    BY <2>1 DEF Moves, Inv, OnePlace
  <2>6. \A s : s \in Listed <=> \E r \in ListPlace : s \in At(r)
    BY ListedIs
  <2>7. X \subseteq At(p) /\ p # q
    BY <2>1 DEF Moves
  <2>8. CASE p \in ListPlace /\ q \in ListPlace
    <3>1. \A s : (\E r \in ListPlace : s \in At(r)') <=> (\E r \in ListPlace : s \in At(r))
      BY <2>4, <2>7, <2>8
    <3>2. Listed' = Listed
      BY <2>3, <2>6, <3>1
    <3> QED
      BY <3>2
  <2>9. CASE p \notin ListPlace /\ q \notin ListPlace
    <3>1. \A r \in ListPlace : At(r)' = At(r)
      BY <2>4, <2>9
    <3>2. Listed' = Listed
      BY <2>3, <2>6, <3>1
    <3> QED
      BY <3>2
  <2>10. CASE p \notin ListPlace /\ q \in ListPlace
    <3>1. \A s : (\E r \in ListPlace : s \in At(r)') <=> s \in X \/ (\E r \in ListPlace : s \in At(r))
      BY <2>4, <2>10
    <3>2. Listed' = Listed \cup X
      BY <2>3, <2>6, <3>1
    <3>3. X \cap Listed = {}
      BY <2>2, <2>5, <2>6, <2>10
    <3>4. X = {} \/ \E s \in Segment : X = {s}
      BY <2>1, <2>10 DEF Moves
    <3> QED
      BY <3>2, <3>3, <3>4 DEF Contents!SNext, Contents!Add
  <2>11. CASE p \in ListPlace /\ q \notin ListPlace
    <3>1. \A s : (\E r \in ListPlace : s \in At(r)') <=> s \notin X /\ (\E r \in ListPlace : s \in At(r))
      BY <2>2, <2>4, <2>5, <2>11
    <3>2. Listed' = Listed \ X
      BY <2>3, <2>6, <3>1
    <3>3. X \subseteq Listed
      BY <2>6, <2>7, <2>11
    <3>4. X = {} \/ \E s \in Segment : X = {s}
      BY <2>1, <2>11 DEF Moves
    <3> QED
      BY <3>2, <3>3, <3>4 DEF Contents!SNext, Contents!Remove
  <2> QED
    BY <2>8, <2>9, <2>10, <2>11
<1> QED
  BY <1>1, <1>2 DEF Next, Do

\* The two lists, and the one that is carried between them, are one set.
THEOREM ListsImplementSet == Spec => ImplementsSet
<1>1. Init => Contents!SInit
  <2>1. ASSUME Init
        PROVE  Listed = {}
    <3>1. Stack = {} /\ Visited = {}
      BY <2>1, SegmentAssumption, ReachIs DEF Init, None, Stack, Visited
    <3>2. \A t \in Thread : InFlight(t) = {}
      BY <2>1 DEF Init, InFlight, FlightLabel
    <3> QED
      BY <3>1, <3>2 DEF Listed
  <2> QED
    BY <2>1 DEF Contents!SInit
<1>2. Inv /\ [Next]_vars => [Contents!SNext]_Listed
  BY SetStep
<1> QED
  BY AbandonedInvariant, <1>1, <1>2, PTL DEF Spec, ImplementsSet, Contents!SSpec
===============================================================================
