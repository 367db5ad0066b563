--------------------------- MODULE BlockList_proofs ---------------------------
(***************************************************************************)
(* The invariants of BlockList for every set of threads and blocks, and    *)
(* that its words implement BlockSets.                                     *)
(*                                                                         *)
(* Inv is the inductive invariant: each block is in one place (OnePlace),  *)
(* the lists end (ListsEnd), what a call holds and has read at each label  *)
(* (Locals), which lists the owner has taken (OwnerHolds), DELAYED_FREEING *)
(* is a lock (Lock), and used is the number of blocks that are not on      *)
(* local_free (Counted).  Every step moves blocks from one place to        *)
(* another (Moves): one block, a whole list, or none.  What a word holds   *)
(* when the compare-and-swap succeeds is what was read, so the link that   *)
(* was written before is the list as it is now; nobody else writes that    *)
(* link (LinkKept).                                                        *)
(***************************************************************************)
EXTENDS BlockList, FiniteSetTheorems, TLAPS

USE DEF USE_DELAYED_FREE, DELAYED_FREEING, NO_DELAYED_FREE, NEVER_DELAYED_FREE
(***************************************************************************)
(* Lists: the lemmas of AbandonedList_proofs about chains.                 *)
(***************************************************************************)

\* The first element is on its list, and the list is closed and in the domain.
LEMMA ReachIs ==
  ASSUME NEW l, NEW s
  PROVE  /\ Reach(s, l) \subseteq DOMAIN l /\ Closed(Reach(s, l), l)
         /\ s \in DOMAIN l => s \in Reach(s, l)
         /\ s \notin DOMAIN l => Reach(s, l) = {}
<1>1. ASSUME NEW y \in Reach(s, l), l[y] \in DOMAIN l
      PROVE  l[y] \in Reach(s, l)
  <2>1. ASSUME NEW S \in SUBSET DOMAIN l, s \in S, Closed(S, l)
        PROVE  l[y] \in S
    <3>1. y \in S
      BY <1>1, <2>1 DEF Reach
    <3> QED
      BY <1>1, <2>1, <3>1 DEF Closed
  <2> QED
    BY <1>1, <2>1 DEF Reach
<1> QED
  BY <1>1 DEF Reach, Closed

\* It is the least such set.
LEMMA ReachLeast ==
  ASSUME NEW l, NEW s, NEW S, S \subseteq DOMAIN l, s \in DOMAIN l => s \in S, Closed(S, l)
  PROVE  Reach(s, l) \subseteq S
BY DEF Reach

\* A list is its first element and the list of the rest.
LEMMA ReachStep ==
  ASSUME NEW l, NEW s, s \in DOMAIN l
  PROVE  Reach(s, l) = {s} \cup Reach(l[s], l)
<1>1. Reach(l[s], l) \subseteq Reach(s, l)
  <2>1. Reach(s, l) \subseteq DOMAIN l /\ Closed(Reach(s, l), l) /\ s \in Reach(s, l)
    BY ReachIs
  <2>2. l[s] \in DOMAIN l => l[s] \in Reach(s, l)
    BY <2>1 DEF Closed
  <2> QED
    BY <2>1, <2>2, ReachLeast
<1>2. Reach(s, l) \subseteq {s} \cup Reach(l[s], l)
  <2>1. Reach(l[s], l) \subseteq DOMAIN l /\ Closed(Reach(l[s], l), l)
    BY ReachIs
  <2>2. l[s] \in DOMAIN l => l[s] \in Reach(l[s], l)
    BY ReachIs
  <2>3. Closed({s} \cup Reach(l[s], l), l)
    BY <2>1, <2>2 DEF Closed
  <2>4. {s} \cup Reach(l[s], l) \subseteq DOMAIN l
    BY <2>1
  <2> QED
    BY <2>3, <2>4, ReachLeast
<1>3. s \in Reach(s, l)
  BY ReachIs
<1> QED
  BY <1>1, <1>2, <1>3

\* The list does not change with the links of other elements.
LEMMA ReachSame ==
  ASSUME NEW l, NEW m, NEW s, DOMAIN m = DOMAIN l,
         \A y \in Reach(s, l) : m[y] = l[y]
  PROVE  Reach(s, m) = Reach(s, l) /\ (EndsIn(s, l) => EndsIn(s, m))
<1>1. Reach(s, m) \subseteq Reach(s, l)
  <2>1. Reach(s, l) \subseteq DOMAIN m /\ Closed(Reach(s, l), m) /\ (s \in DOMAIN m => s \in Reach(s, l))
    BY ReachIs DEF Closed
  <2> QED
    BY <2>1, ReachLeast
<1>2. Reach(s, l) \subseteq Reach(s, m)
  <2>1. Reach(s, m) \subseteq DOMAIN l /\ Closed(Reach(s, m), m) /\ (s \in DOMAIN l => s \in Reach(s, m))
    BY ReachIs
  <2>2. Closed(Reach(s, m), l)
    BY <1>1, <2>1 DEF Closed
  <2> QED
    BY <2>1, <2>2, ReachLeast
<1>3. Reach(s, m) = Reach(s, l)
  BY <1>1, <1>2
<1>4. ASSUME EndsIn(s, l)
      PROVE  EndsIn(s, m)
  BY <1>3, <1>4 DEF EndsIn
<1> QED
  BY <1>3, <1>4

\* A list that ends does not come back to its first element.
LEMMA NoCycle ==
  ASSUME NEW l, NEW s, s \in DOMAIN l, EndsIn(s, l)
  PROVE  s \notin Reach(l[s], l) /\ EndsIn(l[s], l)
<1>1. PICK e \in Reach(s, l) : l[e] \notin DOMAIN l
  BY DEF EndsIn
<1>2. PICK C : C = {y \in Reach(s, l) : s \in Reach(y, l)}
  OBVIOUS
<1>3. SUFFICES ASSUME s \in Reach(l[s], l)
               PROVE  FALSE
  <2>1. e = s \/ e \in Reach(l[s], l)
    BY <1>1, ReachStep
  <2>2. CASE e = s
    BY <1>1, <2>2, ReachIs DEF EndsIn
  <2>3. CASE e \in Reach(l[s], l)
    BY <1>1, <2>3 DEF EndsIn
  <2> QED
    BY <2>1, <2>2, <2>3
<1>4. ASSUME NEW y \in C, l[y] \in DOMAIN l
      PROVE  l[y] \in C
  <2>1. l[y] \in Reach(s, l) /\ y \in DOMAIN l
    BY <1>2, <1>4, ReachIs DEF Closed
  <2>2. s = y \/ s \in Reach(l[y], l)
    BY <1>2, <2>1, ReachStep
  <2>3. s \in Reach(l[y], l)
    BY <1>3, <2>2
  <2> QED
    BY <1>2, <2>1, <2>3
<1>5. C \subseteq DOMAIN l /\ s \in C /\ Closed(C, l)
  BY <1>2, <1>4, ReachIs DEF Closed
<1>6. Reach(s, l) \subseteq C
  BY <1>5, ReachLeast
<1>7. s \in Reach(e, l) /\ e \in DOMAIN l
  BY <1>1, <1>2, <1>5, <1>6
<1>8. Reach(l[e], l) = {}
  BY <1>1, ReachIs
<1>9. s = e
  BY <1>7, <1>8, ReachStep
<1> QED
  BY <1>1, <1>3, <1>8, <1>9

\* The end is one element.
LEMMA OneEnd ==
  ASSUME NEW l, NEW s, NEW x \in Reach(s, l), NEW y \in Reach(s, l),
         l[x] \notin DOMAIN l, l[y] \notin DOMAIN l
  PROVE  x = y
<1>1. PICK D : D = {z \in Reach(s, l) : x \in Reach(z, l)}
  OBVIOUS
<1>2. Reach(s, l) \subseteq DOMAIN l /\ Closed(Reach(s, l), l) /\ s \in DOMAIN l /\ s \in Reach(s, l)
  BY ReachIs
<1>3. ASSUME NEW z \in D, l[z] \in DOMAIN l
      PROVE  l[z] \in D
  <2>1. l[z] \in Reach(s, l) /\ z \in DOMAIN l
    BY <1>1, <1>2, <1>3 DEF Closed
  <2>2. x = z \/ x \in Reach(l[z], l)
    BY <1>1, <2>1, ReachStep
  <2> QED
    BY <1>1, <1>3, <2>1, <2>2
<1>4. D \subseteq DOMAIN l /\ s \in D /\ Closed(D, l)
  BY <1>1, <1>2, <1>3 DEF Closed
<1>5. Reach(s, l) \subseteq D
  BY <1>4, ReachLeast
<1>6. x \in Reach(y, l) /\ y \in DOMAIN l
  BY <1>1, <1>2, <1>5
<1>7. Reach(l[y], l) = {}
  BY ReachIs
<1> QED
  BY <1>6, <1>7, ReachStep

\* Linking the end of a list to another list appends that.
LEMMA ReachAppend ==
  ASSUME NEW l, NEW s, NEW x \in Reach(s, l), l[x] \notin DOMAIN l, NEW v, x \notin Reach(v, l), EndsIn(v, l),
         NEW m, DOMAIN m = DOMAIN l, m[x] = v, \A y \in DOMAIN l : y # x => m[y] = l[y]
  PROVE  Reach(s, m) = Reach(s, l) \cup Reach(v, l) /\ EndsIn(s, m)
<1>1. Reach(s, l) \subseteq DOMAIN l /\ Closed(Reach(s, l), l) /\ s \in DOMAIN l /\ s \in Reach(s, l)
  BY ReachIs
<1>2. DOMAIN m = DOMAIN l /\ m[x] = v /\ \A y \in DOMAIN l : y # x => m[y] = l[y]
  OBVIOUS
<1>3. Reach(v, m) = Reach(v, l) /\ EndsIn(v, m)
  <2>1. \A y \in Reach(v, l) : m[y] = l[y]
    <3>1. Reach(v, l) \subseteq DOMAIN l
      BY ReachIs
    <3> QED
      BY <1>2, <3>1
  <2> QED
    BY <1>2, <2>1, ReachSame
<1>4. Reach(v, m) \subseteq DOMAIN l /\ Closed(Reach(v, m), m) /\ (v \in DOMAIN l => v \in Reach(v, m))
  BY <1>2, ReachIs
<1>5. Reach(s, m) \subseteq Reach(s, l) \cup Reach(v, l)
  <2>1. PICK S : S = Reach(s, l) \cup Reach(v, m)
    OBVIOUS
  <2>2. Closed(S, m)
    BY <1>1, <1>2, <1>4, <2>1 DEF Closed
  <2>3. Reach(s, m) \subseteq S
    BY <1>1, <1>2, <1>4, <2>1, <2>2, ReachLeast
  <2> QED
    BY <1>3, <2>1, <2>3
<1>6. Reach(s, m) \subseteq DOMAIN l /\ Closed(Reach(s, m), m) /\ s \in Reach(s, m)
  BY <1>1, <1>2, ReachIs
<1>7. Reach(s, l) \subseteq Reach(s, m)
  <2>1. Closed(Reach(s, m), l)
    BY <1>2, <1>6 DEF Closed
  <2> QED
    BY <1>6, <2>1, ReachLeast
<1>8. Reach(v, l) \subseteq Reach(s, m)
  <2>1. v \in DOMAIN m => v \in Reach(s, m)
    BY <1>2, <1>6, <1>7 DEF Closed
  <2> QED
    BY <1>2, <1>3, <1>6, <2>1, ReachLeast
<1>9. Reach(s, m) = Reach(s, l) \cup Reach(v, l)
  BY <1>5, <1>7, <1>8
<1>10. EndsIn(s, m)
  <2>1. CASE v \in DOMAIN l
    BY <1>2, <1>3, <1>9, <2>1 DEF EndsIn
  <2>2. CASE v \notin DOMAIN l
    <3>1. x \in Reach(s, m) /\ m[x] \notin DOMAIN m
      BY <1>2, <1>9, <2>2
    <3> QED
      BY <3>1 DEF EndsIn
  <2> QED
    BY <2>1, <2>2
<1> QED
  BY <1>9, <1>10

\* An element linked to the first of a list becomes the first.
LEMMA ReachPush ==
  ASSUME NEW l, NEW s, s \in DOMAIN l, s \notin Reach(l[s], l), EndsIn(l[s], l)
  PROVE  Reach(s, l) = {s} \cup Reach(l[s], l) /\ EndsIn(s, l)
<1>1. Reach(s, l) = {s} \cup Reach(l[s], l)
  BY ReachStep
<1>2. EndsIn(s, l)
  BY <1>1 DEF EndsIn
<1> QED
  BY <1>1, <1>2

(***************************************************************************)
(* Where a block is: with the program, in the hands of a thread that frees *)
(* it, or on one of the five lists.                                        *)
(***************************************************************************)
Thr == <<"list", 1>>    \* xthread_free
Del == <<"list", 2>>    \* thread_delayed_free
Loc == <<"list", 3>>    \* local_free
Tak == <<"list", 4>>    \* head
Bat == <<"list", 5>>    \* batch
Live == <<"live", NULL>>
Place == {"hand"} \X Thread \cup {"list"} \X (1 .. 5) \cup {Live}

\* the block of a thread that is on no list
Hand(t) == IF pc[t] \in HandLabel THEN {blk[t]} \cap Block ELSE {}

\* the blocks at a place
At(p) ==
  CASE p[1] = "hand" -> Hand(p[2])
    [] p[1] = "list" -> OnList(Lists[p[2]])
    [] p[1] = "live" -> live

\* every block is at one place
OnePlace ==
  /\ \A b \in Block : \E p \in Place : b \in At(p)
  /\ \A p \in Place, q \in Place : p # q => At(p) \cap At(q) = {}

\* the lists have no cycles
ListsEnd == \A k \in 1 .. 5 : EndsIn(Lists[k], next)

\* What a call holds at its labels.
MtLabel    == {"mt_read", "mt_claim", "mt_link", "mt_push"}
HeapLabel  == {"h_read", "h_link", "h_cas"}
ResetLabel == {"r_read", "r_cas"}
CallLocal(t) ==
  /\ pc[t] \in MtLabel \cup HeapLabel \cup ResetLabel => t # Owner
  /\ pc[t] \notin MtLabel \cup HeapLabel \cup ResetLabel \cup {"idle"} => t = Owner
  /\ pc[t] \in MtLabel \cup HeapLabel \cup {"d_free"} => blk[t] \in Block
  /\ pc[t] \in ResetLabel \cup {"idle", "d_read", "d_cas", "d_next"} => blk[t] = NULL

\* What it has read or linked, which the compare-and-swap relies on.
ReadLocal(t) ==
  /\ pc[t] = "mt_claim" => tfree[t].delayed = USE_DELAYED_FREE
  /\ pc[t] \in {"mt_link", "mt_push"} => tfree[t].delayed # USE_DELAYED_FREE
  /\ pc[t] = "mt_push" => next[blk[t]] = tfree[t].block
  /\ pc[t] = "h_cas" => next[blk[t]] = dfree[t]
  /\ pc[t] = "c_cas" => tfree[t].block # NULL
  /\ pc[t] = "s_cas" => tfree[t].delayed # DELAYED_FREEING
Locals == \A t \in Thread : CallLocal(t) /\ ReadLocal(t)

\* When the owner has taken a list.
OwnerHolds ==
  /\ head # NULL <=> pc[Owner] = "c_append"
  /\ batch # NULL => pc[Owner] = "d_next" \/ blk[Owner] # NULL

\* DELAYED_FREEING is a lock.
FreeingLabel == HeapLabel \cup ResetLabel
Lock ==
  \A t \in Thread : pc[t] \in FreeingLabel =>
    /\ xthread_free.delayed = DELAYED_FREEING
    /\ \A u \in Thread : pc[u] \in FreeingLabel => u = t

\* used counts the blocks that are not on local_free.
Counted == used = Cardinality(Block) - Cardinality(OnList(local_free))

\* The inductive invariant.
Inv == TypeOK /\ OnePlace /\ ListsEnd /\ Locals /\ OwnerHolds /\ Lock /\ Counted

(***************************************************************************)
(* Steps.                                                                  *)
(***************************************************************************)

\* A step of t.
Do(t) == Remote(t) \/ (t = Owner /\ Own)

\* The words as records.
LEMMA WordIs ==
  ASSUME TypeOK, NEW t \in Thread
  PROVE  /\ xthread_free = [block |-> xthread_free.block, delayed |-> xthread_free.delayed]
         /\ xthread_free.block \in Link /\ xthread_free.delayed \in Flag
         /\ tfree[t] = [block |-> tfree[t].block, delayed |-> tfree[t].delayed]
         /\ tfree[t].block \in Link /\ tfree[t].delayed \in Flag
BY DEF TypeOK, Word

\* The other threads stay where they are.
Others(t) ==
  \A u \in Thread : u # t =>
      pc'[u] = pc[u] /\ blk'[u] = blk[u] /\ tfree'[u] = tfree[u] /\ dfree'[u] = dfree[u]

\* A step is one of t only.
LEMMA OthersKept ==
  ASSUME TypeOK, NEW t \in Thread, Do(t)
  PROVE  Others(t)
<1>0. /\ pc \in [Thread -> Label] /\ blk \in [Thread -> Link] /\ tfree \in [Thread -> Word]
      /\ dfree \in [Thread -> Link]
  BY DEF TypeOK
<1> USE DEF Others
<1>1. CASE FreeRemote(t)
  BY <1>1, <1>0 DEF FreeRemote, Goto, Forget, words, owned, args, locals
<1>2. CASE MtRead(t)
  BY <1>2, <1>0 DEF MtRead, Goto, Forget, words, owned, args, locals
<1>3. CASE MtClaim(t)
  BY <1>3, <1>0 DEF MtClaim, Goto, Forget, words, owned, args, locals
<1>4. CASE MtLink(t)
  BY <1>4, <1>0 DEF MtLink, Goto, Forget, words, owned, args, locals
<1>5. CASE MtPush(t)
  BY <1>5, <1>0 DEF MtPush, Goto, Forget, words, owned, args, locals
<1>6. CASE HeapRead(t)
  BY <1>6, <1>0 DEF HeapRead, Goto, Forget, words, owned, args, locals
<1>7. CASE HeapLink(t)
  BY <1>7, <1>0 DEF HeapLink, Goto, Forget, words, owned, args, locals
<1>8. CASE HeapCas(t)
  BY <1>8, <1>0 DEF HeapCas, Goto, Forget, words, owned, args, locals
<1>9. CASE ResetRead(t)
  BY <1>9, <1>0 DEF ResetRead, Goto, Forget, words, owned, args, locals
<1>10. CASE ResetCas(t)
  BY <1>10, <1>0 DEF ResetCas, Goto, Forget, words, owned, args, locals
<1>11. CASE t = Owner /\ Malloc
  BY <1>11, <1>0 DEF Malloc, OwnerIdle, Goto, Forget, words, owned, args, locals
<1>12. CASE t = Owner /\ FreeLocal
  BY <1>12, <1>0 DEF FreeLocal, PushLocal, OwnerIdle, Goto, Forget, words, owned, args, locals
<1>13. CASE t = Owner /\ UseDelayed
  BY <1>13, <1>0 DEF UseDelayed, OwnerIdle, Goto, Forget, words, owned, args, locals
<1>14. CASE t = Owner /\ SetRead
  BY <1>14, <1>0 DEF SetRead, AfterSet, OwnerIdle, Goto, Forget, words, owned, args, locals
<1>15. CASE t = Owner /\ SetCas
  BY <1>15, <1>0 DEF SetCas, AfterSet, OwnerIdle, Goto, Forget, words, owned, args, locals
<1>16. CASE t = Owner /\ Collect
  BY <1>16, <1>0 DEF Collect, OwnerIdle, Goto, Forget, words, owned, args, locals
<1>17. CASE t = Owner /\ CollectRead
  BY <1>17, <1>0 DEF CollectRead, AfterCollect, OwnerIdle, Goto, Forget, words, owned, args, locals
<1>18. CASE t = Owner /\ CollectCas
  BY <1>18, <1>0 DEF CollectCas, OwnerIdle, Goto, Forget, words, owned, args, locals
<1>19. CASE t = Owner /\ CollectAppend
  BY <1>19, <1>0 DEF CollectAppend, AfterCollect, OwnerIdle, Goto, Forget, words, owned, args,
     locals
<1>20. CASE t = Owner /\ TakeRead
  BY <1>20, <1>0 DEF TakeRead, OwnerIdle, Goto, Forget, words, owned, args, locals
<1>21. CASE t = Owner /\ TakeAgain
  BY <1>21, <1>0 DEF TakeAgain, OwnerIdle, Goto, Forget, words, owned, args, locals
<1>22. CASE t = Owner /\ TakeCas
  BY <1>22, <1>0 DEF TakeCas, OwnerIdle, Goto, Forget, words, owned, args, locals
<1>23. CASE t = Owner /\ DelayedNext
  BY <1>23, <1>0 DEF DelayedNext, OwnerIdle, Goto, Forget, words, owned, args, locals
<1>24. CASE t = Owner /\ DelayedFree
  BY <1>24, <1>0 DEF DelayedFree, PushLocal, OwnerIdle, Goto, Forget, words, owned, args, locals
<1> QED
  BY <1>1, <1>2, <1>3, <1>4, <1>5, <1>6, <1>7, <1>8, <1>9, <1>10, <1>11, <1>12, <1>13, <1>14, <1>15,
     <1>16, <1>17, <1>18, <1>19, <1>20, <1>21, <1>22, <1>23, <1>24 DEF Do, Remote, Own

\* The words, the links and the lists of the owner after a step.
WordTypes ==
  /\ xthread_free \in Word
  /\ thread_delayed_free \in Link
  /\ next \in [Block -> Link]
  /\ local_free \in Link
  /\ head \in Link /\ batch \in Link

\* They keep their types.
LEMMA WordStep ==
  ASSUME TypeOK, Locals, NEW t \in Thread, Do(t)
  PROVE  WordTypes'
<1> USE DEF WordTypes
<1>0. /\ xthread_free \in Word /\ thread_delayed_free \in Link /\ next \in [Block -> Link]
      /\ local_free \in Link /\ head \in Link /\ batch \in Link /\ live \subseteq Block
      /\ blk \in [Thread -> Link] /\ tfree \in [Thread -> Word] /\ dfree \in [Thread -> Link]
      /\ tfree[t].block \in Link /\ tfree[t].delayed \in Flag /\ delay \in Flag /\ NULL \in Link
      /\ blk[t] \in Link /\ dfree[t] \in Link /\ tfree[t] \in Word
  BY WordIs DEF TypeOK, Flag, Link
<1>100. /\ Zero \in Word
        /\ \A w \in Word, l \in Link, f \in Flag :
             /\ [w EXCEPT !.block = l] \in Word
             /\ [w EXCEPT !.delayed = f] \in Word
  BY DEF Zero, Word, Link, Flag
<1>1. CASE FreeRemote(t)
  BY <1>1, <1>0, <1>100 DEF FreeRemote, Goto, Forget, words, owned, args, locals
<1>2. CASE MtRead(t)
  BY <1>2, <1>0, <1>100 DEF MtRead, Goto, Forget, words, owned, args, locals
<1>3. CASE MtClaim(t)
  BY <1>3, <1>0, <1>100 DEF MtClaim, Goto, Forget, words, owned, args, locals, Flag
<1>4. CASE MtLink(t)
  BY <1>4, <1>0, <1>100 DEF MtLink, Goto, Forget, words, owned, args, locals
<1>5. CASE MtPush(t)
  BY <1>5, <1>0, <1>100 DEF MtPush, Goto, Forget, words, owned, args, locals
<1>6. CASE HeapRead(t)
  BY <1>6, <1>0, <1>100 DEF HeapRead, Goto, Forget, words, owned, args, locals
<1>7. CASE HeapLink(t)
  BY <1>7, <1>0, <1>100 DEF HeapLink, Goto, Forget, words, owned, args, locals
<1>8. CASE HeapCas(t)
  BY <1>8, <1>0, <1>100 DEF HeapCas, Goto, Forget, words, owned, args, locals
<1>9. CASE ResetRead(t)
  BY <1>9, <1>0, <1>100 DEF ResetRead, Goto, Forget, words, owned, args, locals
<1>10. CASE ResetCas(t)
  BY <1>10, <1>0, <1>100 DEF ResetCas, Goto, Forget, words, owned, args, locals, Flag
<1>11. CASE t = Owner /\ Malloc
  BY <1>11, <1>0, <1>100 DEF Malloc, OwnerIdle, Goto, Forget, words, owned, args, locals, Link
<1>12. CASE t = Owner /\ FreeLocal
  BY <1>12, <1>0, <1>100 DEF FreeLocal, PushLocal, OwnerIdle, Goto, Forget, words, owned, args,
     locals, Link
<1>13. CASE t = Owner /\ UseDelayed
  BY <1>13, <1>0, <1>100 DEF UseDelayed, OwnerIdle, Goto, Forget, words, owned, args, locals
<1>14. CASE t = Owner /\ SetRead
  BY <1>14, <1>0, <1>100 DEF SetRead, AfterSet, OwnerIdle, Goto, Forget, words, owned, args, locals
<1>15. CASE t = Owner /\ SetCas
  BY <1>15, <1>0, <1>100 DEF SetCas, AfterSet, OwnerIdle, Goto, Forget, words, owned, args, locals,
     Flag
<1>16. CASE t = Owner /\ Collect
  BY <1>16, <1>0, <1>100 DEF Collect, OwnerIdle, Goto, Forget, words, owned, args, locals
<1>17. CASE t = Owner /\ CollectRead
  BY <1>17, <1>0, <1>100 DEF CollectRead, AfterCollect, OwnerIdle, Goto, Forget, words, owned, args,
     locals
<1>18. CASE t = Owner /\ CollectCas
  BY <1>18, <1>0, <1>100 DEF CollectCas, OwnerIdle, Goto, Forget, words, owned, args, locals
<1>19. CASE t = Owner /\ CollectAppend
  BY <1>19, <1>0, <1>100 DEF CollectAppend, AfterCollect, OwnerIdle, Goto, Forget, words, owned,
     args, locals
<1>20. CASE t = Owner /\ TakeRead
  BY <1>20, <1>0, <1>100 DEF TakeRead, OwnerIdle, Goto, Forget, words, owned, args, locals
<1>21. CASE t = Owner /\ TakeAgain
  BY <1>21, <1>0, <1>100 DEF TakeAgain, OwnerIdle, Goto, Forget, words, owned, args, locals
<1>22. CASE t = Owner /\ TakeCas
  BY <1>22, <1>0, <1>100 DEF TakeCas, OwnerIdle, Goto, Forget, words, owned, args, locals, Link
<1>23. CASE t = Owner /\ DelayedNext
  BY <1>23, <1>0, <1>100 DEF DelayedNext, OwnerIdle, Goto, Forget, words, owned, args, locals, Link
<1>24. CASE t = Owner /\ DelayedFree
  BY <1>24, <1>0, <1>100 DEF DelayedFree, PushLocal, OwnerIdle, Goto, Forget, words, owned, args,
     locals
<1> QED
  BY <1>1, <1>2, <1>3, <1>4, <1>5, <1>6, <1>7, <1>8, <1>9, <1>10, <1>11, <1>12, <1>13, <1>14, <1>15,
     <1>16, <1>17, <1>18, <1>19, <1>20, <1>21, <1>22, <1>23, <1>24 DEF Do, Remote, Own

\* The label and the locals after a step.
CallTypes ==
  /\ live \subseteq Block
  /\ pc \in [Thread -> Label]
  /\ blk \in [Thread -> Link]
  /\ tfree \in [Thread -> Word]
  /\ dfree \in [Thread -> Link]
  /\ delay \in {USE_DELAYED_FREE, NEVER_DELAYED_FREE}
  /\ override_never \in BOOLEAN

\* They keep their types.
LEMMA CallStep ==
  ASSUME TypeOK, Locals, NEW t \in Thread, Do(t)
  PROVE  CallTypes'
<1> USE DEF CallTypes
<1>0. /\ live \subseteq Block /\ pc \in [Thread -> Label] /\ blk \in [Thread -> Link]
      /\ tfree \in [Thread -> Word] /\ dfree \in [Thread -> Link]
      /\ delay \in {USE_DELAYED_FREE, NEVER_DELAYED_FREE} /\ override_never \in BOOLEAN
      /\ xthread_free \in Word /\ thread_delayed_free \in Link /\ batch \in Link /\ local_free \in Link
      /\ NULL \in Link /\ Owner \in Thread
  BY OwnerAssumption DEF TypeOK, Link
<1>100. Zero \in Word
  BY DEF Zero, Word, Link, Flag
<1>1. CASE FreeRemote(t)
  BY <1>1, <1>0, <1>100 DEF FreeRemote, Goto, Forget, words, owned, args, locals, Label, Link
<1>2. CASE MtRead(t)
  BY <1>2, <1>0, <1>100 DEF MtRead, Goto, Forget, words, owned, args, locals, Label
<1>3. CASE MtClaim(t)
  BY <1>3, <1>0, <1>100 DEF MtClaim, Goto, Forget, words, owned, args, locals, Label
<1>4. CASE MtLink(t)
  BY <1>4, <1>0, <1>100 DEF MtLink, Goto, Forget, words, owned, args, locals, Label
<1>5. CASE MtPush(t)
  BY <1>5, <1>0, <1>100 DEF MtPush, Goto, Forget, words, owned, args, locals, Label
<1>6. CASE HeapRead(t)
  BY <1>6, <1>0, <1>100 DEF HeapRead, Goto, Forget, words, owned, args, locals, Label
<1>7. CASE HeapLink(t)
  BY <1>7, <1>0, <1>100 DEF HeapLink, Goto, Forget, words, owned, args, locals, Label
<1>8. CASE HeapCas(t)
  BY <1>8, <1>0, <1>100 DEF HeapCas, Goto, Forget, words, owned, args, locals, Label
<1>9. CASE ResetRead(t)
  BY <1>9, <1>0, <1>100 DEF ResetRead, Goto, Forget, words, owned, args, locals, Label
<1>10. CASE ResetCas(t)
  BY <1>10, <1>0, <1>100 DEF ResetCas, Goto, Forget, words, owned, args, locals, Label
<1>11. CASE t = Owner /\ Malloc
  BY <1>11, <1>0, <1>100 DEF Malloc, OwnerIdle, Goto, Forget, words, owned, args, locals, Label,
     Link
<1>12. CASE t = Owner /\ FreeLocal
  BY <1>12, <1>0, <1>100 DEF FreeLocal, PushLocal, OwnerIdle, Goto, Forget, words, owned, args,
     locals, Label, Link
<1>13. CASE t = Owner /\ UseDelayed
  BY <1>13, <1>0, <1>100 DEF UseDelayed, OwnerIdle, Goto, Forget, words, owned, args, locals, Label
<1>14. CASE t = Owner /\ SetRead
  BY <1>14, <1>0, <1>100 DEF SetRead, AfterSet, OwnerIdle, Goto, Forget, words, owned, args, locals,
     Label
<1>15. CASE t = Owner /\ SetCas
  BY <1>15, <1>0, <1>100 DEF SetCas, AfterSet, OwnerIdle, Goto, Forget, words, owned, args, locals,
     Label
<1>16. CASE t = Owner /\ Collect
  BY <1>16, <1>0, <1>100 DEF Collect, OwnerIdle, Goto, Forget, words, owned, args, locals, Label
<1>17. CASE t = Owner /\ CollectRead
  BY <1>17, <1>0, <1>100 DEF CollectRead, AfterCollect, OwnerIdle, Goto, Forget, words, owned, args,
     locals, Label
<1>18. CASE t = Owner /\ CollectCas
  BY <1>18, <1>0, <1>100 DEF CollectCas, OwnerIdle, Goto, Forget, words, owned, args, locals, Label
<1>19. CASE t = Owner /\ CollectAppend
  BY <1>19, <1>0, <1>100 DEF CollectAppend, AfterCollect, OwnerIdle, Goto, Forget, words, owned,
     args, locals, Label
<1>20. CASE t = Owner /\ TakeRead
  BY <1>20, <1>0, <1>100 DEF TakeRead, OwnerIdle, Goto, Forget, words, owned, args, locals, Label
<1>21. CASE t = Owner /\ TakeAgain
  BY <1>21, <1>0, <1>100 DEF TakeAgain, OwnerIdle, Goto, Forget, words, owned, args, locals, Label
<1>22. CASE t = Owner /\ TakeCas
  BY <1>22, <1>0, <1>100 DEF TakeCas, OwnerIdle, Goto, Forget, words, owned, args, locals, Label
<1>23. CASE t = Owner /\ DelayedNext
  BY <1>23, <1>0, <1>100 DEF DelayedNext, OwnerIdle, Goto, Forget, words, owned, args, locals, Label
<1>24. CASE t = Owner /\ DelayedFree
  BY <1>24, <1>0, <1>100 DEF DelayedFree, PushLocal, OwnerIdle, Goto, Forget, words, owned, args,
     locals, Label
<1> QED
  BY <1>1, <1>2, <1>3, <1>4, <1>5, <1>6, <1>7, <1>8, <1>9, <1>10, <1>11, <1>12, <1>13, <1>14, <1>15,
     <1>16, <1>17, <1>18, <1>19, <1>20, <1>21, <1>22, <1>23, <1>24 DEF Do, Remote, Own

(***************************************************************************)
(* Places.                                                                 *)
(***************************************************************************)

\* The lists, by number.
LEMMA ListsAre ==
  /\ DOMAIN Lists = 1 .. 5
  /\ Lists[1] = xthread_free.block /\ Lists[2] = thread_delayed_free /\ Lists[3] = local_free
  /\ Lists[4] = head /\ Lists[5] = batch
  /\ Lists[1]' = xthread_free'.block /\ Lists[2]' = thread_delayed_free' /\ Lists[3]' = local_free'
  /\ Lists[4]' = head' /\ Lists[5]' = batch'
  /\ \A k \in 1 .. 5 : k = 1 \/ k = 2 \/ k = 3 \/ k = 4 \/ k = 5
BY DEF Lists

\* The places, by name.
LEMMA PlaceIs ==
  /\ \A t \in Thread : <<"hand", t>> \in Place /\ At(<<"hand", t>>) = Hand(t)
  /\ \A k \in 1 .. 5 : <<"list", k>> \in Place /\ At(<<"list", k>>) = OnList(Lists[k])
  /\ Live \in Place /\ At(Live) = live
  /\ \A p \in Place : \/ \E t \in Thread : p = <<"hand", t>>
                      \/ \E k \in 1 .. 5 : p = <<"list", k>>
                      \/ p = Live
<1>1. \A t \in Thread : <<"hand", t>> \in Place /\ At(<<"hand", t>>) = Hand(t)
  BY DEF Place, At
<1>2. \A k \in 1 .. 5 : <<"list", k>> \in Place /\ At(<<"list", k>>) = OnList(Lists[k])
  BY DEF Place, At
<1>3. Live \in Place /\ At(Live) = live
  BY DEF Place, At, Live
<1>4. \A p \in Place : \/ \E t \in Thread : p = <<"hand", t>>
                       \/ \E k \in 1 .. 5 : p = <<"list", k>>
                       \/ p = Live
  BY DEF Place
<1> QED
  BY <1>1, <1>2, <1>3, <1>4

\* The five lists by name.
LEMMA NamesAre ==
  /\ Thr \in Place /\ Del \in Place /\ Loc \in Place /\ Tak \in Place /\ Bat \in Place
  /\ At(Thr) = OnList(xthread_free.block) /\ At(Del) = OnList(thread_delayed_free)
  /\ At(Loc) = OnList(local_free) /\ At(Tak) = OnList(head) /\ At(Bat) = OnList(batch)
  /\ Thr # Del /\ Thr # Loc /\ Thr # Tak /\ Thr # Bat /\ Del # Loc /\ Del # Tak /\ Del # Bat
  /\ Loc # Tak /\ Loc # Bat /\ Tak # Bat
  /\ Live # Thr /\ Live # Del /\ Live # Loc /\ Live # Tak /\ Live # Bat
  /\ \A t : LET h == <<"hand", t>> IN h # Thr /\ h # Del /\ h # Loc /\ h # Tak /\ h # Bat /\ h # Live
  /\ \A t, u : <<"hand", t>> = <<"hand", u>> => t = u
  /\ \A k \in 1 .. 5, j \in 1 .. 5 : <<"list", k>> = <<"list", j>> => k = j
<1>1. /\ Thr \in Place /\ Del \in Place /\ Loc \in Place /\ Tak \in Place /\ Bat \in Place
      /\ At(Thr) = OnList(xthread_free.block) /\ At(Del) = OnList(thread_delayed_free)
      /\ At(Loc) = OnList(local_free) /\ At(Tak) = OnList(head) /\ At(Bat) = OnList(batch)
  BY PlaceIs, ListsAre DEF Thr, Del, Loc, Tak, Bat
<1>2. /\ Thr # Del /\ Thr # Loc /\ Thr # Tak /\ Thr # Bat /\ Del # Loc /\ Del # Tak /\ Del # Bat
      /\ Loc # Tak /\ Loc # Bat /\ Tak # Bat
      /\ Live # Thr /\ Live # Del /\ Live # Loc /\ Live # Tak /\ Live # Bat
  BY DEF Thr, Del, Loc, Tak, Bat, Live
<1>3. \A t : LET h == <<"hand", t>> IN h # Thr /\ h # Del /\ h # Loc /\ h # Tak /\ h # Bat /\ h # Live
  BY DEF Thr, Del, Loc, Tak, Bat, Live
<1>4. /\ \A t, u : <<"hand", t>> = <<"hand", u>> => t = u
      /\ \A k \in 1 .. 5, j \in 1 .. 5 : <<"list", k>> = <<"list", j>> => k = j
  OBVIOUS
<1> QED
  BY <1>1, <1>2, <1>3, <1>4

\* A block of one place is at no other.
LEMMA Apart ==
  ASSUME OnePlace
  PROVE  /\ \A t \in Thread, u \in Thread : t # u => Hand(t) \cap Hand(u) = {}
         /\ \A t \in Thread : Hand(t) \cap live = {} /\ \A k \in 1 .. 5 : Hand(t) \cap OnList(Lists[k]) = {}
         /\ \A k \in 1 .. 5 : live \cap OnList(Lists[k]) = {}
         /\ \A k \in 1 .. 5, j \in 1 .. 5 : k # j => OnList(Lists[k]) \cap OnList(Lists[j]) = {}
<1>1. \A p \in Place, q \in Place : p # q => At(p) \cap At(q) = {}
  BY DEF OnePlace
<1>2. ASSUME NEW t \in Thread, NEW u \in Thread, t # u
      PROVE  Hand(t) \cap Hand(u) = {}
  <2>1. <<"hand", t>> # <<"hand", u>>
    BY <1>2
  <2> QED
    BY <1>1, <2>1, PlaceIs
<1>3. ASSUME NEW t \in Thread, NEW k \in 1 .. 5
      PROVE  Hand(t) \cap live = {} /\ Hand(t) \cap OnList(Lists[k]) = {} /\ live \cap OnList(Lists[k]) = {}
  <2>1. <<"hand", t>> # Live /\ <<"hand", t>> # <<"list", k>> /\ Live # <<"list", k>>
    BY DEF Live
  <2> QED
    BY <1>1, <2>1, PlaceIs
<1>4. ASSUME NEW k \in 1 .. 5, NEW j \in 1 .. 5, k # j
      PROVE  OnList(Lists[k]) \cap OnList(Lists[j]) = {}
  <2>1. <<"list", k>> # <<"list", j>>
    BY <1>4
  <2> QED
    BY <1>1, <2>1, PlaceIs
<1> QED
  BY <1>2, <1>3, <1>4, OwnerAssumption

\* The blocks X leave place p for q, and no other block moves.
Moved(p, q, X) ==
  \A r \in Place : At(r)' = IF r = p THEN At(r) \ X ELSE IF r = q THEN At(r) \cup X ELSE At(r)

\* Such a step leaves every block in one place.
LEMMA MovedApart ==
  ASSUME OnePlace, NEW p \in Place, NEW q \in Place, p # q, NEW X, X \subseteq At(p), Moved(p, q, X)
  PROVE  OnePlace'
<1>1. ASSUME NEW b \in Block
      PROVE  \E r \in Place : b \in At(r)'
  <2>1. PICK r \in Place : b \in At(r)
    BY DEF OnePlace
  <2>2. b \in At(r)' \/ b \in At(q)'
    BY <2>1 DEF Moved
  <2> QED
    BY <2>2
<1>2. ASSUME NEW r \in Place, NEW o \in Place, r # o, NEW b, b \in At(r)', b \in At(o)'
      PROVE  FALSE
  <2>1. \A x \in Place : b \in At(x)' => b \in At(x) \/ (x = q /\ b \in X)
    BY DEF Moved
  <2>2. \A x \in Place, y \in Place : b \in At(x) /\ b \in At(y) => x = y
    BY DEF OnePlace
  <2>3. b \in X => b \notin At(p)'
    BY DEF Moved
  <2>4. b \in X => b \in At(p)
    OBVIOUS
  <2> QED
    BY <1>2, <2>1, <2>2, <2>3, <2>4
<1>3. \A r \in Place, o \in Place : r # o => At(r)' \cap At(o)' = {}
  BY <1>2
<1> QED
  BY <1>1, <1>3 DEF OnePlace, Place

\* The blocks at each place after a step, from those at one.
Changed(p, q, X, r, S) == IF r = p THEN S \ X ELSE IF r = q THEN S \cup X ELSE S

\* The places one by one.
LEMMA MovedIs ==
  ASSUME NEW p, NEW q, NEW X,
         \A u \in Thread : Hand(u)' = Changed(p, q, X, <<"hand", u>>, Hand(u)),
         \A k \in 1 .. 5 : OnList(Lists[k])' = Changed(p, q, X, <<"list", k>>, OnList(Lists[k])),
         live' = Changed(p, q, X, Live, live)
  PROVE  Moved(p, q, X)
<1>1. ASSUME NEW r \in Place
      PROVE  At(r)' = Changed(p, q, X, r, At(r))
  <2>1. CASE \E t \in Thread : r = <<"hand", t>>
    <3>1. PICK t \in Thread : r = <<"hand", t>>
      BY <2>1
    <3>2. At(<<"hand", t>>)' = Hand(t)' /\ At(<<"hand", t>>) = Hand(t)
      BY DEF At
    <3> QED
      BY <3>1, <3>2
  <2>2. CASE \E k \in 1 .. 5 : r = <<"list", k>>
    <3>1. PICK k \in 1 .. 5 : r = <<"list", k>>
      BY <2>2
    <3>2. At(<<"list", k>>)' = OnList(Lists[k])' /\ At(<<"list", k>>) = OnList(Lists[k])
      BY DEF At
    <3> QED
      BY <3>1, <3>2
  <2>3. CASE r = Live
    <3>1. At(Live)' = live' /\ At(Live) = live
      BY DEF At, Live
    <3> QED
      BY <2>3, <3>1
  <2> QED
    BY <2>1, <2>2, <2>3, PlaceIs
<1> QED
  BY <1>1 DEF Moved, Changed

(***************************************************************************)
(* The links and the lists in a step.                                      *)
(***************************************************************************)

\* A list of which neither the first block nor a link changed.
LEMMA ListKept ==
  ASSUME TypeOK, WordTypes', NEW k \in 1 .. 5, NEW s, Lists[k] = s, Lists[k]' = s,
         \A y \in OnList(s) : next'[y] = next[y]
  PROVE  OnList(Lists[k])' = OnList(Lists[k]) /\ (EndsIn(Lists[k], next) => EndsIn(Lists[k], next)')
<1>1. DOMAIN next' = DOMAIN next
  BY DEF TypeOK, WordTypes
<1>2. \A y \in Reach(s, next) : next'[y] = next[y]
  BY DEF OnList
<1>3. Reach(s, next') = Reach(s, next) /\ (EndsIn(s, next) => EndsIn(s, next'))
  BY <1>1, <1>2, ReachSame
<1>4. /\ OnList(Lists[k])' = Reach(s, next') /\ OnList(Lists[k]) = Reach(s, next)
      /\ EndsIn(Lists[k], next)' = EndsIn(s, next')
  BY DEF OnList
<1> QED
  BY <1>3, <1>4

\* A block that is linked to the first block of a list becomes its first.
LEMMA ListPushed ==
  ASSUME TypeOK, WordTypes', NEW k \in 1 .. 5, NEW s, Lists[k] = s, NEW b \in Block, Lists[k]' = b,
         next'[b] = s, b \notin OnList(s), EndsIn(s, next), \A y \in OnList(s) : next'[y] = next[y]
  PROVE  OnList(Lists[k])' = OnList(Lists[k]) \cup {b} /\ EndsIn(Lists[k], next)'
<1>1. DOMAIN next' = Block /\ DOMAIN next = Block
  BY DEF TypeOK, WordTypes
<1>2. \A y \in Reach(s, next) : next'[y] = next[y]
  BY DEF OnList
<1>3. Reach(s, next') = Reach(s, next) /\ EndsIn(s, next')
  BY <1>1, <1>2, ReachSame
<1>4. Reach(b, next') = {b} \cup Reach(next'[b], next') /\ EndsIn(b, next')
  <2>1. b \notin Reach(next'[b], next') /\ EndsIn(next'[b], next')
    BY <1>3 DEF OnList
  <2> QED
    BY <1>1, <2>1, ReachPush
<1>5. /\ OnList(Lists[k])' = Reach(b, next') /\ OnList(Lists[k]) = Reach(s, next)
      /\ EndsIn(Lists[k], next)' = EndsIn(b, next')
  BY DEF OnList
<1> QED
  BY <1>3, <1>4, <1>5

\* The first block of a list is taken off.
LEMMA ListPopped ==
  ASSUME TypeOK, WordTypes', NEW k \in 1 .. 5, NEW b \in Block, Lists[k] = b, Lists[k]' = next[b],
         EndsIn(b, next), next' = next
  PROVE  OnList(Lists[k])' = OnList(Lists[k]) \ {b} /\ EndsIn(Lists[k], next)' /\ b \in OnList(Lists[k])
<1>1. DOMAIN next = Block
  BY DEF TypeOK
<1>2. Reach(b, next) = {b} \cup Reach(next[b], next)
  BY <1>1, ReachStep
<1>3. b \notin Reach(next[b], next) /\ EndsIn(next[b], next)
  BY <1>1, NoCycle
<1>4. /\ OnList(Lists[k])' = Reach(next[b], next) /\ OnList(Lists[k]) = Reach(b, next)
      /\ EndsIn(Lists[k], next)' = EndsIn(next[b], next)
  BY DEF OnList
<1> QED
  BY <1>2, <1>3, <1>4

\* The list that starts with NULL is empty and ends.
LEMMA ListEmpty ==
  /\ TypeOK => OnList(NULL) = {} /\ EndsIn(NULL, next)
  /\ WordTypes' => OnList(NULL)' = {} /\ EndsIn(NULL, next)'
<1>1. ASSUME TypeOK
      PROVE  OnList(NULL) = {} /\ EndsIn(NULL, next)
  BY <1>1, BlockAssumption, ReachIs DEF TypeOK, OnList, EndsIn
<1>2. ASSUME WordTypes'
      PROVE  OnList(NULL)' = {} /\ EndsIn(NULL, next)'
  <2>1. NULL \notin DOMAIN next'
    BY <1>2, BlockAssumption DEF WordTypes
  <2>2. Reach(NULL, next') = {} /\ EndsIn(NULL, next')
    BY <2>1, ReachIs DEF EndsIn
  <2> QED
    BY <2>2 DEF OnList
<1> QED
  BY <1>1, <1>2

\* A list is a set of blocks, and only that of NULL is empty.
LEMMA ListIs ==
  ASSUME TypeOK, NEW s \in Link
  PROVE  OnList(s) \subseteq Block /\ (s # NULL => s \in OnList(s)) /\ (s = NULL => OnList(s) = {})
BY ReachIs, ListEmpty DEF TypeOK, OnList, Link

\* The walk of the collect ends at one block, the last.
LEMMA TailIs ==
  ASSUME TypeOK, ListsEnd, head # NULL,
         NEW x, x = CHOOSE y \in OnList(head) : next[y] = NULL
  PROVE  x \in OnList(head) /\ x \in Block /\ next[x] = NULL
<1>1. EndsIn(head, next) /\ head \in Block /\ DOMAIN next = Block
  BY ListsAre DEF ListsEnd, TypeOK, Link
<1>2. PICK y \in OnList(head) : next[y] \notin DOMAIN next
  BY <1>1 DEF EndsIn, OnList
<1>3. \A z \in OnList(head) : z \in Block
  BY <1>1, ListIs DEF Link
<1>4. next[y] = NULL
  BY <1>1, <1>2, <1>3 DEF TypeOK, Link
<1> QED
  BY <1>2, <1>3, <1>4

\* A step of t writes the links of the block in its hands, of blocks that the
\* program has, and at the end of the list that the owner has taken.
LEMMA WrittenIs ==
  ASSUME TypeOK, ListsEnd, Locals, OwnerHolds, NEW t \in Thread, Do(t), NEW y \in Block, next'[y] # next[y]
  PROVE  y \in Hand(t) \/ y \in live \/ (y \in OnList(head) /\ head' = NULL)
<1>0. next \in [Block -> Link] /\ blk[t] \in Link /\ Owner \in Thread /\ CallLocal(t)
  BY OwnerAssumption DEF TypeOK, Locals
<1>1. CASE FreeRemote(t)
  BY <1>1, <1>0 DEF FreeRemote, Goto, Forget, words, owned, args, locals
<1>2. CASE MtRead(t)
  BY <1>2, <1>0 DEF MtRead, Goto, Forget, words, owned, args, locals
<1>3. CASE MtClaim(t)
  BY <1>3, <1>0 DEF MtClaim, Goto, Forget, words, owned, args, locals
<1>4. CASE MtLink(t)
  BY <1>4, <1>0 DEF MtLink, Goto, Forget, words, owned, args, locals, Hand, HandLabel, CallLocal,
     MtLabel, HeapLabel
<1>5. CASE MtPush(t)
  BY <1>5, <1>0 DEF MtPush, Goto, Forget, words, owned, args, locals
<1>6. CASE HeapRead(t)
  BY <1>6, <1>0 DEF HeapRead, Goto, Forget, words, owned, args, locals
<1>7. CASE HeapLink(t)
  BY <1>7, <1>0 DEF HeapLink, Goto, Forget, words, owned, args, locals, Hand, HandLabel, CallLocal,
     MtLabel, HeapLabel
<1>8. CASE HeapCas(t)
  BY <1>8, <1>0 DEF HeapCas, Goto, Forget, words, owned, args, locals
<1>9. CASE ResetRead(t)
  BY <1>9, <1>0 DEF ResetRead, Goto, Forget, words, owned, args, locals
<1>10. CASE ResetCas(t)
  BY <1>10, <1>0 DEF ResetCas, Goto, Forget, words, owned, args, locals
<1>11. CASE t = Owner /\ Malloc
  BY <1>11, <1>0 DEF Malloc, OwnerIdle, Goto, Forget, words, owned, args, locals
<1>12. CASE t = Owner /\ FreeLocal
  <2>1. \E b \in live : next' = [next EXCEPT ![b] = local_free]
    BY <1>12 DEF FreeLocal, PushLocal
  <2> QED
    BY <1>0, <2>1
<1>13. CASE t = Owner /\ UseDelayed
  BY <1>13, <1>0 DEF UseDelayed, OwnerIdle, Goto, Forget, words, owned, args, locals
<1>14. CASE t = Owner /\ SetRead
  BY <1>14, <1>0 DEF SetRead, AfterSet, OwnerIdle, Goto, Forget, words, owned, args, locals
<1>15. CASE t = Owner /\ SetCas
  BY <1>15, <1>0 DEF SetCas, AfterSet, OwnerIdle, Goto, Forget, words, owned, args, locals
<1>16. CASE t = Owner /\ Collect
  BY <1>16, <1>0 DEF Collect, OwnerIdle, Goto, Forget, words, owned, args, locals
<1>17. CASE t = Owner /\ CollectRead
  BY <1>17, <1>0 DEF CollectRead, AfterCollect, OwnerIdle, Goto, Forget, words, owned, args, locals
<1>18. CASE t = Owner /\ CollectCas
  BY <1>18, <1>0 DEF CollectCas, OwnerIdle, Goto, Forget, words, owned, args, locals
<1>19. CASE t = Owner /\ CollectAppend
  <2>1. PICK x : x = CHOOSE z \in OnList(head) : next[z] = NULL
    OBVIOUS
  <2>2. next' = [next EXCEPT ![x] = local_free] /\ head # NULL /\ head' = NULL
    BY <1>19, <2>1 DEF CollectAppend, OwnerHolds
  <2>3. x \in OnList(head)
    BY <2>1, <2>2, TailIs
  <2> QED
    BY <1>0, <2>2, <2>3
<1>20. CASE t = Owner /\ TakeRead
  BY <1>20, <1>0 DEF TakeRead, OwnerIdle, Goto, Forget, words, owned, args, locals
<1>21. CASE t = Owner /\ TakeAgain
  BY <1>21, <1>0 DEF TakeAgain, OwnerIdle, Goto, Forget, words, owned, args, locals
<1>22. CASE t = Owner /\ TakeCas
  BY <1>22, <1>0 DEF TakeCas, OwnerIdle, Goto, Forget, words, owned, args, locals
<1>23. CASE t = Owner /\ DelayedNext
  BY <1>23, <1>0 DEF DelayedNext, OwnerIdle, Goto, Forget, words, owned, args, locals
<1>24. CASE t = Owner /\ DelayedFree
  BY <1>24, <1>0 DEF DelayedFree, PushLocal, OwnerIdle, Goto, Forget, words, owned, args, locals,
     Hand, HandLabel, CallLocal, MtLabel, HeapLabel
<1> QED
  BY <1>1, <1>2, <1>3, <1>4, <1>5, <1>6, <1>7, <1>8, <1>9, <1>10, <1>11, <1>12, <1>13, <1>14, <1>15,
     <1>16, <1>17, <1>18, <1>19, <1>20, <1>21, <1>22, <1>23, <1>24 DEF Do, Remote, Own

\* So only the walk of the collect writes a link of a list, that of the list it
\* appends, and nobody writes the link of a block in the hands of another.
LEMMA LinkKept ==
  ASSUME TypeOK, OnePlace, ListsEnd, Locals, OwnerHolds, NEW t \in Thread, Do(t)
  PROVE  /\ \A k \in 1 .. 5 : k # 4 \/ head' = head => \A y \in OnList(Lists[k]) : next'[y] = next[y]
         /\ \A u \in Thread : u # t => \A y \in Hand(u) : next'[y] = next[y]
<1>0. \A k \in 1 .. 5 : OnList(Lists[k]) \subseteq Block
  <2>1. \A k \in 1 .. 5 : Lists[k] \in Link
    BY ListsAre, WordIs DEF TypeOK
  <2> QED
    BY <2>1, ListIs
<1>1. ASSUME NEW k \in 1 .. 5, k # 4 \/ head' = head, NEW y \in OnList(Lists[k]), next'[y] # next[y]
      PROVE  FALSE
  <2>1. y \in Hand(t) \/ y \in live \/ (y \in OnList(Lists[4]) /\ head' = NULL)
    BY <1>0, <1>1, WrittenIs, ListsAre
  <2>2. head = NULL => OnList(Lists[4]) = {}
    BY ListEmpty, ListsAre
  <2> QED
    BY <1>1, <2>1, <2>2, Apart
<1>2. ASSUME NEW u \in Thread, u # t, NEW y \in Hand(u), next'[y] # next[y]
      PROVE  FALSE
  <2>1. y \in Hand(t) \/ y \in live \/ y \in OnList(Lists[4])
    BY <1>2, WrittenIs, ListsAre DEF Hand
  <2> QED
    BY <1>2, <2>1, Apart
<1> QED
  BY <1>1, <1>2

\* A list whose first block stays keeps its blocks and its end.
LEMMA SameList ==
  ASSUME TypeOK, OnePlace, ListsEnd, Locals, OwnerHolds, NEW t \in Thread, Do(t),
         NEW k \in 1 .. 5, Lists[k]' = Lists[k]
  PROVE  OnList(Lists[k])' = OnList(Lists[k]) /\ EndsIn(Lists[k], next)'
<1>1. PICK s : s = Lists[k]
  OBVIOUS
<1>2. Lists[k]' = s
  BY <1>1
<1>3. \A y \in OnList(s) : next'[y] = next[y]
  BY <1>1, LinkKept, ListsAre
<1> QED
  BY <1>1, <1>2, <1>3, ListKept, WordStep DEF ListsEnd

(***************************************************************************)
(* The calls.                                                              *)
(***************************************************************************)

\* What a call holds at its labels after a step.
LEMMA CallLocalStep ==
  ASSUME TypeOK, Locals, NEW t \in Thread, Do(t), NEW u \in Thread
  PROVE  CallLocal(u)'
<1>0. /\ /\ pc \in [Thread -> Label] /\ blk \in [Thread -> Link] /\ live \subseteq Block
      /\ NULL \notin Block
      /\ Owner \in Thread /\ blk[t] \in Link /\ CallLocal(t)
  BY OwnerAssumption, BlockAssumption DEF TypeOK, Locals
<1>100. CASE u # t
  <2>1. pc'[u] = pc[u] /\ blk'[u] = blk[u]
    BY <1>100, OthersKept DEF Others
  <2> QED
    BY <2>1 DEF CallLocal, Locals
<1>101. CASE u = t
  <2>0. SUFFICES CallLocal(t)'
    BY <1>101
  <2> USE DEF CallLocal, MtLabel, HeapLabel, ResetLabel
  <2>1. CASE FreeRemote(t)
    BY <2>1, <1>0 DEF FreeRemote, Goto, Forget, words, owned, args, locals, Link
  <2>2. CASE MtRead(t)
    BY <2>2, <1>0 DEF MtRead, Goto, Forget, words, owned, args, locals, Link
  <2>3. CASE MtClaim(t)
    BY <2>3, <1>0 DEF MtClaim, Goto, Forget, words, owned, args, locals, Link
  <2>4. CASE MtLink(t)
    BY <2>4, <1>0 DEF MtLink, Goto, Forget, words, owned, args, locals, Link
  <2>5. CASE MtPush(t)
    BY <2>5, <1>0 DEF MtPush, Goto, Forget, words, owned, args, locals, Link
  <2>6. CASE HeapRead(t)
    BY <2>6, <1>0 DEF HeapRead, Goto, Forget, words, owned, args, locals, Link
  <2>7. CASE HeapLink(t)
    BY <2>7, <1>0 DEF HeapLink, Goto, Forget, words, owned, args, locals, Link
  <2>8. CASE HeapCas(t)
    BY <2>8, <1>0 DEF HeapCas, Goto, Forget, words, owned, args, locals, Link
  <2>9. CASE ResetRead(t)
    BY <2>9, <1>0 DEF ResetRead, Goto, Forget, words, owned, args, locals, Link
  <2>10. CASE ResetCas(t)
    BY <2>10, <1>0 DEF ResetCas, Goto, Forget, words, owned, args, locals, Link
  <2>11. CASE t = Owner /\ Malloc
    BY <2>11, <1>0 DEF Malloc, OwnerIdle, Goto, Forget, words, owned, args, locals, Link
  <2>12. CASE t = Owner /\ FreeLocal
    BY <2>12, <1>0 DEF FreeLocal, PushLocal, OwnerIdle, Goto, Forget, words, owned, args, locals,
       Link
  <2>13. CASE t = Owner /\ UseDelayed
    BY <2>13, <1>0 DEF UseDelayed, OwnerIdle, Goto, Forget, words, owned, args, locals, Link
  <2>14. CASE t = Owner /\ SetRead
    BY <2>14, <1>0 DEF SetRead, AfterSet, OwnerIdle, Goto, Forget, words, owned, args, locals, Link
  <2>15. CASE t = Owner /\ SetCas
    BY <2>15, <1>0 DEF SetCas, AfterSet, OwnerIdle, Goto, Forget, words, owned, args, locals, Link
  <2>16. CASE t = Owner /\ Collect
    BY <2>16, <1>0 DEF Collect, OwnerIdle, Goto, Forget, words, owned, args, locals, Link
  <2>17. CASE t = Owner /\ CollectRead
    BY <2>17, <1>0 DEF CollectRead, AfterCollect, OwnerIdle, Goto, Forget, words, owned, args,
       locals, Link
  <2>18. CASE t = Owner /\ CollectCas
    BY <2>18, <1>0 DEF CollectCas, OwnerIdle, Goto, Forget, words, owned, args, locals, Link
  <2>19. CASE t = Owner /\ CollectAppend
    BY <2>19, <1>0 DEF CollectAppend, AfterCollect, OwnerIdle, Goto, Forget, words, owned, args,
       locals, Link
  <2>20. CASE t = Owner /\ TakeRead
    BY <2>20, <1>0 DEF TakeRead, OwnerIdle, Goto, Forget, words, owned, args, locals, Link
  <2>21. CASE t = Owner /\ TakeAgain
    BY <2>21, <1>0 DEF TakeAgain, OwnerIdle, Goto, Forget, words, owned, args, locals, Link
  <2>22. CASE t = Owner /\ TakeCas
    BY <2>22, <1>0 DEF TakeCas, OwnerIdle, Goto, Forget, words, owned, args, locals, Link
  <2>23. CASE t = Owner /\ DelayedNext
    BY <2>23, <1>0 DEF DelayedNext, OwnerIdle, Goto, Forget, words, owned, args, locals, Link
  <2>24. CASE t = Owner /\ DelayedFree
    BY <2>24, <1>0 DEF DelayedFree, PushLocal, OwnerIdle, Goto, Forget, words, owned, args, locals,
       Link
  <2> QED
    BY <2>1, <2>2, <2>3, <2>4, <2>5, <2>6, <2>7, <2>8, <2>9, <2>10, <2>11, <2>12, <2>13, <2>14,
       <2>15, <2>16, <2>17, <2>18, <2>19, <2>20, <2>21, <2>22, <2>23, <2>24 DEF Do, Remote, Own
<1> QED
  BY <1>100, <1>101

\* A thread holds a block where it has one in blk.
LEMMA HandIs ==
  ASSUME NEW t \in Thread
  PROVE  /\ TypeOK /\ CallLocal(t) => Hand(t) = {blk[t]} \cap Block
         /\ CallTypes' /\ CallLocal(t)' => Hand(t)' = {blk'[t]} \cap Block
BY BlockAssumption DEF TypeOK, CallTypes, CallLocal, Hand, HandLabel, Label, MtLabel, HeapLabel,
   ResetLabel

\* How a step changes the flag, and who holds it then.
FlagSame(t) == /\ xthread_free'.delayed = xthread_free.delayed
               /\ pc'[t] \in FreeingLabel => pc[t] \in FreeingLabel
FlagClaim == xthread_free.delayed = USE_DELAYED_FREE /\ xthread_free'.delayed = DELAYED_FREEING
FlagReset(t) == /\ xthread_free.delayed = DELAYED_FREEING /\ xthread_free'.delayed = NO_DELAYED_FREE
                /\ pc[t] \in FreeingLabel /\ pc'[t] \notin FreeingLabel
FlagSet(t) == /\ xthread_free.delayed # DELAYED_FREEING
              /\ xthread_free'.delayed \in {USE_DELAYED_FREE, NEVER_DELAYED_FREE}
              /\ pc'[t] \notin FreeingLabel

\* A step changes the flag in one of these ways.
LEMMA FlagStep ==
  ASSUME TypeOK, Locals, Lock, NEW t \in Thread, Do(t)
  PROVE  FlagSame(t) \/ FlagClaim \/ FlagReset(t) \/ FlagSet(t)
<1>0. /\ pc \in [Thread -> Label] /\ ReadLocal(t) /\ Owner \in Thread
      /\ pc[t] \in FreeingLabel => xthread_free.delayed = DELAYED_FREEING
      /\ delay \in {USE_DELAYED_FREE, NEVER_DELAYED_FREE}
  BY OwnerAssumption DEF TypeOK, Locals, Lock
<1>100. /\ xthread_free = [block |-> xthread_free.block, delayed |-> xthread_free.delayed]
        /\ tfree[t] = [block |-> tfree[t].block, delayed |-> tfree[t].delayed]
  BY WordIs
<1> USE DEF FreeingLabel, HeapLabel, ResetLabel, ReadLocal
<1>1. CASE FreeRemote(t)
  BY <1>1, <1>0, <1>100 DEF FreeRemote, Goto, Forget, words, owned, args, locals, FlagSame
<1>2. CASE MtRead(t)
  BY <1>2, <1>0, <1>100 DEF MtRead, Goto, Forget, words, owned, args, locals, FlagSame
<1>3. CASE MtClaim(t)
  BY <1>3, <1>0, <1>100 DEF MtClaim, Goto, Forget, words, owned, args, locals, FlagSame, FlagClaim
<1>4. CASE MtLink(t)
  BY <1>4, <1>0, <1>100 DEF MtLink, Goto, Forget, words, owned, args, locals, FlagSame
<1>5. CASE MtPush(t)
  BY <1>5, <1>0, <1>100 DEF MtPush, Goto, Forget, words, owned, args, locals, FlagSame
<1>6. CASE HeapRead(t)
  BY <1>6, <1>0, <1>100 DEF HeapRead, Goto, Forget, words, owned, args, locals, FlagSame
<1>7. CASE HeapLink(t)
  BY <1>7, <1>0, <1>100 DEF HeapLink, Goto, Forget, words, owned, args, locals, FlagSame
<1>8. CASE HeapCas(t)
  BY <1>8, <1>0, <1>100 DEF HeapCas, Goto, Forget, words, owned, args, locals, FlagSame
<1>9. CASE ResetRead(t)
  BY <1>9, <1>0, <1>100 DEF ResetRead, Goto, Forget, words, owned, args, locals, FlagSame
<1>10. CASE ResetCas(t)
  BY <1>10, <1>0, <1>100 DEF ResetCas, Goto, Forget, words, owned, args, locals, FlagSame, FlagReset
<1>11. CASE t = Owner /\ Malloc
  BY <1>11, <1>0, <1>100 DEF Malloc, OwnerIdle, Goto, Forget, words, owned, args, locals, FlagSame
<1>12. CASE t = Owner /\ FreeLocal
  BY <1>12, <1>0, <1>100 DEF FreeLocal, PushLocal, OwnerIdle, Goto, Forget, words, owned, args,
     locals, FlagSame
<1>13. CASE t = Owner /\ UseDelayed
  BY <1>13, <1>0, <1>100 DEF UseDelayed, OwnerIdle, Goto, Forget, words, owned, args, locals,
     FlagSame
<1>14. CASE t = Owner /\ SetRead
  BY <1>14, <1>0, <1>100 DEF SetRead, AfterSet, OwnerIdle, Goto, Forget, words, owned, args, locals,
     FlagSame
<1>15. CASE t = Owner /\ SetCas
  BY <1>15, <1>0, <1>100 DEF SetCas, AfterSet, OwnerIdle, Goto, Forget, words, owned, args, locals,
     FlagSame, FlagSet
<1>16. CASE t = Owner /\ Collect
  BY <1>16, <1>0, <1>100 DEF Collect, OwnerIdle, Goto, Forget, words, owned, args, locals, FlagSame
<1>17. CASE t = Owner /\ CollectRead
  BY <1>17, <1>0, <1>100 DEF CollectRead, AfterCollect, OwnerIdle, Goto, Forget, words, owned, args,
     locals, FlagSame
<1>18. CASE t = Owner /\ CollectCas
  BY <1>18, <1>0, <1>100 DEF CollectCas, OwnerIdle, Goto, Forget, words, owned, args, locals,
     FlagSame
<1>19. CASE t = Owner /\ CollectAppend
  BY <1>19, <1>0, <1>100 DEF CollectAppend, AfterCollect, OwnerIdle, Goto, Forget, words, owned,
     args, locals, FlagSame
<1>20. CASE t = Owner /\ TakeRead
  BY <1>20, <1>0, <1>100 DEF TakeRead, OwnerIdle, Goto, Forget, words, owned, args, locals, FlagSame
<1>21. CASE t = Owner /\ TakeAgain
  BY <1>21, <1>0, <1>100 DEF TakeAgain, OwnerIdle, Goto, Forget, words, owned, args, locals,
     FlagSame
<1>22. CASE t = Owner /\ TakeCas
  BY <1>22, <1>0, <1>100 DEF TakeCas, OwnerIdle, Goto, Forget, words, owned, args, locals, FlagSame
<1>23. CASE t = Owner /\ DelayedNext
  BY <1>23, <1>0, <1>100 DEF DelayedNext, OwnerIdle, Goto, Forget, words, owned, args, locals,
     FlagSame
<1>24. CASE t = Owner /\ DelayedFree
  BY <1>24, <1>0, <1>100 DEF DelayedFree, PushLocal, OwnerIdle, Goto, Forget, words, owned, args,
     locals, FlagSame
<1> QED
  BY <1>1, <1>2, <1>3, <1>4, <1>5, <1>6, <1>7, <1>8, <1>9, <1>10, <1>11, <1>12, <1>13, <1>14, <1>15,
     <1>16, <1>17, <1>18, <1>19, <1>20, <1>21, <1>22, <1>23, <1>24 DEF Do, Remote, Own

\* DELAYED_FREEING stays a lock.
LEMMA LockStep ==
  ASSUME TypeOK, Locals, Lock, NEW t \in Thread, Do(t)
  PROVE  Lock'
<1>0. \A u \in Thread : u # t => pc'[u] = pc[u]
  BY OthersKept DEF Others
<1>1. CASE FlagSame(t)
  BY <1>0, <1>1 DEF FlagSame, Lock
<1>2. CASE FlagClaim
  BY <1>0, <1>2 DEF FlagClaim, Lock
<1>3. CASE FlagReset(t)
  BY <1>0, <1>3 DEF FlagReset, Lock
<1>4. CASE FlagSet(t)
  BY <1>0, <1>4 DEF FlagSet, Lock
<1> QED
  BY <1>1, <1>2, <1>3, <1>4, FlagStep

\* What a call has read after a step: nobody writes the link of its block.
LEMMA ReadLocalStep ==
  ASSUME TypeOK, OnePlace, ListsEnd, Locals, OwnerHolds, NEW t \in Thread, Do(t), NEW u \in Thread
  PROVE  ReadLocal(u)'
<1>0. /\ pc \in [Thread -> Label] /\ blk \in [Thread -> Link] /\ next \in [Block -> Link]
      /\ tfree \in [Thread -> Word] /\ dfree \in [Thread -> Link]
      /\ Owner \in Thread /\ CallLocal(t) /\ ReadLocal(t)
  BY OwnerAssumption DEF TypeOK, Locals
<1>100. CASE u # t
  <2>1. pc'[u] = pc[u] /\ blk'[u] = blk[u] /\ tfree'[u] = tfree[u] /\ dfree'[u] = dfree[u]
    BY <1>100, OthersKept DEF Others
  <2>2. ReadLocal(u) /\ CallLocal(u)
    BY DEF Locals
  <2>3. pc[u] \in {"mt_push", "h_cas"} => next'[blk[u]] = next[blk[u]]
    <3>1. \A y \in Hand(u) : next'[y] = next[y]
      BY <1>100, LinkKept
    <3>2. pc[u] \in {"mt_push", "h_cas"} => blk[u] \in Hand(u)
      BY <2>2 DEF CallLocal, MtLabel, HeapLabel, Hand, HandLabel
    <3> QED
      BY <3>1, <3>2
  <2> QED
    BY <2>1, <2>2, <2>3 DEF ReadLocal
<1>101. CASE u = t
  <2>0. SUFFICES ReadLocal(t)'
    BY <1>101
  <2> USE DEF ReadLocal
  <2>1. CASE FreeRemote(t)
    BY <2>1, <1>0 DEF FreeRemote, Goto, Forget, words, owned, args, locals
  <2>2. CASE MtRead(t)
    BY <2>2, <1>0 DEF MtRead, Goto, Forget, words, owned, args, locals
  <2>3. CASE MtClaim(t)
    BY <2>3, <1>0 DEF MtClaim, Goto, Forget, words, owned, args, locals
  <2>4. CASE MtLink(t)
    BY <2>4, <1>0 DEF MtLink, Goto, Forget, words, owned, args, locals, CallLocal, MtLabel,
       HeapLabel
  <2>5. CASE MtPush(t)
    BY <2>5, <1>0 DEF MtPush, Goto, Forget, words, owned, args, locals
  <2>6. CASE HeapRead(t)
    BY <2>6, <1>0 DEF HeapRead, Goto, Forget, words, owned, args, locals
  <2>7. CASE HeapLink(t)
    BY <2>7, <1>0 DEF HeapLink, Goto, Forget, words, owned, args, locals, CallLocal, MtLabel,
       HeapLabel
  <2>8. CASE HeapCas(t)
    BY <2>8, <1>0 DEF HeapCas, Goto, Forget, words, owned, args, locals
  <2>9. CASE ResetRead(t)
    BY <2>9, <1>0 DEF ResetRead, Goto, Forget, words, owned, args, locals
  <2>10. CASE ResetCas(t)
    BY <2>10, <1>0 DEF ResetCas, Goto, Forget, words, owned, args, locals
  <2>11. CASE t = Owner /\ Malloc
    BY <2>11, <1>0 DEF Malloc, OwnerIdle, Goto, Forget, words, owned, args, locals
  <2>12. CASE t = Owner /\ FreeLocal
    BY <2>12, <1>0 DEF FreeLocal, PushLocal, OwnerIdle, Goto, Forget, words, owned, args, locals
  <2>13. CASE t = Owner /\ UseDelayed
    BY <2>13, <1>0 DEF UseDelayed, OwnerIdle, Goto, Forget, words, owned, args, locals
  <2>14. CASE t = Owner /\ SetRead
    BY <2>14, <1>0 DEF SetRead, AfterSet, OwnerIdle, Goto, Forget, words, owned, args, locals
  <2>15. CASE t = Owner /\ SetCas
    BY <2>15, <1>0 DEF SetCas, AfterSet, OwnerIdle, Goto, Forget, words, owned, args, locals
  <2>16. CASE t = Owner /\ Collect
    BY <2>16, <1>0 DEF Collect, OwnerIdle, Goto, Forget, words, owned, args, locals
  <2>17. CASE t = Owner /\ CollectRead
    BY <2>17, <1>0 DEF CollectRead, AfterCollect, OwnerIdle, Goto, Forget, words, owned, args,
       locals
  <2>18. CASE t = Owner /\ CollectCas
    BY <2>18, <1>0 DEF CollectCas, OwnerIdle, Goto, Forget, words, owned, args, locals
  <2>19. CASE t = Owner /\ CollectAppend
    BY <2>19, <1>0 DEF CollectAppend, AfterCollect, OwnerIdle, Goto, Forget, words, owned, args,
       locals
  <2>20. CASE t = Owner /\ TakeRead
    BY <2>20, <1>0 DEF TakeRead, OwnerIdle, Goto, Forget, words, owned, args, locals
  <2>21. CASE t = Owner /\ TakeAgain
    BY <2>21, <1>0 DEF TakeAgain, OwnerIdle, Goto, Forget, words, owned, args, locals
  <2>22. CASE t = Owner /\ TakeCas
    BY <2>22, <1>0 DEF TakeCas, OwnerIdle, Goto, Forget, words, owned, args, locals
  <2>23. CASE t = Owner /\ DelayedNext
    BY <2>23, <1>0 DEF DelayedNext, OwnerIdle, Goto, Forget, words, owned, args, locals
  <2>24. CASE t = Owner /\ DelayedFree
    BY <2>24, <1>0 DEF DelayedFree, PushLocal, OwnerIdle, Goto, Forget, words, owned, args, locals
  <2> QED
    BY <2>1, <2>2, <2>3, <2>4, <2>5, <2>6, <2>7, <2>8, <2>9, <2>10, <2>11, <2>12, <2>13, <2>14,
       <2>15, <2>16, <2>17, <2>18, <2>19, <2>20, <2>21, <2>22, <2>23, <2>24 DEF Do, Remote, Own
<1> QED
  BY <1>100, <1>101

\* The calls after a step.
LEMMA LocalsStep ==
  ASSUME TypeOK, OnePlace, ListsEnd, Locals, OwnerHolds, NEW t \in Thread, Do(t)
  PROVE  Locals'
BY CallLocalStep, ReadLocalStep DEF Locals

\* The lists of the owner after a step.
LEMMA OwnerHoldsStep ==
  ASSUME TypeOK, Locals, OwnerHolds, NEW t \in Thread, Do(t)
  PROVE  OwnerHolds'
<1>0. /\ pc \in [Thread -> Label] /\ blk \in [Thread -> Link] /\ Owner \in Thread
      /\ CallLocal(t) /\ ReadLocal(t)
  BY OwnerAssumption DEF TypeOK, Locals
<1> USE DEF OwnerHolds
<1>1. CASE FreeRemote(t)
  BY <1>1, <1>0 DEF FreeRemote, Goto, Forget, words, owned, args, locals, CallLocal, MtLabel,
     HeapLabel, ResetLabel
<1>2. CASE MtRead(t)
  BY <1>2, <1>0 DEF MtRead, Goto, Forget, words, owned, args, locals, CallLocal, MtLabel, HeapLabel,
     ResetLabel
<1>3. CASE MtClaim(t)
  BY <1>3, <1>0 DEF MtClaim, Goto, Forget, words, owned, args, locals, CallLocal, MtLabel,
     HeapLabel, ResetLabel
<1>4. CASE MtLink(t)
  BY <1>4, <1>0 DEF MtLink, Goto, Forget, words, owned, args, locals, CallLocal, MtLabel, HeapLabel,
     ResetLabel
<1>5. CASE MtPush(t)
  BY <1>5, <1>0 DEF MtPush, Goto, Forget, words, owned, args, locals, CallLocal, MtLabel, HeapLabel,
     ResetLabel
<1>6. CASE HeapRead(t)
  BY <1>6, <1>0 DEF HeapRead, Goto, Forget, words, owned, args, locals, CallLocal, MtLabel,
     HeapLabel, ResetLabel
<1>7. CASE HeapLink(t)
  BY <1>7, <1>0 DEF HeapLink, Goto, Forget, words, owned, args, locals, CallLocal, MtLabel,
     HeapLabel, ResetLabel
<1>8. CASE HeapCas(t)
  BY <1>8, <1>0 DEF HeapCas, Goto, Forget, words, owned, args, locals, CallLocal, MtLabel,
     HeapLabel, ResetLabel
<1>9. CASE ResetRead(t)
  BY <1>9, <1>0 DEF ResetRead, Goto, Forget, words, owned, args, locals, CallLocal, MtLabel,
     HeapLabel, ResetLabel
<1>10. CASE ResetCas(t)
  BY <1>10, <1>0 DEF ResetCas, Goto, Forget, words, owned, args, locals, CallLocal, MtLabel,
     HeapLabel, ResetLabel
<1>11. CASE t = Owner /\ Malloc
  BY <1>11, <1>0 DEF Malloc, OwnerIdle, Goto, Forget, words, owned, args, locals, CallLocal
<1>12. CASE t = Owner /\ FreeLocal
  BY <1>12, <1>0 DEF FreeLocal, PushLocal, OwnerIdle, Goto, Forget, words, owned, args, locals,
     CallLocal
<1>13. CASE t = Owner /\ UseDelayed
  BY <1>13, <1>0 DEF UseDelayed, OwnerIdle, Goto, Forget, words, owned, args, locals, CallLocal
<1>14. CASE t = Owner /\ SetRead
  BY <1>14, <1>0 DEF SetRead, AfterSet, OwnerIdle, Goto, Forget, words, owned, args, locals,
     CallLocal
<1>15. CASE t = Owner /\ SetCas
  BY <1>15, <1>0 DEF SetCas, AfterSet, OwnerIdle, Goto, Forget, words, owned, args, locals,
     CallLocal
<1>16. CASE t = Owner /\ Collect
  BY <1>16, <1>0 DEF Collect, OwnerIdle, Goto, Forget, words, owned, args, locals, CallLocal
<1>17. CASE t = Owner /\ CollectRead
  BY <1>17, <1>0 DEF CollectRead, AfterCollect, OwnerIdle, Goto, Forget, words, owned, args, locals,
     CallLocal
<1>18. CASE t = Owner /\ CollectCas
  BY <1>18, <1>0 DEF CollectCas, OwnerIdle, Goto, Forget, words, owned, args, locals, CallLocal,
     ReadLocal
<1>19. CASE t = Owner /\ CollectAppend
  BY <1>19, <1>0 DEF CollectAppend, AfterCollect, OwnerIdle, Goto, Forget, words, owned, args,
     locals, CallLocal
<1>20. CASE t = Owner /\ TakeRead
  BY <1>20, <1>0 DEF TakeRead, OwnerIdle, Goto, Forget, words, owned, args, locals, CallLocal
<1>21. CASE t = Owner /\ TakeAgain
  BY <1>21, <1>0 DEF TakeAgain, OwnerIdle, Goto, Forget, words, owned, args, locals, CallLocal
<1>22. CASE t = Owner /\ TakeCas
  BY <1>22, <1>0 DEF TakeCas, OwnerIdle, Goto, Forget, words, owned, args, locals, CallLocal
<1>23. CASE t = Owner /\ DelayedNext
  BY <1>23, <1>0 DEF DelayedNext, OwnerIdle, Goto, Forget, words, owned, args, locals, CallLocal
<1>24. CASE t = Owner /\ DelayedFree
  BY <1>24, <1>0 DEF DelayedFree, PushLocal, OwnerIdle, Goto, Forget, words, owned, args, locals,
     CallLocal
<1> QED
  BY <1>1, <1>2, <1>3, <1>4, <1>5, <1>6, <1>7, <1>8, <1>9, <1>10, <1>11, <1>12, <1>13, <1>14, <1>15,
     <1>16, <1>17, <1>18, <1>19, <1>20, <1>21, <1>22, <1>23, <1>24 DEF Do, Remote, Own

(***************************************************************************)
(* What a step moves.                                                      *)
(***************************************************************************)

\* What a move needs of the state before it.
Core == TypeOK /\ OnePlace /\ ListsEnd /\ Locals /\ OwnerHolds /\ Lock

\* The moves that module BlockSets allows: one block is put into a word, or its
\* list is taken as a whole, and the flag has the value that this needs.
Atomic(p, q, X) ==
  /\ p \in {Thr, Del} => X = At(p) /\ q \notin {Thr, Del}
  /\ q = Thr => (\E b \in Block : X = {b}) /\ xthread_free.delayed # USE_DELAYED_FREE
  /\ q = Del => (\E b \in Block : X = {b}) /\ xthread_free.delayed = DELAYED_FREEING
  /\ p \in {Thr, Del} \/ q \in {Thr, Del} => xthread_free'.delayed = xthread_free.delayed

\* The count of the blocks that are not on local_free.
UsedBy(p, q, X) ==
  /\ p = Loc => used' = used + Cardinality(X)
  /\ q = Loc => used' = used - Cardinality(X)
  /\ p # Loc /\ q # Loc => used' = used

\* A step moves the blocks X from place p to place q.
Moves(p, q, X) ==
  /\ p \in Place /\ q \in Place /\ p # q /\ X \subseteq At(p) /\ X \subseteq Block
  /\ Moved(p, q, X) /\ ListsEnd' /\ Atomic(p, q, X) /\ UsedBy(p, q, X)

\* What is left to show of the step of t that makes a move.
LEMMA MovesIs ==
  ASSUME Core, NEW t \in Thread, Do(t), NEW p \in Place, NEW q \in Place, p # q,
         NEW X \in SUBSET Block, X \subseteq At(p),
         \A u \in Thread : u # t => p # <<"hand", u>> /\ q # <<"hand", u>>,
         {blk'[t]} \cap Block = Changed(p, q, X, <<"hand", t>>, {blk[t]} \cap Block),
         \A k \in 1 .. 5 : /\ OnList(Lists[k])' = Changed(p, q, X, <<"list", k>>, OnList(Lists[k]))
                           /\ EndsIn(Lists[k], next)',
         live' = Changed(p, q, X, Live, live),
         Atomic(p, q, X), UsedBy(p, q, X)
  PROVE  Moves(p, q, X)
<1>1. ASSUME NEW u \in Thread
      PROVE  Hand(u)' = Changed(p, q, X, <<"hand", u>>, Hand(u))
  <2>1. CallTypes' /\ CallLocal(u)' /\ CallLocal(u)
    BY CallStep, CallLocalStep DEF Core, Locals
  <2>2. Hand(u) = {blk[u]} \cap Block /\ Hand(u)' = {blk'[u]} \cap Block
    BY <2>1, HandIs DEF Core
  <2>3. CASE u = t
    BY <2>2, <2>3
  <2>4. CASE u # t
    <3>1. blk'[u] = blk[u]
      BY <2>4, OthersKept DEF Others, Core
    <3> QED
      BY <2>2, <2>4, <3>1 DEF Changed
  <2> QED
    BY <2>3, <2>4
<1>2. Moved(p, q, X)
  BY <1>1, MovedIs
<1>3. ListsEnd'
  BY DEF ListsEnd
<1> QED
  BY <1>2, <1>3 DEF Moves

\* A step that leaves the words' lists, the lists of the owner and what the
\* program and the threads hold moves nothing.
LEMMA Quiet ==
  ASSUME Core, NEW t \in Thread, Do(t), blk'[t] = blk[t], xthread_free'.block = xthread_free.block,
         thread_delayed_free' = thread_delayed_free, local_free' = local_free, head' = head,
         batch' = batch, live' = live, used' = used
  PROVE  \E p \in Place, q \in Place, X \in SUBSET Block : Moves(p, q, X)
<1>1. PICK p : p = Live
  OBVIOUS
<1>2. PICK q : q = <<"hand", t>>
  OBVIOUS
<1>3. PICK X : X = {}
  OBVIOUS
<1>4. /\ p \in Place /\ q \in Place /\ p # q /\ X \in SUBSET Block /\ X \subseteq At(p)
      /\ p \notin {Thr, Del} /\ q \notin {Thr, Del} /\ p # Loc /\ q # Loc
      /\ \A u \in Thread : u # t => p # <<"hand", u>> /\ q # <<"hand", u>>
  BY <1>1, <1>2, <1>3, PlaceIs, NamesAre
<1>5. \A r, S : Changed(p, q, X, r, S) = S
  BY <1>3 DEF Changed
<1>6. ASSUME NEW k \in 1 .. 5
      PROVE  OnList(Lists[k])' = Changed(p, q, X, <<"list", k>>, OnList(Lists[k])) /\ EndsIn(Lists[k], next)'
  <2>1. Lists[k]' = Lists[k]
    BY ListsAre
  <2> QED
    BY <1>5, <2>1, SameList DEF Core
<1>7. /\ {blk'[t]} \cap Block = Changed(p, q, X, <<"hand", t>>, {blk[t]} \cap Block)
      /\ live' = Changed(p, q, X, Live, live)
  BY <1>5
<1>8. Atomic(p, q, X) /\ UsedBy(p, q, X)
  BY <1>4 DEF Atomic, UsedBy
<1> QED
  BY <1>4, <1>6, <1>7, <1>8, MovesIs

\* Facts about a step's threads and places used below.
LEMMA MoveFacts ==
  ASSUME Core, NEW t \in Thread, Do(t)
  PROVE  /\ pc \in [Thread -> Label] /\ blk \in [Thread -> Link] /\ live \subseteq Block /\ NULL \notin Block
         /\ next \in [Block -> Link] /\ Owner \in Thread /\ CallLocal(t) /\ ReadLocal(t) /\ WordTypes'
         /\ \A k \in 1 .. 5 : EndsIn(Lists[k], next)
         /\ Hand(t) = {blk[t]} \cap Block
         /\ \A k \in 1 .. 5 : Lists[k]' = Lists[k] =>
              OnList(Lists[k])' = OnList(Lists[k]) /\ EndsIn(Lists[k], next)'
<1>1. \A k \in 1 .. 5 : Lists[k]' = Lists[k] =>
              OnList(Lists[k])' = OnList(Lists[k]) /\ EndsIn(Lists[k], next)'
  BY SameList DEF Core
<1> QED
  BY <1>1, OwnerAssumption, BlockAssumption, WordStep, HandIs DEF Core, TypeOK, Locals, ListsEnd

\* A move between the list of number j and a place that is no list leaves the others.
LEMMA OneListMoved ==
  ASSUME Core, NEW t \in Thread, Do(t), NEW j \in 1 .. 5, NEW p, NEW q, NEW X,
         p = <<"list", j>> \/ q = <<"list", j>>,
         \A k \in 1 .. 5 : k # j => Lists[k]' = Lists[k] /\ p # <<"list", k>> /\ q # <<"list", k>>,
         OnList(Lists[j])' = Changed(p, q, X, <<"list", j>>, OnList(Lists[j])), EndsIn(Lists[j], next)'
  PROVE  \A k \in 1 .. 5 : /\ OnList(Lists[k])' = Changed(p, q, X, <<"list", k>>, OnList(Lists[k]))
                           /\ EndsIn(Lists[k], next)'
<1>1. ASSUME NEW k \in 1 .. 5, k # j
      PROVE  /\ OnList(Lists[k])' = Changed(p, q, X, <<"list", k>>, OnList(Lists[k]))
             /\ EndsIn(Lists[k], next)'
  <2>1. OnList(Lists[k])' = OnList(Lists[k]) /\ EndsIn(Lists[k], next)'
    BY <1>1, MoveFacts
  <2> QED
    BY <1>1, <2>1 DEF Changed
<1> QED
  BY <1>1

(***************************************************************************)
(* The actions that move blocks.                                           *)
(***************************************************************************)

\* Another thread frees a block of the program.
LEMMA FreeRemoteMoves ==
  ASSUME Core, NEW t \in Thread, Do(t), FreeRemote(t)
  PROVE  \E p \in Place, q \in Place, X \in SUBSET Block : Moves(p, q, X)
<1>0. /\ /\ pc \in [Thread -> Label] /\ blk \in [Thread -> Link] /\ live \subseteq Block
      /\ NULL \notin Block
      /\ CallLocal(t)
      /\ \A k \in 1 .. 5 : Lists[k]' = Lists[k] =>
           OnList(Lists[k])' = OnList(Lists[k]) /\ EndsIn(Lists[k], next)'
  BY MoveFacts
<1>1. PICK b \in live : live' = live \ {b} /\ blk' = [blk EXCEPT ![t] = b]
  BY DEF FreeRemote
<1>2. PICK p : p = Live
  OBVIOUS
<1>3. PICK q : q = <<"hand", t>>
  OBVIOUS
<1>4. PICK X : X = {b}
  OBVIOUS
<1>5. /\ p \in Place /\ q \in Place /\ p # q /\ X \in SUBSET Block /\ X \subseteq At(p)
      /\ p \notin {Thr, Del} /\ q \notin {Thr, Del} /\ p # Loc /\ q # Loc
      /\ \A u \in Thread : u # t => p # <<"hand", u>> /\ q # <<"hand", u>>
  BY <1>0, <1>1, <1>2, <1>3, <1>4, PlaceIs, NamesAre
<1>6. ASSUME NEW k \in 1 .. 5
      PROVE  OnList(Lists[k])' = Changed(p, q, X, <<"list", k>>, OnList(Lists[k])) /\ EndsIn(Lists[k], next)'
  <2>1. Lists[k]' = Lists[k]
    BY ListsAre DEF FreeRemote, words, owned, args
  <2>2. <<"list", k>> # p /\ <<"list", k>> # q
    BY <1>2, <1>3 DEF Live
  <2> QED
    BY <1>0, <2>1, <2>2 DEF Changed
<1>7. {blk'[t]} \cap Block = Changed(p, q, X, <<"hand", t>>, {blk[t]} \cap Block)
  <2>1. blk[t] = NULL /\ blk'[t] = b /\ b \in Block
    BY <1>0, <1>1 DEF FreeRemote, CallLocal
  <2>2. {blk'[t]} \cap Block = {b} /\ {blk[t]} \cap Block = {}
    BY <1>0, <2>1
  <2> QED
    BY <1>3, <1>4, <1>5, <2>2 DEF Changed
<1>8. live' = Changed(p, q, X, Live, live)
  BY <1>1, <1>2, <1>4 DEF Changed
<1>9. Atomic(p, q, X) /\ UsedBy(p, q, X)
  BY <1>5 DEF Atomic, UsedBy, FreeRemote, owned
<1> QED
  BY <1>5, <1>6, <1>7, <1>8, <1>9, MovesIs

\* Another thread pushes its block on the list of the page.
LEMMA MtPushMoves ==
  ASSUME Core, NEW t \in Thread, Do(t), MtPush(t), xthread_free = tfree[t]
  PROVE  \E p \in Place, q \in Place, X \in SUBSET Block : Moves(p, q, X)
<1>0. /\ /\ pc \in [Thread -> Label] /\ blk \in [Thread -> Link] /\ NULL \notin Block
      /\ next \in [Block -> Link]
      /\ CallLocal(t) /\ ReadLocal(t) /\ Hand(t) = {blk[t]} \cap Block /\ WordTypes' /\ Owner \in Thread
      /\ \A k \in 1 .. 5 : EndsIn(Lists[k], next)
      /\ xthread_free = [block |-> xthread_free.block, delayed |-> xthread_free.delayed]
      /\ tfree[t] = [block |-> tfree[t].block, delayed |-> tfree[t].delayed]
      /\ TypeOK
  BY MoveFacts, WordIs DEF Core
<1>1. blk[t] \in Block /\ blk'[t] = NULL
  BY <1>0 DEF MtPush, Forget, Goto, words, owned, args, ReadLocal, CallLocal, MtLabel, HeapLabel
<1>2. PICK b \in Block : b = blk[t]
  BY <1>1
<1>3. PICK p : p = <<"hand", t>>
  OBVIOUS
<1>4. PICK q : q = Thr
  OBVIOUS
<1>5. PICK X : X = {b}
  OBVIOUS
<1>6. /\ p \in Place /\ q \in Place /\ p # q /\ X \in SUBSET Block /\ X \subseteq At(p)
      /\ p \notin {Thr, Del} /\ p # Loc /\ q = <<"list", 1>>
      /\ \A u \in Thread : u # t => p # <<"hand", u>> /\ q # <<"hand", u>>
  BY <1>0, <1>1, <1>2, <1>3, <1>4, <1>5, PlaceIs, NamesAre DEF Thr
<1>7. /\ Lists[1] = xthread_free.block /\ Lists[1]' = b /\ next'[b] = xthread_free.block
      /\ \A k \in 1 .. 5 : k # 1 => Lists[k]' = Lists[k]
  <2>1. xthread_free.block' = b /\ next'[b] = xthread_free.block
    BY <1>0, <1>2 DEF MtPush, Forget, Goto, words, owned, args, ReadLocal, ReadLocal
  <2>2. \A k \in 1 .. 5 : k # 1 => Lists[k]' = Lists[k]
    BY <1>0, ListsAre DEF MtPush, Forget, Goto, words, owned, args, ReadLocal
  <2> QED
    BY <2>1, <2>2, ListsAre
<1>8. b \notin OnList(Lists[1])
  BY <1>0, <1>1, <1>2, Apart DEF Core
<1>9. OnList(Lists[1])' = OnList(Lists[1]) \cup {b} /\ EndsIn(Lists[1], next)'
  <2>1. PICK s : s = xthread_free.block
    OBVIOUS
  <2>2. \A y \in OnList(s) : next'[y] = next[y]
    BY <1>7, <2>1, LinkKept DEF Core
  <2>3. Lists[1] = s /\ Lists[1]' = b /\ next'[b] = s /\ b \notin OnList(s) /\ EndsIn(s, next)
    BY <1>0, <1>7, <1>8, <2>1
  <2> QED
    BY <1>0, <2>2, <2>3, ListPushed
<1>10. OnList(Lists[1])' = Changed(p, q, X, <<"list", 1>>, OnList(Lists[1]))
  BY <1>5, <1>6, <1>9 DEF Changed
<1>11. \A k \in 1 .. 5 : k # 1 => p # <<"list", k>> /\ q # <<"list", k>>
  BY <1>3, <1>6, NamesAre
<1>12. \A k \in 1 .. 5 : /\ OnList(Lists[k])' = Changed(p, q, X, <<"list", k>>, OnList(Lists[k]))
                         /\ EndsIn(Lists[k], next)'
  BY <1>6, <1>7, <1>9, <1>10, <1>11, OneListMoved
<1>13. {blk'[t]} \cap Block = Changed(p, q, X, <<"hand", t>>, {blk[t]} \cap Block)
  <2>1. {blk'[t]} \cap Block = {} /\ {blk[t]} \cap Block = {b}
    BY <1>0, <1>1, <1>2
  <2> QED
    BY <1>3, <1>5, <2>1 DEF Changed
<1>14. live' = Changed(p, q, X, Live, live)
  BY <1>3, <1>4, NamesAre DEF Changed, MtPush, Forget, Goto, words, owned, args, ReadLocal
<1>15. Atomic(p, q, X) /\ UsedBy(p, q, X)
  <2>1. /\ xthread_free.delayed # USE_DELAYED_FREE /\ xthread_free'.delayed = xthread_free.delayed
        /\ used' = used
    BY <1>0 DEF MtPush, ReadLocal, owned
  <2> QED
    BY <1>4, <1>5, <1>6, <2>1, NamesAre DEF Atomic, UsedBy
<1> QED
  BY <1>6, <1>12, <1>13, <1>14, <1>15, MovesIs

\* Or on the delayed list of the heap.
LEMMA HeapCasMoves ==
  ASSUME Core, NEW t \in Thread, Do(t), HeapCas(t), thread_delayed_free = dfree[t]
  PROVE  \E p \in Place, q \in Place, X \in SUBSET Block : Moves(p, q, X)
<1>0. /\ /\ pc \in [Thread -> Label] /\ blk \in [Thread -> Link] /\ NULL \notin Block
      /\ next \in [Block -> Link]
      /\ CallLocal(t) /\ ReadLocal(t) /\ Hand(t) = {blk[t]} \cap Block /\ WordTypes' /\ Owner \in Thread
      /\ \A k \in 1 .. 5 : EndsIn(Lists[k], next)
      /\ xthread_free = [block |-> xthread_free.block, delayed |-> xthread_free.delayed]
      /\ tfree[t] = [block |-> tfree[t].block, delayed |-> tfree[t].delayed]
      /\ TypeOK
  BY MoveFacts, WordIs DEF Core
<1>1. blk[t] \in Block /\ blk'[t] = NULL
  BY <1>0 DEF HeapCas, Forget, Goto, words, owned, args, CallLocal, MtLabel, HeapLabel
<1>2. PICK b \in Block : b = blk[t]
  BY <1>1
<1>3. PICK p : p = <<"hand", t>>
  OBVIOUS
<1>4. PICK q : q = Del
  OBVIOUS
<1>5. PICK X : X = {b}
  OBVIOUS
<1>6. /\ p \in Place /\ q \in Place /\ p # q /\ X \in SUBSET Block /\ X \subseteq At(p)
      /\ p \notin {Thr, Del} /\ p # Loc /\ q = <<"list", 2>>
      /\ \A u \in Thread : u # t => p # <<"hand", u>> /\ q # <<"hand", u>>
  BY <1>0, <1>1, <1>2, <1>3, <1>4, <1>5, PlaceIs, NamesAre DEF Del
<1>7. /\ Lists[2] = thread_delayed_free /\ Lists[2]' = b /\ next'[b] = thread_delayed_free
      /\ \A k \in 1 .. 5 : k # 2 => Lists[k]' = Lists[k]
  <2>1. thread_delayed_free' = b /\ next'[b] = thread_delayed_free
    BY <1>0, <1>2 DEF HeapCas, Forget, Goto, words, owned, args, ReadLocal
  <2>2. \A k \in 1 .. 5 : k # 2 => Lists[k]' = Lists[k]
    BY <1>0, ListsAre DEF HeapCas, Forget, Goto, words, owned, args
  <2> QED
    BY <2>1, <2>2, ListsAre
<1>8. b \notin OnList(Lists[2])
  BY <1>0, <1>1, <1>2, Apart DEF Core
<1>9. OnList(Lists[2])' = OnList(Lists[2]) \cup {b} /\ EndsIn(Lists[2], next)'
  <2>1. PICK s : s = thread_delayed_free
    OBVIOUS
  <2>2. \A y \in OnList(s) : next'[y] = next[y]
    BY <1>7, <2>1, LinkKept DEF Core
  <2>3. Lists[2] = s /\ Lists[2]' = b /\ next'[b] = s /\ b \notin OnList(s) /\ EndsIn(s, next)
    BY <1>0, <1>7, <1>8, <2>1
  <2> QED
    BY <1>0, <2>2, <2>3, ListPushed
<1>10. OnList(Lists[2])' = Changed(p, q, X, <<"list", 2>>, OnList(Lists[2]))
  BY <1>5, <1>6, <1>9 DEF Changed
<1>11. \A k \in 1 .. 5 : k # 2 => p # <<"list", k>> /\ q # <<"list", k>>
  BY <1>3, <1>6, NamesAre
<1>12. \A k \in 1 .. 5 : /\ OnList(Lists[k])' = Changed(p, q, X, <<"list", k>>, OnList(Lists[k]))
                         /\ EndsIn(Lists[k], next)'
  BY <1>6, <1>7, <1>9, <1>10, <1>11, OneListMoved
<1>13. {blk'[t]} \cap Block = Changed(p, q, X, <<"hand", t>>, {blk[t]} \cap Block)
  <2>1. {blk'[t]} \cap Block = {} /\ {blk[t]} \cap Block = {b}
    BY <1>0, <1>1, <1>2
  <2> QED
    BY <1>3, <1>5, <2>1 DEF Changed
<1>14. live' = Changed(p, q, X, Live, live)
  BY <1>3, <1>4, NamesAre DEF Changed, HeapCas, Forget, Goto, words, owned, args
<1>15. Atomic(p, q, X) /\ UsedBy(p, q, X)
  <2>1. /\ xthread_free.delayed = DELAYED_FREEING /\ xthread_free'.delayed = xthread_free.delayed
        /\ used' = used
    BY DEF HeapCas, Core, Lock, FreeingLabel, HeapLabel, owned
  <2> QED
    BY <1>4, <1>5, <1>6, <2>1, NamesAre DEF Atomic, UsedBy
<1> QED
  BY <1>6, <1>12, <1>13, <1>14, <1>15, MovesIs

\* The owner frees a block of the batch.
LEMMA DelayedFreeMoves ==
  ASSUME Core, NEW t \in Thread, Do(t), t = Owner, DelayedFree
  PROVE  \E p \in Place, q \in Place, X \in SUBSET Block : Moves(p, q, X)
<1>0. /\ /\ pc \in [Thread -> Label] /\ blk \in [Thread -> Link] /\ NULL \notin Block
      /\ next \in [Block -> Link]
      /\ CallLocal(t) /\ ReadLocal(t) /\ Hand(t) = {blk[t]} \cap Block /\ WordTypes' /\ Owner \in Thread
      /\ \A k \in 1 .. 5 : EndsIn(Lists[k], next)
      /\ xthread_free = [block |-> xthread_free.block, delayed |-> xthread_free.delayed]
      /\ tfree[t] = [block |-> tfree[t].block, delayed |-> tfree[t].delayed]
      /\ TypeOK
  BY MoveFacts, WordIs DEF Core
<1>1. blk[t] \in Block /\ blk'[t] = NULL
  BY <1>0 DEF DelayedFree, PushLocal, Forget, Goto, words, owned, args, CallLocal, MtLabel,
     HeapLabel
<1>2. PICK b \in Block : b = blk[t]
  BY <1>1
<1>3. PICK p : p = <<"hand", t>>
  OBVIOUS
<1>4. PICK q : q = Loc
  OBVIOUS
<1>5. PICK X : X = {b}
  OBVIOUS
<1>6. /\ p \in Place /\ q \in Place /\ p # q /\ X \in SUBSET Block /\ X \subseteq At(p)
      /\ p \notin {Thr, Del} /\ p # Loc /\ q = <<"list", 3>>
      /\ \A u \in Thread : u # t => p # <<"hand", u>> /\ q # <<"hand", u>>
  BY <1>0, <1>1, <1>2, <1>3, <1>4, <1>5, PlaceIs, NamesAre DEF Loc
<1>7. /\ Lists[3] = local_free /\ Lists[3]' = b /\ next'[b] = local_free
      /\ \A k \in 1 .. 5 : k # 3 => Lists[k]' = Lists[k]
  <2>1. local_free' = b /\ next'[b] = local_free
    BY <1>0, <1>2 DEF DelayedFree, PushLocal, Forget, Goto, words, owned, args, ReadLocal
  <2>2. \A k \in 1 .. 5 : k # 3 => Lists[k]' = Lists[k]
    BY <1>0, ListsAre DEF DelayedFree, PushLocal, Forget, Goto, words, owned, args
  <2> QED
    BY <2>1, <2>2, ListsAre
<1>8. b \notin OnList(Lists[3])
  BY <1>0, <1>1, <1>2, Apart DEF Core
<1>9. OnList(Lists[3])' = OnList(Lists[3]) \cup {b} /\ EndsIn(Lists[3], next)'
  <2>1. PICK s : s = local_free
    OBVIOUS
  <2>2. \A y \in OnList(s) : next'[y] = next[y]
    BY <1>7, <2>1, LinkKept DEF Core
  <2>3. Lists[3] = s /\ Lists[3]' = b /\ next'[b] = s /\ b \notin OnList(s) /\ EndsIn(s, next)
    BY <1>0, <1>7, <1>8, <2>1
  <2> QED
    BY <1>0, <2>2, <2>3, ListPushed
<1>10. OnList(Lists[3])' = Changed(p, q, X, <<"list", 3>>, OnList(Lists[3]))
  BY <1>5, <1>6, <1>9 DEF Changed
<1>11. \A k \in 1 .. 5 : k # 3 => p # <<"list", k>> /\ q # <<"list", k>>
  BY <1>3, <1>6, NamesAre
<1>12. \A k \in 1 .. 5 : /\ OnList(Lists[k])' = Changed(p, q, X, <<"list", k>>, OnList(Lists[k]))
                         /\ EndsIn(Lists[k], next)'
  BY <1>6, <1>7, <1>9, <1>10, <1>11, OneListMoved
<1>13. {blk'[t]} \cap Block = Changed(p, q, X, <<"hand", t>>, {blk[t]} \cap Block)
  <2>1. {blk'[t]} \cap Block = {} /\ {blk[t]} \cap Block = {b}
    BY <1>0, <1>1, <1>2
  <2> QED
    BY <1>3, <1>5, <2>1 DEF Changed
<1>14. live' = Changed(p, q, X, Live, live)
  BY <1>3, <1>4, NamesAre DEF Changed, DelayedFree, PushLocal, Forget, Goto, words, owned, args
<1>15. Atomic(p, q, X) /\ UsedBy(p, q, X)
  <2>1. Cardinality(X) = 1
    BY <1>5, FS_Singleton
  <2>2. used' = used - 1
    BY DEF DelayedFree, PushLocal
  <2> QED
    BY <1>4, <1>6, <2>1, <2>2, NamesAre DEF Atomic, UsedBy
<1> QED
  BY <1>6, <1>12, <1>13, <1>14, <1>15, MovesIs

\* The owner pops a block for the program.
LEMMA MallocMoves ==
  ASSUME Core, NEW t \in Thread, Do(t), t = Owner, Malloc
  PROVE  \E p \in Place, q \in Place, X \in SUBSET Block : Moves(p, q, X)
<1>0. /\ /\ pc \in [Thread -> Label] /\ blk \in [Thread -> Link] /\ NULL \notin Block
      /\ next \in [Block -> Link]
      /\ CallLocal(t) /\ ReadLocal(t) /\ Hand(t) = {blk[t]} \cap Block /\ WordTypes' /\ Owner \in Thread
      /\ \A k \in 1 .. 5 : EndsIn(Lists[k], next)
      /\ xthread_free = [block |-> xthread_free.block, delayed |-> xthread_free.delayed]
      /\ tfree[t] = [block |-> tfree[t].block, delayed |-> tfree[t].delayed]
      /\ TypeOK
  BY MoveFacts, WordIs DEF Core
<1>1. local_free \in Block
  BY <1>0 DEF TypeOK, Link, Malloc, words, owned, args, locals
<1>2. PICK b \in Block : b = local_free
  BY <1>1
<1>3. PICK p : p = Loc
  OBVIOUS
<1>4. PICK q : q = Live
  OBVIOUS
<1>5. PICK X : X = {b}
  OBVIOUS
<1>7. /\ Lists[3] = b /\ Lists[3]' = next[b] /\ next' = next
      /\ \A k \in 1 .. 5 : k # 3 => Lists[k]' = Lists[k]
  <2>1. local_free' = next[b] /\ next' = next
    BY <1>0, <1>1, <1>2 DEF Malloc, words, owned, args, locals
  <2>2. \A k \in 1 .. 5 : k # 3 => Lists[k]' = Lists[k]
    BY <1>0, ListsAre DEF Malloc, words, owned, args, locals
  <2> QED
    BY <1>2, <2>1, <2>2, ListsAre
<1>9. OnList(Lists[3])' = OnList(Lists[3]) \ {b} /\ EndsIn(Lists[3], next)' /\ b \in OnList(Lists[3])
  BY <1>0, <1>7, ListPopped
<1>6. /\ p \in Place /\ q \in Place /\ p # q /\ X \in SUBSET Block /\ X \subseteq At(p)
      /\ p \notin {Thr, Del} /\ q \notin {Thr, Del} /\ q # Loc /\ p = <<"list", 3>>
      /\ \A u \in Thread : u # t => p # <<"hand", u>> /\ q # <<"hand", u>>
  BY <1>0, <1>2, <1>3, <1>4, <1>5, <1>9, PlaceIs, NamesAre DEF Loc
<1>12. \A k \in 1 .. 5 : /\ OnList(Lists[k])' = Changed(p, q, X, <<"list", k>>, OnList(Lists[k]))
                         /\ EndsIn(Lists[k], next)'
  <2>1. OnList(Lists[3])' = Changed(p, q, X, <<"list", 3>>, OnList(Lists[3]))
    BY <1>5, <1>6, <1>9 DEF Changed
  <2>2. \A k \in 1 .. 5 : k # 3 => p # <<"list", k>> /\ q # <<"list", k>>
    BY <1>3, <1>4, NamesAre DEF Loc, Live
  <2> QED
    BY <1>6, <1>7, <1>9, <2>1, <2>2, OneListMoved
<1>13. {blk'[t]} \cap Block = Changed(p, q, X, <<"hand", t>>, {blk[t]} \cap Block)
  BY <1>3, <1>4, NamesAre DEF Changed, Malloc, locals
<1>14. live' = Changed(p, q, X, Live, live)
  BY <1>2, <1>3, <1>4, <1>5, NamesAre DEF Changed, Malloc
<1>15. Atomic(p, q, X) /\ UsedBy(p, q, X)
  <2>1. Cardinality(X) = 1
    BY <1>5, FS_Singleton
  <2>2. used' = used + 1
    BY DEF Malloc
  <2> QED
    BY <1>3, <1>6, <2>1, <2>2 DEF Atomic, UsedBy
<1> QED
  BY <1>6, <1>12, <1>13, <1>14, <1>15, MovesIs

\* Or takes the next block of the batch into its hands.
LEMMA DelayedNextMoves ==
  ASSUME Core, NEW t \in Thread, Do(t), t = Owner, DelayedNext, batch # NULL
  PROVE  \E p \in Place, q \in Place, X \in SUBSET Block : Moves(p, q, X)
<1>0. /\ /\ pc \in [Thread -> Label] /\ blk \in [Thread -> Link] /\ NULL \notin Block
      /\ next \in [Block -> Link]
      /\ CallLocal(t) /\ ReadLocal(t) /\ Hand(t) = {blk[t]} \cap Block /\ WordTypes' /\ Owner \in Thread
      /\ \A k \in 1 .. 5 : EndsIn(Lists[k], next)
      /\ xthread_free = [block |-> xthread_free.block, delayed |-> xthread_free.delayed]
      /\ tfree[t] = [block |-> tfree[t].block, delayed |-> tfree[t].delayed]
      /\ TypeOK
  BY MoveFacts, WordIs DEF Core
<1>1. batch \in Block
  BY <1>0 DEF TypeOK, Link, DelayedNext, words, owned, args, locals
<1>2. PICK b \in Block : b = batch
  BY <1>1
<1>3. PICK p : p = Bat
  OBVIOUS
<1>4. PICK q : q = <<"hand", t>>
  OBVIOUS
<1>5. PICK X : X = {b}
  OBVIOUS
<1>7. /\ Lists[5] = b /\ Lists[5]' = next[b] /\ next' = next
      /\ \A k \in 1 .. 5 : k # 5 => Lists[k]' = Lists[k]
  <2>1. batch' = next[b] /\ next' = next
    BY <1>0, <1>1, <1>2 DEF DelayedNext, words, owned, args, locals
  <2>2. \A k \in 1 .. 5 : k # 5 => Lists[k]' = Lists[k]
    BY <1>0, ListsAre DEF DelayedNext, words, owned, args, locals
  <2> QED
    BY <1>2, <2>1, <2>2, ListsAre
<1>9. OnList(Lists[5])' = OnList(Lists[5]) \ {b} /\ EndsIn(Lists[5], next)' /\ b \in OnList(Lists[5])
  BY <1>0, <1>7, ListPopped
<1>6. /\ p \in Place /\ q \in Place /\ p # q /\ X \in SUBSET Block /\ X \subseteq At(p)
      /\ p \notin {Thr, Del} /\ q \notin {Thr, Del} /\ q # Loc /\ p = <<"list", 5>>
      /\ \A u \in Thread : u # t => p # <<"hand", u>> /\ q # <<"hand", u>>
  BY <1>0, <1>2, <1>3, <1>4, <1>5, <1>9, PlaceIs, NamesAre DEF Bat
<1>12. \A k \in 1 .. 5 : /\ OnList(Lists[k])' = Changed(p, q, X, <<"list", k>>, OnList(Lists[k]))
                         /\ EndsIn(Lists[k], next)'
  <2>1. OnList(Lists[5])' = Changed(p, q, X, <<"list", 5>>, OnList(Lists[5]))
    BY <1>5, <1>6, <1>9 DEF Changed
  <2>2. \A k \in 1 .. 5 : k # 5 => p # <<"list", k>> /\ q # <<"list", k>>
    BY <1>3, <1>4, NamesAre DEF Bat, Live
  <2> QED
    BY <1>6, <1>7, <1>9, <2>1, <2>2, OneListMoved
<1>13. {blk'[t]} \cap Block = Changed(p, q, X, <<"hand", t>>, {blk[t]} \cap Block)
  <2>1. blk[t] = NULL /\ blk'[t] = b
    BY <1>0, <1>2 DEF DelayedNext, CallLocal
  <2>2. {blk'[t]} \cap Block = {b} /\ {blk[t]} \cap Block = {}
    BY <1>0, <2>1
  <2> QED
    BY <1>4, <1>5, <1>6, <2>2 DEF Changed
<1>14. live' = Changed(p, q, X, Live, live)
  BY <1>3, <1>4, NamesAre DEF Changed, DelayedNext
<1>15. Atomic(p, q, X) /\ UsedBy(p, q, X)
  <2>1. used' = used
    BY DEF DelayedNext, owned
  <2> QED
    BY <1>3, <1>6, <2>1, NamesAre DEF Atomic, UsedBy
<1> QED
  BY <1>6, <1>12, <1>13, <1>14, <1>15, MovesIs

\* The owner frees a block of the program.
LEMMA FreeLocalMoves ==
  ASSUME Core, NEW t \in Thread, Do(t), t = Owner, FreeLocal
  PROVE  \E p \in Place, q \in Place, X \in SUBSET Block : Moves(p, q, X)
<1>0. /\ /\ pc \in [Thread -> Label] /\ blk \in [Thread -> Link] /\ NULL \notin Block
      /\ next \in [Block -> Link]
      /\ CallLocal(t) /\ ReadLocal(t) /\ Hand(t) = {blk[t]} \cap Block /\ WordTypes' /\ Owner \in Thread
      /\ \A k \in 1 .. 5 : EndsIn(Lists[k], next)
      /\ xthread_free = [block |-> xthread_free.block, delayed |-> xthread_free.delayed]
      /\ tfree[t] = [block |-> tfree[t].block, delayed |-> tfree[t].delayed]
      /\ TypeOK
  BY MoveFacts, WordIs DEF Core
<1>2. PICK b \in Block : /\ b \in live /\ live' = live \ {b}
                         /\ next' = [next EXCEPT ![b] = local_free] /\ local_free' = b /\ used' = used - 1
  BY <1>0 DEF FreeLocal, PushLocal, TypeOK
<1>3. PICK p : p = Live
  OBVIOUS
<1>4. PICK q : q = Loc
  OBVIOUS
<1>5. PICK X : X = {b}
  OBVIOUS
<1>6. /\ p \in Place /\ q \in Place /\ p # q /\ X \in SUBSET Block /\ X \subseteq At(p)
      /\ p \notin {Thr, Del} /\ q \notin {Thr, Del} /\ p # Loc /\ q = <<"list", 3>>
      /\ \A u \in Thread : u # t => p # <<"hand", u>> /\ q # <<"hand", u>>
  BY <1>0, <1>2, <1>3, <1>4, <1>5, PlaceIs, NamesAre DEF Loc
<1>7. PICK s : s = local_free
  OBVIOUS
<1>8. Lists[3] = s /\ Lists[3]' = b /\ next'[b] = s /\ \A k \in 1 .. 5 : k # 3 => Lists[k]' = Lists[k]
  <2>1. \A k \in 1 .. 5 : k # 3 => Lists[k]' = Lists[k]
    BY <1>0, ListsAre DEF FreeLocal, words, args, locals
  <2> QED
    BY <1>0, <1>2, <1>7, <2>1, ListsAre
<1>9. OnList(Lists[3])' = OnList(Lists[3]) \cup {b} /\ EndsIn(Lists[3], next)'
  <2>1. b \notin OnList(s)
    BY <1>2, <1>8, Apart DEF Core
  <2>2. \A y \in OnList(s) : next'[y] = next[y]
    BY <1>8, LinkKept DEF Core
  <2>3. EndsIn(s, next)
    BY <1>0, <1>8
  <2> QED
    BY <1>0, <1>8, <2>1, <2>2, <2>3, ListPushed
<1>12. \A k \in 1 .. 5 : /\ OnList(Lists[k])' = Changed(p, q, X, <<"list", k>>, OnList(Lists[k]))
                         /\ EndsIn(Lists[k], next)'
  <2>1. OnList(Lists[3])' = Changed(p, q, X, <<"list", 3>>, OnList(Lists[3]))
    BY <1>5, <1>6, <1>9 DEF Changed
  <2>2. \A k \in 1 .. 5 : k # 3 => p # <<"list", k>> /\ q # <<"list", k>>
    BY <1>3, <1>4, NamesAre DEF Loc, Live
  <2> QED
    BY <1>6, <1>8, <1>9, <2>1, <2>2, OneListMoved
<1>13. {blk'[t]} \cap Block = Changed(p, q, X, <<"hand", t>>, {blk[t]} \cap Block)
  BY <1>3, <1>4, NamesAre DEF Changed, FreeLocal, locals
<1>14. live' = Changed(p, q, X, Live, live)
  BY <1>2, <1>3, <1>5 DEF Changed
<1>15. Atomic(p, q, X) /\ UsedBy(p, q, X)
  <2>1. Cardinality(X) = 1
    BY <1>5, FS_Singleton
  <2> QED
    BY <1>2, <1>4, <1>6, <2>1 DEF Atomic, UsedBy
<1> QED
  BY <1>6, <1>12, <1>13, <1>14, <1>15, MovesIs

\* The owner takes the list of the page.
LEMMA CollectCasMoves ==
  ASSUME Core, NEW t \in Thread, Do(t), t = Owner, CollectCas, xthread_free = tfree[t]
  PROVE  \E p \in Place, q \in Place, X \in SUBSET Block : Moves(p, q, X)
<1>0. /\ /\ pc \in [Thread -> Label] /\ blk \in [Thread -> Link] /\ NULL \notin Block
      /\ next \in [Block -> Link]
      /\ CallLocal(t) /\ ReadLocal(t) /\ Hand(t) = {blk[t]} \cap Block /\ WordTypes' /\ Owner \in Thread
      /\ \A k \in 1 .. 5 : EndsIn(Lists[k], next)
      /\ xthread_free = [block |-> xthread_free.block, delayed |-> xthread_free.delayed]
      /\ tfree[t] = [block |-> tfree[t].block, delayed |-> tfree[t].delayed]
      /\ TypeOK
  BY MoveFacts, WordIs DEF Core
<1>2. PICK s : s = xthread_free.block
  OBVIOUS
<1>3. PICK p : p = Thr
  OBVIOUS
<1>4. PICK q : q = Tak
  OBVIOUS
<1>5. PICK X : X = OnList(s)
  OBVIOUS
<1>6. /\ p \in Place /\ q \in Place /\ p # q /\ X \in SUBSET Block /\ X = At(p)
      /\ q \notin {Thr, Del} /\ p # Loc /\ q # Loc /\ p = <<"list", 1>> /\ q = <<"list", 4>>
      /\ \A u \in Thread : u # t => p # <<"hand", u>> /\ q # <<"hand", u>>
  <2>1. X \in SUBSET Block
    BY <1>0, <1>2, <1>5, ListIs DEF TypeOK, Word
  <2> QED
    BY <1>0, <1>2, <1>3, <1>4, <1>5, <2>1, PlaceIs, NamesAre DEF Thr, Tak
<1>7. head = NULL
  BY DEF CollectCas, Core, OwnerHolds
<1>8. /\ Lists[1] = s /\ Lists[1]' = NULL /\ Lists[4] = NULL /\ Lists[4]' = s /\ next' = next
      /\ \A k \in 1 .. 5 : k # 1 /\ k # 4 => Lists[k]' = Lists[k]
  <2>1. xthread_free.block' = NULL /\ head' = s /\ next' = next
    BY <1>0, <1>2 DEF CollectCas, Forget, words, owned, args
  <2>2. \A k \in 1 .. 5 : k # 1 /\ k # 4 => Lists[k]' = Lists[k]
    BY <1>0, ListsAre DEF CollectCas, Forget, words, owned, args
  <2> QED
    BY <1>2, <1>7, <2>1, <2>2, ListsAre
<1>9. /\ OnList(Lists[1])' = {} /\ EndsIn(Lists[1], next)' /\ OnList(Lists[4]) = {}
      /\ OnList(Lists[1]) = X /\ OnList(Lists[4])' = X /\ EndsIn(Lists[4], next)'
  <2>1. OnList(Lists[4]) = {} /\ OnList(Lists[1]) = X
    BY <1>0, <1>5, <1>8, ListEmpty
  <2>2. OnList(Lists[1])' = Reach(NULL, next) /\ EndsIn(Lists[1], next)' = EndsIn(NULL, next)
    BY <1>8 DEF OnList
  <2>3. OnList(Lists[4])' = Reach(s, next) /\ EndsIn(Lists[4], next)' = EndsIn(s, next)
    BY <1>8 DEF OnList
  <2>4. Reach(NULL, next) = {} /\ EndsIn(NULL, next)
    BY <1>0, ListEmpty DEF OnList
  <2>5. EndsIn(s, next)
    BY <1>0, <1>8
  <2> QED
    BY <1>5, <2>1, <2>2, <2>3, <2>4, <2>5 DEF OnList
<1>12. ASSUME NEW k \in 1 .. 5
       PROVE  /\ OnList(Lists[k])' = Changed(p, q, X, <<"list", k>>, OnList(Lists[k]))
              /\ EndsIn(Lists[k], next)'
  <2>1. CASE k = 1
    BY <1>6, <1>9, <2>1 DEF Changed
  <2>2. CASE k = 4
    BY <1>6, <1>9, <2>2 DEF Changed
  <2>3. CASE k # 1 /\ k # 4
    <3>1. Lists[k]' = Lists[k]
      BY <1>8, <2>3
    <3>2. OnList(Lists[k])' = OnList(Lists[k]) /\ EndsIn(Lists[k], next)'
      BY <3>1, MoveFacts
    <3>3. <<"list", k>> # p /\ <<"list", k>> # q
      BY <1>6, <2>3
    <3> QED
      BY <3>2, <3>3 DEF Changed
  <2> QED
    BY <2>1, <2>2, <2>3
<1>13. {blk'[t]} \cap Block = Changed(p, q, X, <<"hand", t>>, {blk[t]} \cap Block)
  BY <1>6 DEF Changed, CollectCas, Forget, words, owned, args
<1>14. live' = Changed(p, q, X, Live, live)
  BY <1>3, <1>4, NamesAre DEF Changed, CollectCas, Forget, words, owned, args
<1>15. Atomic(p, q, X) /\ UsedBy(p, q, X)
  <2>1. used' = used /\ xthread_free'.delayed = xthread_free.delayed
    BY <1>0 DEF CollectCas, Forget, words, owned, args
  <2> QED
    BY <1>6, <2>1 DEF Atomic, UsedBy
<1> QED
  BY <1>6, <1>12, <1>13, <1>14, <1>15, MovesIs

\* And that of the heap.
LEMMA TakeCasMoves ==
  ASSUME Core, NEW t \in Thread, Do(t), t = Owner, TakeCas, thread_delayed_free = dfree[t]
  PROVE  \E p \in Place, q \in Place, X \in SUBSET Block : Moves(p, q, X)
<1>0. /\ /\ pc \in [Thread -> Label] /\ blk \in [Thread -> Link] /\ NULL \notin Block
      /\ next \in [Block -> Link]
      /\ CallLocal(t) /\ ReadLocal(t) /\ Hand(t) = {blk[t]} \cap Block /\ WordTypes' /\ Owner \in Thread
      /\ \A k \in 1 .. 5 : EndsIn(Lists[k], next)
      /\ xthread_free = [block |-> xthread_free.block, delayed |-> xthread_free.delayed]
      /\ tfree[t] = [block |-> tfree[t].block, delayed |-> tfree[t].delayed]
      /\ TypeOK
  BY MoveFacts, WordIs DEF Core
<1>2. PICK s : s = thread_delayed_free
  OBVIOUS
<1>3. PICK p : p = Del
  OBVIOUS
<1>4. PICK q : q = Bat
  OBVIOUS
<1>5. PICK X : X = OnList(s)
  OBVIOUS
<1>6. /\ p \in Place /\ q \in Place /\ p # q /\ X \in SUBSET Block /\ X = At(p)
      /\ q \notin {Thr, Del} /\ p # Loc /\ q # Loc /\ p = <<"list", 2>> /\ q = <<"list", 5>>
      /\ \A u \in Thread : u # t => p # <<"hand", u>> /\ q # <<"hand", u>>
  <2>1. X \in SUBSET Block
    BY <1>0, <1>2, <1>5, ListIs DEF TypeOK, Word
  <2> QED
    BY <1>0, <1>2, <1>3, <1>4, <1>5, <2>1, PlaceIs, NamesAre DEF Del, Bat
<1>7. batch = NULL
  BY <1>0 DEF TakeCas, Core, OwnerHolds, CallLocal
<1>8. /\ Lists[2] = s /\ Lists[2]' = NULL /\ Lists[5] = NULL /\ Lists[5]' = s /\ next' = next
      /\ \A k \in 1 .. 5 : k # 2 /\ k # 5 => Lists[k]' = Lists[k]
  <2>1. thread_delayed_free' = NULL /\ batch' = s /\ next' = next
    BY <1>0, <1>2 DEF TakeCas, Forget, words, owned, args
  <2>2. \A k \in 1 .. 5 : k # 2 /\ k # 5 => Lists[k]' = Lists[k]
    BY <1>0, ListsAre DEF TakeCas, Forget, words, owned, args
  <2> QED
    BY <1>2, <1>7, <2>1, <2>2, ListsAre
<1>9. /\ OnList(Lists[2])' = {} /\ EndsIn(Lists[2], next)' /\ OnList(Lists[5]) = {}
      /\ OnList(Lists[2]) = X /\ OnList(Lists[5])' = X /\ EndsIn(Lists[5], next)'
  <2>1. OnList(Lists[5]) = {} /\ OnList(Lists[2]) = X
    BY <1>0, <1>5, <1>8, ListEmpty
  <2>2. OnList(Lists[2])' = Reach(NULL, next) /\ EndsIn(Lists[2], next)' = EndsIn(NULL, next)
    BY <1>8 DEF OnList
  <2>3. OnList(Lists[5])' = Reach(s, next) /\ EndsIn(Lists[5], next)' = EndsIn(s, next)
    BY <1>8 DEF OnList
  <2>4. Reach(NULL, next) = {} /\ EndsIn(NULL, next)
    BY <1>0, ListEmpty DEF OnList
  <2>5. EndsIn(s, next)
    BY <1>0, <1>8
  <2> QED
    BY <1>5, <2>1, <2>2, <2>3, <2>4, <2>5 DEF OnList
<1>12. ASSUME NEW k \in 1 .. 5
       PROVE  /\ OnList(Lists[k])' = Changed(p, q, X, <<"list", k>>, OnList(Lists[k]))
              /\ EndsIn(Lists[k], next)'
  <2>1. CASE k = 2
    BY <1>6, <1>9, <2>1 DEF Changed
  <2>2. CASE k = 5
    BY <1>6, <1>9, <2>2 DEF Changed
  <2>3. CASE k # 2 /\ k # 5
    <3>1. Lists[k]' = Lists[k]
      BY <1>8, <2>3
    <3>2. OnList(Lists[k])' = OnList(Lists[k]) /\ EndsIn(Lists[k], next)'
      BY <3>1, MoveFacts
    <3>3. <<"list", k>> # p /\ <<"list", k>> # q
      BY <1>6, <2>3
    <3> QED
      BY <3>2, <3>3 DEF Changed
  <2> QED
    BY <2>1, <2>2, <2>3
<1>13. {blk'[t]} \cap Block = Changed(p, q, X, <<"hand", t>>, {blk[t]} \cap Block)
  BY <1>6 DEF Changed, TakeCas, Forget, words, owned, args
<1>14. live' = Changed(p, q, X, Live, live)
  BY <1>3, <1>4, NamesAre DEF Changed, TakeCas, Forget, words, owned, args
<1>15. Atomic(p, q, X) /\ UsedBy(p, q, X)
  <2>1. used' = used /\ xthread_free'.delayed = xthread_free.delayed
    BY <1>0 DEF TakeCas, Forget, words, owned, args
  <2> QED
    BY <1>6, <2>1 DEF Atomic, UsedBy
<1> QED
  BY <1>6, <1>12, <1>13, <1>14, <1>15, MovesIs

\* The owner appends the list that it took to local_free.
LEMMA CollectAppendMoves ==
  ASSUME Core, NEW t \in Thread, Do(t), t = Owner, CollectAppend
  PROVE  \E p \in Place, q \in Place, X \in SUBSET Block : Moves(p, q, X)
<1>0. /\ /\ pc \in [Thread -> Label] /\ blk \in [Thread -> Link] /\ NULL \notin Block
      /\ next \in [Block -> Link]
      /\ CallLocal(t) /\ ReadLocal(t) /\ Hand(t) = {blk[t]} \cap Block /\ WordTypes' /\ Owner \in Thread
      /\ \A k \in 1 .. 5 : EndsIn(Lists[k], next)
      /\ xthread_free = [block |-> xthread_free.block, delayed |-> xthread_free.delayed]
      /\ tfree[t] = [block |-> tfree[t].block, delayed |-> tfree[t].delayed]
      /\ TypeOK
  BY MoveFacts, WordIs DEF Core
<1>2. PICK s : s = local_free
  OBVIOUS
<1>3. PICK h : h = head
  OBVIOUS
<1>4. PICK x : x = CHOOSE y \in OnList(head) : next[y] = NULL
  OBVIOUS
<1>5. x \in OnList(h) /\ x \in Block /\ next[x] = NULL
  <2>1. head # NULL
    BY DEF CollectAppend, Core, OwnerHolds
  <2> QED
    BY <1>3, <1>4, <2>1, TailIs DEF Core
<1>6. /\ next' = [next EXCEPT ![x] = s] /\ local_free' = h /\ used' = used - Cardinality(OnList(h))
      /\ head' = NULL
  BY <1>2, <1>3, <1>4 DEF CollectAppend
<1>7. PICK p : p = Tak
  OBVIOUS
<1>8. PICK q : q = Loc
  OBVIOUS
<1>9. PICK X : X = OnList(h)
  OBVIOUS
<1>10. /\ p \in Place /\ q \in Place /\ p # q /\ X \in SUBSET Block /\ X \subseteq At(p)
       /\ p \notin {Thr, Del} /\ q \notin {Thr, Del} /\ p # Loc /\ p = <<"list", 4>> /\ q = <<"list", 3>>
       /\ \A u \in Thread : u # t => p # <<"hand", u>> /\ q # <<"hand", u>>
  <2>1. X \in SUBSET Block
    BY <1>0, <1>3, <1>9, ListIs DEF TypeOK
  <2> QED
    BY <1>0, <1>3, <1>7, <1>8, <1>9, <2>1, PlaceIs, NamesAre DEF Tak, Loc
<1>11. /\ Lists[3] = s /\ Lists[3]' = h /\ Lists[4] = h /\ Lists[4]' = NULL
       /\ \A k \in 1 .. 5 : k # 3 /\ k # 4 => Lists[k]' = Lists[k]
  <2>1. \A k \in 1 .. 5 : k # 3 /\ k # 4 => Lists[k]' = Lists[k]
    BY ListsAre DEF CollectAppend, words, args
  <2> QED
    BY <1>2, <1>3, <1>6, <2>1, ListsAre
<1>12. /\ OnList(Lists[3])' = OnList(Lists[3]) \cup X /\ EndsIn(Lists[3], next)'
       /\ OnList(Lists[4])' = {} /\ EndsIn(Lists[4], next)' /\ OnList(Lists[4]) = X
  <2>1. DOMAIN next = Block /\ DOMAIN next' = Block
    BY <1>0 DEF WordTypes
  <2>2. x \notin Reach(s, next)
    BY <1>5, <1>11, Apart DEF Core, OnList
  <2>3. EndsIn(s, next) /\ x \in Reach(h, next)
    BY <1>0, <1>5, <1>11 DEF OnList
  <2>4. next'[x] = s /\ \A y \in Block : y # x => next'[y] = next[y]
    BY <1>0, <1>5, <1>6
  <2>5. Reach(h, next') = Reach(h, next) \cup Reach(s, next) /\ EndsIn(h, next')
    BY <1>0, <1>5, <2>1, <2>2, <2>3, <2>4, ReachAppend
  <2>6. /\ OnList(Lists[3])' = Reach(h, next') /\ EndsIn(Lists[3], next)' = EndsIn(h, next')
        /\ OnList(Lists[4])' = OnList(NULL)' /\ EndsIn(Lists[4], next)' = EndsIn(NULL, next)'
    BY <1>11 DEF OnList
  <2>7. OnList(NULL)' = {} /\ EndsIn(NULL, next)'
    BY <1>0, ListEmpty
  <2>8. OnList(Lists[3]) = Reach(s, next) /\ OnList(Lists[4]) = X /\ X = Reach(h, next)
    BY <1>9, <1>11 DEF OnList
  <2> QED
    BY <2>5, <2>6, <2>7, <2>8
<1>13. ASSUME NEW k \in 1 .. 5
       PROVE  /\ OnList(Lists[k])' = Changed(p, q, X, <<"list", k>>, OnList(Lists[k]))
              /\ EndsIn(Lists[k], next)'
  <2>1. CASE k = 3
    BY <1>10, <1>12, <2>1 DEF Changed
  <2>2. CASE k = 4
    BY <1>10, <1>12, <2>2 DEF Changed
  <2>3. CASE k # 3 /\ k # 4
    <3>1. Lists[k]' = Lists[k]
      BY <1>11, <2>3
    <3>2. OnList(Lists[k])' = OnList(Lists[k]) /\ EndsIn(Lists[k], next)'
      BY <3>1, MoveFacts
    <3>3. <<"list", k>> # p /\ <<"list", k>> # q
      BY <1>10, <2>3
    <3> QED
      BY <3>2, <3>3 DEF Changed
  <2> QED
    BY <2>1, <2>2, <2>3
<1>14. {blk'[t]} \cap Block = Changed(p, q, X, <<"hand", t>>, {blk[t]} \cap Block)
  BY <1>10 DEF Changed, CollectAppend
<1>15. live' = Changed(p, q, X, Live, live)
  BY <1>7, <1>8, NamesAre DEF Changed, CollectAppend
<1>16. Atomic(p, q, X) /\ UsedBy(p, q, X)
  BY <1>6, <1>8, <1>9, <1>10 DEF Atomic, UsedBy
<1> QED
  BY <1>10, <1>13, <1>14, <1>15, <1>16, MovesIs

(***************************************************************************)
(* Steps.                                                                  *)
(***************************************************************************)

\* Every step is a move.
LEMMA MoveStep ==
  ASSUME Core, NEW t \in Thread, Do(t)
  PROVE  \E p \in Place, q \in Place, X \in SUBSET Block : Moves(p, q, X)
<1>0. /\ pc \in [Thread -> Label] /\ blk \in [Thread -> Link] /\ Owner \in Thread /\ CallLocal(t)
      /\ xthread_free = [block |-> xthread_free.block, delayed |-> xthread_free.delayed]
      /\ tfree[t] = [block |-> tfree[t].block, delayed |-> tfree[t].delayed]
  BY MoveFacts, WordIs DEF Core
<1>1. CASE FreeRemote(t)
  BY <1>1, FreeRemoteMoves
<1>2. CASE MtRead(t)
  <2>1. /\ blk'[t] = blk[t] /\ xthread_free'.block = xthread_free.block
        /\ thread_delayed_free' = thread_delayed_free /\ local_free' = local_free
        /\ head' = head /\ batch' = batch /\ live' = live /\ used' = used
    BY <1>2, <1>0 DEF MtRead, Goto, Forget, words, owned, args, locals
  <2> QED
    BY <2>1, Quiet
<1>3. CASE MtClaim(t)
  <2>1. /\ blk'[t] = blk[t] /\ xthread_free'.block = xthread_free.block
        /\ thread_delayed_free' = thread_delayed_free /\ local_free' = local_free
        /\ head' = head /\ batch' = batch /\ live' = live /\ used' = used
    BY <1>3, <1>0 DEF MtClaim, Goto, Forget, words, owned, args, locals
  <2> QED
    BY <2>1, Quiet
<1>4. CASE MtLink(t)
  <2>1. /\ blk'[t] = blk[t] /\ xthread_free'.block = xthread_free.block
        /\ thread_delayed_free' = thread_delayed_free /\ local_free' = local_free
        /\ head' = head /\ batch' = batch /\ live' = live /\ used' = used
    BY <1>4, <1>0 DEF MtLink, Goto, Forget, words, owned, args, locals
  <2> QED
    BY <2>1, Quiet
<1>5. CASE MtPush(t)
  <2>1. CASE xthread_free = tfree[t]
    BY <1>5, <2>1, MtPushMoves
  <2>2. CASE ~(xthread_free = tfree[t])
    <3>1. /\ blk'[t] = blk[t] /\ xthread_free'.block = xthread_free.block
          /\ thread_delayed_free' = thread_delayed_free /\ local_free' = local_free
          /\ head' = head /\ batch' = batch /\ live' = live /\ used' = used
      BY <1>5, <1>0, <2>2 DEF MtPush, Goto, Forget, words, owned, args, locals
    <3> QED
      BY <3>1, Quiet
  <2> QED
    BY <2>1, <2>2
<1>6. CASE HeapRead(t)
  <2>1. /\ blk'[t] = blk[t] /\ xthread_free'.block = xthread_free.block
        /\ thread_delayed_free' = thread_delayed_free /\ local_free' = local_free
        /\ head' = head /\ batch' = batch /\ live' = live /\ used' = used
    BY <1>6, <1>0 DEF HeapRead, Goto, Forget, words, owned, args, locals
  <2> QED
    BY <2>1, Quiet
<1>7. CASE HeapLink(t)
  <2>1. /\ blk'[t] = blk[t] /\ xthread_free'.block = xthread_free.block
        /\ thread_delayed_free' = thread_delayed_free /\ local_free' = local_free
        /\ head' = head /\ batch' = batch /\ live' = live /\ used' = used
    BY <1>7, <1>0 DEF HeapLink, Goto, Forget, words, owned, args, locals
  <2> QED
    BY <2>1, Quiet
<1>8. CASE HeapCas(t)
  <2>1. CASE thread_delayed_free = dfree[t]
    BY <1>8, <2>1, HeapCasMoves
  <2>2. CASE ~(thread_delayed_free = dfree[t])
    <3>1. /\ blk'[t] = blk[t] /\ xthread_free'.block = xthread_free.block
          /\ thread_delayed_free' = thread_delayed_free /\ local_free' = local_free
          /\ head' = head /\ batch' = batch /\ live' = live /\ used' = used
      BY <1>8, <1>0, <2>2 DEF HeapCas, Goto, Forget, words, owned, args, locals
    <3> QED
      BY <3>1, Quiet
  <2> QED
    BY <2>1, <2>2
<1>9. CASE ResetRead(t)
  <2>1. /\ blk'[t] = blk[t] /\ xthread_free'.block = xthread_free.block
        /\ thread_delayed_free' = thread_delayed_free /\ local_free' = local_free
        /\ head' = head /\ batch' = batch /\ live' = live /\ used' = used
    BY <1>9, <1>0 DEF ResetRead, Goto, Forget, words, owned, args, locals
  <2> QED
    BY <2>1, Quiet
<1>10. CASE ResetCas(t)
  <2>1. /\ blk'[t] = blk[t] /\ xthread_free'.block = xthread_free.block
        /\ thread_delayed_free' = thread_delayed_free /\ local_free' = local_free
        /\ head' = head /\ batch' = batch /\ live' = live /\ used' = used
    BY <1>10, <1>0 DEF ResetCas, Goto, Forget, words, owned, args, locals
  <2> QED
    BY <2>1, Quiet
<1>11. CASE t = Owner /\ Malloc
  BY <1>11, MallocMoves
<1>12. CASE t = Owner /\ FreeLocal
  BY <1>12, FreeLocalMoves
<1>13. CASE t = Owner /\ UseDelayed
  <2>1. /\ blk'[t] = blk[t] /\ xthread_free'.block = xthread_free.block
        /\ thread_delayed_free' = thread_delayed_free /\ local_free' = local_free
        /\ head' = head /\ batch' = batch /\ live' = live /\ used' = used
    BY <1>13, <1>0 DEF UseDelayed, OwnerIdle, Goto, Forget, words, owned, args, locals
  <2> QED
    BY <2>1, Quiet
<1>14. CASE t = Owner /\ SetRead
  <2>1. /\ blk'[t] = blk[t] /\ xthread_free'.block = xthread_free.block
        /\ thread_delayed_free' = thread_delayed_free /\ local_free' = local_free
        /\ head' = head /\ batch' = batch /\ live' = live /\ used' = used
    BY <1>14, <1>0 DEF SetRead, AfterSet, OwnerIdle, Goto, Forget, words, owned, args, locals
  <2> QED
    BY <2>1, Quiet
<1>15. CASE t = Owner /\ SetCas
  <2>1. /\ blk'[t] = blk[t] /\ xthread_free'.block = xthread_free.block
        /\ thread_delayed_free' = thread_delayed_free /\ local_free' = local_free
        /\ head' = head /\ batch' = batch /\ live' = live /\ used' = used
    BY <1>15, <1>0 DEF SetCas, AfterSet, OwnerIdle, Goto, Forget, words, owned, args, locals
  <2> QED
    BY <2>1, Quiet
<1>16. CASE t = Owner /\ Collect
  <2>1. /\ blk'[t] = blk[t] /\ xthread_free'.block = xthread_free.block
        /\ thread_delayed_free' = thread_delayed_free /\ local_free' = local_free
        /\ head' = head /\ batch' = batch /\ live' = live /\ used' = used
    BY <1>16, <1>0 DEF Collect, OwnerIdle, Goto, Forget, words, owned, args, locals
  <2> QED
    BY <2>1, Quiet
<1>17. CASE t = Owner /\ CollectRead
  <2>1. /\ blk'[t] = blk[t] /\ xthread_free'.block = xthread_free.block
        /\ thread_delayed_free' = thread_delayed_free /\ local_free' = local_free
        /\ head' = head /\ batch' = batch /\ live' = live /\ used' = used
    BY <1>17, <1>0 DEF CollectRead, AfterCollect, OwnerIdle, Goto, Forget, words, owned, args,
       locals
  <2> QED
    BY <2>1, Quiet
<1>18. CASE t = Owner /\ CollectCas
  <2>1. CASE xthread_free = tfree[t]
    BY <1>18, <2>1, CollectCasMoves
  <2>2. CASE ~(xthread_free = tfree[t])
    <3>1. /\ blk'[t] = blk[t] /\ xthread_free'.block = xthread_free.block
          /\ thread_delayed_free' = thread_delayed_free /\ local_free' = local_free
          /\ head' = head /\ batch' = batch /\ live' = live /\ used' = used
      BY <1>18, <1>0, <2>2 DEF CollectCas, OwnerIdle, Goto, Forget, words, owned, args, locals
    <3> QED
      BY <3>1, Quiet
  <2> QED
    BY <2>1, <2>2
<1>19. CASE t = Owner /\ CollectAppend
  BY <1>19, CollectAppendMoves
<1>20. CASE t = Owner /\ TakeRead
  <2>1. /\ blk'[t] = blk[t] /\ xthread_free'.block = xthread_free.block
        /\ thread_delayed_free' = thread_delayed_free /\ local_free' = local_free
        /\ head' = head /\ batch' = batch /\ live' = live /\ used' = used
    BY <1>20, <1>0 DEF TakeRead, OwnerIdle, Goto, Forget, words, owned, args, locals
  <2> QED
    BY <2>1, Quiet
<1>21. CASE t = Owner /\ TakeAgain
  <2>1. /\ blk'[t] = blk[t] /\ xthread_free'.block = xthread_free.block
        /\ thread_delayed_free' = thread_delayed_free /\ local_free' = local_free
        /\ head' = head /\ batch' = batch /\ live' = live /\ used' = used
    BY <1>21, <1>0 DEF TakeAgain, OwnerIdle, Goto, Forget, words, owned, args, locals
  <2> QED
    BY <2>1, Quiet
<1>22. CASE t = Owner /\ TakeCas
  <2>1. CASE thread_delayed_free = dfree[t]
    BY <1>22, <2>1, TakeCasMoves
  <2>2. CASE ~(thread_delayed_free = dfree[t])
    <3>1. /\ blk'[t] = blk[t] /\ xthread_free'.block = xthread_free.block
          /\ thread_delayed_free' = thread_delayed_free /\ local_free' = local_free
          /\ head' = head /\ batch' = batch /\ live' = live /\ used' = used
      BY <1>22, <1>0, <2>2 DEF TakeCas, OwnerIdle, Goto, Forget, words, owned, args, locals
    <3> QED
      BY <3>1, Quiet
  <2> QED
    BY <2>1, <2>2
<1>23. CASE t = Owner /\ DelayedNext
  <2>1. CASE batch # NULL
    BY <1>23, <2>1, DelayedNextMoves
  <2>2. CASE batch = NULL
    <3>1. /\ blk'[t] = blk[t] /\ xthread_free'.block = xthread_free.block
          /\ thread_delayed_free' = thread_delayed_free /\ local_free' = local_free
          /\ head' = head /\ batch' = batch /\ live' = live /\ used' = used
      BY <1>23, <1>0, <2>2 DEF DelayedNext, OwnerIdle, Goto, Forget, words, owned, args, locals
    <3> QED
      BY <3>1, Quiet
  <2> QED
    BY <2>1, <2>2
<1>24. CASE t = Owner /\ DelayedFree
  BY <1>24, DelayedFreeMoves
<1> QED
  BY <1>1, <1>2, <1>3, <1>4, <1>5, <1>6, <1>7, <1>8, <1>9, <1>10, <1>11, <1>12, <1>13, <1>14, <1>15,
     <1>16, <1>17, <1>18, <1>19, <1>20, <1>21, <1>22, <1>23, <1>24 DEF Do, Remote, Own

\* The lists as places after a step.
LEMMA NamesNext ==
  /\ At(Thr)' = OnList(xthread_free.block)' /\ At(Del)' = OnList(thread_delayed_free)'
  /\ At(Loc)' = OnList(local_free)'
BY DEF At, Thr, Del, Loc, Lists

\* used counts after a step.
LEMMA CountedStep ==
  ASSUME Inv, NEW t \in Thread, Do(t)
  PROVE  Counted' /\ used' \in 0 .. Cardinality(Block)
<1>1. PICK p \in Place, q \in Place, X \in SUBSET Block : Moves(p, q, X)
  BY MoveStep DEF Inv, Core
<1>2. PICK L : L = At(Loc)
  OBVIOUS
<1>3. PICK M : M = At(Loc)'
  OBVIOUS
<1>4. M = IF Loc = p THEN L \ X ELSE IF Loc = q THEN L \cup X ELSE L
  BY <1>1, <1>2, <1>3, NamesAre DEF Moves, Moved
<1>5. L \subseteq Block /\ IsFiniteSet(L) /\ IsFiniteSet(X) /\ IsFiniteSet(Block) /\ p # q
  <2>1. L \subseteq Block
    BY <1>2, NamesAre, ListIs DEF Inv, TypeOK
  <2> QED
    BY <1>1, <2>1, BlockAssumption, FS_Subset DEF Moves
<1>6. /\ Cardinality(L) \in Nat /\ Cardinality(X) \in Nat /\ Cardinality(Block) \in Nat
      /\ used = Cardinality(Block) - Cardinality(L)
  BY <1>2, <1>5, NamesAre, FS_CardinalityType DEF Inv, Counted
<1>7. used' = Cardinality(Block) - Cardinality(M)
  <2>1. CASE p = Loc
    <3>1. M = L \ X /\ X \subseteq L
      BY <1>1, <1>2, <1>4, <2>1 DEF Moves
    <3>2. Cardinality(M) = Cardinality(L) - Cardinality(X)
      <4>1. L \cap X = X
        BY <3>1
      <4>2. Cardinality(L \ X) = Cardinality(L) - Cardinality(L \cap X)
        BY <1>5, FS_Difference
      <4> QED
        BY <3>1, <4>1, <4>2
    <3>3. used' = used + Cardinality(X)
      BY <1>1, <2>1 DEF Moves, UsedBy
    <3> QED
      BY <1>6, <3>2, <3>3
  <2>2. CASE q = Loc
    <3>1. M = L \cup X
      BY <1>4, <1>5, <2>2
    <3>2. L \cap X = {}
      BY <1>1, <1>2, <1>5, <2>2 DEF Moves, Inv, OnePlace
    <3>3. Cardinality(M) = Cardinality(L) + Cardinality(X)
      <4>1. Cardinality(L \cup X) = Cardinality(L) + Cardinality(X) - Cardinality(L \cap X)
        BY <1>5, FS_Union
      <4>2. Cardinality(L \cap X) = 0
        BY <3>2, FS_EmptySet
      <4> QED
        BY <1>6, <3>1, <4>1, <4>2
    <3>4. used' = used - Cardinality(X)
      BY <1>1, <2>2 DEF Moves, UsedBy
    <3> QED
      BY <1>6, <3>3, <3>4
  <2>3. CASE p # Loc /\ q # Loc
    <3>1. M = L /\ used' = used
      BY <1>1, <1>4, <2>3 DEF Moves, UsedBy
    <3> QED
      BY <1>6, <3>1
  <2> QED
    BY <2>1, <2>2, <2>3
<1>8. Counted'
  <2>1. Counted' <=> used' = Cardinality(Block) - Cardinality(OnList(local_free)')
    BY DEF Counted
  <2> QED
    BY <1>3, <1>7, <2>1, NamesNext
<1>9. M \subseteq Block
  BY <1>4, <1>5
<1>10. Cardinality(M) \in Nat /\ Cardinality(M) <= Cardinality(Block)
  BY <1>5, <1>9, FS_Subset, FS_CardinalityType
<1>11. used' \in 0 .. Cardinality(Block)
  BY <1>6, <1>7, <1>10
<1> QED
  BY <1>8, <1>11

\* A step keeps the invariant.
LEMMA InvStep ==
  ASSUME Inv, NEW t \in Thread, Do(t)
  PROVE  Inv'
<1>1. PICK p \in Place, q \in Place, X \in SUBSET Block : Moves(p, q, X)
  BY MoveStep DEF Inv, Core
<1>2. OnePlace' /\ ListsEnd'
  BY <1>1, MovedApart DEF Moves, Inv
<1>3. TypeOK'
  <2>1. WordTypes' /\ CallTypes' /\ used' \in 0 .. Cardinality(Block)
    BY WordStep, CallStep, CountedStep DEF Inv
  <2> QED
    BY <2>1 DEF TypeOK, WordTypes, CallTypes
<1>4. Locals' /\ OwnerHolds' /\ Lock' /\ Counted'
  BY LocalsStep, OwnerHoldsStep, LockStep, CountedStep DEF Inv
<1> QED
  BY <1>2, <1>3, <1>4 DEF Inv

\* Every step is one of a thread.
LEMMA NextDo ==
  ASSUME Next
  PROVE  \E t \in Thread : Do(t)
BY OwnerAssumption DEF Next, Do

\* A stuttering step keeps the invariant.
LEMMA StutterKeeps ==
  ASSUME Inv, UNCHANGED vars
  PROVE  Inv'
<1> USE DEF vars, words, owned, locals, args
<1>1. TypeOK'
  BY DEF Inv, TypeOK
<1>2. Lists' = Lists /\ next' = next /\ live' = live /\ pc' = pc /\ blk' = blk
  BY DEF Lists
<1>3. ListsEnd'
  BY <1>2 DEF Inv, ListsEnd
<1>4. \A p \in Place : At(p)' = At(p)
  BY <1>2 DEF At, Hand, OnList
<1>5. OnePlace'
  BY <1>4 DEF Inv, OnePlace
<1>6. Locals'
  BY DEF Inv, Locals, CallLocal, ReadLocal
<1>7. OwnerHolds' /\ Lock'
  BY DEF Inv, OwnerHolds, Lock
<1>8. Counted'
  BY DEF Inv, Counted, OnList
<1> QED
  BY <1>1, <1>3, <1>5, <1>6, <1>7, <1>8 DEF Inv

\* The invariant holds initially.
LEMMA InitInv ==
  ASSUME Init
  PROVE  Inv
<1>0. IsFiniteSet(Block) /\ NULL \notin Block /\ Owner \in Thread /\ Cardinality(Block) \in Nat
  BY BlockAssumption, OwnerAssumption, FS_CardinalityType
<1>1. TypeOK
  <2>1. /\ Zero \in Word /\ NULL \in Link /\ used \in 0 .. Cardinality(Block)
    BY <1>0 DEF Init, Zero, Word, Link, Flag
  <2> QED
    BY <2>1 DEF Init, TypeOK, Label, Zero, Link
<1>2. \A k \in 1 .. 5 : Lists[k] = NULL
  BY ListsAre DEF Init, Zero
<1>3. OnList(NULL) = {} /\ EndsIn(NULL, next)
  BY <1>1, ListEmpty
<1>4. ListsEnd
  BY <1>2, <1>3 DEF ListsEnd
<1>5. \A t \in Thread : Hand(t) = {}
  BY DEF Init, Hand, HandLabel
<1>6. \A p \in Place : p # Live => At(p) = {}
  BY <1>2, <1>3, <1>5, PlaceIs
<1>7. At(Live) = Block /\ Live \in Place
  BY PlaceIs DEF Init
<1>8. OnePlace
  BY <1>6, <1>7 DEF OnePlace
<1>9. Locals
  BY DEF Init, Locals, CallLocal, ReadLocal, MtLabel, HeapLabel, ResetLabel
<1>10. OwnerHolds /\ Lock
  BY <1>0 DEF Init, OwnerHolds, Lock, FreeingLabel, HeapLabel, ResetLabel
<1>11. Counted
  <2>1. Cardinality(OnList(local_free)) = 0
    BY <1>3, FS_EmptySet DEF Init
  <2> QED
    BY <1>0, <2>1 DEF Init, Counted
<1> QED
  BY <1>1, <1>4, <1>8, <1>9, <1>10, <1>11 DEF Inv

(***************************************************************************)
(* Theorems.                                                               *)
(***************************************************************************)

\* The lists of the page and of the heap: Inv is an invariant, so every block is
\* with the program, in the hands of one thread that frees it (alloc.c
\* _mi_free_block_mt) or on one list, whatever the threads interleave.
THEOREM BlockInvariant == Spec => []Inv
<1>1. Init => Inv
  BY InitInv
<1>2. Inv /\ [Next]_vars => Inv'
  BY InvStep, StutterKeeps, NextDo
<1> QED
  BY <1>1, <1>2, PTL DEF Spec

\* Every variable has its type; used stays between 0 and the capacity.
THEOREM BlockTypes == Spec => []TypeOK
<1>1. Inv => TypeOK
  BY DEF Inv
<1> QED
  BY BlockInvariant, <1>1, PTL

\* A block is counted once.
LEMMA OneCount ==
  ASSUME Inv, NEW b \in Block, NEW A, NEW B, NEW c,
         A = {i \in DOMAIN Lists : b \in OnList(Lists[i])},
         B = {t \in Thread : blk[t] = b /\ pc[t] \in HandLabel},
         c = IF b \in live THEN 1 ELSE 0
  PROVE  Cardinality(A) + Cardinality(B) + c = 1
<1>1. /\ \A i : i \in A <=> i \in 1 .. 5 /\ b \in OnList(Lists[i])
      /\ \A t : t \in B <=> t \in Thread /\ b \in Hand(t)
  <2>1. \A i : i \in A <=> i \in 1 .. 5 /\ b \in OnList(Lists[i])
    BY ListsAre
  <2>2. \A t : t \in B <=> t \in Thread /\ b \in Hand(t)
    BY DEF Hand
  <2> QED
    BY <2>1, <2>2
<1>2. PICK r \in Place : b \in At(r)
  BY DEF Inv, OnePlace
<1>3. /\ \A t \in Thread, u \in Thread : b \in Hand(t) /\ b \in Hand(u) => t = u
      /\ \A k \in 1 .. 5, j \in 1 .. 5 : b \in OnList(Lists[k]) /\ b \in OnList(Lists[j]) => k = j
      /\ \A t \in Thread : b \in Hand(t) => b \notin live /\ \A k \in 1 .. 5 : b \notin OnList(Lists[k])
      /\ \A k \in 1 .. 5 : b \in OnList(Lists[k]) => b \notin live
  BY Apart DEF Inv
<1>4. Cardinality({}) = 0 /\ \A e : Cardinality({e}) = 1
  BY FS_EmptySet, FS_Singleton
<1>5. CASE \E t \in Thread : r = <<"hand", t>>
  <2>1. PICK t \in Thread : b \in Hand(t)
    BY <1>2, <1>5, PlaceIs
  <2>2. A = {} /\ B = {t} /\ c = 0
    BY <1>1, <1>3, <2>1
  <2>3. Cardinality(A) = 0 /\ Cardinality(B) = 1
    BY <1>4, <2>2
  <2> QED
    BY <2>2, <2>3
<1>6. CASE \E k \in 1 .. 5 : r = <<"list", k>>
  <2>1. PICK k \in 1 .. 5 : b \in OnList(Lists[k])
    BY <1>2, <1>6, PlaceIs
  <2>2. A = {k} /\ B = {} /\ c = 0
    BY <1>1, <1>3, <2>1
  <2>3. Cardinality(A) = 1 /\ Cardinality(B) = 0
    BY <1>4, <2>2
  <2> QED
    BY <2>2, <2>3
<1>7. CASE r = Live
  <2>1. b \in live
    BY <1>2, <1>7, PlaceIs
  <2>2. A = {} /\ B = {} /\ c = 1
    BY <1>1, <1>3, <2>1
  <2>3. Cardinality(A) = 0 /\ Cardinality(B) = 0
    BY <1>4, <2>2
  <2> QED
    BY <2>2, <2>3
<1> QED
  BY <1>5, <1>6, <1>7, PlaceIs

\* Although the lists share the blocks' next field, none loses or doubles a
\* block, none gets a cycle, and used counts what is not on local_free: the
\* "corrupted thread-free list" error (page.c:178) is never reported.
THEOREM BlockListsWhole == Spec => []BlockListsIntact
<1>1. ASSUME Inv
      PROVE  BlockListsIntact
  <2>1. \A i \in DOMAIN Lists : EndsIn(Lists[i], next)
    BY <1>1, ListsAre DEF Inv, ListsEnd
  <2>2. \A b \in Block :
         Cardinality({i \in DOMAIN Lists : b \in OnList(Lists[i])})
       + Cardinality({t \in Thread : blk[t] = b /\ pc[t] \in HandLabel})
       + (IF b \in live THEN 1 ELSE 0) = 1
    BY <1>1, OneCount
  <2>3. used = Cardinality(Block) - Cardinality(OnList(local_free))
    BY <1>1 DEF Inv, Counted
  <2> QED
    BY <2>1, <2>2, <2>3 DEF BlockListsIntact
<1> QED
  BY BlockInvariant, <1>1, PTL

\* A step of a thread is an atomic change of the sets of blocks, or none.
LEMMA SetsStep ==
  ASSUME Inv, NEW t \in Thread, Do(t)
  PROVE  Sets!BNext \/ UNCHANGED <<xthread_free.delayed, OnList(xthread_free.block), OnList(thread_delayed_free)>>
<1>1. PICK p \in Place, q \in Place, X \in SUBSET Block : Moves(p, q, X)
  BY MoveStep DEF Inv, Core
<1>2. /\ At(Thr)' = IF Thr = p THEN At(Thr) \ X ELSE IF Thr = q THEN At(Thr) \cup X ELSE At(Thr)
      /\ At(Del)' = IF Del = p THEN At(Del) \ X ELSE IF Del = q THEN At(Del) \cup X ELSE At(Del)
  BY <1>1, NamesAre DEF Moves, Moved
<1>3. /\ At(Thr) = OnList(xthread_free.block) /\ At(Del) = OnList(thread_delayed_free)
      /\ At(Thr)' = OnList(xthread_free.block)' /\ At(Del)' = OnList(thread_delayed_free)'
      /\ Thr # Del /\ p # q /\ X \subseteq At(p) /\ Atomic(p, q, X) /\ Thr \in Place /\ Del \in Place
  BY <1>1, NamesAre, NamesNext DEF Moves
<1>4. q \in Place => At(p) \cap At(q) = {}
  BY <1>1, <1>3 DEF Inv, OnePlace
<1>5. CASE p = Thr
  <2>1. At(Thr)' = {} /\ At(Del)' = At(Del) /\ xthread_free'.delayed = xthread_free.delayed
    BY <1>2, <1>3, <1>5 DEF Atomic
  <2> QED
    BY <1>3, <2>1 DEF Sets!BNext, Sets!Take
<1>6. CASE p = Del
  <2>1. At(Del)' = {} /\ At(Thr)' = At(Thr) /\ xthread_free'.delayed = xthread_free.delayed
    BY <1>2, <1>3, <1>6 DEF Atomic
  <2> QED
    BY <1>3, <2>1 DEF Sets!BNext, Sets!TakeDelayed
<1>7. CASE p \notin {Thr, Del} /\ q = Thr
  <2>1. PICK b \in Block : X = {b}
    BY <1>3, <1>7 DEF Atomic
  <2>2. /\ At(Thr)' = At(Thr) \cup {b} /\ b \notin At(Thr) /\ At(Del)' = At(Del)
        /\ xthread_free.delayed # USE_DELAYED_FREE /\ xthread_free'.delayed = xthread_free.delayed
    BY <1>1, <1>2, <1>3, <1>4, <1>7, <2>1 DEF Atomic
  <2> QED
    BY <1>3, <2>2 DEF Sets!BNext, Sets!Push
<1>8. CASE p \notin {Thr, Del} /\ q = Del
  <2>1. PICK b \in Block : X = {b}
    BY <1>3, <1>8 DEF Atomic
  <2>2. /\ At(Del)' = At(Del) \cup {b} /\ b \notin At(Del) /\ At(Thr)' = At(Thr)
        /\ xthread_free.delayed = DELAYED_FREEING /\ xthread_free'.delayed = xthread_free.delayed
    BY <1>1, <1>2, <1>3, <1>4, <1>8, <2>1 DEF Atomic
  <2> QED
    BY <1>3, <2>2 DEF Sets!BNext, Sets!Delay
<1>9. CASE p \notin {Thr, Del} /\ q \notin {Thr, Del}
  <2>1. At(Thr)' = At(Thr) /\ At(Del)' = At(Del)
    BY <1>2, <1>9
  <2>2. UNCHANGED <<OnList(xthread_free.block), OnList(thread_delayed_free)>>
    BY <1>3, <2>1
  <2>3. FlagSame(t) \/ FlagClaim \/ FlagReset(t) \/ FlagSet(t)
    BY FlagStep DEF Inv
  <2>4. CASE FlagSame(t)
    BY <2>2, <2>4 DEF FlagSame
  <2>5. CASE FlagClaim
    BY <2>2, <2>5 DEF FlagClaim, Sets!BNext, Sets!Claim
  <2>6. CASE FlagReset(t)
    BY <2>2, <2>6 DEF FlagReset, Sets!BNext, Sets!Reset
  <2>7. CASE FlagSet(t)
    BY <2>2, <2>7 DEF FlagSet, Sets!BNext, Sets!Set
  <2> QED
    BY <2>3, <2>4, <2>5, <2>6, <2>7
<1> QED
  BY <1>5, <1>6, <1>7, <1>8, <1>9

\* The compare-and-swap loops implement the atomic steps of module ThreadFree: the
\* flag and the list of the page change together, a block is pushed on the list
\* of the heap only by the thread that set DELAYED_FREEING, and each list is taken
\* as a whole.
THEOREM SetsImplemented == Spec => ImplementsSets
<1>1. Init => Sets!BInit
  <2>1. ASSUME Init
        PROVE  /\ xthread_free.delayed = "use" /\ OnList(xthread_free.block) = {}
               /\ OnList(thread_delayed_free) = {}
    <3>1. TypeOK
      BY <2>1, InitInv DEF Inv
    <3> QED
      BY <2>1, <3>1, ListEmpty DEF Init, Zero
  <2> QED
    BY <2>1 DEF Sets!BInit
<1>2. Inv /\ [Next]_vars
        => [Sets!BNext]_<<xthread_free.delayed, OnList(xthread_free.block), OnList(thread_delayed_free)>>
  <2>1. ASSUME Inv, UNCHANGED vars
        PROVE  UNCHANGED <<xthread_free.delayed, OnList(xthread_free.block), OnList(thread_delayed_free)>>
    BY <2>1 DEF vars, words, OnList
  <2> QED
    BY <2>1, SetsStep, NextDo
<1> QED
  BY BlockInvariant, <1>1, <1>2, PTL DEF Spec, ImplementsSets, Sets!BSpec
===============================================================================
