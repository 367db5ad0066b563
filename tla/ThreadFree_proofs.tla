-------------------------- MODULE ThreadFree_proofs --------------------------
(***************************************************************************)
(* Theorems about ThreadFree for every set of threads, pages and blocks.   *)
(*                                                                         *)
(* The types and the flag first.  Then the blocks, pages and flags as long *)
(* as no released page is handed out again (Reuse = FALSE; with it         *)
(* mi_page_init finds the page unclean, see ThreadFree_reuse); and that    *)
(* ThreadFree implements Allocator: four actions return a block to         *)
(* mi_malloc, two start a free, two end one, and all others leave the      *)
(* status of every block as it is.                                         *)
(***************************************************************************)
EXTENDS ThreadFree, FiniteSetTheorems, TLAPS

USE DEF Flag, Place, Goal, Label, USE_DELAYED_FREE, DELAYED_FREEING,
        NO_DELAYED_FREE, NEVER_DELAYED_FREE

\* The initial state of the pages, heaps and threads is typed.
LEMMA TypeInit == Init => TypeOK
  BY ThreadAssumption DEF Init, TypeOK, PageType, ThreadType

\* What a collect computes has the type of the fields it is stored in.
LEMMA CollectType ==
  ASSUME TypeOK, NEW p \in Page, NEW force \in BOOLEAN
  PROVE  /\ CollectedFree(p, force) \in SUBSET Block
         /\ CollectedLocal(p, force) \in SUBSET Block
         /\ CollectedUsed(p) \in Int
<1>1. thread_free[p] \in SUBSET Block /\ used[p] \in Int
  BY DEF TypeOK, PageType
<1>2. Cardinality(thread_free[p]) \in Nat
  BY <1>1, BlockAssumption, FS_Subset, FS_CardinalityType
<1>3. QED
  BY <1>1, <1>2 DEF TypeOK, PageType, CollectedFree, CollectedLocal, CollectedUsed, Pending

\* _mi_page_free_collect keeps the types of the fields it changes.
LEMMA CollectStep ==
  ASSUME TypeOK, NEW p \in Page, NEW force \in BOOLEAN, Collect(p, force)
  PROVE  /\ thread_free' \in [Page -> SUBSET Block]
         /\ free' \in [Page -> SUBSET Block]
         /\ local_free' \in [Page -> SUBSET Block]
         /\ used' \in [Page -> Int]
  BY CollectType DEF TypeOK, PageType, Collect, EmptyThreadFree

\* _mi_page_free keeps the types of the fields it changes.
LEMMA PageFreeType ==
  ASSUME TypeOK, NEW p \in Page, PageFree(p)
  PROVE  /\ xheap' \in [Page -> Thread \cup {NULL}]
         /\ capacity' \in [Page -> SUBSET Block]
         /\ place' \in [Page -> Place]
         /\ retired' \in [Page -> BOOLEAN]
  BY DEF TypeOK, PageType, PageFree

\* _mi_free_block by the owner keeps the types of the fields it changes.
LEMMA LocalFreeType ==
  ASSUME TypeOK, NEW t \in Thread, NEW p \in Page, NEW b \in Block,
         NEW f \in SUBSET Block, NEW l \in SUBSET Block, NEW u \in Int,
         LocalFree(t, p, b, f, l, u)
  PROVE  /\ free' \in [Page -> SUBSET Block]
         /\ local_free' \in [Page -> SUBSET Block]
         /\ used' \in [Page -> Int]
         /\ xheap' \in [Page -> Thread \cup {NULL}]
         /\ capacity' \in [Page -> SUBSET Block]
         /\ place' \in [Page -> Place]
         /\ retired' \in [Page -> BOOLEAN]
         /\ visits' \in [Page -> Nat]
<1>1. free' \in [Page -> SUBSET Block] /\ local_free' \in [Page -> SUBSET Block]
      /\ used' \in [Page -> Int] /\ visits' \in [Page -> Nat]
  BY DEF TypeOK, PageType, LocalFree
<1>2. CASE PageFree(p)
  BY <1>1, <1>2, PageFreeType
<1>3. CASE ~PageFree(p)
  BY <1>1, <1>3 DEF TypeOK, PageType, LocalFree
<1>4. QED BY <1>2, <1>3

\* Wherever a round without a page goes on, the thread's variables are typed.
LEMMA NoPageType ==
  ASSUME TypeOK, NEW t \in Thread, NoPage(t)
  PROVE  ThreadType'
<1>1. CASE round[t] \in {1, 3}
  BY <1>1 DEF TypeOK, ThreadType, NoPage, Queue, Goto, Return
<1>2. CASE round[t] = 2
  BY <1>2 DEF TypeOK, ThreadType, NoPage, Goto, Return
<1>3. CASE round[t] = 4
  BY <1>3 DEF TypeOK, ThreadType, NoPage, Return
<1>4. QED BY <1>1, <1>2, <1>3 DEF NoPage

\* Every action keeps the types.
LEMMA TypeStep == TypeOK /\ [Next]_vars => TypeOK'
<1> SUFFICES ASSUME TypeOK, [Next]_vars PROVE TypeOK'
  OBVIOUS
<1> USE ThreadAssumption, PageAssumption, BlockAssumption, BoundAssumption
<1>0. CASE UNCHANGED vars
  BY <1>0 DEF TypeOK, PageType, ThreadType, vars, atomics, fields, control
<1>1. ASSUME NEW t \in Thread, MallocFast(t) PROVE TypeOK'
  <2>1. PageType'
    BY <1>1 DEF TypeOK, PageType, ThreadType, MallocFast, PopBlock, Queue, atomics, control
  <2>2. ThreadType'
    BY <1>1 DEF TypeOK, ThreadType, MallocFast, PopBlock, Queue, atomics, control
  <2> QED BY <2>1, <2>2 DEF TypeOK
<1>2. ASSUME NEW t \in Thread, MallocGeneric(t) PROVE TypeOK'
  <2>1. PageType'
    BY <1>2 DEF TypeOK, PageType, ThreadType, MallocGeneric, Goto, atomics, fields
  <2>2. ThreadType'
    BY <1>2 DEF TypeOK, ThreadType, MallocGeneric, Goto, atomics, fields
  <2> QED BY <2>1, <2>2 DEF TypeOK
<1>3. ASSUME NEW t \in Thread, TakeDelayed(t) PROVE TypeOK'
  <2>1. PageType'
    BY <1>3 DEF TypeOK, PageType, ThreadType, TakeDelayed, Goto, fields
  <2>2. ThreadType'
    BY <1>3 DEF TypeOK, PageType, ThreadType, TakeDelayed, Goto, fields
  <2> QED BY <2>1, <2>2 DEF TypeOK
<1>4. ASSUME NEW t \in Thread, DelayedUse(t) PROVE TypeOK'
  <2>1. PageType'
    BY <1>4 DEF TypeOK, PageType, ThreadType, DelayedUse, SetDelayed, Goto, fields
  <2>2. ThreadType'
    BY <1>4 DEF TypeOK, ThreadType, DelayedUse, SetDelayed, Goto, fields
  <2> QED BY <2>1, <2>2 DEF TypeOK
<1>5. ASSUME NEW t \in Thread, DelayedFree(t) PROVE TypeOK'
  <2>1. PageType'
    <3> DEFINE p == PageOf[blk[t]]
    <3>1. blk[t] \in Block /\ p \in Page
      BY <1>5 DEF TypeOK, ThreadType, DelayedFree
    <3>2. LocalFree(t, p, blk[t], CollectedFree(p, FALSE),
                    CollectedLocal(p, FALSE), CollectedUsed(p))
      BY <1>5 DEF DelayedFree
    <3>3. thread_free' \in [Page -> SUBSET Block]
      BY <1>5 DEF DelayedFree, EmptyThreadFree, TypeOK, PageType
    <3> HIDE DEF p
    <3>4. QED
      BY <1>5, <3>1, <3>2, <3>3, CollectType, LocalFreeType DEF DelayedFree, TypeOK, PageType
  <2>2. ThreadType'
    BY <1>5 DEF TypeOK, ThreadType, DelayedFree, LocalFree, PageFree, EmptyThreadFree, Goto
  <2> QED BY <2>1, <2>2 DEF TypeOK
<1>6. ASSUME NEW t \in Thread, DelayedDone(t) PROVE TypeOK'
  <2>1. PageType'
    BY <1>6 DEF TypeOK, PageType, ThreadType, DelayedDone, Goto, atomics, fields, Queue
  <2>2. ThreadType'
    BY <1>6 DEF TypeOK, ThreadType, DelayedDone, Goto, atomics, fields, Queue
  <2> QED BY <2>1, <2>2 DEF TypeOK
<1>7. ASSUME NEW t \in Thread, FindAvailable(t) PROVE TypeOK'
  <2>1. PageType'
    <3>1. PICK p \in todo[t] : \E b \in CollectedFree(p, FALSE) :
            /\ EmptyThreadFree(p)
            /\ local_free' = [local_free EXCEPT ![p] = CollectedLocal(p, FALSE)]
            /\ PopBlock(p, b, CollectedFree(p, FALSE), CollectedUsed(p))
            /\ retired' = [retired EXCEPT ![p] = FALSE]
      BY <1>7 DEF FindAvailable
    <3>2. p \in Page
      BY DEF TypeOK, ThreadType
    <3> DEFINE f == CollectedFree(p, FALSE)
               l == CollectedLocal(p, FALSE)
               u == CollectedUsed(p)
    <3>3. f \in SUBSET Block /\ l \in SUBSET Block /\ u \in Int
      BY <3>2, CollectType
    <3>4. PICK b \in f : PopBlock(p, b, f, u)
      BY <3>1
    <3>5. local_free' = [local_free EXCEPT ![p] = l]
      BY <3>1
    <3> HIDE DEF f, l, u
    <3>6. /\ free' \in [Page -> SUBSET Block]
          /\ used' \in [Page -> Int]
          /\ live' \in SUBSET Block
      BY <3>2, <3>3, <3>4 DEF PopBlock, TypeOK, PageType
    <3>7. local_free' \in [Page -> SUBSET Block]
      BY <3>2, <3>3, <3>5 DEF TypeOK, PageType
    <3>8. /\ thread_free' \in [Page -> SUBSET Block]
          /\ retired' \in [Page -> BOOLEAN]
      BY <3>1, <3>2 DEF EmptyThreadFree, TypeOK, PageType
    <3>9. QED
      BY <1>7, <3>6, <3>7, <3>8 DEF FindAvailable, TypeOK, PageType
  <2>2. ThreadType'
    BY <1>7 DEF TypeOK, ThreadType, FindAvailable, EmptyThreadFree, PopBlock, Return
  <2> QED BY <2>1, <2>2 DEF TypeOK
<1>8. ASSUME NEW t \in Thread, FindExtend(t) PROVE TypeOK'
  <2>1. PageType'
    BY <1>8 DEF TypeOK, PageType, ThreadType, FindExtend, CollectedFree, Extensions, Reserved, PopBlock, Return, atomics
  <2>2. ThreadType'
    BY <1>8 DEF TypeOK, ThreadType, FindExtend, CollectedFree, Extensions, Reserved, PopBlock, Return, atomics
  <2> QED BY <2>1, <2>2 DEF TypeOK
<1>9. ASSUME NEW t \in Thread, FindFull(t) PROVE TypeOK'
  <2>1. PageType'
    BY <1>9 DEF TypeOK, PageType, ThreadType, FindFull, Goto, atomics
  <2>2. ThreadType'
    BY <1>9 DEF TypeOK, ThreadType, FindFull, Goto, atomics
  <2> QED BY <2>1, <2>2 DEF TypeOK
<1>10. ASSUME NEW t \in Thread, ToFull(t) PROVE TypeOK'
  <2>1. PageType'
    BY <1>10, CollectType DEF TypeOK, PageType, ThreadType, ToFull, Collect, EmptyThreadFree, Goto
  <2>2. ThreadType'
    BY <1>10 DEF TypeOK, ThreadType, ToFull, Collect, EmptyThreadFree, Goto
  <2> QED BY <2>1, <2>2 DEF TypeOK
<1>11. ASSUME NEW t \in Thread, FindNone(t) PROVE TypeOK'
  <2>1. PageType'
    BY <1>11 DEF TypeOK, PageType, ThreadType, FindNone, Goto, atomics, fields
  <2>2. ThreadType'
    BY <1>11 DEF TypeOK, ThreadType, FindNone, Goto, atomics, fields
  <2> QED BY <2>1, <2>2 DEF TypeOK
<1>12. ASSUME NEW t \in Thread, CollectRetired(t) PROVE TypeOK'
  <2>1. PageType'
    <3>1. CASE \E p \in Queue(t) : PageFree(p)
      BY <1>12, <3>1, PageFreeType DEF CollectRetired, Queue, TypeOK, PageType
    <3>2. CASE ~ \E p \in Queue(t) : PageFree(p)
      BY <1>12, <3>2 DEF CollectRetired, Queue, TypeOK, PageType
    <3> QED BY <3>1, <3>2
  <2>2. ThreadType'
    BY <1>12 DEF TypeOK, ThreadType, CollectRetired, PageFree, HeapPages, Goto
  <2> QED BY <2>1, <2>2 DEF TypeOK
<1>13. ASSUME NEW t \in Thread, PopAbandoned(t) PROVE TypeOK'
  <2>1. PageType'
    BY <1>13 DEF TypeOK, PageType, ThreadType, PopAbandoned, Abandoned, Goto, atomics
  <2>2. ThreadType'
    BY <1>13 DEF TypeOK, ThreadType, PopAbandoned, Abandoned, Goto, atomics
  <2> QED BY <2>1, <2>2 DEF TypeOK
<1>14. ASSUME NEW t \in Thread, CheckFree(t) PROVE TypeOK'
  <2>1. PageType'
    <3>1. pg[t] \in Page
      BY <1>14 DEF TypeOK, ThreadType, CheckFree
    <3>2. Collect(pg[t], FALSE)
      BY <1>14 DEF CheckFree
    <3>3. place' \in [Page -> Place]
      BY <1>14, <3>1 DEF TypeOK, PageType, CheckFree
    <3> QED
      BY <1>14, <3>1, <3>2, <3>3, CollectStep DEF TypeOK, PageType, CheckFree
  <2>2. ThreadType'
    BY <1>14 DEF TypeOK, ThreadType, CheckFree, Collect, EmptyThreadFree, Goto
  <2> QED BY <2>1, <2>2 DEF TypeOK
<1>15. ASSUME NEW t \in Thread, Reclaim(t) PROVE TypeOK'
  <2>1. PageType'
    BY <1>15 DEF TypeOK, PageType, ThreadType, Reclaim, Goto
  <2>2. ThreadType'
    BY <1>15 DEF TypeOK, ThreadType, Reclaim, Goto
  <2> QED BY <2>1, <2>2 DEF TypeOK
<1>16. ASSUME NEW t \in Thread, ReclaimUse(t) PROVE TypeOK'
  <2>1. PageType'
    BY <1>16 DEF TypeOK, PageType, ThreadType, ReclaimUse, SetDelayed, Goto, fields
  <2>2. ThreadType'
    BY <1>16 DEF TypeOK, ThreadType, ReclaimUse, SetDelayed, Goto, fields
  <2> QED BY <2>1, <2>2 DEF TypeOK
<1>17. ASSUME NEW t \in Thread, ReclaimCollect(t) PROVE TypeOK'
  <2>1. PageType'
    <3>1. pg[t] \in Page
      BY <1>17 DEF TypeOK, ThreadType, ReclaimCollect
    <3>2. Collect(pg[t], FALSE)
      BY <1>17 DEF ReclaimCollect
    <3>3. place' \in [Page -> Place] /\ capacity' \in [Page -> SUBSET Block]
      BY <1>17, <3>1 DEF TypeOK, PageType, ReclaimCollect
    <3> QED
      BY <1>17, <3>1, <3>2, <3>3, CollectStep DEF TypeOK, PageType, ReclaimCollect
  <2>2. ThreadType'
    <3>1. CASE NoPage(t)
      BY <3>1, NoPageType
    <3>2. CASE ~NoPage(t)
      BY <1>17, <3>2 DEF TypeOK, ThreadType, ReclaimCollect, Goto
    <3> QED BY <3>1, <3>2
  <2> QED BY <2>1, <2>2 DEF TypeOK
<1>18. ASSUME NEW t \in Thread, FreshPage(t) PROVE TypeOK'
  <2>1. PageType'
    BY <1>18 DEF TypeOK, PageType, ThreadType, FreshPage, Extensions, Reserved, PopBlock, Return
  <2>2. ThreadType'
    BY <1>18 DEF TypeOK, ThreadType, FreshPage, Extensions, Reserved, PopBlock, Return
  <2> QED BY <2>1, <2>2 DEF TypeOK
<1>19. ASSUME NEW t \in Thread, FreshFails(t) PROVE TypeOK'
  <2>1. PageType'
    BY <1>19 DEF TypeOK, PageType, ThreadType, FreshFails, NoPage, Queue, Return, Goto, atomics, fields
  <2>2. ThreadType'
    BY <1>19, NoPageType DEF FreshFails
  <2> QED BY <2>1, <2>2 DEF TypeOK
<1>20. ASSUME NEW t \in Thread, FreeLocal(t) PROVE TypeOK'
  <2>1. PageType'
    <3>1. PICK b \in live :
            /\ live' = live \ {b}
            /\ LocalFree(t, PageOf[b], b, free[PageOf[b]], local_free[PageOf[b]],
                         used[PageOf[b]])
      BY <1>20 DEF FreeLocal
    <3>2. b \in Block /\ PageOf[b] \in Page
      BY DEF TypeOK, PageType
    <3>3. /\ free[PageOf[b]] \in SUBSET Block
          /\ local_free[PageOf[b]] \in SUBSET Block
          /\ used[PageOf[b]] \in Int
      BY <3>2 DEF TypeOK, PageType
    <3> QED
      BY <1>20, <3>1, <3>2, <3>3, LocalFreeType DEF FreeLocal, TypeOK, PageType
  <2>2. ThreadType'
    BY <1>20 DEF TypeOK, ThreadType, FreeLocal, LocalFree, PageFree, control
  <2> QED BY <2>1, <2>2 DEF TypeOK
<1>21. ASSUME NEW t \in Thread, FreeRemote(t) PROVE TypeOK'
  <2>1. PageType'
    BY <1>21 DEF TypeOK, PageType, ThreadType, FreeRemote, Goto, atomics, fields
  <2>2. ThreadType'
    BY <1>21 DEF TypeOK, PageType, ThreadType, FreeRemote, Goto, atomics, fields
  <2> QED BY <2>1, <2>2 DEF TypeOK
<1>22. ASSUME NEW t \in Thread, MtClaim(t) PROVE TypeOK'
  <2>1. PageType'
    BY <1>22 DEF TypeOK, PageType, ThreadType, MtClaim, Goto, fields
  <2>2. ThreadType'
    BY <1>22 DEF TypeOK, ThreadType, MtClaim, Goto, fields
  <2> QED BY <2>1, <2>2 DEF TypeOK
<1>23. ASSUME NEW t \in Thread, MtPush(t) PROVE TypeOK'
  <2>1. PageType'
    BY <1>23 DEF TypeOK, PageType, ThreadType, MtPush, Return, fields
  <2>2. ThreadType'
    BY <1>23 DEF TypeOK, ThreadType, MtPush, Return, fields
  <2> QED BY <2>1, <2>2 DEF TypeOK
<1>24. ASSUME NEW t \in Thread, MtHeap(t) PROVE TypeOK'
  <2>1. PageType'
    BY <1>24 DEF TypeOK, PageType, ThreadType, MtHeap, Goto, atomics, fields
  <2>2. ThreadType'
    BY <1>24 DEF TypeOK, PageType, ThreadType, MtHeap, Goto, atomics, fields
  <2> QED BY <2>1, <2>2 DEF TypeOK
<1>25. ASSUME NEW t \in Thread, MtDelayed(t) PROVE TypeOK'
  <2>1. PageType'
    BY <1>25 DEF TypeOK, PageType, ThreadType, MtDelayed, Goto, fields
  <2>2. ThreadType'
    BY <1>25 DEF TypeOK, ThreadType, MtDelayed, Goto, fields
  <2> QED BY <2>1, <2>2 DEF TypeOK
<1>26. ASSUME NEW t \in Thread, MtReset(t) PROVE TypeOK'
  <2>1. PageType'
    BY <1>26 DEF TypeOK, PageType, ThreadType, MtReset, Return, fields
  <2>2. ThreadType'
    BY <1>26 DEF TypeOK, ThreadType, MtReset, Return, fields
  <2> QED BY <2>1, <2>2 DEF TypeOK
<1>27. ASSUME NEW t \in Thread, StartCollect(t) PROVE TypeOK'
  <2>1. PageType'
    BY <1>27 DEF TypeOK, PageType, ThreadType, StartCollect, Goto, atomics, fields
  <2>2. ThreadType'
    BY <1>27 DEF TypeOK, ThreadType, StartCollect, Goto, atomics, fields
  <2> QED BY <2>1, <2>2 DEF TypeOK
<1>28. ASSUME NEW t \in Thread, ReclaimAll(t) PROVE TypeOK'
  <2>1. PageType'
    BY <1>28 DEF TypeOK, PageType, ThreadType, ReclaimAll, Abandoned, Goto, atomics
  <2>2. ThreadType'
    BY <1>28 DEF TypeOK, ThreadType, ReclaimAll, Abandoned, Goto, atomics
  <2> QED BY <2>1, <2>2 DEF TypeOK
<1>29. ASSUME NEW t \in Thread, ReclaimAllDone(t) PROVE TypeOK'
  <2>1. PageType'
    BY <1>29 DEF TypeOK, PageType, ThreadType, ReclaimAllDone, Goto, atomics, fields
  <2>2. ThreadType'
    BY <1>29 DEF TypeOK, ThreadType, ReclaimAllDone, Goto, atomics, fields
  <2> QED BY <2>1, <2>2 DEF TypeOK
<1>30. ASSUME NEW t \in Thread, ThreadDone(t) PROVE TypeOK'
  <2>1. PageType'
    BY <1>30 DEF TypeOK, PageType, ThreadType, ThreadDone, HeapPages, Goto, atomics, fields
  <2>2. ThreadType'
    BY <1>30 DEF TypeOK, ThreadType, ThreadDone, HeapPages, Goto, atomics, fields
  <2> QED BY <2>1, <2>2 DEF TypeOK
<1>31. ASSUME NEW t \in Thread, NeverDelayed(t) PROVE TypeOK'
  <2>1. PageType'
    BY <1>31 DEF TypeOK, PageType, ThreadType, NeverDelayed, SetDelayed, fields
  <2>2. ThreadType'
    BY <1>31 DEF TypeOK, ThreadType, NeverDelayed, SetDelayed, fields
  <2> QED BY <2>1, <2>2 DEF TypeOK
<1>32. ASSUME NEW t \in Thread, NeverDone(t) PROVE TypeOK'
  <2>1. PageType'
    BY <1>32 DEF TypeOK, PageType, ThreadType, NeverDone, Goto, atomics, fields
  <2>2. ThreadType'
    BY <1>32 DEF TypeOK, ThreadType, NeverDone, Goto, atomics, fields
  <2> QED BY <2>1, <2>2 DEF TypeOK
<1>33. ASSUME NEW t \in Thread, VisitPage(t) PROVE TypeOK'
  <2>1. PageType'
    <3>1. PICK p \in todo[t] :
            /\ Collect(p, goal[t] # "collect")
            /\ \/ PageFree(p)
               \/ UNCHANGED <<xheap, capacity, place, retired>>
      BY <1>33 DEF VisitPage
    <3>2. p \in Page
      BY DEF TypeOK, ThreadType
    <3>3. /\ xheap' \in [Page -> Thread \cup {NULL}]
          /\ capacity' \in [Page -> SUBSET Block]
          /\ place' \in [Page -> Place]
          /\ retired' \in [Page -> BOOLEAN]
      <4>1. CASE PageFree(p)
        BY <3>2, <4>1, PageFreeType
      <4>2. CASE UNCHANGED <<xheap, capacity, place, retired>>
        BY <4>2 DEF TypeOK, PageType
      <4> QED BY <3>1, <4>1, <4>2
    <3>4. (goal[t] # "collect") \in BOOLEAN
      OBVIOUS
    <3> QED
      BY <1>33, <3>1, <3>2, <3>3, <3>4, CollectStep DEF VisitPage, TypeOK, PageType
  <2>2. ThreadType'
    BY <1>33 DEF TypeOK, ThreadType, VisitPage, Collect, EmptyThreadFree, PageFree, Goto
  <2> QED BY <2>1, <2>2 DEF TypeOK
<1>34. ASSUME NEW t \in Thread, PageAbandon(t) PROVE TypeOK'
  <2>1. PageType'
    BY <1>34 DEF TypeOK, PageType, ThreadType, PageAbandon, Goto
  <2>2. ThreadType'
    BY <1>34 DEF TypeOK, ThreadType, PageAbandon, Goto
  <2> QED BY <2>1, <2>2 DEF TypeOK
<1>35. ASSUME NEW t \in Thread, VisitDone(t) PROVE TypeOK'
  <2>1. PageType'
    BY <1>35 DEF TypeOK, PageType, ThreadType, VisitDone, Return, Queue, Goto, atomics, fields
  <2>2. ThreadType'
    BY <1>35, SMTT(60) DEF TypeOK, ThreadType, VisitDone, Return, Queue, Goto, atomics, fields
  <2> QED BY <2>1, <2>2 DEF TypeOK
<1>q. QED
  BY <1>0, <1>1, <1>2, <1>3, <1>4, <1>5, <1>6, <1>7, <1>8, <1>9, <1>10, <1>11, <1>12, <1>13, <1>14, <1>15, <1>16, <1>17, <1>18, <1>19, <1>20, <1>21, <1>22, <1>23, <1>24, <1>25, <1>26, <1>27, <1>28, <1>29, <1>30, <1>31, <1>32, <1>33, <1>34, <1>35
     DEF Next, Call, Continue

\* Every variable has its type and every label its arguments: the model never
\* indexes a list, page or heap with a value that is not one.
THEOREM TypeCorrect == Spec => []TypeOK
  BY TypeInit, TypeStep, PTL DEF Spec

-----------------------------------------------------------------------------
(* The DELAYED_FREEING flag is a lock that one thread holds *)

\* What a thread does outside _mi_free_block_mt leaves alone: its own labels
\* stay outside the locked part, the other threads do not move, and the flag
\* neither becomes DELAYED_FREEING nor stops being it.
Outside(t) ==
  /\ pc[t] \notin FreeingLabel
  /\ pc'[t] \notin FreeingLabel
  /\ \A u \in Thread \ {t} : pc'[u] = pc[u] /\ blk'[u] = blk[u]
  /\ \A p \in Page : flag'[p] = DELAYED_FREEING <=> flag[p] = DELAYED_FREEING

\* Such a step keeps the lock's invariant.
LEMMA OutsideKeeps ==
  ASSUME OneDelayedFreer, NEW t \in Thread, Outside(t)
  PROVE  OneDelayedFreer'
<1>1. \A u \in Thread, p \in Page : Freeing(u, p)' <=> Freeing(u, p)
  BY DEF Outside, Freeing
<1>2. QED
  BY <1>1 DEF Outside, OneDelayedFreer

\* Setting the flag through _mi_page_use_delayed_free cannot take or drop the
\* lock: it waits while the flag is DELAYED_FREEING.
LEMMA SetDelayedKeeps ==
  ASSUME TypeOK, NEW p \in Page, NEW delay \in Flag \ {DELAYED_FREEING},
         NEW override \in BOOLEAN, CanSetDelayed(p), SetDelayed(p, delay, override)
  PROVE  \A q \in Page : flag'[q] = DELAYED_FREEING <=> flag[q] = DELAYED_FREEING
  BY DEF TypeOK, PageType, CanSetDelayed, SetDelayed

\* The lock is free and nobody holds it in the initial state.
LEMMA OneFreerInit == Init => OneDelayedFreer
  BY DEF Init, OneDelayedFreer, Freeing, FreeingLabel

\* Every action keeps the lock's invariant.
LEMMA OneFreerStep == TypeOK /\ OneDelayedFreer /\ [Next]_vars => OneDelayedFreer'
<1> SUFFICES ASSUME TypeOK, OneDelayedFreer, [Next]_vars PROVE OneDelayedFreer'
  OBVIOUS
<1> USE ThreadAssumption, PageAssumption, BlockAssumption
<1>0. CASE UNCHANGED vars
  BY <1>0 DEF OneDelayedFreer, Freeing, vars, atomics, control
<1>1. ASSUME NEW t \in Thread, MallocFast(t) PROVE OneDelayedFreer'
  <2>1. Outside(t)
    BY <1>1 DEF MallocFast, atomics, control, Outside, FreeingLabel, TypeOK, ThreadType
  <2> QED BY <2>1, OutsideKeeps
<1>2. ASSUME NEW t \in Thread, MallocGeneric(t) PROVE OneDelayedFreer'
  <2>1. Outside(t)
    BY <1>2 DEF MallocGeneric, Goto, atomics, Outside, FreeingLabel, TypeOK, ThreadType
  <2> QED BY <2>1, OutsideKeeps
<1>3. ASSUME NEW t \in Thread, TakeDelayed(t) PROVE OneDelayedFreer'
  <2>1. Outside(t)
    BY <1>3 DEF TakeDelayed, Goto, Outside, FreeingLabel, TypeOK, ThreadType
  <2> QED BY <2>1, OutsideKeeps
<1>4. ASSUME NEW t \in Thread, DelayedUse(t) PROVE OneDelayedFreer'
  <2>1. PICK b \in batch[t] : CanSetDelayed(PageOf[b]) /\ SetDelayed(PageOf[b], USE_DELAYED_FREE, FALSE)
    BY <1>4 DEF DelayedUse
  <2>2. PageOf[b] \in Page
    BY DEF TypeOK, ThreadType
  <2>3. \A q \in Page : flag'[q] = DELAYED_FREEING <=> flag[q] = DELAYED_FREEING
    BY <2>1, <2>2, SetDelayedKeeps
  <2>4. Outside(t)
    BY <1>4, <2>3 DEF DelayedUse, Goto, Outside, FreeingLabel, TypeOK, ThreadType
  <2> QED BY <2>4, OutsideKeeps
<1>5. ASSUME NEW t \in Thread, DelayedFree(t) PROVE OneDelayedFreer'
  <2>1. Outside(t)
    BY <1>5 DEF DelayedFree, Goto, Outside, FreeingLabel, TypeOK, ThreadType
  <2> QED BY <2>1, OutsideKeeps
<1>6. ASSUME NEW t \in Thread, DelayedDone(t) PROVE OneDelayedFreer'
  <2>1. Outside(t)
    BY <1>6 DEF DelayedDone, Goto, atomics, Outside, FreeingLabel, TypeOK, ThreadType
  <2> QED BY <2>1, OutsideKeeps
<1>7. ASSUME NEW t \in Thread, FindAvailable(t) PROVE OneDelayedFreer'
  <2>1. Outside(t)
    BY <1>7 DEF FindAvailable, Return, Outside, FreeingLabel, TypeOK, ThreadType
  <2> QED BY <2>1, OutsideKeeps
<1>8. ASSUME NEW t \in Thread, FindExtend(t) PROVE OneDelayedFreer'
  <2>1. Outside(t)
    BY <1>8 DEF FindExtend, Return, atomics, Outside, FreeingLabel, TypeOK, ThreadType
  <2> QED BY <2>1, OutsideKeeps
<1>9. ASSUME NEW t \in Thread, FindFull(t) PROVE OneDelayedFreer'
  <2>1. Outside(t)
    BY <1>9 DEF FindFull, Goto, atomics, Outside, FreeingLabel, TypeOK, ThreadType
  <2> QED BY <2>1, OutsideKeeps
<1>10. ASSUME NEW t \in Thread, ToFull(t) PROVE OneDelayedFreer'
  <2>1. Outside(t)
    BY <1>10 DEF ToFull, Goto, Outside, FreeingLabel, TypeOK, ThreadType
  <2> QED BY <2>1, OutsideKeeps
<1>11. ASSUME NEW t \in Thread, FindNone(t) PROVE OneDelayedFreer'
  <2>1. Outside(t)
    BY <1>11 DEF FindNone, Goto, atomics, Outside, FreeingLabel, TypeOK, ThreadType
  <2> QED BY <2>1, OutsideKeeps
<1>12. ASSUME NEW t \in Thread, CollectRetired(t) PROVE OneDelayedFreer'
  <2>1. Outside(t)
    BY <1>12 DEF CollectRetired, Goto, Outside, FreeingLabel, TypeOK, ThreadType
  <2> QED BY <2>1, OutsideKeeps
<1>13. ASSUME NEW t \in Thread, PopAbandoned(t) PROVE OneDelayedFreer'
  <2>1. Outside(t)
    BY <1>13 DEF PopAbandoned, Goto, atomics, Outside, FreeingLabel, TypeOK, ThreadType
  <2> QED BY <2>1, OutsideKeeps
<1>14. ASSUME NEW t \in Thread, CheckFree(t) PROVE OneDelayedFreer'
  <2>1. Outside(t)
    BY <1>14 DEF CheckFree, Goto, Outside, FreeingLabel, TypeOK, ThreadType
  <2> QED BY <2>1, OutsideKeeps
<1>15. ASSUME NEW t \in Thread, Reclaim(t) PROVE OneDelayedFreer'
  <2>1. Outside(t)
    BY <1>15 DEF Reclaim, Goto, Outside, FreeingLabel, TypeOK, ThreadType
  <2> QED BY <2>1, OutsideKeeps
<1>16. ASSUME NEW t \in Thread, ReclaimUse(t) PROVE OneDelayedFreer'
  <2>1. pg[t] \in Page /\ CanSetDelayed(pg[t]) /\ SetDelayed(pg[t], USE_DELAYED_FREE, TRUE)
    BY <1>16 DEF ReclaimUse, TypeOK, ThreadType
  <2>2. \A q \in Page : flag'[q] = DELAYED_FREEING <=> flag[q] = DELAYED_FREEING
    BY <2>1, SetDelayedKeeps
  <2>3. Outside(t)
    BY <1>16, <2>2 DEF ReclaimUse, Goto, Outside, FreeingLabel, TypeOK, ThreadType
  <2> QED BY <2>3, OutsideKeeps
<1>17. ASSUME NEW t \in Thread, ReclaimCollect(t) PROVE OneDelayedFreer'
  <2>1. Outside(t)
    BY <1>17 DEF ReclaimCollect, Goto, NoPage, Return, Outside, FreeingLabel, TypeOK, ThreadType
  <2> QED BY <2>1, OutsideKeeps
<1>18. ASSUME NEW t \in Thread, FreshPage(t) PROVE OneDelayedFreer'
  <2>1. Outside(t)
    BY <1>18 DEF FreshPage, Return, Outside, FreeingLabel, TypeOK, ThreadType
  <2> QED BY <2>1, OutsideKeeps
<1>19. ASSUME NEW t \in Thread, FreshFails(t) PROVE OneDelayedFreer'
  <2>1. Outside(t)
    BY <1>19 DEF FreshFails, NoPage, atomics, Goto, Return, Outside, FreeingLabel, TypeOK, ThreadType
  <2> QED BY <2>1, OutsideKeeps
<1>20. ASSUME NEW t \in Thread, FreeLocal(t) PROVE OneDelayedFreer'
  <2>1. Outside(t)
    BY <1>20 DEF FreeLocal, control, Outside, FreeingLabel, TypeOK, ThreadType
  <2> QED BY <2>1, OutsideKeeps
<1>21. ASSUME NEW t \in Thread, FreeRemote(t) PROVE OneDelayedFreer'
  <2>1. Outside(t)
    BY <1>21 DEF FreeRemote, Goto, atomics, Outside, FreeingLabel, TypeOK, ThreadType
  <2> QED BY <2>1, OutsideKeeps
<1>22. ASSUME NEW t \in Thread, MtPush(t) PROVE OneDelayedFreer'
  <2>1. Outside(t)
    BY <1>22 DEF MtPush, Return, Outside, FreeingLabel, TypeOK, ThreadType
  <2> QED BY <2>1, OutsideKeeps
<1>23. ASSUME NEW t \in Thread, StartCollect(t) PROVE OneDelayedFreer'
  <2>1. Outside(t)
    BY <1>23 DEF StartCollect, Goto, atomics, Outside, FreeingLabel, TypeOK, ThreadType
  <2> QED BY <2>1, OutsideKeeps
<1>24. ASSUME NEW t \in Thread, ReclaimAll(t) PROVE OneDelayedFreer'
  <2>1. Outside(t)
    BY <1>24 DEF ReclaimAll, Goto, atomics, Outside, FreeingLabel, TypeOK, ThreadType
  <2> QED BY <2>1, OutsideKeeps
<1>25. ASSUME NEW t \in Thread, ReclaimAllDone(t) PROVE OneDelayedFreer'
  <2>1. Outside(t)
    BY <1>25 DEF ReclaimAllDone, Goto, atomics, Outside, FreeingLabel, TypeOK, ThreadType
  <2> QED BY <2>1, OutsideKeeps
<1>26. ASSUME NEW t \in Thread, ThreadDone(t) PROVE OneDelayedFreer'
  <2>1. Outside(t)
    BY <1>26 DEF ThreadDone, Goto, atomics, Outside, FreeingLabel, TypeOK, ThreadType
  <2> QED BY <2>1, OutsideKeeps
<1>27. ASSUME NEW t \in Thread, NeverDelayed(t) PROVE OneDelayedFreer'
  <2>1. PICK p \in todo[t] : CanSetDelayed(p) /\ SetDelayed(p, NEVER_DELAYED_FREE, FALSE)
    BY <1>27 DEF NeverDelayed
  <2>2. p \in Page
    BY DEF TypeOK, ThreadType
  <2>3. \A q \in Page : flag'[q] = DELAYED_FREEING <=> flag[q] = DELAYED_FREEING
    BY <2>1, <2>2, SetDelayedKeeps
  <2>4. Outside(t)
    BY <1>27, <2>3 DEF NeverDelayed, Outside, FreeingLabel, TypeOK, ThreadType
  <2> QED BY <2>4, OutsideKeeps
<1>28. ASSUME NEW t \in Thread, NeverDone(t) PROVE OneDelayedFreer'
  <2>1. Outside(t)
    BY <1>28 DEF NeverDone, Goto, atomics, Outside, FreeingLabel, TypeOK, ThreadType
  <2> QED BY <2>1, OutsideKeeps
<1>29. ASSUME NEW t \in Thread, VisitPage(t) PROVE OneDelayedFreer'
  <2>1. Outside(t)
    BY <1>29 DEF VisitPage, Goto, Outside, FreeingLabel, TypeOK, ThreadType
  <2> QED BY <2>1, OutsideKeeps
<1>30. ASSUME NEW t \in Thread, PageAbandon(t) PROVE OneDelayedFreer'
  <2>1. Outside(t)
    BY <1>30 DEF PageAbandon, Goto, Outside, FreeingLabel, TypeOK, ThreadType
  <2> QED BY <2>1, OutsideKeeps
<1>31. ASSUME NEW t \in Thread, VisitDone(t) PROVE OneDelayedFreer'
  <2>1. Outside(t)
    BY <1>31 DEF VisitDone, Goto, Return, atomics, Outside, FreeingLabel, TypeOK, ThreadType
  <2> QED BY <2>1, OutsideKeeps
<1>40. ASSUME NEW t \in Thread, MtClaim(t) PROVE OneDelayedFreer'
  <2> DEFINE p == PageOf[blk[t]]
  <2>1. /\ p \in Page
        /\ flag[p] = USE_DELAYED_FREE
        /\ flag' = [flag EXCEPT ![p] = DELAYED_FREEING]
        /\ pc' = [pc EXCEPT ![t] = "mt_heap"]
        /\ blk' = blk
    BY <1>40 DEF MtClaim, Goto, TypeOK, ThreadType
  <2>2. \A u \in Thread : ~Freeing(u, p)
    BY <2>1 DEF OneDelayedFreer
  <2>3. pc[t] \notin FreeingLabel
    BY <1>40 DEF MtClaim, FreeingLabel
  <2>4. \A u \in Thread, q \in Page :
          Freeing(u, q)' <=> Freeing(u, q) \/ (u = t /\ q = p)
    BY <2>1, <2>3 DEF Freeing, FreeingLabel, TypeOK, ThreadType
  <2>5. \A q \in Page : flag'[q] = DELAYED_FREEING <=> flag[q] = DELAYED_FREEING \/ q = p
    BY <2>1 DEF TypeOK, PageType
  <2> QED BY <2>2, <2>4, <2>5 DEF OneDelayedFreer
<1>41. ASSUME NEW t \in Thread, MtHeap(t) \/ MtDelayed(t) PROVE OneDelayedFreer'
  <2>1. /\ \A u \in Thread, q \in Page : Freeing(u, q)' <=> Freeing(u, q)
        /\ flag' = flag
    BY <1>41 DEF MtHeap, MtDelayed, Goto, Freeing, FreeingLabel, atomics, TypeOK, ThreadType
  <2> QED BY <2>1 DEF OneDelayedFreer
<1>42. ASSUME NEW t \in Thread, MtReset(t) PROVE OneDelayedFreer'
  <2> DEFINE p == PageOf[blk[t]]
  <2>1. /\ p \in Page
        /\ Freeing(t, p)
        /\ flag' = [flag EXCEPT ![p] = NO_DELAYED_FREE]
        /\ pc' = [pc EXCEPT ![t] = "idle"]
        /\ blk' = [blk EXCEPT ![t] = NULL]
    BY <1>42 DEF MtReset, Return, Freeing, FreeingLabel, TypeOK, ThreadType
  <2>2. \A u \in Thread, q \in Page : Freeing(u, q)' <=> Freeing(u, q) /\ u # t
    BY <2>1 DEF Freeing, FreeingLabel, TypeOK, ThreadType
  <2>3. \A q \in Page : flag'[q] = DELAYED_FREEING <=> flag[q] = DELAYED_FREEING /\ q # p
    BY <2>1 DEF TypeOK, PageType
  <2>4. \A q \in Page : Freeing(t, q) => q = p
    BY DEF Freeing
  <2> QED BY <2>1, <2>2, <2>3, <2>4 DEF OneDelayedFreer
<1>q. QED
  BY <1>0, <1>1, <1>2, <1>3, <1>4, <1>5, <1>6, <1>7, <1>8, <1>9, <1>10, <1>11, <1>12, <1>13, <1>14, <1>15, <1>16, <1>17, <1>18, <1>19, <1>20, <1>21, <1>22, <1>23, <1>24, <1>25, <1>26, <1>27, <1>28, <1>29, <1>30, <1>31, <1>40, <1>41, <1>42
     DEF Next, Call, Continue

\* The DELAYED_FREEING flag works as a lock on the page's heap pointer: it is
\* set exactly while one thread, and only one, is between the claim and the
\* reset in _mi_free_block_mt, for any number of threads and pages.
THEOREM DelayedFreeingIsLock == Spec => []OneDelayedFreer
<1>1. Init => TypeOK /\ OneDelayedFreer
  BY TypeInit, OneFreerInit
<1>2. (TypeOK /\ OneDelayedFreer) /\ [Next]_vars => (TypeOK /\ OneDelayedFreer)'
  BY TypeStep, OneFreerStep
<1>3. QED
  BY <1>1, <1>2, PTL DEF Spec

HIDE DEF Flag, Place, Goal, Label

-----------------------------------------------------------------------------
(* The inductive invariant: the pages *)

\* labels at which a thread has popped the abandoned page pg, and at which a
\* thread that ends is
PopLabel     == {"check", "reclaim", "reclaim_use", "reclaim_collect"}
AbandonLabel == {"never", "take", "dblock", "dcollect", "retired", "visit", "abandon"}

Pops(t, p) == pc[t] \in PopLabel /\ pg[t] = p

\* Who has a page: a heap while it is in a queue, nobody while it is fresh or
\* abandoned, the thread that reclaims it once it is past `reclaim`.
PageHome(p) ==
  /\ place[p] \in {"fresh", "abandoned"} => xheap[p] = NULL
  /\ place[p] \in {"queue", "full"} => xheap[p] # NULL
  /\ place[p] = "popped" =>
       \/ xheap[p] = NULL
       \/ pc[xheap[p]] \in {"reclaim_use", "reclaim_collect"} /\ pg[xheap[p]] = p

\* The pages that the operation of t still works on are its own.
Works(t) ==
  /\ pc[t] \in {"find", "to_full"} => todo[t] \subseteq Queue(t)
  /\ pc[t] = "to_full" => pg[t] \in HeapPages(t) /\ place[pg[t]] = "full"
  /\ pc[t] \in {"never", "visit", "abandon"} => todo[t] \subseteq HeapPages(t)
  /\ pc[t] = "abandon" => pg[t] \in HeapPages(t) \ todo[t]
  /\ pc[t] \in {"check", "reclaim"} => place[pg[t]] = "popped" /\ xheap[pg[t]] = NULL
  /\ pc[t] \in {"reclaim_use", "reclaim_collect"} => place[pg[t]] = "popped" /\ xheap[pg[t]] = t
  /\ pc[t] \in PopLabel => \A u \in Thread \ {t} : ~Pops(u, pg[t])
  /\ pc[t] \notin {"dblock", "dcollect"} => batch[t] = {}

\* A thread that ends leaves no page behind.
Ends(t) ==
  /\ pc[t] \in {"never", "abandon"} => goal[t] = "abandon"
  /\ goal[t] = "abandon" => pc[t] \in AbandonLabel
  /\ goal[t] = "abandon" /\ pc[t] = "visit" => HeapPages(t) \subseteq todo[t]
  /\ goal[t] = "abandon" /\ pc[t] = "abandon" => HeapPages(t) \subseteq todo[t] \cup {pg[t]}
  /\ pc[t] = "done" => HeapPages(t) = {}

Homes == (\A p \in Page : PageHome(p)) /\ \A t \in Thread : Works(t) /\ Ends(t)

-----------------------------------------------------------------------------
(* The inductive invariant: the flags *)

\* A page without a heap lets no thread start a delayed free.
FlagsRight ==
  /\ \A p \in Page :
       /\ place[p] = "fresh" => flag[p] = USE_DELAYED_FREE
       /\ place[p] \in {"abandoned", "popped"} /\ xheap[p] = NULL => flag[p] = NEVER_DELAYED_FREE
  /\ \A t \in Thread :
       /\ pc[t] = "reclaim_use" => flag[pg[t]] = NEVER_DELAYED_FREE
       /\ pc[t] = "reclaim_collect" => flag[pg[t]] # NEVER_DELAYED_FREE

\* NEVER_DELAYED_FREE is for the pages of a thread that ends; when it has set
\* all flags nothing arrives on its delayed list any more.
Closes(t) ==
  /\ \A p \in HeapPages(t) : flag[p] = NEVER_DELAYED_FREE => goal[t] = "abandon"
  /\ goal[t] = "abandon" =>
       /\ pc[t] = "never" => \A p \in HeapPages(t) \ todo[t] : flag[p] = NEVER_DELAYED_FREE
       /\ pc[t] # "never" => \A p \in HeapPages(t) : flag[p] = NEVER_DELAYED_FREE
       /\ pc[t] \notin {"never", "take"} => delayed_free[t] = {}
  /\ pc[t] = "done" => delayed_free[t] = {}

\* A thread inside a delayed free has a page in use that has a heap, and the
\* heap it read is that one; at the end its block is on the heap's list.
Pushes(t) ==
  LET p == PageOf[blk[t]] IN
  /\ pc[t] \in FreeingLabel => InUse(p) /\ xheap[p] # NULL
  /\ pc[t] = "mt_push" => xheap[p] = hp[t]
  /\ pc[t] = "mt_reset" => blk[t] \in delayed_free[xheap[p]] \cup batch[xheap[p]]

\* The delayed blocks of a heap are of its own pages.
Delays(t) ==
  /\ \A b \in delayed_free[t] \cup batch[t] : xheap[PageOf[b]] = t
  /\ pc[t] = "dcollect" => xheap[PageOf[blk[t]]] = t

Flags ==
  /\ FlagsRight
  /\ NoDelayedPending
  /\ \A t \in Thread : Closes(t) /\ Pushes(t) /\ Delays(t)

-----------------------------------------------------------------------------
(* The inductive invariant: the blocks *)

Kind  == {"free", "local_free", "thread_free", "live", "delayed", "batch", "hand"}
Outer == {"live", "delayed", "batch", "hand"}

\* Block b is on a list of its page or the program's, or with thread t.
At(b, k, t) ==
  \/ k = "free" /\ t = NULL /\ b \in free[PageOf[b]]
  \/ k = "local_free" /\ t = NULL /\ b \in local_free[PageOf[b]]
  \/ k = "thread_free" /\ t = NULL /\ b \in thread_free[PageOf[b]]
  \/ k = "live" /\ t = NULL /\ b \in live
  \/ k = "delayed" /\ t \in Thread /\ b \in delayed_free[t]
  \/ k = "batch" /\ t \in Thread /\ b \in batch[t]
  \/ k = "hand" /\ t \in Thread /\ InHand(t, b)

\* A block of a page in use is in exactly one place, and nobody has one of any
\* other page.
Placed ==
  \A b \in Block :
    /\ \A k, m \in Kind : \A t, u \in Thread \cup {NULL} : At(b, k, t) /\ At(b, m, u) => k = m /\ t = u
    /\ InUse(PageOf[b]) =>
         (b \in capacity[PageOf[b]] <=> \E k \in Kind : \E t \in Thread \cup {NULL} : At(b, k, t))
    /\ ~InUse(PageOf[b]) => \A k \in Outer : \A t \in Thread \cup {NULL} : ~At(b, k, t)

\* the blocks on the lists of p
Listed(p) == free[p] \cup local_free[p] \cup thread_free[p]

Lists ==
  \A p \in Page :
    /\ Listed(p) \subseteq Reserved(p) /\ capacity[p] \subseteq Reserved(p)
    /\ place[p] = "fresh" => Listed(p) = {} /\ capacity[p] = {} /\ used[p] = 0
    /\ InUse(p) => capacity[p] # {}

\* A page in the full queue has a block that is on none of its lists, so that
\* a free of that block by another thread will be a delayed one.
FullUsed ==
  \A p \in Page : place[p] = "full" /\ flag[p] # NEVER_DELAYED_FREE => capacity[p] \ Listed(p) # {}

Blocks == Placed /\ Lists /\ UsedExact /\ FullUsed

Safe == TypeOK /\ OneDelayedFreer /\ Homes /\ Flags /\ Blocks

-----------------------------------------------------------------------------
(* The steps of a thread *)

Step(t) == Call(t) \/ Continue(t)

\* The other threads do not move when t does.
LEMMA OthersStep ==
  ASSUME TypeOK, NEW t \in Thread, Step(t), NEW u \in Thread, u # t
  PROVE  /\ pc'[u] = pc[u] /\ goal'[u] = goal[u] /\ blk'[u] = blk[u] /\ pg'[u] = pg[u]
         /\ hp'[u] = hp[u] /\ todo'[u] = todo[u] /\ batch'[u] = batch[u]
<1> DEFINE Same == /\ pc'[u] = pc[u] /\ goal'[u] = goal[u] /\ blk'[u] = blk[u] /\ pg'[u] = pg[u]
                   /\ hp'[u] = hp[u] /\ todo'[u] = todo[u] /\ batch'[u] = batch[u]
<1>1. CASE Call(t)
  BY <1>1 DEF TypeOK, ThreadType, Call, MallocFast, MallocGeneric, FreeLocal, FreeRemote, StartCollect,
     ThreadDone, Goto, control
<1>2. CASE TakeDelayed(t) \/ DelayedUse(t) \/ DelayedFree(t) \/ DelayedDone(t)
  BY <1>2 DEF TypeOK, ThreadType, TakeDelayed, DelayedUse, DelayedFree, DelayedDone, Goto
<1>3. CASE FindAvailable(t) \/ FindExtend(t) \/ FindFull(t) \/ ToFull(t) \/ FindNone(t)
  BY <1>3, ZenonT(60) DEF TypeOK, ThreadType, FindAvailable, FindExtend, FindFull, ToFull, FindNone, Goto, Return
<1>4. CASE CollectRetired(t) \/ PopAbandoned(t) \/ CheckFree(t) \/ Reclaim(t) \/ ReclaimUse(t)
  BY <1>4, ZenonT(60) DEF TypeOK, ThreadType, CollectRetired, PopAbandoned, CheckFree, Reclaim, ReclaimUse, Goto
<1>n. ASSUME NoPage(t) PROVE Same
  <2>1. CASE round[t] \in {1, 3}
    BY <1>n, <2>1 DEF TypeOK, ThreadType, NoPage, Goto, Return
  <2>2. CASE round[t] \notin {1, 3}
    BY <1>n, <2>2 DEF TypeOK, ThreadType, NoPage, Goto, Return
  <2> QED BY <2>1, <2>2
<1>5. CASE ReclaimCollect(t)
  <2>1. CASE NoPage(t)
    BY <1>n, <2>1
  <2>2. CASE ~NoPage(t)
    BY <1>5, <2>2 DEF TypeOK, ThreadType, ReclaimCollect, Goto
  <2> QED BY <2>1, <2>2
<1>6. CASE FreshPage(t)
  BY <1>6 DEF TypeOK, ThreadType, FreshPage, Return
<1>7. CASE FreshFails(t)
  BY <1>7, <1>n DEF FreshFails
<1>8. CASE MtClaim(t) \/ MtPush(t) \/ MtHeap(t) \/ MtDelayed(t) \/ MtReset(t)
  BY <1>8 DEF TypeOK, ThreadType, MtClaim, MtPush, MtHeap, MtDelayed, MtReset, Goto, Return
<1>9. CASE ReclaimAll(t) \/ ReclaimAllDone(t) \/ NeverDelayed(t) \/ NeverDone(t)
  BY <1>9 DEF TypeOK, ThreadType, ReclaimAll, ReclaimAllDone, NeverDelayed, NeverDone, Goto
<1>10. CASE VisitPage(t) \/ PageAbandon(t) \/ VisitDone(t)
  BY <1>10 DEF TypeOK, ThreadType, VisitPage, PageAbandon, VisitDone, Goto, Return
<1> QED BY <1>1, <1>2, <1>3, <1>4, <1>5, <1>6, <1>7, <1>8, <1>9, <1>10 DEF Step, Continue

-----------------------------------------------------------------------------
(* The places of a block *)

Nobody == Thread \cup {NULL}

OneSpot(b) ==
  \A k, m \in Kind : \A t, u \in Nobody : At(b, k, t) /\ At(b, m, u) => k = m /\ t = u

\* in a step: b stays where it is, or goes to one place and is nowhere else
Stays(b) == \A k \in Kind : \A t \in Nobody : At(b, k, t)' <=> At(b, k, t)
GoesTo(b, m, u) == \A k \in Kind : \A t \in Nobody : At(b, k, t)' <=> (k = m /\ t = u)
Goes(b) == \E m \in Kind : \E u \in Nobody : GoesTo(b, m, u)

\* A block that goes to one place, or does not move, is in one place.
LEMMA SpotStep ==
  ASSUME NEW b, OneSpot(b), Stays(b) \/ Goes(b)
  PROVE  OneSpot(b)'
<1>1. CASE Stays(b)
  BY <1>1 DEF Stays, OneSpot, Nobody
<1>2. CASE Goes(b)
  BY <1>2 DEF Goes, GoesTo, OneSpot, Nobody
<1> QED BY <1>1, <1>2

\* A block that is on the same lists and in the same hands stays.
LEMMA StaysLemma ==
  ASSUME NEW b,
         b \in free'[PageOf[b]] <=> b \in free[PageOf[b]],
         b \in local_free'[PageOf[b]] <=> b \in local_free[PageOf[b]],
         b \in thread_free'[PageOf[b]] <=> b \in thread_free[PageOf[b]],
         b \in live' <=> b \in live,
         \A t \in Thread : b \in delayed_free'[t] <=> b \in delayed_free[t],
         \A t \in Thread : b \in batch'[t] <=> b \in batch[t],
         \A t \in Thread : InHand(t, b)' <=> InHand(t, b)
  PROVE  Stays(b)
  BY DEF Stays, At

\* A block on one list of its page is nowhere else.
LEMMA OnlyThere ==
  ASSUME Placed, NEW b \in Block, NEW k \in Kind, NEW t \in Nobody, At(b, k, t)
  PROVE  \A m \in Kind : \A u \in Nobody : At(b, m, u) <=> (m = k /\ u = t)
  BY DEF Placed, Nobody

\* The lists of a page do not overlap.
LEMMA ListsApart ==
  ASSUME TypeOK, Placed, Lists, NEW p \in Page
  PROVE  /\ free[p] \cap local_free[p] = {}
         /\ free[p] \cap thread_free[p] = {}
         /\ local_free[p] \cap thread_free[p] = {}
<1>1. ASSUME NEW b \in Listed(p) PROVE b \in Block /\ PageOf[b] = p
  BY <1>1 DEF Lists, Reserved
<1>2. ASSUME NEW b \in Block, PageOf[b] = p
      PROVE  /\ ~(b \in free[p] /\ b \in local_free[p])
             /\ ~(b \in free[p] /\ b \in thread_free[p])
             /\ ~(b \in local_free[p] /\ b \in thread_free[p])
  <2>1. b \in free[p] => At(b, "free", NULL)
    BY <1>2 DEF At
  <2>2. b \in local_free[p] => At(b, "local_free", NULL)
    BY <1>2 DEF At
  <2>3. b \in thread_free[p] => At(b, "thread_free", NULL)
    BY <1>2 DEF At
  <2>4. "free" \in Kind /\ "local_free" \in Kind /\ "thread_free" \in Kind /\ NULL \in Nobody
    BY DEF Kind, Nobody
  <2>5. "free" # "local_free" /\ "free" # "thread_free" /\ "local_free" # "thread_free"
    OBVIOUS
  <2> QED BY <2>1, <2>2, <2>3, <2>4, <2>5 DEF Placed, Nobody
<1> QED BY <1>1, <1>2 DEF Listed

-----------------------------------------------------------------------------
(* Counting the blocks of a page *)

\* f and l share no block, and u counts the blocks of p that are on neither
Counts(p, f, l, u) ==
  /\ f \cap l = {} /\ f \subseteq capacity[p] /\ l \subseteq capacity[p]
  /\ u = Cardinality(capacity[p]) - Cardinality(f) - Cardinality(l)

\* A set of blocks is finite, and so are its subsets.
LEMMA FiniteBlocks ==
  ASSUME NEW S, S \subseteq Block
  PROVE  IsFiniteSet(S) /\ Cardinality(S) \in Nat
  BY BlockAssumption, FS_Subset, FS_CardinalityType

\* The size of two sets of blocks that share none.
LEMMA SumBlocks ==
  ASSUME NEW S, NEW T, S \subseteq Block, T \subseteq Block, S \cap T = {}
  PROVE  Cardinality(S \cup T) = Cardinality(S) + Cardinality(T)
<1>1. IsFiniteSet(S) /\ IsFiniteSet(T) /\ Cardinality(S) \in Nat /\ Cardinality(T) \in Nat
  BY FiniteBlocks
<1>2. Cardinality(S \cup T) = Cardinality(S) + Cardinality(T) - Cardinality(S \cap T)
  BY <1>1, FS_Union
<1>3. Cardinality(S \cap T) = 0
  BY FS_EmptySet
<1> QED BY <1>1, <1>2, <1>3

\* The lists of a page in use hold blocks of its capacity.
LEMMA ListedInUse ==
  ASSUME TypeOK, Placed, Lists, NEW p \in Page, InUse(p)
  PROVE  Listed(p) \subseteq capacity[p]
<1> SUFFICES ASSUME NEW b \in Listed(p) PROVE b \in capacity[p]
  OBVIOUS
<1>1. b \in Block /\ PageOf[b] = p
  BY DEF Lists, Reserved
<1>2. \E k \in Kind : At(b, k, NULL)
  BY <1>1 DEF Listed, At, Kind
<1> QED BY <1>1, <1>2 DEF Placed

\* Before and after a collect the used count is right.
LEMMA CollectCounts ==
  ASSUME TypeOK, Placed, Lists, UsedExact, NEW p \in Page, InUse(p), NEW force \in BOOLEAN
  PROVE  /\ Counts(p, free[p], local_free[p], used[p])
         /\ Counts(p, CollectedFree(p, force), CollectedLocal(p, force), CollectedUsed(p))
         /\ CollectedFree(p, force) \cup CollectedLocal(p, force) = Listed(p)
<1>1. /\ free[p] \subseteq capacity[p] /\ local_free[p] \subseteq capacity[p]
      /\ thread_free[p] \subseteq capacity[p] /\ capacity[p] \subseteq Block
  BY ListedInUse DEF Listed, Lists, Reserved
<1>2. /\ Cardinality(free[p]) \in Nat /\ Cardinality(local_free[p]) \in Nat
      /\ Cardinality(thread_free[p]) \in Nat /\ Cardinality(capacity[p]) \in Nat
  BY <1>1, FiniteBlocks
<1>3. used[p] = Cardinality(capacity[p]) - Cardinality(free[p]) - Cardinality(local_free[p])
  BY DEF UsedExact
<1>4. Cardinality(Pending(p)) = Cardinality(local_free[p]) + Cardinality(thread_free[p])
  BY <1>1, ListsApart, SumBlocks DEF Pending
<1>5. free[p] \cap Pending(p) = {}
  BY ListsApart DEF Pending
<1>6. Cardinality(free[p] \cup Pending(p)) = Cardinality(free[p]) + Cardinality(Pending(p))
  BY <1>1, <1>5, SumBlocks DEF Pending
<1>7. Cardinality({}) = 0
  BY FS_EmptySet
<1>8. Counts(p, free[p], local_free[p], used[p])
  BY <1>1, <1>3, ListsApart DEF Counts
<1>9. CASE force \/ free[p] = {}
  <2>1. CollectedFree(p, force) = free[p] \cup Pending(p) /\ CollectedLocal(p, force) = {}
    BY <1>9 DEF CollectedFree, CollectedLocal
  <2>2. Counts(p, CollectedFree(p, force), CollectedLocal(p, force), CollectedUsed(p))
    BY <1>1, <1>2, <1>3, <1>4, <1>6, <1>7, <2>1 DEF Counts, CollectedUsed, Pending
  <2> QED BY <1>8, <2>1, <2>2 DEF Listed, Pending
<1>10. CASE ~(force \/ free[p] = {})
  <2>1. CollectedFree(p, force) = free[p] /\ CollectedLocal(p, force) = Pending(p)
    BY <1>10 DEF CollectedFree, CollectedLocal
  <2>2. Counts(p, CollectedFree(p, force), CollectedLocal(p, force), CollectedUsed(p))
    BY <1>1, <1>2, <1>3, <1>4, <1>5, <2>1 DEF Counts, CollectedUsed, Pending
  <2> QED BY <1>8, <2>1, <2>2 DEF Listed, Pending
<1> QED BY <1>9, <1>10

\* A page with a used count of zero has all its blocks on its lists.
LEMMA UsedZero ==
  ASSUME TypeOK, Lists, NEW p \in Page, NEW f, NEW l, Counts(p, f, l, 0)
  PROVE  capacity[p] = f \cup l
<1>1. capacity[p] \subseteq Block
  BY DEF Lists, Reserved
<1>2. f \subseteq Block /\ l \subseteq Block /\ f \cap l = {} /\ f \cup l \subseteq capacity[p]
  BY <1>1 DEF Counts
<1>3. IsFiniteSet(capacity[p]) /\ Cardinality(f) \in Nat /\ Cardinality(l) \in Nat /\ Cardinality(capacity[p]) \in Nat
  BY <1>1, <1>2, FiniteBlocks
<1>4. Cardinality(f \cup l) = Cardinality(capacity[p])
  <2>1. Cardinality(f \cup l) = Cardinality(f) + Cardinality(l)
    BY <1>2, SumBlocks
  <2>2. 0 = Cardinality(capacity[p]) - Cardinality(f) - Cardinality(l)
    BY DEF Counts
  <2> QED BY <1>3, <2>1, <2>2
<1> QED BY <1>2, <1>3, <1>4, FS_Subset

\* A block that is freed is one less in use.
LEMMA CountFree ==
  ASSUME TypeOK, Lists, NEW p \in Page, NEW f, NEW l, NEW u, Counts(p, f, l, u),
         NEW b \in capacity[p], b \notin f, b \notin l
  PROVE  Counts(p, f, l \cup {b}, u - 1)
<1>1. capacity[p] \subseteq Block
  BY DEF Lists, Reserved
<1>2. /\ IsFiniteSet(l) /\ Cardinality(l) \in Nat /\ Cardinality(f) \in Nat
      /\ Cardinality(capacity[p]) \in Nat
  BY <1>1, FiniteBlocks DEF Counts
<1>3. Cardinality(l \cup {b}) = Cardinality(l) + 1
  BY <1>2, FS_AddElement
<1> QED BY <1>2, <1>3 DEF Counts

\* A block that is allocated is one more in use.
LEMMA CountAlloc ==
  ASSUME TypeOK, Lists, NEW p \in Page, NEW f, NEW l, NEW u, Counts(p, f, l, u), NEW b \in f
  PROVE  Counts(p, f \ {b}, l, u + 1)
<1>1. capacity[p] \subseteq Block
  BY DEF Lists, Reserved
<1>2. /\ IsFiniteSet(f) /\ Cardinality(l) \in Nat /\ Cardinality(f) \in Nat
      /\ Cardinality(capacity[p]) \in Nat
  BY <1>1, FiniteBlocks DEF Counts
<1>3. Cardinality(f \ {b}) = Cardinality(f) - 1
  BY <1>2, FS_RemoveElement
<1> QED BY <1>2, <1>3 DEF Counts

-----------------------------------------------------------------------------
(* Steps that move blocks *)

Somewhere(b) == \E k \in Kind : \E t \in Nobody : At(b, k, t)
Reached(b)   == \E k \in Outer : \E t \in Nobody : At(b, k, t)

\* in a step: every block stays, or goes from one place to another
BlocksMove ==
  \A b \in Block : Stays(b) \/ (InUse(PageOf[b]) /\ Somewhere(b) /\ Goes(b))

\* in a step: no page changes its capacity, or whether it is in use
PagesStay == UNCHANGED capacity /\ \A p \in Page : InUse(p)' <=> InUse(p)

\* Blocks that move are somewhere before and after.
LEMMA MoveSomewhere ==
  ASSUME BlocksMove, NEW b \in Block
  PROVE  Somewhere(b)' <=> Somewhere(b)
<1>1. CASE Stays(b)
  BY <1>1 DEF Stays, Somewhere, Nobody
<1>2. CASE Goes(b) /\ Somewhere(b)
  BY <1>2 DEF Goes, GoesTo, Somewhere, Nobody
<1> QED BY <1>1, <1>2 DEF BlocksMove

\* Blocks that move are in one place.
LEMMA MoveSpots ==
  ASSUME Placed, BlocksMove
  PROVE  \A b \in Block : OneSpot(b)'
<1> SUFFICES ASSUME NEW b \in Block PROVE OneSpot(b)'
  OBVIOUS
<1>1. OneSpot(b)
  BY DEF Placed, OneSpot, Nobody
<1> QED BY <1>1, SpotStep DEF BlocksMove

\* The places of the blocks, as one part for each block.
LEMMA PlacedParts ==
  Placed <=>
    \A b \in Block : /\ OneSpot(b)
                     /\ InUse(PageOf[b]) => (b \in capacity[PageOf[b]] <=> Somewhere(b))
                     /\ ~InUse(PageOf[b]) => ~Reached(b)
  BY DEF Placed, OneSpot, Somewhere, Reached, Nobody

\* The same, after a step.
LEMMA PlacedPrime ==
  ASSUME \A b \in Block : /\ OneSpot(b)'
                          /\ InUse(PageOf[b])' => (b \in capacity'[PageOf[b]] <=> Somewhere(b)')
                          /\ ~InUse(PageOf[b])' => ~Reached(b)'
  PROVE  Placed'
  BY DEF Placed, OneSpot, Somewhere, Reached, Nobody

\* A step that moves blocks and leaves the pages in use.
LEMMA PlacedStep ==
  ASSUME Placed, BlocksMove, PagesStay
  PROVE  Placed'
<1>1. ASSUME NEW b \in Block
      PROVE  /\ OneSpot(b)'
             /\ InUse(PageOf[b])' => (b \in capacity'[PageOf[b]] <=> Somewhere(b)')
             /\ ~InUse(PageOf[b])' => ~Reached(b)'
  <2>0. PageOf[b] \in Page
    BY BlockAssumption
  <2>1. OneSpot(b)'
    BY MoveSpots
  <2>2. ASSUME InUse(PageOf[b])' PROVE b \in capacity'[PageOf[b]] <=> Somewhere(b)'
    BY <2>0, <2>2, MoveSomewhere, PlacedParts DEF PagesStay
  <2>3. ASSUME ~InUse(PageOf[b])' PROVE ~Reached(b)'
    <3>1. ~InUse(PageOf[b])
      BY <2>0, <2>3 DEF PagesStay
    <3>2. Stays(b) /\ ~Reached(b)
      BY <3>1, PlacedParts DEF BlocksMove
    <3> QED BY <3>2 DEF Stays, Reached, Kind, Outer
  <2> QED BY <2>1, <2>2, <2>3
<1> QED BY <1>1, PlacedPrime

\* in a step: page p is given back to its segment, and no other is
Releases(p) ==
  /\ InUse(p) /\ ~InUse(p)'
  /\ \A q \in Page \ {p} : (InUse(q)' <=> InUse(q)) /\ capacity'[q] = capacity[q]

\* A step that moves blocks and releases a page whose blocks are on its lists.
LEMMA ReleaseStep ==
  ASSUME Placed, BlocksMove, NEW p \in Page, Releases(p), capacity[p] \subseteq Listed(p)', Lists
  PROVE  /\ Placed'
         /\ \A b \in Block : PageOf[b] = p => ~Reached(b)'
<1>1. ASSUME NEW b \in Block, PageOf[b] = p PROVE ~Reached(b)'
  <2>1. CASE b \in capacity[p]
    <3>1. \E k \in Kind \ Outer : At(b, k, NULL)'
      BY <1>1, <2>1 DEF Listed, At, Kind, Outer
    <3>2. OneSpot(b)'
      BY MoveSpots
    <3> QED BY <3>1, <3>2 DEF OneSpot, Reached, Nobody, Kind, Outer
  <2>2. CASE b \notin capacity[p]
    <3>1. ~Somewhere(b)
      BY <1>1, <2>2, PlacedParts DEF Releases
    <3>2. ~Somewhere(b)'
      BY <3>1, MoveSomewhere
    <3> QED BY <3>2 DEF Somewhere, Reached, Kind, Outer
  <2> QED BY <2>1, <2>2
<1>2. ASSUME NEW b \in Block
      PROVE  /\ OneSpot(b)'
             /\ InUse(PageOf[b])' => (b \in capacity'[PageOf[b]] <=> Somewhere(b)')
             /\ ~InUse(PageOf[b])' => ~Reached(b)'
  <2>0. PageOf[b] \in Page
    BY BlockAssumption
  <2>1. OneSpot(b)'
    BY MoveSpots
  <2>2. ASSUME InUse(PageOf[b])' PROVE b \in capacity'[PageOf[b]] <=> Somewhere(b)'
    BY <2>0, <2>2, MoveSomewhere, PlacedParts DEF Releases
  <2>3. ASSUME ~InUse(PageOf[b])', PageOf[b] # p PROVE ~Reached(b)'
    <3>1. ~InUse(PageOf[b])
      BY <2>0, <2>3 DEF Releases
    <3>2. Stays(b) /\ ~Reached(b)
      BY <3>1, PlacedParts DEF BlocksMove
    <3> QED BY <3>2 DEF Stays, Reached, Kind, Outer
  <2> QED BY <1>1, <2>1, <2>2, <2>3
<1> QED BY <1>1, <1>2, PlacedPrime

\* in a step: p is in use from now on if it was not, with e added to its capacity
Extends(p, e) ==
  /\ InUse(p)' /\ capacity'[p] = capacity[p] \cup e
  /\ e \cap capacity[p] = {} /\ e \subseteq Reserved(p)
  /\ InUse(p) \/ (capacity[p] = {} /\ Listed(p) = {})
  /\ \A q \in Page \ {p} : (InUse(q)' <=> InUse(q)) /\ capacity'[q] = capacity[q]

\* A step that adds blocks to a page.
LEMMA ExtendStep ==
  ASSUME Placed, NEW p \in Page, NEW e, Extends(p, e),
         \A b \in Block : IF b \in e THEN Goes(b) ELSE Stays(b)
  PROVE  Placed'
<1>1. ASSUME NEW b \in Block
      PROVE  /\ OneSpot(b)'
             /\ InUse(PageOf[b])' => (b \in capacity'[PageOf[b]] <=> Somewhere(b)')
             /\ ~InUse(PageOf[b])' => ~Reached(b)'
  <2>0. PageOf[b] \in Page
    BY BlockAssumption
  <2>1. OneSpot(b)'
    BY SpotStep, PlacedParts
  <2>2. CASE b \in e
    <3>1. PageOf[b] = p /\ b \in capacity'[p] /\ InUse(p)'
      BY <2>2 DEF Extends, Reserved
    <3>2. Somewhere(b)'
      BY <2>2 DEF Goes, GoesTo, Somewhere, Nobody
    <3> QED BY <2>1, <3>1, <3>2
  <2>3. CASE b \notin e
    <3>1. Somewhere(b)' <=> Somewhere(b)
      BY <2>3 DEF Stays, Somewhere, Nobody
    <3>2. Reached(b)' <=> Reached(b)
      BY <2>3 DEF Stays, Reached, Nobody, Kind, Outer
    <3>3. b \in capacity'[PageOf[b]] <=> b \in capacity[PageOf[b]]
      BY <2>0, <2>3 DEF Extends
    <3>4. CASE InUse(PageOf[b])
      BY <2>0, <2>1, <3>1, <3>3, <3>4, PlacedParts DEF Extends
    <3>5. CASE ~InUse(PageOf[b])
      <4>1. ~Reached(b)
        BY <3>5, PlacedParts
      <4>2. CASE PageOf[b] = p
        <5>1. b \notin Listed(p) /\ b \notin capacity[p]
          BY <3>5, <4>2 DEF Extends
        <5>2. ~Somewhere(b)
          BY <4>1, <4>2, <5>1 DEF Somewhere, Reached, At, Listed, Outer
        <5> QED BY <2>1, <3>1, <3>3, <4>2, <5>1, <5>2 DEF Extends
      <4>3. CASE PageOf[b] # p
        BY <2>0, <2>1, <3>2, <3>5, <4>1, <4>3 DEF Extends
      <4> QED BY <4>2, <4>3
    <3> QED BY <3>4, <3>5
  <2> QED BY <2>2, <2>3
<1> QED BY <1>1, PlacedPrime

\* in a step: b does not change hands outside its page
OuterSame(b) ==
  /\ b \in live' <=> b \in live
  /\ \A t \in Thread : b \in delayed_free'[t] <=> b \in delayed_free[t]
  /\ \A t \in Thread : b \in batch'[t] <=> b \in batch[t]
  /\ \A t \in Thread : InHand(t, b)' <=> InHand(t, b)

\* A collect moves a block between the lists of its page, if at all.
LEMMA CollectSpot ==
  ASSUME Placed, NEW b \in Block, NEW p, p = PageOf[b], InUse(p), OuterSame(b), NEW force \in BOOLEAN,
         b \notin thread_free'[p],
         b \in free'[p] <=> b \in CollectedFree(p, force),
         b \in local_free'[p] <=> b \in CollectedLocal(p, force)
  PROVE  Stays(b) \/ (Somewhere(b) /\ Goes(b))
<1>1. ASSUME NEW k \in {"free", "local_free", "thread_free"}, At(b, k, NULL)
      PROVE  Stays(b) \/ (Somewhere(b) /\ Goes(b))
  <2>1. k \in Kind /\ NULL \in Nobody
    BY DEF Kind, Nobody
  <2>2. \A m \in Kind : \A u \in Nobody : At(b, m, u) <=> (m = k /\ u = NULL)
    BY <1>1, <2>1, OnlyThere
  <2>3. Somewhere(b)
    BY <1>1, <2>1 DEF Somewhere
  <2>4. \A m \in Outer : \A u \in Nobody : ~At(b, m, u)'
    BY <2>2 DEF OuterSame, At, Kind, Outer
  <2>5. b \in free'[p] \/ b \in local_free'[p]
    BY <1>1 DEF At, CollectedFree, CollectedLocal, Pending
  <2>6. ~(b \in free'[p] /\ b \in local_free'[p])
    <3>1. ~(b \in free[p] /\ b \in local_free[p]) /\ ~(b \in free[p] /\ b \in thread_free[p])
      <4>1. b \in free[p] => k = "free"
        BY <2>1, <2>2 DEF At, Kind
      <4>2. b \in local_free[p] => k = "local_free"
        BY <2>1, <2>2 DEF At, Kind
      <4>3. b \in thread_free[p] => k = "thread_free"
        BY <2>1, <2>2 DEF At, Kind
      <4> QED BY <4>1, <4>2, <4>3
    <3> QED BY <3>1 DEF CollectedFree, CollectedLocal, Pending
  <2>7. CASE b \in free'[p]
    <3>1. GoesTo(b, "free", NULL)
      BY <2>4, <2>6, <2>7 DEF GoesTo, At, Kind, Outer, Nobody
    <3> QED BY <2>1, <2>3, <3>1 DEF Goes, Kind
  <2>8. CASE b \in local_free'[p]
    <3>1. GoesTo(b, "local_free", NULL)
      BY <2>4, <2>6, <2>8 DEF GoesTo, At, Kind, Outer, Nobody
    <3> QED BY <2>1, <2>3, <3>1 DEF Goes, Kind
  <2> QED BY <2>5, <2>7, <2>8
<1>2. CASE b \notin Listed(p)
  <2>1. b \notin free'[p] /\ b \notin local_free'[p]
    BY <1>2 DEF Listed, CollectedFree, CollectedLocal, Pending
  <2> QED BY <1>2, <2>1, StaysLemma DEF Listed, OuterSame
<1>3. CASE b \in Listed(p)
  <2>1. \E k \in {"free", "local_free", "thread_free"} : At(b, k, NULL)
    BY <1>3 DEF Listed, At
  <2> QED BY <1>1, <2>1
<1> QED BY <1>2, <1>3

-----------------------------------------------------------------------------
(* Every action keeps the invariant of the blocks *)

\* The parts of the invariant.
LEMMA SafeParts ==
  ASSUME Safe
  PROVE  TypeOK /\ OneDelayedFreer /\ Homes /\ Flags /\ Placed /\ Lists /\ UsedExact /\ FullUsed
  BY DEF Safe, Blocks

\* The blocks in the hands of threads do not change.
LEMMA HandStep ==
  ASSUME TypeOK, NEW t \in Thread, Step(t),
         \/ blk'[t] = blk[t] /\ (pc[t] \in HandLabel <=> pc'[t] \in HandLabel)
         \/ pc[t] \notin HandLabel /\ pc'[t] \notin HandLabel
  PROVE  \A u \in Thread : \A b : InHand(u, b)' <=> InHand(u, b)
<1>1. ASSUME NEW u \in Thread, u # t, NEW b PROVE InHand(u, b)' <=> InHand(u, b)
  BY <1>1, OthersStep DEF InHand
<1>2. ASSUME NEW b PROVE InHand(t, b)' <=> InHand(t, b)
  BY DEF InHand
<1> QED BY <1>1, <1>2

\* in a step: no block moves and no count changes
BlocksQuiet ==
  /\ UNCHANGED <<free, local_free, thread_free, used, capacity, live, delayed_free, batch>>
  /\ \A u \in Thread : \A b : InHand(u, b)' <=> InHand(u, b)

\* in a step: no page goes into use, or out of it
UseStays ==
  \A p \in Page : /\ InUse(p)' <=> InUse(p)
                  /\ place'[p] = "fresh" => place[p] = "fresh"

\* in a step: no page joins the full queue, as one that others may free blocks of
FullStays ==
  \A p \in Page : place'[p] = "full" /\ flag'[p] # NEVER_DELAYED_FREE =>
                    place[p] = "full" /\ flag[p] # NEVER_DELAYED_FREE

\* A step without blocks, where a page that joins the full queue has empty lists.
LEMMA QuietBlocks ==
  ASSUME Safe, BlocksQuiet, UseStays,
         \A p \in Page : place'[p] = "full" /\ flag'[p] # NEVER_DELAYED_FREE =>
           \/ place[p] = "full" /\ flag[p] # NEVER_DELAYED_FREE
           \/ InUse(p) /\ Listed(p) = {}
  PROVE  Blocks'
<1>0. Placed /\ Lists /\ UsedExact /\ FullUsed
  BY SafeParts
<1>1. ASSUME NEW b \in Block PROVE Stays(b)
  BY StaysLemma DEF BlocksQuiet
<1>2. BlocksMove /\ PagesStay
  BY <1>1 DEF BlocksMove, PagesStay, BlocksQuiet, UseStays
<1>3. Placed'
  BY <1>0, <1>2, PlacedStep
<1>4. \A p \in Page : Listed(p)' = Listed(p)
  BY DEF Listed, BlocksQuiet
<1>5. Lists'
  BY <1>0, <1>4 DEF Lists, BlocksQuiet, UseStays
<1>6. UsedExact'
  BY <1>0 DEF UsedExact, BlocksQuiet, UseStays
<1>7. FullUsed'
  BY <1>0, <1>4 DEF FullUsed, BlocksQuiet, Lists
<1> QED BY <1>3, <1>5, <1>6, <1>7 DEF Blocks

\* the actions of t that move no block
Quiet(t) ==
  \/ MallocGeneric(t) \/ DelayedDone(t) \/ FindFull(t) \/ FindNone(t) \/ PopAbandoned(t)
  \/ Reclaim(t) \/ ReclaimUse(t) \/ FreshFails(t) \/ MtClaim(t) \/ MtHeap(t) \/ MtReset(t)
  \/ StartCollect(t) \/ ReclaimAll(t) \/ ReclaimAllDone(t) \/ ThreadDone(t) \/ NeverDelayed(t)
  \/ NeverDone(t) \/ PageAbandon(t) \/ VisitDone(t)

\* The actions that move no block keep the blocks where they are.
LEMMA QuietActions ==
  ASSUME Safe, NEW t \in Thread, Quiet(t)
  PROVE  Blocks'
<1>0. TypeOK /\ Homes /\ Flags /\ Step(t)
  BY SafeParts DEF Quiet, Step, Call, Continue
<1>1. UNCHANGED <<free, local_free, thread_free, used, capacity, live, delayed_free, batch>>
  <2>1. CASE \/ MallocGeneric(t) \/ DelayedDone(t) \/ FindFull(t) \/ FindNone(t) \/ PopAbandoned(t)
             \/ Reclaim(t) \/ ReclaimUse(t)
    BY <2>1 DEF MallocGeneric, DelayedDone, FindFull, FindNone, PopAbandoned, Reclaim, ReclaimUse, atomics, fields
  <2>2. CASE FreshFails(t) \/ MtClaim(t) \/ MtHeap(t) \/ MtReset(t) \/ StartCollect(t) \/ ReclaimAll(t)
    BY <2>2 DEF FreshFails, NoPage, MtClaim, MtHeap, MtReset, StartCollect, ReclaimAll, Return, atomics, fields
  <2>3. CASE \/ ReclaimAllDone(t) \/ ThreadDone(t) \/ NeverDelayed(t) \/ NeverDone(t) \/ PageAbandon(t)
             \/ VisitDone(t)
    BY <2>3 DEF ReclaimAllDone, ThreadDone, NeverDelayed, NeverDone, PageAbandon, VisitDone, Return, atomics, fields
  <2> QED BY <2>1, <2>2, <2>3 DEF Quiet
<1>2. \A u \in Thread : \A b : InHand(u, b)' <=> InHand(u, b)
  <2>1. CASE MtClaim(t) \/ MtHeap(t)
    <3>1. blk'[t] = blk[t] /\ pc[t] \in HandLabel /\ pc'[t] \in HandLabel
      <4>1. CASE MtClaim(t)
        BY <1>0, <4>1 DEF MtClaim, Goto, HandLabel, TypeOK, ThreadType
      <4>2. CASE MtHeap(t)
        <5>1. xheap[PageOf[blk[t]]] # NULL
          BY <1>0, <4>2 DEF MtHeap, Flags, Pushes, FreeingLabel
        <5> QED BY <1>0, <4>2, <5>1 DEF MtHeap, Goto, HandLabel, TypeOK, ThreadType
      <4> QED BY <2>1, <4>1, <4>2
    <3> QED BY <1>0, <3>1, HandStep
  <2>2. CASE \/ MallocGeneric(t) \/ DelayedDone(t) \/ FindFull(t) \/ FindNone(t) \/ PopAbandoned(t)
             \/ Reclaim(t) \/ ReclaimUse(t)
    <3>1. pc[t] \notin HandLabel /\ pc'[t] \notin HandLabel
      BY <1>0, <2>2 DEF MallocGeneric, DelayedDone, FindFull, FindNone, PopAbandoned, Reclaim, ReclaimUse,
        Goto, HandLabel, TypeOK, ThreadType
    <3> QED BY <1>0, <3>1, HandStep
  <2>3. CASE FreshFails(t) \/ MtReset(t) \/ StartCollect(t) \/ ReclaimAll(t)
    <3>1. pc[t] \notin HandLabel /\ pc'[t] \notin HandLabel
      BY <1>0, <2>3 DEF FreshFails, NoPage, MtReset, StartCollect, ReclaimAll, Goto, Return, HandLabel, TypeOK, ThreadType
    <3> QED BY <1>0, <3>1, HandStep
  <2>4. CASE \/ ReclaimAllDone(t) \/ ThreadDone(t) \/ NeverDelayed(t) \/ NeverDone(t) \/ PageAbandon(t)
             \/ VisitDone(t)
    <3>1. pc[t] \notin HandLabel /\ pc'[t] \notin HandLabel
      <4>1. CASE VisitDone(t)
        BY <1>0, <4>1 DEF VisitDone, Goto, Return, HandLabel, TypeOK, ThreadType
      <4>2. CASE ReclaimAllDone(t) \/ ThreadDone(t) \/ NeverDelayed(t) \/ NeverDone(t) \/ PageAbandon(t)
        BY <1>0, <4>2 DEF ReclaimAllDone, ThreadDone, NeverDelayed, NeverDone, PageAbandon,
          Goto, HandLabel, TypeOK, ThreadType
      <4> QED BY <2>4, <4>1, <4>2
    <3> QED BY <1>0, <3>1, HandStep
  <2> QED BY <2>1, <2>2, <2>3, <2>4 DEF Quiet
<1>3. UseStays
  <2>1. CASE FindFull(t)
    BY <1>0, <2>1 DEF FindFull, UseStays, InUse, Homes, Works, Queue, TypeOK, PageType
  <2>2. CASE PopAbandoned(t) \/ ReclaimAll(t)
    BY <1>0, <2>2 DEF PopAbandoned, ReclaimAll, Abandoned, UseStays, InUse, TypeOK, PageType
  <2>3. CASE PageAbandon(t)
    BY <1>0, <2>3 DEF PageAbandon, UseStays, InUse, Homes, Works, HeapPages, TypeOK, PageType
  <2>4. CASE ~(FindFull(t) \/ PopAbandoned(t) \/ ReclaimAll(t) \/ PageAbandon(t))
    <3>1. UNCHANGED place
      BY <2>4 DEF Quiet, MallocGeneric, DelayedDone, FindNone, Reclaim, ReclaimUse, FreshFails, MtClaim, MtHeap,
        MtReset, StartCollect, ReclaimAllDone, ThreadDone, NeverDelayed, NeverDone, VisitDone, fields
    <3> QED BY <3>1 DEF UseStays, InUse
  <2> QED BY <2>1, <2>2, <2>3, <2>4
<1>4. ASSUME NEW p \in Page, place'[p] = "full", flag'[p] # NEVER_DELAYED_FREE
      PROVE  \/ place[p] = "full" /\ flag[p] # NEVER_DELAYED_FREE
             \/ InUse(p) /\ Listed(p) = {}
  <2>1. CASE FindFull(t)
    <3>1. PICK q \in todo[t] : CollectedFree(q, FALSE) = {} /\ place' = [place EXCEPT ![q] = "full"]
      BY <2>1 DEF FindFull
    <3>2. Listed(q) = {}
      BY <3>1 DEF CollectedFree, Pending, Listed
    <3>3. InUse(q)
      BY <1>0, <2>1 DEF FindFull, Homes, Works, Queue, InUse
    <3>4. UNCHANGED flag
      BY <2>1 DEF FindFull, atomics
    <3> QED BY <1>0, <1>4, <3>1, <3>2, <3>3, <3>4 DEF TypeOK, PageType
  <2>2. CASE ReclaimUse(t)
    <3>1. place[pg[t]] = "popped" /\ UNCHANGED place
      BY <1>0, <2>2 DEF ReclaimUse, Homes, Works, fields
    <3>2. p # pg[t]
      BY <1>4, <3>1
    <3>3. flag'[p] = flag[p]
      BY <1>0, <2>2, <3>2 DEF ReclaimUse, SetDelayed, TypeOK, PageType, ThreadType
    <3> QED BY <1>4, <3>1, <3>3
  <2>3. CASE MtClaim(t)
    <3>1. /\ UNCHANGED place /\ PageOf[blk[t]] \in Page /\ flag[PageOf[blk[t]]] = USE_DELAYED_FREE
          /\ flag' = [flag EXCEPT ![PageOf[blk[t]]] = DELAYED_FREEING]
      BY <1>0, <2>3, BlockAssumption DEF MtClaim, TypeOK, ThreadType, fields
    <3>2. flag[p] # NEVER_DELAYED_FREE
      <4>1. CASE p = PageOf[blk[t]]
        BY <3>1, <4>1
      <4>2. CASE p # PageOf[blk[t]]
        <5>1. flag'[p] = flag[p]
          BY <1>0, <3>1, <4>2 DEF TypeOK, PageType
        <5> QED BY <1>4, <5>1
      <4> QED BY <4>1, <4>2
    <3> QED BY <1>4, <3>1, <3>2
  <2>4. CASE MtReset(t)
    <3>1. /\ UNCHANGED place /\ PageOf[blk[t]] \in Page
          /\ flag' = [flag EXCEPT ![PageOf[blk[t]]] = NO_DELAYED_FREE]
      BY <1>0, <2>4, BlockAssumption DEF MtReset, TypeOK, ThreadType, fields
    <3>2. flag[PageOf[blk[t]]] = DELAYED_FREEING
      <4>1. Freeing(t, PageOf[blk[t]])
        BY <2>4 DEF MtReset, Freeing, FreeingLabel
      <4> QED BY <3>1, <4>1, SafeParts DEF OneDelayedFreer
    <3>3. flag[p] # NEVER_DELAYED_FREE
      <4>1. CASE p = PageOf[blk[t]]
        BY <3>2, <4>1
      <4>2. CASE p # PageOf[blk[t]]
        <5>1. flag'[p] = flag[p]
          BY <1>0, <3>1, <4>2 DEF TypeOK, PageType
        <5> QED BY <1>4, <5>1
      <4> QED BY <4>1, <4>2
    <3> QED BY <1>4, <3>1, <3>3
  <2>5. CASE NeverDelayed(t)
    BY <1>0, <1>4, <2>5 DEF NeverDelayed, SetDelayed, TypeOK, PageType, ThreadType, fields
  <2>6. CASE ~(FindFull(t) \/ ReclaimUse(t) \/ MtClaim(t) \/ MtReset(t) \/ NeverDelayed(t))
    <3>1. UNCHANGED flag /\ (place'[p] = "full" => place[p] = "full")
      <4>1. CASE PopAbandoned(t) \/ ReclaimAll(t)
        BY <1>0, <4>1 DEF PopAbandoned, ReclaimAll, TypeOK, PageType, atomics
      <4>2. CASE PageAbandon(t)
        BY <1>0, <4>2 DEF PageAbandon, TypeOK, PageType
      <4>3. CASE ~(PopAbandoned(t) \/ ReclaimAll(t) \/ PageAbandon(t))
        BY <2>6, <4>3 DEF Quiet, MallocGeneric, DelayedDone, FindNone, Reclaim, FreshFails, MtHeap,
          StartCollect, ReclaimAllDone, ThreadDone, NeverDone, VisitDone, fields, atomics
      <4> QED BY <4>1, <4>2, <4>3
    <3> QED BY <1>4, <3>1
  <2> QED BY <2>1, <2>2, <2>3, <2>4, <2>5, <2>6
<1> QED BY <1>1, <1>2, <1>3, <1>4, QuietBlocks DEF BlocksQuiet

\* A step that moves blocks outside the lists of their pages.
LEMMA OuterBlocks ==
  ASSUME Safe, UNCHANGED <<free, local_free, thread_free, used, capacity, place>>,
         \A p \in Page : flag'[p] # NEVER_DELAYED_FREE => flag[p] # NEVER_DELAYED_FREE,
         \A b \in Block : Stays(b) \/ (Reached(b) /\ Goes(b))
  PROVE  Blocks'
<1>0. Placed /\ Lists /\ UsedExact /\ FullUsed
  BY SafeParts
<1>1. ASSUME NEW b \in Block, Reached(b) PROVE InUse(PageOf[b]) /\ Somewhere(b)
  BY <1>0, <1>1, PlacedParts DEF Reached, Somewhere, Outer, Kind
<1>2. BlocksMove /\ PagesStay
  BY <1>1 DEF BlocksMove, PagesStay, InUse
<1>3. Placed'
  BY <1>0, <1>2, PlacedStep
<1>4. Lists' /\ UsedExact' /\ FullUsed'
  BY <1>0 DEF Lists, UsedExact, FullUsed, Listed, InUse
<1> QED BY <1>3, <1>4 DEF Blocks

\* The delayed list goes to the batch.
LEMMA TakeDelayedBlocks ==
  ASSUME Safe, NEW t \in Thread, TakeDelayed(t)
  PROVE  Blocks'
<1>0. TypeOK /\ Homes /\ Placed /\ Step(t)
  BY SafeParts DEF Step, Continue
<1>1. UNCHANGED <<free, local_free, thread_free, used, capacity, place, flag, live>>
  BY DEF TakeDelayed, fields
<1>2. \A u \in Thread : \A b : InHand(u, b)' <=> InHand(u, b)
  <2>1. pc[t] \notin HandLabel /\ pc'[t] \notin HandLabel
    BY <1>0 DEF TakeDelayed, Goto, HandLabel, TypeOK, ThreadType
  <2> QED BY <1>0, <2>1, HandStep
<1>3. batch[t] = {}
  BY <1>0 DEF TakeDelayed, Homes, Works
<1>4. /\ batch'[t] = delayed_free[t] /\ delayed_free'[t] = {}
      /\ \A u \in Thread \ {t} : batch'[u] = batch[u] /\ delayed_free'[u] = delayed_free[u]
  BY <1>0 DEF TakeDelayed, TypeOK, PageType, ThreadType
<1>5. ASSUME NEW b \in Block, b \in delayed_free[t] PROVE Reached(b) /\ Goes(b)
  <2>1. At(b, "delayed", t) /\ "delayed" \in Kind /\ t \in Nobody /\ "delayed" \in Outer /\ "batch" \in Kind
    BY <1>5 DEF At, Kind, Nobody, Outer
  <2>2. \A m \in Kind : \A u \in Nobody : At(b, m, u) <=> (m = "delayed" /\ u = t)
    BY <1>0, <2>1, OnlyThere
  <2>3. GoesTo(b, "batch", t)
    <3>1. \A m \in Kind : \A u \in Nobody : At(b, m, u)' <=>
            IF m \in {"delayed", "batch"} /\ u = t THEN m = "batch" ELSE At(b, m, u)
      BY <1>1, <1>2, <1>4, <1>5, ThreadAssumption DEF At, Kind, Nobody
    <3> QED BY <2>2, <3>1 DEF GoesTo
  <2> QED BY <2>1, <2>3 DEF Reached, Goes
<1>6. ASSUME NEW b \in Block, b \notin delayed_free[t] PROVE Stays(b)
  BY <1>1, <1>2, <1>3, <1>4, <1>6, StaysLemma
<1> QED BY <1>1, <1>5, <1>6, OuterBlocks

\* A delayed block goes from the batch to the hand of the thread.
LEMMA DelayedUseBlocks ==
  ASSUME Safe, NEW t \in Thread, DelayedUse(t)
  PROVE  Blocks'
<1>0. TypeOK /\ Homes /\ Placed /\ Step(t)
  BY SafeParts DEF Step, Continue
<1>1. UNCHANGED <<free, local_free, thread_free, used, capacity, place, live, delayed_free>>
  BY DEF DelayedUse, fields
<1>2. PICK c \in batch[t] : /\ SetDelayed(PageOf[c], USE_DELAYED_FREE, FALSE)
                            /\ blk' = [blk EXCEPT ![t] = c]
                            /\ batch' = [batch EXCEPT ![t] = @ \ {c}]
  BY DEF DelayedUse
<1>3. c \in Block /\ PageOf[c] \in Page
  BY <1>0, BlockAssumption DEF TypeOK, ThreadType
<1>4. pc[t] = "dblock" /\ pc'[t] = "dcollect" /\ blk'[t] = c /\ batch'[t] = batch[t] \ {c}
  BY <1>0, <1>2 DEF DelayedUse, Goto, TypeOK, ThreadType
<1>5. \A u \in Thread \ {t} : batch'[u] = batch[u] /\ \A b : InHand(u, b)' <=> InHand(u, b)
  BY <1>0, OthersStep DEF InHand
<1>6. \A b : InHand(t, b)' <=> b = c
  BY <1>4 DEF InHand, HandLabel
<1>7. \A b : ~InHand(t, b)
  BY <1>4 DEF InHand, HandLabel
<1>8. Reached(c) /\ Goes(c)
  <2>1. At(c, "batch", t) /\ "batch" \in Kind /\ t \in Nobody /\ "batch" \in Outer /\ "hand" \in Kind
    BY <1>2 DEF At, Kind, Nobody, Outer
  <2>2. \A m \in Kind : \A u \in Nobody : At(c, m, u) <=> (m = "batch" /\ u = t)
    BY <1>0, <1>3, <2>1, OnlyThere
  <2>3. GoesTo(c, "hand", t)
    <3>1. \A m \in Kind : \A u \in Nobody : At(c, m, u)' <=>
            IF m \in {"batch", "hand"} /\ u = t THEN m = "hand" ELSE At(c, m, u)
      BY <1>1, <1>4, <1>5, <1>6, ThreadAssumption DEF At, Kind, Nobody
    <3> QED BY <2>2, <3>1 DEF GoesTo
  <2> QED BY <2>1, <2>3 DEF Reached, Goes
<1>9. ASSUME NEW b \in Block, b # c PROVE Stays(b)
  <2>1. \A u \in Thread : (b \in batch'[u] <=> b \in batch[u]) /\ (InHand(u, b)' <=> InHand(u, b))
    BY <1>4, <1>5, <1>6, <1>7, <1>9
  <2> QED BY <1>1, <2>1, StaysLemma
<1>10. ASSUME NEW p \in Page, flag'[p] # NEVER_DELAYED_FREE PROVE flag[p] # NEVER_DELAYED_FREE
  BY <1>0, <1>2, <1>3, <1>10 DEF SetDelayed, TypeOK, PageType
<1> QED BY <1>1, <1>8, <1>9, <1>10, OuterBlocks

\* A block of the program goes to the hand of the thread that frees it.
LEMMA FreeRemoteBlocks ==
  ASSUME Safe, NEW t \in Thread, FreeRemote(t)
  PROVE  Blocks'
<1>0. TypeOK /\ Homes /\ Placed /\ Step(t)
  BY SafeParts DEF Step, Call
<1>1. UNCHANGED <<free, local_free, thread_free, used, capacity, place, delayed_free, batch, flag>>
  BY DEF FreeRemote, fields, atomics
<1>2. PICK c \in live : live' = live \ {c} /\ blk' = [blk EXCEPT ![t] = c]
  BY DEF FreeRemote
<1>3. c \in Block
  BY <1>0 DEF TypeOK, PageType
<1>4. pc[t] = "idle" /\ pc'[t] = "mt" /\ blk'[t] = c
  BY <1>0, <1>2 DEF FreeRemote, Goto, TypeOK, ThreadType
<1>5. \A u \in Thread \ {t} : \A b : InHand(u, b)' <=> InHand(u, b)
  BY <1>0, OthersStep DEF InHand
<1>6. \A b : ~InHand(t, b) /\ (InHand(t, b)' <=> b = c)
  BY <1>4 DEF InHand, HandLabel
<1>8. Reached(c) /\ Goes(c)
  <2>1. At(c, "live", NULL) /\ "live" \in Kind /\ NULL \in Nobody /\ "live" \in Outer /\ "hand" \in Kind /\ t \in Nobody
    BY <1>2 DEF At, Kind, Nobody, Outer
  <2>2. \A m \in Kind : \A u \in Nobody : At(c, m, u) <=> (m = "live" /\ u = NULL)
    BY <1>0, <1>3, <2>1, OnlyThere
  <2>3. GoesTo(c, "hand", t)
    <3>1. \A m \in Kind : \A u \in Nobody : At(c, m, u)' <=>
            IF m = "live" THEN FALSE ELSE IF m = "hand" /\ u = t THEN TRUE ELSE At(c, m, u)
      BY <1>1, <1>2, <1>5, <1>6, ThreadAssumption DEF At, Kind, Nobody
    <3> QED BY <2>1, <2>2, <3>1 DEF GoesTo
  <2> QED BY <2>1, <2>3 DEF Reached, Goes
<1>9. ASSUME NEW b \in Block, b # c PROVE Stays(b)
  BY <1>1, <1>2, <1>5, <1>6, <1>9, StaysLemma
<1> QED BY <1>1, <1>8, <1>9, OuterBlocks

\* The block in hand goes to the delayed list of the heap that was read.
LEMMA MtDelayedBlocks ==
  ASSUME Safe, NEW t \in Thread, MtDelayed(t)
  PROVE  Blocks'
<1>0. TypeOK /\ Homes /\ Placed /\ Step(t)
  BY SafeParts DEF Step, Continue
<1>1. UNCHANGED <<free, local_free, thread_free, used, capacity, place, live, batch, flag, blk>>
  BY DEF MtDelayed, fields
<1>2. pc[t] = "mt_push" /\ pc'[t] = "mt_reset"
  BY <1>0 DEF MtDelayed, Goto, TypeOK, ThreadType
<1>3. blk[t] \in Block /\ hp[t] \in Thread
  BY <1>0, <1>2 DEF TypeOK, ThreadType
<1>c. PICK c \in Block : c = blk[t]
  BY <1>3
<1>h. PICK h \in Thread : h = hp[t]
  BY <1>3
<1>4. /\ delayed_free'[h] = delayed_free[h] \cup {c}
      /\ \A u \in Thread \ {h} : delayed_free'[u] = delayed_free[u]
  BY <1>0, <1>c, <1>h DEF MtDelayed, TypeOK, PageType
<1>5. \A u \in Thread \ {t} : \A b : InHand(u, b)' <=> InHand(u, b)
  BY <1>0, OthersStep DEF InHand
<1>6. \A b : ~InHand(t, b)' /\ (InHand(t, b) <=> b = c)
  BY <1>2, <1>c DEF InHand, HandLabel
<1>8. Reached(c) /\ Goes(c)
  <2>1. At(c, "hand", t) /\ "hand" \in Kind /\ t \in Nobody /\ "hand" \in Outer /\ "delayed" \in Kind /\ h \in Nobody
    BY <1>3, <1>6 DEF At, Kind, Nobody, Outer
  <2>2. \A m \in Kind : \A u \in Nobody : At(c, m, u) <=> (m = "hand" /\ u = t)
    BY <1>0, <1>3, <2>1, OnlyThere
  <2>3. GoesTo(c, "delayed", h)
    <3>1. \A m \in Kind : \A u \in Nobody : At(c, m, u)' <=>
            IF m = "delayed" /\ u = h THEN TRUE ELSE IF m = "hand" /\ u = t THEN FALSE ELSE At(c, m, u)
      BY <1>1, <1>3, <1>4, <1>5, <1>6, ThreadAssumption DEF At, Kind, Nobody
    <3> QED BY <2>1, <2>2, <3>1 DEF GoesTo
  <2> QED BY <2>1, <2>3 DEF Reached, Goes
<1>9. ASSUME NEW b \in Block, b # c PROVE Stays(b)
  <2>1. \A u \in Thread : b \in delayed_free'[u] <=> b \in delayed_free[u]
    BY <1>4, <1>9
  <2> QED BY <1>1, <1>5, <1>6, <1>9, <2>1, StaysLemma
<1> QED BY <1>1, <1>3, <1>8, <1>9, OuterBlocks

\* u has b on its delayed list or in its batch, or is about to put it there
Holds(b, u) == At(b, "delayed", u) \/ At(b, "batch", u) \/ (At(b, "hand", u) /\ pc[u] \in FreeingLabel)

\* A page whose flag keeps threads from delayed frees has a block that is not
\* on its lists: on a delayed list, in a batch, or in the hand of a thread.
LEMMA FlagWitness ==
  ASSUME Safe, NEW p \in Page, InUse(p), flag[p] \in {NO_DELAYED_FREE, DELAYED_FREEING}
  PROVE  \E b \in capacity[p] : \E u \in Thread :
           /\ Holds(b, u)
           /\ b \in Block /\ PageOf[b] = p
<1> DEFINE W == \E b \in capacity[p] : \E u \in Thread :
                  /\ Holds(b, u)
                  /\ b \in Block /\ PageOf[b] = p
<1>0. TypeOK /\ OneDelayedFreer /\ Flags /\ Placed
  BY SafeParts
<1>1. ASSUME NEW b \in Block, PageOf[b] = p, NEW u \in Thread,
             Holds(b, u)
      PROVE  W
  <2>1. Somewhere(b)
    BY <1>1 DEF Holds, Somewhere, Nobody, Kind
  <2>2. b \in capacity[p]
    BY <1>0, <1>1, <2>1, PlacedParts
  <2> QED BY <1>1, <2>2
<1> HIDE DEF W
<1>2. ASSUME NEW h \in Thread, NEW b \in delayed_free[h] \cup batch[h], PageOf[b] = p
      PROVE  W
  <2>1. b \in Block
    BY <1>0 DEF TypeOK, PageType, ThreadType
  <2>2. Holds(b, h)
    BY <1>2 DEF At, Holds
  <2> QED BY <1>1, <1>2, <2>1, <2>2
<1>3. ASSUME flag[p] = NO_DELAYED_FREE PROVE W
  <2>1. xheap[p] \in Thread
    BY <1>0, <1>3 DEF Flags, NoDelayedPending, TypeOK, PageType
  <2>2. \E b \in delayed_free[xheap[p]] \cup batch[xheap[p]] : PageOf[b] = p
    BY <1>0, <1>3 DEF Flags, NoDelayedPending
  <2> QED BY <1>2, <2>1, <2>2
<1>4. ASSUME flag[p] = DELAYED_FREEING PROVE W
  <2>1. PICK u \in Thread : Freeing(u, p)
    BY <1>0, <1>4 DEF OneDelayedFreer
  <2>2. pc[u] \in FreeingLabel /\ PageOf[blk[u]] = p /\ blk[u] \in Block
    BY <1>0, <2>1 DEF Freeing, FreeingLabel, TypeOK, ThreadType
  <2>3. CASE pc[u] = "mt_reset"
    <3>1. xheap[p] \in Thread /\ blk[u] \in delayed_free[xheap[p]] \cup batch[xheap[p]]
      BY <1>0, <2>2, <2>3 DEF Flags, Pushes, TypeOK, PageType
    <3> QED BY <1>2, <2>2, <3>1
  <2>4. CASE pc[u] # "mt_reset"
    <3>1. Holds(blk[u], u)
      BY <2>2, <2>4 DEF Holds, At, InHand, HandLabel, FreeingLabel
    <3> QED BY <1>1, <2>2, <3>1
  <2> QED BY <2>3, <2>4
<1> QED BY <1>3, <1>4 DEF W

\* The block in hand goes to the thread_free list of its page.
LEMMA MtPushBlocks ==
  ASSUME Safe, NEW t \in Thread, MtPush(t)
  PROVE  Blocks'
<1>0. TypeOK /\ Homes /\ Placed /\ Lists /\ UsedExact /\ FullUsed /\ Step(t)
  BY SafeParts DEF Step, Continue
<1>1. UNCHANGED <<free, local_free, used, capacity, place, live, batch, flag, delayed_free>>
  BY DEF MtPush, fields, Return
<1>2. pc[t] = "mt" /\ pc'[t] = "idle"
  BY <1>0 DEF MtPush, Return, TypeOK, ThreadType
<1>3. blk[t] \in Block /\ PageOf[blk[t]] \in Page
  BY <1>0, <1>2, BlockAssumption DEF TypeOK, ThreadType
<1>c. PICK c \in Block : c = blk[t]
  BY <1>3
<1>p. PICK p \in Page : p = PageOf[c]
  BY <1>3, <1>c
<1>4. /\ thread_free'[p] = thread_free[p] \cup {c}
      /\ \A q \in Page \ {p} : thread_free'[q] = thread_free[q]
  BY <1>0, <1>c, <1>p DEF MtPush, TypeOK, PageType
<1>5. \A u \in Thread \ {t} : \A b : InHand(u, b)' <=> InHand(u, b)
  BY <1>0, OthersStep DEF InHand
<1>6. \A b : ~InHand(t, b)' /\ (InHand(t, b) <=> b = c)
  BY <1>2, <1>c DEF InHand, HandLabel
<1>7. \A m \in Kind : \A u \in Nobody : At(c, m, u) <=> (m = "hand" /\ u = t)
  <2>1. At(c, "hand", t) /\ "hand" \in Kind /\ t \in Nobody
    BY <1>6 DEF At, Kind, Nobody
  <2> QED BY <1>0, <2>1, OnlyThere
<1>8. InUse(p) /\ Somewhere(c) /\ Goes(c)
  <2>1. "hand" \in Kind /\ t \in Nobody /\ "hand" \in Outer /\ "thread_free" \in Kind /\ NULL \in Nobody
    BY DEF Kind, Nobody, Outer
  <2>2. At(c, "hand", t)
    BY <1>7, <2>1
  <2>3. GoesTo(c, "thread_free", NULL)
    <3>1. \A m \in Kind : \A u \in Nobody : At(c, m, u)' <=>
            IF m = "thread_free" /\ u = NULL THEN TRUE ELSE IF m = "hand" /\ u = t THEN FALSE ELSE At(c, m, u)
      BY <1>1, <1>p, <1>4, <1>5, <1>6, ThreadAssumption DEF At, Kind, Nobody
    <3> QED BY <1>7, <2>1, <3>1, ThreadAssumption DEF GoesTo
  <2>4. Reached(c)
    BY <2>1, <2>2 DEF Reached
  <2>5. Somewhere(c) /\ Goes(c)
    BY <2>1, <2>2, <2>3 DEF Somewhere, Goes
  <2> QED BY <1>0, <1>p, <2>4, <2>5, PlacedParts
<1>9. ASSUME NEW b \in Block, b # c PROVE Stays(b)
  <2>1. b \in thread_free'[PageOf[b]] <=> b \in thread_free[PageOf[b]]
    BY <1>4, <1>9, BlockAssumption
  <2> QED BY <1>1, <1>5, <1>6, <1>9, <2>1, StaysLemma
<1>10. Placed'
  <2>1. BlocksMove /\ PagesStay
    BY <1>1, <1>p, <1>8, <1>9 DEF BlocksMove, PagesStay, InUse
  <2> QED BY <1>0, <2>1, PlacedStep
<1>11. \A q \in Page : Listed(q)' = IF q = p THEN Listed(p) \cup {c} ELSE Listed(q)
  BY <1>1, <1>4 DEF Listed
<1>12. Lists'
  BY <1>0, <1>1, <1>p, <1>8, <1>11 DEF Lists, Reserved, InUse
<1>13. UsedExact'
  BY <1>0, <1>1 DEF UsedExact, InUse
<1>14. FullUsed'
  <2>1. ASSUME flag[p] # NEVER_DELAYED_FREE PROVE capacity[p] \ (Listed(p) \cup {c}) # {}
    <3>1. flag[p] \in {NO_DELAYED_FREE, DELAYED_FREEING}
      BY <1>0, <1>c, <1>p, <2>1 DEF MtPush, TypeOK, PageType, Flag
    <3>2. PICK b \in capacity[p] : \E u \in Thread :
            /\ Holds(b, u)
            /\ b \in Block /\ PageOf[b] = p
      BY <1>8, <3>1, FlagWitness
    <3>3. PICK u \in Thread : Holds(b, u)
      BY <3>2
    <3>4. b # c
      BY <1>2, <1>7, <3>3 DEF Kind, Nobody, FreeingLabel, Holds
    <3>5. b \notin Listed(p)
      <4>1. PICK k \in Outer : At(b, k, u)
        BY <3>3 DEF Outer, Holds
      <4>2. \A m \in Kind : \A v \in Nobody : At(b, m, v) => m = k
        BY <1>0, <3>2, <4>1, OnlyThere DEF Nobody, Kind, Outer
      <4> QED BY <3>2, <4>2 DEF Listed, At, Kind, Outer, Nobody
    <3> QED BY <3>4, <3>5
  <2> QED BY <1>0, <1>1, <1>11, <2>1 DEF FullUsed
<1> QED BY <1>10, <1>12, <1>13, <1>14 DEF Blocks

\* in a step: nothing moves outside the lists of the pages
OuterStays ==
  /\ UNCHANGED <<live, delayed_free, batch>>
  /\ \A u \in Thread : \A b : InHand(u, b)' <=> InHand(u, b)

\* A collect moves blocks between the lists of its page.
LEMMA CollectMoves ==
  ASSUME Safe, NEW p \in Page, InUse(p), NEW force \in BOOLEAN, Collect(p, force), OuterStays
  PROVE  /\ BlocksMove
         /\ \A q \in Page : Listed(q)' = Listed(q)
         /\ Counts(p, free'[p], local_free'[p], used'[p])
         /\ used'[p] = CollectedUsed(p)
         /\ \A q \in Page \ {p} : free'[q] = free[q] /\ local_free'[q] = local_free[q] /\ used'[q] = used[q]
<1>0. TypeOK /\ Placed /\ Lists /\ UsedExact
  BY SafeParts
<1>1. /\ thread_free'[p] = {} /\ free'[p] = CollectedFree(p, force)
      /\ local_free'[p] = CollectedLocal(p, force) /\ used'[p] = CollectedUsed(p)
      /\ \A q \in Page \ {p} : /\ free'[q] = free[q] /\ local_free'[q] = local_free[q]
                               /\ thread_free'[q] = thread_free[q] /\ used'[q] = used[q]
  BY <1>0 DEF Collect, EmptyThreadFree, TypeOK, PageType
<1>2. Counts(p, free'[p], local_free'[p], used'[p])
  BY <1>0, <1>1, CollectCounts
<1>3. ASSUME NEW q \in Page PROVE Listed(q)' = Listed(q)
  <2>1. CASE q = p
    BY <1>0, <1>1, <2>1, CollectCounts DEF Listed
  <2>2. CASE q # p
    BY <1>1, <2>2 DEF Listed
  <2> QED BY <2>1, <2>2
<1>4. ASSUME NEW b \in Block PROVE Stays(b) \/ (InUse(PageOf[b]) /\ Somewhere(b) /\ Goes(b))
  <2>0. OuterSame(b)
    BY DEF OuterStays, OuterSame
  <2>1. CASE PageOf[b] = p
    BY <1>0, <1>1, <2>0, <2>1, CollectSpot
  <2>2. CASE PageOf[b] # p
    <3>1. PageOf[b] \in Page \ {p}
      BY <2>2, BlockAssumption
    <3> QED BY <1>1, <2>0, <3>1, StaysLemma DEF OuterSame
  <2> QED BY <2>1, <2>2
<1> QED BY <1>1, <1>2, <1>3, <1>4 DEF BlocksMove

\* A step that collects a page and releases none.
LEMMA CollectBlocks ==
  ASSUME Safe, NEW p \in Page, InUse(p), NEW force \in BOOLEAN, Collect(p, force), OuterStays,
         UseStays, FullStays, UNCHANGED capacity
  PROVE  Blocks'
<1>0. TypeOK /\ Placed /\ Lists /\ UsedExact /\ FullUsed
  BY SafeParts
<1>1. /\ BlocksMove
      /\ \A q \in Page : Listed(q)' = Listed(q)
      /\ Counts(p, free'[p], local_free'[p], used'[p])
      /\ \A q \in Page \ {p} : free'[q] = free[q] /\ local_free'[q] = local_free[q] /\ used'[q] = used[q]
  BY CollectMoves
<1>2. Placed'
  BY <1>0, <1>1, PlacedStep DEF PagesStay, UseStays
<1>3. Lists'
  <2>1. ASSUME NEW q \in Page, place'[q] = "fresh" PROVE q # p
    BY <2>1 DEF UseStays, InUse
  <2> QED BY <1>0, <1>1, <2>1 DEF Lists, UseStays, Reserved
<1>4. UsedExact'
  BY <1>0, <1>1 DEF UsedExact, Counts, UseStays
<1>5. FullUsed'
  BY <1>0, <1>1 DEF FullUsed, FullStays
<1> QED BY <1>2, <1>3, <1>4, <1>5 DEF Blocks

\* in a step: p is released, the pages in the full queue stay or leave it
PageOut(p) ==
  /\ place'[p] = "released" /\ capacity'[p] = {}
  /\ \A q \in Page \ {p} : place'[q] = place[q] /\ capacity'[q] = capacity[q]

\* A step that releases a page whose blocks are all on its lists; its lists
\* and used counts change for this page only.
LEMMA ReleaseBlocks ==
  ASSUME Safe, NEW p \in Page, InUse(p), BlocksMove, PageOut(p), UNCHANGED flag,
         capacity[p] \subseteq Listed(p)', Listed(p)' \subseteq Reserved(p),
         \A q \in Page \ {p} : /\ Listed(q)' = Listed(q) /\ used'[q] = used[q]
                               /\ free'[q] = free[q] /\ local_free'[q] = local_free[q]
  PROVE  Blocks'
<1>0. TypeOK /\ Placed /\ Lists /\ UsedExact /\ FullUsed
  BY SafeParts
<1>1. Releases(p)
  BY DEF Releases, PageOut, InUse
<1>2. Placed'
  BY <1>0, <1>1, ReleaseStep
<1>3. Lists'
  BY <1>0 DEF Lists, PageOut, InUse, Reserved
<1>4. UsedExact'
  BY <1>0 DEF UsedExact, PageOut, InUse
<1>5. FullUsed'
  BY <1>0 DEF FullUsed, PageOut
<1> QED BY <1>2, <1>3, <1>4, <1>5 DEF Blocks

\* A collect that finds no block in use, and releases the page.
LEMMA CollectReleases ==
  ASSUME Safe, NEW p \in Page, InUse(p), NEW force \in BOOLEAN, Collect(p, force), OuterStays,
         CollectedUsed(p) = 0, PageOut(p), UNCHANGED flag
  PROVE  Blocks'
<1>0. TypeOK /\ Lists
  BY SafeParts
<1>1. /\ BlocksMove
      /\ \A q \in Page : Listed(q)' = Listed(q)
      /\ Counts(p, free'[p], local_free'[p], 0)
      /\ \A q \in Page \ {p} : free'[q] = free[q] /\ local_free'[q] = local_free[q] /\ used'[q] = used[q]
  BY CollectMoves
<1>2. capacity[p] = free'[p] \cup local_free'[p]
  BY <1>0, <1>1, UsedZero
<1>3. capacity[p] \subseteq Listed(p)'
  BY <1>2 DEF Listed
<1>4. Listed(p)' \subseteq Reserved(p)
  BY <1>0, <1>1 DEF Lists
<1> QED BY <1>1, <1>3, <1>4, ReleaseBlocks

\* A release of a page whose used count is zero already.
LEMMA EmptyReleases ==
  ASSUME Safe, NEW p \in Page, InUse(p), used[p] = 0, OuterStays, PageOut(p),
         UNCHANGED <<flag, free, local_free, thread_free, used>>
  PROVE  Blocks'
<1>0. TypeOK /\ Placed /\ Lists /\ UsedExact
  BY SafeParts
<1>1. BlocksMove
  BY StaysLemma DEF BlocksMove, OuterStays
<1>2. Counts(p, free[p], local_free[p], 0)
  <2>1. FALSE \in BOOLEAN
    OBVIOUS
  <2> QED BY <1>0, <2>1, CollectCounts
<1>3. capacity[p] = free[p] \cup local_free[p]
  BY <1>0, <1>2, UsedZero
<1>4. \A q \in Page : Listed(q)' = Listed(q)
  BY DEF Listed
<1>5. capacity[p] \subseteq Listed(p)' /\ Listed(p)' \subseteq Reserved(p)
  BY <1>0, <1>3, <1>4 DEF Lists, Listed
<1> QED BY <1>1, <1>4, <1>5, ReleaseBlocks

\* The collect of a page that joins the full queue.
LEMMA ToFullBlocks ==
  ASSUME Safe, NEW t \in Thread, ToFull(t)
  PROVE  Blocks'
<1>0. TypeOK /\ Homes /\ Step(t)
  BY SafeParts DEF Step, Continue
<1>1. pg[t] \in Page /\ InUse(pg[t]) /\ Collect(pg[t], FALSE) /\ FALSE \in BOOLEAN
  BY <1>0 DEF ToFull, Homes, Works, HeapPages, InUse
<1>2. UNCHANGED <<flag, place, capacity, live, delayed_free, batch>>
  BY DEF ToFull
<1>3. \A u \in Thread : \A b : InHand(u, b)' <=> InHand(u, b)
  <2>1. pc[t] \notin HandLabel /\ pc'[t] \notin HandLabel
    BY <1>0 DEF ToFull, Goto, HandLabel, TypeOK, ThreadType
  <2> QED BY <1>0, <2>1, HandStep
<1>4. OuterStays /\ UseStays /\ FullStays
  BY <1>2, <1>3 DEF OuterStays, UseStays, FullStays, InUse
<1> QED BY <1>1, <1>2, <1>4, CollectBlocks

\* The collect of a page of a popped segment.
LEMMA CheckFreeBlocks ==
  ASSUME Safe, NEW t \in Thread, CheckFree(t)
  PROVE  Blocks'
<1>0. TypeOK /\ Homes /\ Step(t)
  BY SafeParts DEF Step, Continue
<1>1. pg[t] \in Page /\ place[pg[t]] = "popped" /\ Collect(pg[t], FALSE) /\ FALSE \in BOOLEAN
  BY <1>0 DEF CheckFree, Homes, Works, TypeOK, ThreadType
<1>2. UNCHANGED <<flag, capacity, live, delayed_free, batch>>
  BY DEF CheckFree
<1>3. \A u \in Thread : \A b : InHand(u, b)' <=> InHand(u, b)
  <2>1. pc[t] \notin HandLabel /\ pc'[t] \notin HandLabel
    BY <1>0 DEF CheckFree, Goto, HandLabel, TypeOK, ThreadType
  <2> QED BY <1>0, <2>1, HandStep
<1>4. UNCHANGED place \/ place' = [place EXCEPT ![pg[t]] = "abandoned"]
  BY DEF CheckFree
<1>5. OuterStays /\ UseStays /\ FullStays
  <2>1. UseStays /\ FullStays
    BY <1>0, <1>1, <1>2, <1>4 DEF UseStays, FullStays, InUse, TypeOK, PageType
  <2> QED BY <1>2, <1>3, <2>1 DEF OuterStays
<1> QED BY <1>1, <1>2, <1>5, CollectBlocks DEF InUse

\* The collect of a page that a thread reclaims.
LEMMA ReclaimCollectBlocks ==
  ASSUME Safe, NEW t \in Thread, ReclaimCollect(t)
  PROVE  Blocks'
<1>0. TypeOK /\ Homes /\ Step(t)
  BY SafeParts DEF Step, Continue
<1>1. pg[t] \in Page /\ place[pg[t]] = "popped" /\ Collect(pg[t], FALSE) /\ FALSE \in BOOLEAN
  BY <1>0 DEF ReclaimCollect, Homes, Works, TypeOK, ThreadType
<1>2. UNCHANGED <<flag, live, delayed_free, batch>>
  <2>1. ASSUME NoPage(t) PROVE UNCHANGED batch
    BY <2>1 DEF NoPage, Return
  <2> QED BY <2>1 DEF ReclaimCollect
<1>3. \A u \in Thread : \A b : InHand(u, b)' <=> InHand(u, b)
  <2>1. ASSUME NoPage(t) PROVE pc'[t] \notin HandLabel
    BY <1>0, <2>1 DEF NoPage, Goto, Return, HandLabel, TypeOK, ThreadType
  <2>2. pc[t] \notin HandLabel /\ pc'[t] \notin HandLabel
    BY <1>0, <2>1 DEF ReclaimCollect, Goto, HandLabel, TypeOK, ThreadType
  <2> QED BY <1>0, <2>2, HandStep
<1>4. OuterStays
  BY <1>2, <1>3 DEF OuterStays
<1>5. CASE CollectedUsed(pg[t]) = 0
  <2>1. place' = [place EXCEPT ![pg[t]] = "released"] /\ capacity' = [capacity EXCEPT ![pg[t]] = {}]
    BY <1>5 DEF ReclaimCollect
  <2>2. PICK p \in Page : p = pg[t]
    BY <1>1
  <2>3. PageOut(p)
    BY <1>0, <1>1, <2>1, <2>2 DEF PageOut, TypeOK, PageType
  <2> QED BY <1>1, <1>2, <1>4, <1>5, <2>2, <2>3, CollectReleases DEF InUse
<1>6. CASE CollectedUsed(pg[t]) # 0
  <2>1. place' = [place EXCEPT ![pg[t]] = "queue"] /\ UNCHANGED capacity
    BY <1>6 DEF ReclaimCollect
  <2>2. UseStays /\ FullStays
    BY <1>0, <1>1, <1>2, <2>1 DEF UseStays, FullStays, InUse, TypeOK, PageType
  <2> QED BY <1>1, <1>4, <2>1, <2>2, CollectBlocks DEF InUse
<1> QED BY <1>5, <1>6

\* The collect of a page that a heap visits.
LEMMA VisitPageBlocks ==
  ASSUME Safe, NEW t \in Thread, VisitPage(t)
  PROVE  Blocks'
<1>0. TypeOK /\ Homes /\ Step(t)
  BY SafeParts DEF Step, Continue
<1>1. PICK p \in todo[t] :
        /\ Collect(p, goal[t] # "collect")
        /\ \/ CollectedUsed(p) = 0 /\ PageFree(p) /\ UNCHANGED pc
           \/ /\ UNCHANGED <<capacity, place>>
              /\ UNCHANGED pc \/ Goto(t, "abandon")
  BY DEF VisitPage
<1>2. p \in Page /\ InUse(p)
  BY <1>0 DEF VisitPage, Homes, Works, HeapPages, InUse
<1>3. UNCHANGED <<flag, live, delayed_free, batch>>
  BY DEF VisitPage
<1>4. \A u \in Thread : \A b : InHand(u, b)' <=> InHand(u, b)
  <2>1. pc[t] \notin HandLabel /\ pc'[t] \notin HandLabel
    BY <1>0, <1>1 DEF VisitPage, Goto, HandLabel, TypeOK, ThreadType
  <2> QED BY <1>0, <2>1, HandStep
<1>5. OuterStays
  BY <1>3, <1>4 DEF OuterStays
<1>6. PICK force \in BOOLEAN : force = (goal[t] # "collect")
  OBVIOUS
<1>7. CASE CollectedUsed(p) = 0 /\ PageFree(p)
  <2>1. PageOut(p)
    BY <1>0, <1>2, <1>7 DEF PageFree, PageOut, TypeOK, PageType
  <2> QED BY <1>1, <1>2, <1>3, <1>5, <1>6, <1>7, <2>1, CollectReleases
<1>8. CASE UNCHANGED <<capacity, place>>
  <2>1. UseStays /\ FullStays
    BY <1>3, <1>8 DEF UseStays, FullStays, InUse
  <2> QED BY <1>1, <1>2, <1>5, <1>6, <1>8, <2>1, CollectBlocks
<1> QED BY <1>1, <1>7, <1>8

\* The release of a retired page.
LEMMA CollectRetiredBlocks ==
  ASSUME Safe, NEW t \in Thread, CollectRetired(t)
  PROVE  Blocks'
<1>0. TypeOK /\ Homes /\ Step(t)
  BY SafeParts DEF Step, Continue
<1>1. UNCHANGED <<flag, live, delayed_free, batch, free, local_free, thread_free, used>>
  BY DEF CollectRetired
<1>2. \A u \in Thread : \A b : InHand(u, b)' <=> InHand(u, b)
  <2>1. pc[t] \notin HandLabel /\ pc'[t] \notin HandLabel
    BY <1>0 DEF CollectRetired, Goto, HandLabel, TypeOK, ThreadType
  <2> QED BY <1>0, <2>1, HandStep
<1>3. OuterStays
  BY <1>1, <1>2 DEF OuterStays
<1>4. CASE \E p \in Queue(t) : used[p] = 0 /\ PageFree(p)
  <2>1. PICK p \in Queue(t) : used[p] = 0 /\ PageFree(p)
    BY <1>4
  <2>2. p \in Page /\ InUse(p) /\ PageOut(p)
    BY <1>0, <2>1 DEF Queue, InUse, PageFree, PageOut, TypeOK, PageType
  <2> QED BY <1>1, <1>3, <2>1, <2>2, EmptyReleases
<1>5. CASE UNCHANGED <<capacity, place>>
  <2>1. UseStays
    BY <1>5 DEF UseStays, InUse
  <2> QED BY <1>1, <1>2, <1>5, <2>1, QuietBlocks DEF BlocksQuiet
<1> QED BY <1>4, <1>5 DEF CollectRetired

\* in a step: nothing but c moves outside the lists of the pages
OuterStaysBut(c) ==
  /\ \A b \in Block \ {c} : b \in live' <=> b \in live
  /\ UNCHANGED <<delayed_free, batch>>
  /\ \A u \in Thread : \A b : InHand(u, b)' <=> InHand(u, b)

\* A listed block that is allocated goes to the program.
LEMMA AllocSpot ==
  ASSUME Placed, NEW c \in Block, c \in Listed(PageOf[c]), c \notin Listed(PageOf[c])', c \in live',
         OuterStaysBut(c)
  PROVE  Somewhere(c) /\ Goes(c)
<1>1. PICK k \in Kind \ Outer : At(c, k, NULL)
  BY DEF Listed, At, Kind, Outer
<1>2. \A m \in Kind : \A u \in Nobody : At(c, m, u) <=> (m = k /\ u = NULL)
  BY <1>1, OnlyThere DEF Nobody
<1>3. GoesTo(c, "live", NULL)
  <2>1. ASSUME NEW m \in Kind, NEW u \in Nobody, m # "live" PROVE ~At(c, m, u)'
    BY <1>1, <1>2, <2>1 DEF At, Kind, Outer, Nobody, Listed, OuterStaysBut
  <2>2. ASSUME NEW u \in Nobody PROVE At(c, "live", u)' <=> u = NULL
    BY <2>2 DEF At
  <2> QED BY <2>1, <2>2 DEF GoesTo
<1>4. "live" \in Kind /\ NULL \in Nobody
  BY DEF Kind, Nobody
<1> QED BY <1>1, <1>3, <1>4 DEF Somewhere, Goes

\* A step that allocates a block of a page of a queue.
LEMMA AllocBlocks ==
  ASSUME Safe, NEW p \in Page, place[p] = "queue", NEW f, NEW l, NEW u, Counts(p, f, l, u),
         f \cup l \subseteq Listed(p), NEW c \in f, PopBlock(p, c, f, u),
         local_free' = [local_free EXCEPT ![p] = l],
         thread_free'[p] \subseteq thread_free[p],
         \A q \in Page \ {p} : thread_free'[q] = thread_free[q],
         BlocksMove, UNCHANGED <<flag, place, capacity>>
  PROVE  Blocks'
<1>0. TypeOK /\ Placed /\ Lists /\ UsedExact /\ FullUsed
  BY SafeParts
<1>1. Placed'
  BY <1>0, PlacedStep DEF PagesStay, InUse
<1>2. /\ free'[p] = f \ {c} /\ used'[p] = u + 1 /\ local_free'[p] = l
      /\ \A q \in Page \ {p} : /\ free'[q] = free[q] /\ local_free'[q] = local_free[q] /\ used'[q] = used[q]
                               /\ Listed(q)' = Listed(q)
  BY <1>0 DEF PopBlock, Listed, TypeOK, PageType
<1>3. Counts(p, free'[p], local_free'[p], used'[p])
  BY <1>0, <1>2, CountAlloc
<1>4. Listed(p)' \subseteq Listed(p)
  BY <1>2 DEF Listed
<1>5. Lists'
  BY <1>0, <1>2, <1>4 DEF Lists, InUse, Reserved
<1>6. UsedExact'
  BY <1>0, <1>2, <1>3 DEF UsedExact, Counts, InUse
<1>7. FullUsed'
  BY <1>0, <1>2 DEF FullUsed
<1> QED BY <1>1, <1>5, <1>6, <1>7 DEF Blocks

\* The block is the first free one of the queue.
LEMMA MallocFastBlocks ==
  ASSUME Safe, NEW t \in Thread, MallocFast(t)
  PROVE  Blocks'
<1>0. TypeOK /\ Placed /\ Lists /\ UsedExact
  BY SafeParts
<1>p. PICK p \in Queue(t) : \E c \in free[p] : PopBlock(p, c, free[p], used[p])
  BY DEF MallocFast
<1>1. PICK c \in free[p] : PopBlock(p, c, free[p], used[p])
  BY <1>p
<1>2. p \in Page /\ place[p] = "queue" /\ InUse(p)
  BY DEF Queue, InUse
<1>3. UNCHANGED <<flag, place, capacity, local_free, thread_free, delayed_free, batch, pc, blk>>
  BY DEF MallocFast, atomics, control
<1>4. c \in Block /\ PageOf[c] = p
  BY <1>0, <1>2 DEF Lists, Listed, Reserved
<1>5. OuterStaysBut(c)
  BY <1>0, <1>1, <1>3 DEF OuterStaysBut, PopBlock, InHand, TypeOK, PageType
<1>6. /\ free'[p] = free[p] \ {c} /\ live' = live \cup {c}
      /\ \A q \in Page \ {p} : free'[q] = free[q]
  BY <1>0, <1>1, <1>2 DEF PopBlock, TypeOK, PageType
<1>7. Somewhere(c) /\ Goes(c)
  <2>1. c \in Listed(PageOf[c])
    BY <1>4 DEF Listed
  <2>2. c \notin local_free[p] /\ c \notin thread_free[p]
    BY <1>0, <1>2, ListsApart
  <2>3. c \notin Listed(PageOf[c])'
    BY <1>3, <1>4, <1>6, <2>2 DEF Listed
  <2> QED BY <1>0, <1>4, <1>5, <1>6, <2>1, <2>3, AllocSpot
<1>8. ASSUME NEW b \in Block, b # c PROVE Stays(b)
  <2>1. b \in free'[PageOf[b]] <=> b \in free[PageOf[b]]
    BY <1>6, <1>8, BlockAssumption
  <2> QED BY <1>3, <1>5, <1>8, <2>1, StaysLemma DEF OuterStaysBut
<1>9. BlocksMove
  BY <1>2, <1>4, <1>7, <1>8 DEF BlocksMove
<1>10. Counts(p, free[p], local_free[p], used[p])
  <2>1. FALSE \in BOOLEAN
    OBVIOUS
  <2> QED BY <1>0, <1>2, <2>1, CollectCounts
<1>11. local_free' = [local_free EXCEPT ![p] = local_free[p]]
  BY <1>0, <1>2, <1>3 DEF TypeOK, PageType
<1>12. free[p] \cup local_free[p] \subseteq Listed(p)
  BY DEF Listed
<1> QED BY <1>1, <1>2, <1>3, <1>9, <1>10, <1>11, <1>12, AllocBlocks

\* The block comes from a page that is collected first.
LEMMA FindAvailableBlocks ==
  ASSUME Safe, NEW t \in Thread, FindAvailable(t)
  PROVE  Blocks'
<1>0. TypeOK /\ Homes /\ Placed /\ Lists /\ UsedExact /\ Step(t)
  BY SafeParts DEF Step, Continue
<1>p. PICK p \in todo[t] : \E c \in CollectedFree(p, FALSE) :
        /\ EmptyThreadFree(p)
        /\ local_free' = [local_free EXCEPT ![p] = CollectedLocal(p, FALSE)]
        /\ PopBlock(p, c, CollectedFree(p, FALSE), CollectedUsed(p))
  BY DEF FindAvailable
<1>1. PICK c \in CollectedFree(p, FALSE) :
        /\ EmptyThreadFree(p)
        /\ local_free' = [local_free EXCEPT ![p] = CollectedLocal(p, FALSE)]
        /\ PopBlock(p, c, CollectedFree(p, FALSE), CollectedUsed(p))
  BY <1>p
<1>2. p \in Page /\ place[p] = "queue" /\ InUse(p)
  BY <1>0 DEF FindAvailable, Homes, Works, Queue, InUse
<1>3. UNCHANGED <<flag, place, capacity, delayed_free, batch>>
  BY DEF FindAvailable, Return
<1>f. PICK f : f = CollectedFree(p, FALSE)
  OBVIOUS
<1>l. PICK l : l = CollectedLocal(p, FALSE)
  OBVIOUS
<1>u. PICK u : u = CollectedUsed(p)
  OBVIOUS
<1>4. Counts(p, f, l, u) /\ f \cup l = Listed(p)
  <2>1. FALSE \in BOOLEAN
    OBVIOUS
  <2> QED BY <1>0, <1>2, <1>f, <1>l, <1>u, <2>1, CollectCounts
<1>5. c \in f /\ PopBlock(p, c, f, u) /\ local_free' = [local_free EXCEPT ![p] = l]
  BY <1>1, <1>f, <1>l, <1>u
<1>6. c \in Block /\ PageOf[c] = p
  BY <1>0, <1>2, <1>4, <1>5 DEF Lists, Reserved
<1>7. /\ free'[p] = f \ {c} /\ local_free'[p] = l /\ thread_free'[p] = {} /\ live' = live \cup {c}
      /\ \A q \in Page \ {p} : free'[q] = free[q] /\ local_free'[q] = local_free[q] /\ thread_free'[q] = thread_free[q]
  BY <1>0, <1>1, <1>2, <1>5 DEF PopBlock, EmptyThreadFree, TypeOK, PageType
<1>8. \A v \in Thread : \A b : InHand(v, b)' <=> InHand(v, b)
  <2>1. pc[t] \notin HandLabel /\ pc'[t] \notin HandLabel
    BY <1>0 DEF FindAvailable, Return, HandLabel, TypeOK, ThreadType
  <2> QED BY <1>0, <2>1, HandStep
<1>9. OuterStaysBut(c)
  BY <1>3, <1>7, <1>8 DEF OuterStaysBut
<1>10. Somewhere(c) /\ Goes(c)
  <2>1. c \in Listed(PageOf[c])
    BY <1>4, <1>5, <1>6
  <2>2. c \notin Listed(PageOf[c])'
    BY <1>4, <1>5, <1>6, <1>7 DEF Listed, Counts
  <2> QED BY <1>0, <1>6, <1>7, <1>9, <2>1, <2>2, AllocSpot
<1>11. ASSUME NEW b \in Block, b # c PROVE Stays(b) \/ (InUse(PageOf[b]) /\ Somewhere(b) /\ Goes(b))
  <2>0. OuterSame(b)
    BY <1>3, <1>9, <1>11 DEF OuterStaysBut, OuterSame
  <2>1. CASE PageOf[b] = p
    <3>1. /\ b \notin thread_free'[p]
          /\ b \in free'[p] <=> b \in CollectedFree(p, FALSE)
          /\ b \in local_free'[p] <=> b \in CollectedLocal(p, FALSE)
          /\ FALSE \in BOOLEAN
      BY <1>f, <1>l, <1>7, <1>11
    <3> QED BY <1>0, <1>2, <2>0, <2>1, <3>1, CollectSpot
  <2>2. CASE PageOf[b] # p
    <3>1. PageOf[b] \in Page \ {p}
      BY <2>2, BlockAssumption
    <3> QED BY <1>7, <2>0, <3>1, StaysLemma DEF OuterSame
  <2> QED BY <2>1, <2>2
<1>12. BlocksMove
  BY <1>2, <1>6, <1>10, <1>11 DEF BlocksMove
<1> QED BY <1>2, <1>3, <1>4, <1>5, <1>7, <1>12, AllocBlocks

\* A step that adds blocks to a page with empty lists and allocates one.
LEMMA ExtendBlocks ==
  ASSUME Safe, NEW p \in Page, NEW e, NEW c \in e, Extends(p, e), Listed(p) = {},
         used[p] = Cardinality(capacity[p]), PopBlock(p, c, e, used[p]), OuterStaysBut(c),
         UNCHANGED <<local_free, thread_free, flag>>, place'[p] = "queue",
         \A q \in Page \ {p} : place'[q] = place[q]
  PROVE  Blocks'
<1>0. TypeOK /\ Placed /\ Lists /\ UsedExact /\ FullUsed
  BY SafeParts
<1>1. /\ e \subseteq Reserved(p) /\ e \cap capacity[p] = {} /\ capacity'[p] = capacity[p] \cup e
      /\ \A q \in Page \ {p} : capacity'[q] = capacity[q]
  BY DEF Extends
<1>2. /\ free'[p] = e \ {c} /\ used'[p] = used[p] + 1 /\ live' = live \cup {c}
      /\ \A q \in Page \ {p} : free'[q] = free[q] /\ used'[q] = used[q] /\ Listed(q)' = Listed(q)
  BY <1>0 DEF PopBlock, Listed, TypeOK, PageType
<1>3. free[p] = {} /\ local_free[p] = {} /\ thread_free[p] = {}
  BY DEF Listed
<1>4. ASSUME NEW b \in Block, b \in e PROVE Goes(b)
  <2>1. PageOf[b] = p /\ b \notin capacity[p]
    BY <1>1, <1>4 DEF Reserved
  <2>2. ~Reached(b)
    <3>1. CASE InUse(p)
      BY <1>0, <2>1, <3>1, PlacedParts DEF Somewhere, Reached, Kind, Outer
    <3>2. CASE ~InUse(p)
      BY <1>0, <2>1, <3>2, PlacedParts
    <3> QED BY <3>1, <3>2
  <2>3. \A m \in Outer : \A u \in Nobody : ~At(b, m, u)
    BY <2>2 DEF Reached
  <2>4. "free" \in Kind /\ "live" \in Kind /\ NULL \in Nobody
    BY DEF Kind, Nobody
  <2>5. CASE b = c
    <3>1. GoesTo(b, "live", NULL)
      <4>1. ASSUME NEW m \in Kind, NEW u \in Nobody, m # "live" PROVE ~At(b, m, u)'
        BY <1>2, <1>3, <2>1, <2>3, <2>5, <4>1 DEF At, Kind, Outer, OuterStaysBut
      <4>2. ASSUME NEW u \in Nobody PROVE At(b, "live", u)' <=> u = NULL
        BY <1>2, <2>5, <4>2 DEF At
      <4> QED BY <4>1, <4>2 DEF GoesTo
    <3> QED BY <2>4, <3>1 DEF Goes
  <2>6. CASE b # c
    <3>1. GoesTo(b, "free", NULL)
      <4>1. ASSUME NEW m \in Kind, NEW u \in Nobody, m # "free" PROVE ~At(b, m, u)'
        BY <1>2, <1>3, <2>1, <2>3, <2>6, <4>1 DEF At, Kind, Outer, OuterStaysBut
      <4>2. ASSUME NEW u \in Nobody PROVE At(b, "free", u)' <=> u = NULL
        BY <1>2, <1>4, <2>1, <2>6, <4>2 DEF At
      <4> QED BY <4>1, <4>2 DEF GoesTo
    <3> QED BY <2>4, <3>1 DEF Goes
  <2> QED BY <2>5, <2>6
<1>5. ASSUME NEW b \in Block, b \notin e PROVE Stays(b)
  <2>1. b # c
    BY <1>5
  <2>2. b \in free'[PageOf[b]] <=> b \in free[PageOf[b]]
    <3>1. CASE PageOf[b] = p
      BY <1>2, <1>3, <1>5, <3>1
    <3>2. CASE PageOf[b] # p
      BY <1>2, <3>2, BlockAssumption
    <3> QED BY <3>1, <3>2
  <2> QED BY <2>1, <2>2, StaysLemma DEF OuterStaysBut
<1>6. Placed'
  BY <1>0, <1>4, <1>5, ExtendStep
<1>7. Listed(p)' = e \ {c}
  BY <1>2, <1>3 DEF Listed
<1>8. Lists'
  <2>1. capacity'[p] \subseteq Reserved(p) /\ Listed(p)' \subseteq Reserved(p) /\ capacity'[p] # {}
    BY <1>0, <1>1, <1>7 DEF Lists
  <2>2. ASSUME NEW q \in Page \ {p}, InUse(q)' PROVE capacity'[q] # {}
    BY <1>0, <1>1, <2>2 DEF Lists, InUse
  <2> QED BY <1>0, <1>1, <1>2, <2>1, <2>2 DEF Lists, Reserved
<1>9. UsedExact'
  <2>1. used'[p] = Cardinality(capacity'[p]) - Cardinality(free'[p]) - Cardinality(local_free'[p])
    <3>1. capacity[p] \subseteq Block /\ e \subseteq Block
      BY <1>0, <1>1 DEF Lists, Reserved
    <3>2. Cardinality(capacity[p] \cup e) = Cardinality(capacity[p]) + Cardinality(e)
      BY <1>1, <3>1, SumBlocks
    <3>3. IsFiniteSet(e) /\ Cardinality(e) \in Nat /\ Cardinality(capacity[p]) \in Nat
      BY <3>1, FiniteBlocks
    <3>4. Cardinality(e \ {c}) = Cardinality(e) - 1
      BY <3>3, FS_RemoveElement
    <3>5. Cardinality({}) = 0
      BY FS_EmptySet
    <3> QED BY <1>1, <1>2, <1>3, <3>2, <3>3, <3>4, <3>5
  <2> QED BY <1>0, <1>1, <1>2, <2>1 DEF UsedExact, InUse
<1>10. FullUsed'
  BY <1>0, <1>1, <1>2 DEF FullUsed
<1> QED BY <1>6, <1>8, <1>9, <1>10 DEF Blocks

\* The page has no free block and is extended.
LEMMA FindExtendBlocks ==
  ASSUME Safe, NEW t \in Thread, FindExtend(t)
  PROVE  Blocks'
<1>0. TypeOK /\ Homes /\ Placed /\ Lists /\ UsedExact /\ Step(t)
  BY SafeParts DEF Step, Continue
<1>p. PICK p \in todo[t] :
        /\ CollectedFree(p, FALSE) = {}
        /\ \E e \in Extensions(p), c \in Block :
             /\ PopBlock(p, c, e, used[p])
             /\ capacity' = [capacity EXCEPT ![p] = @ \cup e]
  BY DEF FindExtend
<1>1. PICK e \in Extensions(p), c \in Block :
        /\ PopBlock(p, c, e, used[p])
        /\ capacity' = [capacity EXCEPT ![p] = @ \cup e]
  BY <1>p
<1>2. p \in Page /\ place[p] = "queue" /\ InUse(p)
  BY <1>0 DEF FindExtend, Homes, Works, Queue, InUse
<1>3. UNCHANGED <<flag, place, local_free, thread_free, delayed_free, batch>>
  BY DEF FindExtend, Return, atomics
<1>4. Listed(p) = {}
  BY <1>p DEF CollectedFree, Pending, Listed
<1>5. used[p] = Cardinality(capacity[p])
  <2>1. used[p] = Cardinality(capacity[p]) - Cardinality({}) - Cardinality({})
    BY <1>0, <1>2, <1>4 DEF UsedExact, Listed
  <2>2. Cardinality({}) = 0
    BY FS_EmptySet
  <2>3. Cardinality(capacity[p]) \in Nat
    BY <1>0, <1>2, FiniteBlocks DEF Lists, Reserved
  <2> QED BY <2>1, <2>2, <2>3
<1>6. c \in e /\ e \subseteq Reserved(p) /\ e \cap capacity[p] = {}
  BY <1>1 DEF PopBlock, Extensions
<1>7. Extends(p, e)
  BY <1>0, <1>1, <1>2, <1>3, <1>6 DEF Extends, InUse, TypeOK, PageType
<1>8. OuterStaysBut(c)
  <2>1. pc[t] \notin HandLabel /\ pc'[t] \notin HandLabel
    BY <1>0 DEF FindExtend, Return, HandLabel, TypeOK, ThreadType
  <2>2. \A v \in Thread : \A b : InHand(v, b)' <=> InHand(v, b)
    BY <1>0, <2>1, HandStep
  <2> QED BY <1>1, <1>3, <2>2 DEF OuterStaysBut, PopBlock
<1> QED BY <1>1, <1>2, <1>3, <1>4, <1>5, <1>6, <1>7, <1>8, ExtendBlocks

\* The page is fresh.
LEMMA FreshPageBlocks ==
  ASSUME Safe, ~Reuse, NEW t \in Thread, FreshPage(t)
  PROVE  Blocks'
<1>0. TypeOK /\ Homes /\ Placed /\ Lists /\ UsedExact /\ Step(t)
  BY SafeParts DEF Step, Continue
<1>p. PICK p \in Page :
        /\ place[p] = "fresh"
        /\ place' = [place EXCEPT ![p] = "queue"]
        /\ \E e \in (IF free[p] = {} THEN Extensions(p) ELSE {{}}), c \in Block :
             /\ PopBlock(p, c, free[p] \cup e, used[p])
             /\ capacity' = [capacity EXCEPT ![p] = e]
  BY DEF FreshPage
<1>2. Listed(p) = {} /\ free[p] = {} /\ capacity[p] = {} /\ used[p] = 0
  BY <1>0, <1>p DEF Lists, Listed
<1>1. PICK e \in Extensions(p), c \in Block :
        /\ PopBlock(p, c, e, used[p])
        /\ capacity' = [capacity EXCEPT ![p] = e]
  BY <1>p, <1>2
<1>3. UNCHANGED <<flag, local_free, thread_free, delayed_free, batch>>
  BY DEF FreshPage, Return
<1>4. place'[p] = "queue" /\ \A q \in Page \ {p} : place'[q] = place[q]
  BY <1>0, <1>p DEF TypeOK, PageType
<1>5. used[p] = Cardinality(capacity[p])
  BY <1>2, FS_EmptySet
<1>6. c \in e /\ e \subseteq Reserved(p) /\ e \cap capacity[p] = {}
  BY <1>1, <1>2 DEF PopBlock, Extensions
<1>7. Extends(p, e)
  BY <1>0, <1>1, <1>2, <1>4, <1>6 DEF Extends, InUse, TypeOK, PageType
<1>8. OuterStaysBut(c)
  <2>1. pc[t] \notin HandLabel /\ pc'[t] \notin HandLabel
    BY <1>0 DEF FreshPage, Return, HandLabel, TypeOK, ThreadType
  <2>2. \A v \in Thread : \A b : InHand(v, b)' <=> InHand(v, b)
    BY <1>0, <2>1, HandStep
  <2> QED BY <1>1, <1>3, <2>2 DEF OuterStaysBut, PopBlock
<1> QED BY <1>1, <1>2, <1>3, <1>4, <1>5, <1>6, <1>7, <1>8, ExtendBlocks

\* A free by the owner puts the block on local_free; the page may be released.
LEMMA LocalFreeBlocks ==
  ASSUME Safe, NEW t \in Thread, NEW p \in Page, InUse(p), NEW c \in Block, PageOf[c] = p, Reached(c),
         NEW f, NEW l, NEW u, Counts(p, f, l, u), LocalFree(t, p, c, f, l, u),
         f \cup l \cup thread_free'[p] = Listed(p),
         \A q \in Page \ {p} : thread_free'[q] = thread_free[q],
         \A m \in Outer : \A v \in Nobody : ~At(c, m, v)',
         \A b \in Block \ {c} : Stays(b) \/ (InUse(PageOf[b]) /\ Somewhere(b) /\ Goes(b)),
         UNCHANGED flag
  PROVE  Blocks'
<1>0. TypeOK /\ Placed /\ Lists /\ UsedExact /\ FullUsed
  BY SafeParts
<1>1. /\ free'[p] = f /\ local_free'[p] = l \cup {c} /\ used'[p] = u - 1
      /\ \A q \in Page \ {p} : /\ free'[q] = free[q] /\ local_free'[q] = local_free[q] /\ used'[q] = used[q]
                               /\ Listed(q)' = Listed(q)
  BY <1>0 DEF LocalFree, Listed, TypeOK, PageType
<1>2. c \in capacity[p] /\ Somewhere(c)
  BY <1>0, PlacedParts DEF Somewhere, Reached, Kind, Outer
<1>3. c \notin Listed(p)
  <2>1. PICK k \in Outer : \E v \in Nobody : At(c, k, v)
    BY DEF Reached
  <2>2. \A m \in Kind : \A v \in Nobody : At(c, m, v) => m = k
    BY <1>0, <2>1, OnlyThere DEF Kind, Outer
  <2> QED BY <2>2 DEF Listed, At, Kind, Outer, Nobody
<1>4. Goes(c)
  <2>1. GoesTo(c, "local_free", NULL)
    <3>1. ASSUME NEW m \in Kind, NEW v \in Nobody, m # "local_free" PROVE ~At(c, m, v)'
      BY <1>1, <1>3, <3>1 DEF At, Kind, Outer
    <3>2. ASSUME NEW v \in Nobody PROVE At(c, "local_free", v)' <=> v = NULL
      BY <1>1, <3>2 DEF At
    <3> QED BY <3>1, <3>2 DEF GoesTo
  <2>2. "local_free" \in Kind /\ NULL \in Nobody
    BY DEF Kind, Nobody
  <2> QED BY <2>1, <2>2 DEF Goes
<1>5. BlocksMove
  BY <1>2, <1>4 DEF BlocksMove
<1>6. Listed(p)' = Listed(p) \cup {c} /\ Listed(p)' \subseteq Reserved(p)
  BY <1>0, <1>1 DEF Listed, Lists, Reserved
<1>7. Counts(p, f, l \cup {c}, u - 1)
  BY <1>0, <1>2, <1>3, CountFree
<1>8. CASE u - 1 = 0 /\ PageFree(p)
  <2>1. PageOut(p)
    BY <1>0, <1>8 DEF PageFree, PageOut, TypeOK, PageType
  <2>2. capacity[p] = f \cup (l \cup {c})
    BY <1>0, <1>7, <1>8, UsedZero
  <2>3. capacity[p] \subseteq Listed(p)'
    BY <1>1, <2>2 DEF Listed
  <2> QED BY <1>1, <1>5, <1>6, <2>1, <2>3, ReleaseBlocks
<1>9. CASE UNCHANGED capacity /\ \/ UNCHANGED place /\ Queue(t) = {p}
                                 \/ place' = [place EXCEPT ![p] = IF @ = "full" THEN "queue" ELSE @]
  <2>1. place'[p] # "full" /\ place'[p] # "fresh" /\ InUse(p)' /\ \A q \in Page \ {p} : place'[q] = place[q]
    BY <1>0, <1>9 DEF Queue, InUse, TypeOK, PageType
  <2>2. PagesStay
    BY <1>9, <2>1 DEF PagesStay, InUse
  <2>3. Placed'
    BY <1>0, <1>5, <2>2, PlacedStep
  <2>4. Lists'
    BY <1>0, <1>1, <1>6, <1>9, <2>1 DEF Lists, Reserved, InUse
  <2>5. UsedExact'
    BY <1>0, <1>1, <1>7, <1>9, <2>1, SMTT(60) DEF UsedExact, Counts, InUse
  <2>6. FullUsed'
    BY <1>0, <1>1, <1>9, <2>1 DEF FullUsed
  <2> QED BY <2>3, <2>4, <2>5, <2>6 DEF Blocks
<1> QED BY <1>8, <1>9 DEF LocalFree

\* The owner frees a block of the program.
LEMMA FreeLocalBlocks ==
  ASSUME Safe, NEW t \in Thread, FreeLocal(t)
  PROVE  Blocks'
<1>0. TypeOK /\ Placed /\ Lists /\ UsedExact
  BY SafeParts
<1>1. PICK c \in live :
        /\ live' = live \ {c}
        /\ LocalFree(t, PageOf[c], c, free[PageOf[c]], local_free[PageOf[c]], used[PageOf[c]])
  BY DEF FreeLocal
<1>2. c \in Block /\ PageOf[c] \in Page
  BY <1>0, BlockAssumption DEF TypeOK, PageType
<1>p. PICK p \in Page : p = PageOf[c]
  BY <1>2
<1>3. UNCHANGED <<flag, thread_free, delayed_free, batch, pc, blk>>
  BY DEF FreeLocal, control
<1>4. At(c, "live", NULL) /\ "live" \in Outer /\ "live" \in Kind /\ NULL \in Nobody
  BY DEF At, Outer, Kind, Nobody
<1>5. Reached(c) /\ InUse(p)
  BY <1>0, <1>2, <1>p, <1>4, PlacedParts DEF Reached
<1>6. \A m \in Outer : \A v \in Nobody : ~At(c, m, v)'
  <2>1. \A m \in Kind : \A v \in Nobody : At(c, m, v) <=> (m = "live" /\ v = NULL)
    BY <1>0, <1>2, <1>4, OnlyThere
  <2>2. \A m \in Outer : \A v \in Nobody : m # "live" => ~At(c, m, v)
    BY <2>1 DEF Outer, Kind
  <2> QED BY <1>1, <1>3, <2>2 DEF At, Outer, InHand
<1>7. ASSUME NEW b \in Block \ {c} PROVE Stays(b)
  <2>1. /\ b \in free'[PageOf[b]] <=> b \in free[PageOf[b]]
        /\ b \in local_free'[PageOf[b]] <=> b \in local_free[PageOf[b]]
    BY <1>0, <1>1, <1>2, <1>7, BlockAssumption DEF LocalFree, TypeOK, PageType
  <2> QED BY <1>1, <1>3, <1>7, <2>1, StaysLemma DEF InHand
<1>8. Counts(p, free[p], local_free[p], used[p])
  <2>1. FALSE \in BOOLEAN
    OBVIOUS
  <2> QED BY <1>0, <1>5, <2>1, CollectCounts
<1>9. LocalFree(t, p, c, free[p], local_free[p], used[p]) /\ PageOf[c] = p
  BY <1>1, <1>p
<1>10. free[p] \cup local_free[p] \cup thread_free'[p] = Listed(p)
  BY <1>3 DEF Listed
<1> QED BY <1>2, <1>3, <1>5, <1>6, <1>7, <1>8, <1>9, <1>10, LocalFreeBlocks

\* The owner frees a block of its delayed list.
LEMMA DelayedFreeBlocks ==
  ASSUME Safe, NEW t \in Thread, DelayedFree(t)
  PROVE  Blocks'
<1>0. TypeOK /\ Placed /\ Lists /\ UsedExact /\ Step(t)
  BY SafeParts DEF Step, Continue
<1>1. pc[t] = "dcollect" /\ pc'[t] = "dblock" /\ blk[t] \in Block /\ PageOf[blk[t]] \in Page
  BY <1>0, BlockAssumption DEF DelayedFree, Goto, TypeOK, ThreadType
<1>c. PICK c \in Block : c = blk[t]
  BY <1>1
<1>p. PICK p \in Page : p = PageOf[c]
  BY <1>1, <1>c
<1>f. PICK f : f = CollectedFree(p, FALSE)
  OBVIOUS
<1>l. PICK l : l = CollectedLocal(p, FALSE)
  OBVIOUS
<1>u. PICK u : u = CollectedUsed(p)
  OBVIOUS
<1>2. EmptyThreadFree(p) /\ LocalFree(t, p, c, f, l, u)
  BY <1>c, <1>p, <1>f, <1>l, <1>u DEF DelayedFree
<1>3. UNCHANGED <<flag, live, delayed_free, batch>>
  BY DEF DelayedFree
<1>4. /\ \A v \in Thread \ {t} : \A b : InHand(v, b)' <=> InHand(v, b)
      /\ \A b : ~InHand(t, b)' /\ (InHand(t, b) <=> b = c)
  BY <1>0, <1>1, <1>c, OthersStep DEF InHand, HandLabel
<1>5. At(c, "hand", t) /\ "hand" \in Outer /\ "hand" \in Kind /\ t \in Nobody
  BY <1>4 DEF At, Outer, Kind, Nobody
<1>6. Reached(c) /\ InUse(p)
  BY <1>0, <1>p, <1>5, PlacedParts DEF Reached
<1>7. \A m \in Outer : \A v \in Nobody : ~At(c, m, v)'
  <2>1. \A m \in Kind : \A v \in Nobody : At(c, m, v) <=> (m = "hand" /\ v = t)
    BY <1>0, <1>5, OnlyThere
  <2>2. \A m \in Outer : \A v \in Nobody : m # "hand" \/ v # t => ~At(c, m, v)
    BY <2>1 DEF Outer, Kind
  <2> QED BY <1>3, <1>4, <2>2, ThreadAssumption DEF At, Outer, Nobody
<1>8. Counts(p, f, l, u) /\ f \cup l = Listed(p)
  <2>1. FALSE \in BOOLEAN
    OBVIOUS
  <2> QED BY <1>0, <1>f, <1>l, <1>u, <1>6, <2>1, CollectCounts
<1>9. /\ free'[p] = f /\ local_free'[p] = l \cup {c} /\ thread_free'[p] = {}
      /\ \A q \in Page \ {p} : free'[q] = free[q] /\ local_free'[q] = local_free[q] /\ thread_free'[q] = thread_free[q]
  BY <1>0, <1>2 DEF LocalFree, EmptyThreadFree, TypeOK, PageType
<1>10. ASSUME NEW b \in Block \ {c} PROVE Stays(b) \/ (InUse(PageOf[b]) /\ Somewhere(b) /\ Goes(b))
  <2>0. OuterSame(b)
    BY <1>3, <1>4, <1>10 DEF OuterSame
  <2>1. CASE PageOf[b] = p
    <3>1. /\ b \notin thread_free'[p]
          /\ b \in free'[p] <=> b \in CollectedFree(p, FALSE)
          /\ b \in local_free'[p] <=> b \in CollectedLocal(p, FALSE)
          /\ FALSE \in BOOLEAN
      BY <1>f, <1>l, <1>9, <1>10
    <3> QED BY <1>0, <1>6, <2>0, <2>1, <3>1, CollectSpot
  <2>2. CASE PageOf[b] # p
    <3>1. PageOf[b] \in Page \ {p}
      BY <2>2, BlockAssumption
    <3> QED BY <1>9, <2>0, <3>1, StaysLemma DEF OuterSame
  <2> QED BY <2>1, <2>2
<1>11. f \cup l \cup thread_free'[p] = Listed(p) /\ PageOf[c] = p
  BY <1>p, <1>8, <1>9
<1> QED BY <1>2, <1>3, <1>6, <1>7, <1>8, <1>9, <1>10, <1>11, LocalFreeBlocks

\* Every step of a thread keeps the invariant of the blocks.
LEMMA BlocksStep ==
  ASSUME Safe, ~Reuse, NEW t \in Thread, Step(t)
  PROVE  Blocks'
  BY QuietActions, TakeDelayedBlocks, DelayedUseBlocks, FreeRemoteBlocks, MtDelayedBlocks, MtPushBlocks,
     ToFullBlocks, CheckFreeBlocks, ReclaimCollectBlocks, VisitPageBlocks, CollectRetiredBlocks,
     MallocFastBlocks, FindAvailableBlocks, FindExtendBlocks, FreshPageBlocks, FreeLocalBlocks,
     DelayedFreeBlocks DEF Step, Call, Continue, Quiet

-----------------------------------------------------------------------------
(* Every action keeps the invariant of the pages *)

\* in a step of t: the pages that change heap or place are no other thread's,
\* and t pops none that another thread has popped
OwnPages(t) ==
  /\ \A p \in Page : xheap'[p] # xheap[p] \/ place'[p] # place[p] =>
       /\ xheap[p] \in {NULL, t} /\ xheap'[p] \in {NULL, t}
       /\ \A u \in Thread \ {t} : ~Pops(u, p)
  /\ pc'[t] \in PopLabel => \A u \in Thread \ {t} : ~Pops(u, pg'[t])

\* The pages of the other threads stay what they are to them.
LEMMA OthersHome ==
  ASSUME TypeOK, Homes, NEW t \in Thread, Step(t), OwnPages(t), NEW u \in Thread, u # t
  PROVE  Works(u)' /\ Ends(u)'
<1>1. /\ pc'[u] = pc[u] /\ goal'[u] = goal[u] /\ blk'[u] = blk[u] /\ pg'[u] = pg[u]
      /\ todo'[u] = todo[u] /\ batch'[u] = batch[u]
  BY OthersStep
<1>2. u # NULL
  BY ThreadAssumption
<1>3. ASSUME NEW p \in Page, xheap[p] = u \/ xheap'[p] = u \/ Pops(u, p)
      PROVE  xheap'[p] = xheap[p] /\ place'[p] = place[p]
  BY <1>2, <1>3 DEF OwnPages
<1>4. Queue(u)' = Queue(u) /\ HeapPages(u)' = HeapPages(u)
  BY <1>3 DEF Queue, HeapPages
<1>5. Works(u) /\ Ends(u)
  BY DEF Homes
<1>6. Ends(u)'
  BY <1>1, <1>4, <1>5 DEF Ends
<1>7. Works(u)'
  <2>1. pc[u] \in {"find", "to_full"} => todo'[u] \subseteq Queue(u)'
    BY <1>1, <1>4, <1>5 DEF Works
  <2>2. pc[u] = "to_full" => pg'[u] \in HeapPages(u)' /\ place'[pg'[u]] = "full"
    BY <1>1, <1>3, <1>4, <1>5 DEF Works, HeapPages
  <2>3. /\ pc[u] \in {"never", "visit", "abandon"} => todo'[u] \subseteq HeapPages(u)'
        /\ pc[u] = "abandon" => pg'[u] \in HeapPages(u)' \ todo'[u]
    BY <1>1, <1>4, <1>5 DEF Works
  <2>4. pc[u] \in PopLabel => pg[u] \in Page /\ Pops(u, pg[u])
    BY DEF PopLabel, Pops, TypeOK, ThreadType
  <2>5. /\ pc[u] \in {"check", "reclaim"} => place'[pg'[u]] = "popped" /\ xheap'[pg'[u]] = NULL
        /\ pc[u] \in {"reclaim_use", "reclaim_collect"} => place'[pg'[u]] = "popped" /\ xheap'[pg'[u]] = u
    BY <1>1, <1>3, <1>5, <2>4 DEF Works, PopLabel
  <2>6. ASSUME pc[u] \in PopLabel, NEW w \in Thread \ {u} PROVE ~Pops(w, pg[u])'
    <3>0. pg'[u] = pg[u] /\ Pops(u, pg[u])
      BY <1>1, <2>4, <2>6
    <3>1. CASE w = t
      BY <1>1, <2>4, <2>6, <3>1 DEF OwnPages, Pops
    <3>2. CASE w # t
      <4>1. pc'[w] = pc[w] /\ pg'[w] = pg[w]
        BY <3>2, OthersStep
      <4>2. ~Pops(w, pg[u])
        BY <1>5, <2>6 DEF Works
      <4> QED BY <3>0, <4>1, <4>2 DEF Pops
    <3> QED BY <3>1, <3>2
  <2>7. pc[u] \notin {"dblock", "dcollect"} => batch'[u] = {}
    BY <1>1, <1>5 DEF Works
  <2> QED BY <1>1, <2>1, <2>2, <2>3, <2>5, <2>6, <2>7 DEF Works
<1> QED BY <1>6, <1>7

\* A step keeps the invariant if it does so for the thread and the pages it changes.
LEMMA HomesStep ==
  ASSUME TypeOK, Homes, NEW t \in Thread, Step(t), OwnPages(t), Works(t)', Ends(t)',
         \A p \in Page : \/ xheap'[p] # xheap[p] \/ place'[p] # place[p]
                         \/ place[p] = "popped" /\ xheap[p] = t
                         => PageHome(p)'
  PROVE  Homes'
<1>1. ASSUME NEW u \in Thread PROVE Works(u)' /\ Ends(u)'
  BY OthersHome
<1>2. ASSUME NEW p \in Page, xheap'[p] = xheap[p], place'[p] = place[p], place[p] # "popped" \/ xheap[p] # t
      PROVE  PageHome(p)'
  <2>1. PageHome(p)
    BY DEF Homes
  <2>2. CASE place[p] = "popped" /\ xheap[p] # NULL
    <3>1. xheap[p] \in Thread /\ xheap[p] # t
      BY <1>2, <2>2 DEF TypeOK, PageType
    <3>2. pc'[xheap[p]] = pc[xheap[p]] /\ pg'[xheap[p]] = pg[xheap[p]]
      BY <3>1, OthersStep
    <3> QED BY <1>2, <2>1, <2>2, <3>2 DEF PageHome
  <2>3. CASE ~(place[p] = "popped" /\ xheap[p] # NULL)
    BY <1>2, <2>1, <2>3 DEF PageHome
  <2> QED BY <2>2, <2>3
<1>3. ASSUME NEW p \in Page PROVE PageHome(p)'
  BY <1>2
<1> QED BY <1>1, <1>3 DEF Homes

\* A step that changes no page, of a thread that reclaims none.
LEMMA QuietHomes ==
  ASSUME TypeOK, Homes, NEW t \in Thread, Step(t), UNCHANGED <<xheap, place>>,
         pc[t] \notin {"reclaim_use", "reclaim_collect"}, pc'[t] \notin PopLabel,
         Works(t)', Ends(t)'
  PROVE  Homes'
<1>1. OwnPages(t)
  BY DEF OwnPages
<1>2. \A p \in Page : ~(place[p] = "popped" /\ xheap[p] = t)
  BY ThreadAssumption DEF Homes, PageHome
<1> QED BY <1>1, <1>2, HomesStep

\* the actions of t that change neither the heap nor the place of a page, and
\* are not of a thread that reclaims one
SamePages(t) ==
  \/ MallocFast(t) \/ MallocGeneric(t) \/ FreeRemote(t) \/ StartCollect(t) \/ ThreadDone(t)
  \/ TakeDelayed(t) \/ DelayedUse(t) \/ DelayedDone(t) \/ FindAvailable(t) \/ FindExtend(t) \/ ToFull(t)
  \/ FindNone(t) \/ FreshFails(t) \/ MtClaim(t) \/ MtPush(t) \/ MtHeap(t) \/ MtDelayed(t) \/ MtReset(t)
  \/ ReclaimAllDone(t) \/ NeverDelayed(t) \/ NeverDone(t) \/ VisitDone(t)

\* The actions that change no page keep the invariant of the pages.
LEMMA SameHomes ==
  ASSUME Safe, NEW t \in Thread, SamePages(t)
  PROVE  Homes'
<1>0. TypeOK /\ Homes /\ Step(t)
  BY SafeParts DEF SamePages, Step, Call, Continue
<1>1. Works(t) /\ Ends(t)
  BY <1>0 DEF Homes
<1>2. UNCHANGED <<xheap, place>>
  BY DEF SamePages, MallocFast, MallocGeneric, FreeRemote, StartCollect, ThreadDone, TakeDelayed, DelayedUse,
     DelayedDone, FindAvailable, FindExtend, ToFull, FindNone, FreshFails, MtClaim, MtPush, MtHeap, MtDelayed,
     MtReset, ReclaimAllDone, NeverDelayed, NeverDone, VisitDone, Return, atomics, fields
<1>3. Queue(t)' = Queue(t) /\ HeapPages(t)' = HeapPages(t)
  BY <1>2 DEF Queue, HeapPages
<1> DEFINE Fine == /\ pc[t] \notin {"reclaim_use", "reclaim_collect"} /\ pc'[t] \notin PopLabel
                   /\ Works(t)' /\ Ends(t)'
<1>4. ASSUME MallocFast(t) PROVE Fine
  <2>1. UNCHANGED <<pc, goal, pg, todo, batch>> /\ pc[t] = "idle"
    BY <1>4 DEF MallocFast, control
  <2> QED BY <1>1, <1>2, <1>3, <2>1 DEF Works, Ends, PopLabel, AbandonLabel
<1>5. ASSUME MallocGeneric(t) \/ FreeRemote(t) \/ StartCollect(t) PROVE Fine
  BY <1>0, <1>1, <1>2, <1>5 DEF MallocGeneric, FreeRemote, StartCollect, Goto, Works, Ends, PopLabel, AbandonLabel,
     TypeOK, ThreadType
<1>6. ASSUME ThreadDone(t) PROVE Fine
  BY <1>0, <1>1, <1>3, <1>6 DEF ThreadDone, Goto, Works, Ends, PopLabel, AbandonLabel, TypeOK, ThreadType
<1>7. ASSUME TakeDelayed(t) \/ DelayedUse(t) PROVE Fine
  BY <1>0, <1>1, <1>7, ZenonT(60) DEF TakeDelayed, DelayedUse, Goto, Works, Ends, PopLabel, AbandonLabel, TypeOK, ThreadType
<1>8. ASSUME DelayedDone(t) PROVE Fine
  BY <1>0, <1>1, <1>3, <1>8 DEF DelayedDone, Goto, Works, Ends, PopLabel, AbandonLabel, TypeOK, ThreadType
<1>9. ASSUME FindAvailable(t) \/ FindExtend(t) \/ MtPush(t) \/ MtReset(t) PROVE Fine
  BY <1>0, <1>1, <1>9, ZenonT(60) DEF FindAvailable, FindExtend, MtPush, MtReset, Return, Works, Ends, PopLabel, AbandonLabel,
     TypeOK, ThreadType
<1>10. ASSUME ToFull(t) \/ FindNone(t) PROVE Fine
  <2>1. UNCHANGED <<goal, todo, batch>>
    BY <1>10 DEF ToFull, FindNone
  <2>2. CASE ToFull(t)
    <3>1. pc[t] = "to_full" /\ pc'[t] = "find"
      BY <1>0, <2>2 DEF ToFull, Goto, TypeOK, ThreadType
    <3> QED BY <1>1, <1>3, <2>1, <3>1 DEF Works, Ends, PopLabel, AbandonLabel
  <2>3. CASE FindNone(t)
    <3>1. pc[t] = "find" /\ pc'[t] = "retired"
      BY <1>0, <2>3 DEF FindNone, Goto, TypeOK, ThreadType
    <3> QED BY <1>1, <1>3, <2>1, <3>1 DEF Works, Ends, PopLabel, AbandonLabel
  <2> QED BY <1>10, <2>2, <2>3
<1>11. ASSUME FreshFails(t) PROVE Fine
  <2>1. CASE round[t] \in {1, 3}
    BY <1>0, <1>1, <1>3, <1>11, <2>1 DEF FreshFails, NoPage, Goto, Return, Works, Ends, PopLabel, AbandonLabel,
       TypeOK, ThreadType
  <2>2. CASE round[t] \notin {1, 3}
    BY <1>0, <1>1, <1>3, <1>11, <2>2 DEF FreshFails, NoPage, Goto, Return, Works, Ends, PopLabel, AbandonLabel,
       TypeOK, ThreadType
  <2> QED BY <2>1, <2>2
<1>12. ASSUME MtClaim(t) \/ MtHeap(t) \/ MtDelayed(t) \/ ReclaimAllDone(t) PROVE Fine
  BY <1>0, <1>1, <1>12 DEF MtClaim, MtHeap, MtDelayed, ReclaimAllDone, Goto, Works, Ends, PopLabel, AbandonLabel,
     TypeOK, ThreadType
<1>13. ASSUME NeverDelayed(t) \/ NeverDone(t) PROVE Fine
  <2>1. UNCHANGED <<goal, pg, batch>>
    BY <1>13 DEF NeverDelayed, NeverDone
  <2>2. CASE NeverDelayed(t)
    <3>1. pc[t] = "never" /\ pc'[t] = "never" /\ todo'[t] \subseteq todo[t]
      BY <1>0, <2>2 DEF NeverDelayed, TypeOK, ThreadType
    <3> QED BY <1>1, <1>3, <2>1, <3>1 DEF Works, Ends, PopLabel, AbandonLabel
  <2>3. CASE NeverDone(t)
    <3>1. pc[t] = "never" /\ pc'[t] = "take"
      BY <1>0, <2>3 DEF NeverDone, Goto, TypeOK, ThreadType
    <3> QED BY <1>1, <1>3, <2>1, <3>1 DEF Works, Ends, PopLabel, AbandonLabel
  <2> QED BY <1>13, <2>2, <2>3
<1>14. ASSUME VisitDone(t) PROVE Fine
  BY <1>0, <1>1, <1>3, <1>14 DEF VisitDone, Goto, Return, Works, Ends, PopLabel, AbandonLabel, TypeOK, ThreadType
<1>15. Fine
  BY <1>4, <1>5, <1>6, <1>7, <1>8, <1>9, <1>10, <1>11, <1>12, <1>13, <1>14 DEF SamePages
<1> QED BY <1>0, <1>2, <1>15, QuietHomes

\* in a step: no page but p changes its heap or place
OnlyPage(p) == \A q \in Page \ {p} : xheap'[q] = xheap[q] /\ place'[q] = place[q]

\* A page that a thread has popped is on no list.
LEMMA PopsPopped ==
  ASSUME Homes, NEW u \in Thread, NEW p, Pops(u, p)
  PROVE  place[p] = "popped" /\ \A w \in Thread \ {u} : ~Pops(w, p)
  BY DEF Homes, Works, Pops, PopLabel

\* A step that changes one page, which is no other thread's.
LEMMA OneHome ==
  ASSUME TypeOK, Homes, NEW t \in Thread, Step(t), NEW p \in Page, OnlyPage(p),
         xheap[p] \in {NULL, t}, xheap'[p] \in {NULL, t},
         place[p] # "popped" \/ Pops(t, p),
         pc'[t] \in PopLabel => pg'[t] = p,
         pc[t] \in {"reclaim_use", "reclaim_collect"} => pg[t] = p,
         PageHome(p)', Works(t)', Ends(t)'
  PROVE  Homes'
<1>1. \A u \in Thread \ {t} : ~Pops(u, p)
  BY PopsPopped
<1>2. OwnPages(t)
  BY <1>1 DEF OwnPages, OnlyPage
<1>3. ASSUME NEW q \in Page, q # p PROVE ~(place[q] = "popped" /\ xheap[q] = t)
  BY <1>3, ThreadAssumption DEF Homes, PageHome
<1>4. ASSUME NEW q \in Page, \/ xheap'[q] # xheap[q] \/ place'[q] # place[q]
                             \/ place[q] = "popped" /\ xheap[q] = t
      PROVE  PageHome(q)'
  BY <1>3, <1>4 DEF OnlyPage
<1> QED BY <1>2, <1>4, HomesStep

\* The queues of a heap change by that page only.
LEMMA OneQueue ==
  ASSUME NEW t, NEW p \in Page, OnlyPage(p)
  PROVE  Queue(t)' \ {p} = Queue(t) \ {p} /\ HeapPages(t)' \ {p} = HeapPages(t) \ {p}
  BY DEF OnlyPage, Queue, HeapPages

\* A page of the queue becomes full.
LEMMA FindFullHomes ==
  ASSUME Safe, NEW t \in Thread, FindFull(t)
  PROVE  Homes'
<1>0. TypeOK /\ Homes /\ Step(t)
  BY SafeParts DEF Step, Continue
<1>1. PICK p \in todo[t] : /\ place' = [place EXCEPT ![p] = "full"]
                           /\ pg' = [pg EXCEPT ![t] = p]
                           /\ todo' = [todo EXCEPT ![t] = @ \ {p}]
  BY DEF FindFull
<1>2. Works(t) /\ Ends(t)
  BY <1>0 DEF Homes
<1>3. /\ pc[t] = "find" /\ pc'[t] = "to_full" /\ pg'[t] = p /\ todo'[t] = todo[t] \ {p}
      /\ UNCHANGED <<xheap, goal, batch>>
  BY <1>0, <1>1 DEF FindFull, Goto, TypeOK, ThreadType, atomics
<1>4. todo[t] \subseteq Queue(t)
  BY <1>2, <1>3 DEF Works
<1>5. p \in Page /\ xheap[p] = t /\ place[p] = "queue"
  BY <1>4 DEF Queue
<1>6. place'[p] = "full" /\ OnlyPage(p)
  BY <1>0, <1>1, <1>3, <1>5 DEF OnlyPage, TypeOK, PageType
<1>7. Works(t)' /\ Ends(t)'
  <2>1. todo'[t] \subseteq Queue(t)' /\ p \in HeapPages(t)'
    BY <1>3, <1>4, <1>5, <1>6, OneQueue DEF HeapPages
  <2> QED BY <1>2, <1>3, <1>6, <2>1 DEF Works, Ends, PopLabel, AbandonLabel
<1>8. PageHome(p)'
  BY <1>3, <1>5, <1>6, ThreadAssumption DEF PageHome
<1> QED BY <1>0, <1>3, <1>5, <1>6, <1>7, <1>8, OneHome DEF PopLabel

\* A thread pops an abandoned page.
LEMMA PopHomes ==
  ASSUME Safe, NEW t \in Thread, PopAbandoned(t) \/ ReclaimAll(t)
  PROVE  Homes'
<1>0. TypeOK /\ Homes /\ Step(t)
  BY SafeParts DEF Step, Continue
<1>1. PICK p \in Abandoned : place' = [place EXCEPT ![p] = "popped"] /\ pg' = [pg EXCEPT ![t] = p]
  BY DEF PopAbandoned, ReclaimAll
<1>2. Works(t) /\ Ends(t)
  BY <1>0 DEF Homes
<1>3. /\ pc[t] \in {"fresh", "reclaim_all"} /\ pc'[t] \in {"check", "reclaim"} /\ pg'[t] = p
      /\ UNCHANGED <<xheap, goal, todo, batch>>
  <2>1. CASE PopAbandoned(t)
    BY <1>0, <1>1, <2>1 DEF PopAbandoned, Goto, TypeOK, ThreadType, atomics
  <2>2. CASE ReclaimAll(t)
    BY <1>0, <1>1, <2>2 DEF ReclaimAll, Goto, TypeOK, ThreadType, atomics
  <2> QED BY <2>1, <2>2
<1>4. p \in Page /\ place[p] = "abandoned" /\ xheap[p] = NULL
  BY <1>0 DEF Abandoned, Homes, PageHome
<1>5. place'[p] = "popped" /\ OnlyPage(p)
  BY <1>0, <1>1, <1>3, <1>4 DEF OnlyPage, TypeOK, PageType
<1>6. Works(t)' /\ Ends(t)'
  <2>1. \A u \in Thread \ {t} : ~Pops(u, p)'
    <3>1. ASSUME NEW u \in Thread \ {t} PROVE ~Pops(u, p)'
      <4>1. ~Pops(u, p)
        BY <1>0, <1>4, PopsPopped
      <4>2. pc'[u] = pc[u] /\ pg'[u] = pg[u]
        BY <1>0, OthersStep
      <4> QED BY <4>1, <4>2 DEF Pops
    <3> QED BY <3>1
  <2>2. ASSUME NEW u \in Thread \ {t} PROVE ~Pops(u, pg[t])'
    BY <1>3, <2>1, <2>2 DEF Pops
  <2> QED BY <1>2, <1>3, <1>4, <1>5, <2>2 DEF Works, Ends, AbandonLabel
<1>7. PageHome(p)'
  BY <1>3, <1>4, <1>5 DEF PageHome
<1> QED BY <1>0, <1>3, <1>4, <1>5, <1>6, <1>7, OneHome

\* The page is looked at; it may go back to the abandoned list.
LEMMA CheckFreeHomes ==
  ASSUME Safe, NEW t \in Thread, CheckFree(t)
  PROVE  Homes'
<1>0. TypeOK /\ Homes /\ Step(t)
  BY SafeParts DEF Step, Continue
<1>2. Works(t) /\ Ends(t)
  BY <1>0 DEF Homes
<1>1. PICK p \in Page : p = pg[t]
  BY <1>0 DEF CheckFree, TypeOK, ThreadType
<1>3. /\ pc[t] = "check" /\ UNCHANGED <<xheap, goal, todo, batch>>
      /\ \/ pc'[t] = "reclaim" /\ UNCHANGED place /\ pg'[t] = p
         \/ pc'[t] = "fresh" /\ place' = [place EXCEPT ![p] = "abandoned"]
  BY <1>0, <1>1 DEF CheckFree, Goto, TypeOK, ThreadType
<1>4. place[p] = "popped" /\ xheap[p] = NULL /\ Pops(t, p)
  BY <1>1, <1>2, <1>3 DEF Works, Pops, PopLabel
<1>5. OnlyPage(p) /\ \/ pc'[t] = "reclaim" /\ place'[p] = "popped"
                     \/ pc'[t] = "fresh" /\ place'[p] = "abandoned"
  BY <1>0, <1>3, <1>4 DEF OnlyPage, TypeOK, PageType
<1>6. Works(t)' /\ Ends(t)'
  <2>1. \A u \in Thread \ {t} : ~Pops(u, p)'
    <3>1. ASSUME NEW u \in Thread \ {t} PROVE ~Pops(u, p)'
      <4>1. ~Pops(u, p)
        BY <1>0, <1>4, PopsPopped
      <4>2. pc'[u] = pc[u] /\ pg'[u] = pg[u]
        BY <1>0, OthersStep
      <4> QED BY <4>1, <4>2 DEF Pops
    <3> QED BY <3>1
  <2>2. ASSUME NEW u \in Thread \ {t}, pc'[t] = "reclaim" PROVE ~Pops(u, pg[t])'
    BY <1>3, <2>1, <2>2 DEF Pops
  <2> QED BY <1>2, <1>3, <1>4, <1>5, <2>2 DEF Works, Ends, PopLabel, AbandonLabel
<1>7. PageHome(p)'
  BY <1>3, <1>4, <1>5 DEF PageHome
<1> QED BY <1>0, <1>3, <1>4, <1>5, <1>6, <1>7, OneHome DEF PopLabel

\* The popped page gets the heap of the thread, and then its flag.
LEMMA ReclaimHomes ==
  ASSUME Safe, NEW t \in Thread, Reclaim(t) \/ ReclaimUse(t)
  PROVE  Homes'
<1>0. TypeOK /\ Homes /\ Step(t)
  BY SafeParts DEF Step, Continue
<1>2. Works(t) /\ Ends(t)
  BY <1>0 DEF Homes
<1>1. PICK p \in Page : p = pg[t]
  BY <1>0 DEF Reclaim, ReclaimUse, TypeOK, ThreadType
<1>3. /\ UNCHANGED <<place, goal, pg, todo, batch>>
      /\ \/ pc[t] = "reclaim" /\ pc'[t] = "reclaim_use" /\ xheap' = [xheap EXCEPT ![p] = t]
         \/ pc[t] = "reclaim_use" /\ pc'[t] = "reclaim_collect" /\ UNCHANGED xheap
  BY <1>0, <1>1 DEF Reclaim, ReclaimUse, Goto, TypeOK, ThreadType, fields
<1>4. place[p] = "popped" /\ Pops(t, p) /\ xheap[p] \in {NULL, t}
  BY <1>1, <1>2, <1>3 DEF Works, Pops, PopLabel
<1>5. OnlyPage(p) /\ xheap'[p] = t /\ place'[p] = "popped"
  BY <1>0, <1>1, <1>2, <1>3, <1>4 DEF OnlyPage, Works, TypeOK, PageType
<1>6. Works(t)' /\ Ends(t)'
  <2>1. \A u \in Thread \ {t} : ~Pops(u, p)'
    <3>1. ASSUME NEW u \in Thread \ {t} PROVE ~Pops(u, p)'
      <4>1. ~Pops(u, p)
        BY <1>0, <1>4, PopsPopped
      <4>2. pc'[u] = pc[u] /\ pg'[u] = pg[u]
        BY <1>0, OthersStep
      <4> QED BY <4>1, <4>2 DEF Pops
    <3> QED BY <3>1
  <2>2. ASSUME NEW u \in Thread \ {t} PROVE ~Pops(u, pg[t])'
    BY <1>1, <1>3, <2>1, <2>2 DEF Pops
  <2> QED BY <1>1, <1>2, <1>3, <1>5, <2>2 DEF Works, Ends, PopLabel, AbandonLabel
<1>7. PageHome(p)'
  BY <1>1, <1>3, <1>5 DEF PageHome
<1> QED BY <1>0, <1>1, <1>3, <1>4, <1>5, <1>6, <1>7, OneHome DEF PopLabel

\* The popped page is released, or joins the queue.
LEMMA ReclaimCollectHomes ==
  ASSUME Safe, NEW t \in Thread, ReclaimCollect(t)
  PROVE  Homes'
<1>0. TypeOK /\ Homes /\ Step(t)
  BY SafeParts DEF Step, Continue
<1>2. Works(t) /\ Ends(t)
  BY <1>0 DEF Homes
<1>1. PICK p \in Page : p = pg[t]
  BY <1>0 DEF ReclaimCollect, TypeOK, ThreadType
<1>3. /\ pc[t] = "reclaim_collect" /\ UNCHANGED xheap
      /\ place' = [place EXCEPT ![p] = "released"] \/ place' = [place EXCEPT ![p] = "queue"]
  BY <1>1 DEF ReclaimCollect
<1>4. place[p] = "popped" /\ Pops(t, p) /\ xheap[p] = t
  BY <1>1, <1>2, <1>3 DEF Works, Pops, PopLabel
<1>5. OnlyPage(p) /\ place'[p] \in {"released", "queue"}
  BY <1>0, <1>3 DEF OnlyPage, TypeOK, PageType
<1> DEFINE Ended == /\ pc'[t] \in {"reclaim_all", "fresh", "take", "idle", "find"}
                    /\ goal'[t] # "abandon" /\ batch'[t] = {} /\ (pc'[t] = "find" => todo'[t] = Queue(t)')
<1>6. Ended
  <2>0. goal[t] # "abandon" /\ batch[t] = {}
    BY <1>2, <1>3 DEF Ends, Works, AbandonLabel
  <2>1. ASSUME NoPage(t) PROVE Ended
    <3>1. CASE round[t] \in {1, 3}
      BY <1>0, <2>0, <2>1, <3>1 DEF NoPage, Goto, Return, TypeOK, ThreadType
    <3>2. CASE round[t] \notin {1, 3}
      BY <1>0, <2>0, <2>1, <3>2 DEF NoPage, Goto, Return, TypeOK, ThreadType
    <3> QED BY <3>1, <3>2
  <2>2. ASSUME ~NoPage(t) PROVE Ended
    <3>1. Goto(t, "reclaim_all") \/ Goto(t, "fresh")
      BY <1>0, <1>3, <2>2 DEF ReclaimCollect, TypeOK, ThreadType
    <3>2. UNCHANGED <<goal, batch>>
      BY <2>2 DEF ReclaimCollect
    <3> QED BY <1>0, <2>0, <3>1, <3>2 DEF Goto, TypeOK, ThreadType
  <2> QED BY <2>1, <2>2
<1>7. Works(t)' /\ Ends(t)'
  BY <1>6 DEF Works, Ends, PopLabel
<1>8. PageHome(p)'
  BY <1>3, <1>4, <1>5, ThreadAssumption DEF PageHome
<1> QED BY <1>0, <1>1, <1>3, <1>4, <1>5, <1>6, <1>7, <1>8, OneHome DEF PopLabel

\* A fresh page joins the queue.
LEMMA FreshPageHomes ==
  ASSUME Safe, ~Reuse, NEW t \in Thread, FreshPage(t)
  PROVE  Homes'
<1>0. TypeOK /\ Homes /\ Step(t)
  BY SafeParts DEF Step, Continue
<1>2. Works(t) /\ Ends(t)
  BY <1>0 DEF Homes
<1>1. PICK p \in Page : /\ place[p] = "fresh"
                        /\ xheap' = [xheap EXCEPT ![p] = t]
                        /\ place' = [place EXCEPT ![p] = "queue"]
  BY DEF FreshPage
<1>3. xheap[p] = NULL
  BY <1>0, <1>1 DEF Homes, PageHome
<1>4. OnlyPage(p) /\ xheap'[p] = t /\ place'[p] = "queue"
  BY <1>0, <1>1 DEF OnlyPage, TypeOK, PageType
<1>5. pc[t] = "fresh" /\ pc'[t] = "idle" /\ goal'[t] = "none" /\ batch'[t] = {}
  BY <1>0, <1>2 DEF FreshPage, Return, Works, TypeOK, ThreadType
<1>6. Works(t)' /\ Ends(t)'
  BY <1>5 DEF Works, Ends, PopLabel
<1>7. PageHome(p)'
  BY <1>4, ThreadAssumption DEF PageHome
<1> QED BY <1>0, <1>1, <1>3, <1>4, <1>5, <1>6, <1>7, OneHome DEF PopLabel

\* A page of a queue of the heap is released, becomes not full, or is abandoned.
LEMMA LeavesHome ==
  ASSUME TypeOK, Homes, NEW t \in Thread, Step(t), NEW p \in HeapPages(t), OnlyPage(p),
         \/ xheap'[p] = NULL /\ place'[p] \in {"released", "abandoned"}
         \/ xheap'[p] = t /\ place'[p] \in {"queue", "full"},
         pc[t] \notin PopLabel, pc'[t] \notin PopLabel, Works(t)', Ends(t)'
  PROVE  Homes'
<1>1. p \in Page /\ xheap[p] = t /\ place[p] # "popped"
  BY DEF HeapPages
<1>2. PageHome(p)'
  BY ThreadAssumption DEF PageHome
<1> QED BY <1>1, <1>2, OneHome DEF PopLabel

\* A block that the owner frees is of a page of one of its queues.
LEMMA LocalFreePage ==
  ASSUME Safe, NEW t \in Thread, FreeLocal(t) \/ DelayedFree(t)
  PROVE  \E p \in HeapPages(t) : /\ \/ UNCHANGED <<xheap, place>>
                                    \/ PageFree(p)
                                    \/ UNCHANGED xheap /\ place' = [place EXCEPT ![p] = IF @ = "full" THEN "queue" ELSE @]
<1>0. TypeOK /\ Homes /\ Flags /\ Placed
  BY SafeParts
<1>1. pc[t] = "idle" \/ pc[t] = "dcollect"
  BY DEF FreeLocal, DelayedFree
<1>2. PICK b \in Block : /\ Reached(b) /\ xheap[PageOf[b]] = t
                         /\ \E f, l, u : LocalFree(t, PageOf[b], b, f, l, u)
  <2>1. CASE FreeLocal(t)
    <3>1. PICK b \in live : xheap[PageOf[b]] = t /\ \E f, l, u : LocalFree(t, PageOf[b], b, f, l, u)
      BY <2>1 DEF FreeLocal
    <3>2. b \in Block /\ Reached(b)
      BY <1>0 DEF Reached, Nobody, Outer, At, TypeOK, PageType
    <3> QED BY <3>1, <3>2
  <2>2. CASE DelayedFree(t)
    <3>1. pc[t] = "dcollect" /\ blk[t] \in Block /\ xheap[PageOf[blk[t]]] = t
      BY <1>0, <2>2 DEF DelayedFree, Flags, Delays, TypeOK, ThreadType
    <3>2. Reached(blk[t])
      BY <3>1 DEF Reached, Nobody, Outer, At, InHand, HandLabel
    <3>3. \E f, l, u : LocalFree(t, PageOf[blk[t]], blk[t], f, l, u)
      BY <2>2 DEF DelayedFree
    <3> QED BY <3>1, <3>2, <3>3
  <2> QED BY <2>1, <2>2
<1>p. PICK p \in Page : p = PageOf[b]
  BY BlockAssumption
<1>3. InUse(p)
  BY <1>0, <1>2, <1>p, PlacedParts
<1>4. p \in HeapPages(t)
  <2>1. place[p] # "abandoned"
    BY <1>0, <1>2, <1>p, ThreadAssumption DEF Homes, PageHome
  <2>2. place[p] # "popped"
    BY <1>0, <1>1, <1>2, <1>p, ThreadAssumption DEF Homes, PageHome
  <2> QED BY <1>2, <1>3, <1>p, <2>1, <2>2 DEF InUse, HeapPages
<1>5. \/ UNCHANGED <<xheap, place>>
      \/ PageFree(p)
      \/ UNCHANGED xheap /\ place' = [place EXCEPT ![p] = IF @ = "full" THEN "queue" ELSE @]
  BY <1>2, <1>p DEF LocalFree
<1> QED BY <1>4, <1>5

\* The owner frees a block; the page may be released.
LEMMA LocalFreeHomes ==
  ASSUME Safe, NEW t \in Thread, FreeLocal(t) \/ DelayedFree(t)
  PROVE  Homes'
<1>0. TypeOK /\ Homes /\ Step(t)
  BY SafeParts DEF Step, Call, Continue
<1>1. Works(t) /\ Ends(t)
  BY <1>0 DEF Homes
<1>2. \/ pc[t] = "idle" /\ UNCHANGED <<pc, goal, pg, todo, batch>>
      \/ pc[t] = "dcollect" /\ pc'[t] = "dblock" /\ UNCHANGED <<goal, pg, todo, batch>>
  BY <1>0 DEF FreeLocal, DelayedFree, Goto, control, TypeOK, ThreadType
<1>3. PICK p \in HeapPages(t) : \/ UNCHANGED <<xheap, place>>
                                \/ PageFree(p)
                                \/ UNCHANGED xheap /\ place' = [place EXCEPT ![p] = IF @ = "full" THEN "queue" ELSE @]
  BY LocalFreePage
<1>4. p \in Page /\ xheap[p] = t /\ place[p] \in {"queue", "full"}
  BY DEF HeapPages
<1>5. /\ OnlyPage(p)
      /\ \/ xheap'[p] = NULL /\ place'[p] = "released"
         \/ xheap'[p] = t /\ place'[p] \in {"queue", "full"}
  BY <1>0, <1>3, <1>4 DEF OnlyPage, PageFree, TypeOK, PageType
<1>6. Works(t)' /\ Ends(t)'
  BY <1>1, <1>2 DEF Works, Ends, PopLabel, AbandonLabel
<1>7. pc[t] \notin PopLabel /\ pc'[t] \notin PopLabel
  BY <1>2 DEF PopLabel
<1> QED BY <1>0, <1>3, <1>5, <1>6, <1>7, LeavesHome

\* A retired page is released.
LEMMA CollectRetiredHomes ==
  ASSUME Safe, NEW t \in Thread, CollectRetired(t)
  PROVE  Homes'
<1>0. TypeOK /\ Homes /\ Step(t)
  BY SafeParts DEF Step, Continue
<1>1. Works(t) /\ Ends(t)
  BY <1>0 DEF Homes
<1>2. /\ pc[t] = "retired" /\ UNCHANGED <<goal, batch>>
      /\ \/ goal[t] = "malloc" /\ pc'[t] = "fresh"
         \/ pc'[t] = "visit" /\ todo'[t] = HeapPages(t)'
  BY <1>0 DEF CollectRetired, Goto, TypeOK, ThreadType
<1>3. Works(t)' /\ Ends(t)'
  BY <1>1, <1>2 DEF Works, Ends, PopLabel, AbandonLabel
<1>4. CASE \E p \in Queue(t) : PageFree(p)
  <2>1. PICK p \in Queue(t) : PageFree(p)
    BY <1>4
  <2>2. p \in HeapPages(t) /\ OnlyPage(p) /\ xheap'[p] = NULL /\ place'[p] = "released"
    BY <1>0, <2>1 DEF Queue, HeapPages, OnlyPage, PageFree, TypeOK, PageType
  <2> QED BY <1>0, <1>2, <1>3, <2>2, LeavesHome DEF PopLabel
<1>5. CASE UNCHANGED <<xheap, place>>
  BY <1>0, <1>2, <1>3, <1>5, QuietHomes DEF PopLabel
<1> QED BY <1>4, <1>5 DEF CollectRetired

\* A page is visited: it may be released.
LEMMA VisitPageHomes ==
  ASSUME Safe, NEW t \in Thread, VisitPage(t)
  PROVE  Homes'
<1>0. TypeOK /\ Homes /\ Step(t)
  BY SafeParts DEF Step, Continue
<1>1. Works(t) /\ Ends(t)
  BY <1>0 DEF Homes
<1>2. PICK p \in todo[t] :
        /\ todo' = [todo EXCEPT ![t] = @ \ {p}]
        /\ \/ PageFree(p) /\ UNCHANGED <<pc, pg>>
           \/ /\ UNCHANGED <<xheap, place>>
              /\ IF goal[t] = "abandon" THEN Goto(t, "abandon") /\ pg' = [pg EXCEPT ![t] = p]
                                        ELSE UNCHANGED <<pc, pg>>
  BY DEF VisitPage
<1>3. pc[t] = "visit" /\ UNCHANGED <<goal, batch>> /\ todo'[t] = todo[t] \ {p}
  BY <1>0, <1>2 DEF VisitPage, TypeOK, ThreadType
<1>4. p \in HeapPages(t) /\ p \in Page /\ todo[t] \subseteq HeapPages(t)
  BY <1>1, <1>3 DEF Works, HeapPages
<1>5. CASE PageFree(p) /\ UNCHANGED <<pc, pg>>
  <2>1. OnlyPage(p) /\ xheap'[p] = NULL /\ place'[p] = "released"
    BY <1>0, <1>4, <1>5 DEF OnlyPage, PageFree, TypeOK, PageType
  <2>2. HeapPages(t)' = HeapPages(t) \ {p}
    BY <1>4, <2>1, OneQueue DEF HeapPages
  <2>3. Works(t)' /\ Ends(t)'
    BY <1>1, <1>3, <1>4, <1>5, <2>2 DEF Works, Ends, PopLabel, AbandonLabel
  <2> QED BY <1>0, <1>3, <1>4, <1>5, <2>1, <2>3, LeavesHome DEF PopLabel
<1>6. CASE UNCHANGED <<xheap, place>>
  <2>1. HeapPages(t)' = HeapPages(t) /\ Queue(t)' = Queue(t)
    BY <1>6 DEF HeapPages, Queue
  <2>2. \/ goal[t] = "abandon" /\ pc'[t] = "abandon" /\ pg'[t] = p
        \/ pc'[t] = "visit"
        \/ PageFree(p)
    BY <1>0, <1>2, <1>3, <1>6 DEF Goto, TypeOK, ThreadType
  <2>3. ~PageFree(p)
    BY <1>0, <1>4, <1>6 DEF PageFree, HeapPages, TypeOK, PageType
  <2>4. pc'[t] = "visit" => goal[t] # "abandon"
    BY <1>0, <1>2, <1>3, <2>3 DEF Goto, TypeOK, ThreadType
  <2>5. Works(t)' /\ Ends(t)'
    BY <1>1, <1>3, <1>4, <2>1, <2>2, <2>3, <2>4 DEF Works, Ends, PopLabel, AbandonLabel
  <2> QED BY <1>0, <1>3, <1>6, <2>2, <2>3, <2>5, QuietHomes DEF PopLabel
<1> QED BY <1>2, <1>5, <1>6

\* A page of a thread that ends is abandoned.
LEMMA PageAbandonHomes ==
  ASSUME Safe, NEW t \in Thread, PageAbandon(t)
  PROVE  Homes'
<1>0. TypeOK /\ Homes /\ Step(t)
  BY SafeParts DEF Step, Continue
<1>1. Works(t) /\ Ends(t)
  BY <1>0 DEF Homes
<1>2. PICK p \in Page : p = pg[t]
  BY <1>0 DEF PageAbandon, TypeOK, ThreadType
<1>3. pc[t] = "abandon" /\ pc'[t] = "visit" /\ UNCHANGED <<goal, todo, batch>>
  BY <1>0 DEF PageAbandon, Goto, TypeOK, ThreadType
<1>4. p \in HeapPages(t) /\ p \notin todo[t] /\ todo[t] \subseteq HeapPages(t)
  BY <1>1, <1>2, <1>3 DEF Works
<1>5. OnlyPage(p) /\ xheap'[p] = NULL /\ place'[p] = "abandoned"
  BY <1>0, <1>2 DEF PageAbandon, OnlyPage, TypeOK, PageType
<1>6. HeapPages(t)' = HeapPages(t) \ {p}
  BY <1>4, <1>5, OneQueue DEF HeapPages
<1>7. Works(t)' /\ Ends(t)'
  BY <1>1, <1>2, <1>3, <1>4, <1>6 DEF Works, Ends, PopLabel, AbandonLabel
<1> QED BY <1>0, <1>3, <1>4, <1>5, <1>7, LeavesHome DEF PopLabel

\* Every step of a thread keeps the invariant of the pages.
LEMMA HomesNext ==
  ASSUME Safe, ~Reuse, NEW t \in Thread, Step(t)
  PROVE  Homes'
  BY SameHomes, FindFullHomes, PopHomes, CheckFreeHomes, ReclaimHomes, ReclaimCollectHomes, FreshPageHomes,
     LocalFreeHomes, CollectRetiredHomes, VisitPageHomes, PageAbandonHomes
  DEF Step, Call, Continue, SamePages

-----------------------------------------------------------------------------
(* What a step may do to a page, a flag and the delayed lists *)

\* in a step of t: what becomes of page p
PageTurns(t, p) ==
  \/ xheap'[p] = xheap[p] /\ place'[p] = place[p]
  \/ p \in HeapPages(t) /\ xheap'[p] = t /\ place'[p] \in {"queue", "full"}
  \/ p \in HeapPages(t) /\ xheap'[p] = NULL /\ place'[p] = "released"
  \/ PageAbandon(t) /\ p = pg[t] /\ p \in HeapPages(t) /\ xheap'[p] = NULL /\ place'[p] = "abandoned"
  \/ xheap[p] = NULL /\ xheap'[p] = NULL /\ place[p] \in {"abandoned", "popped"} /\ place'[p] \in {"abandoned", "popped"}
  \/ /\ Reclaim(t) /\ p = pg[t] /\ xheap[p] = NULL /\ xheap'[p] = t
     /\ place[p] = "popped" /\ place'[p] = "popped"
  \/ /\ ReclaimCollect(t) /\ p = pg[t] /\ xheap[p] = t /\ xheap'[p] = t
     /\ place[p] = "popped" /\ place'[p] \in {"released", "queue"}
  \/ /\ FreshPage(t) /\ xheap[p] = NULL /\ xheap'[p] = t
     /\ place[p] = "fresh" /\ place'[p] = "queue"

\* A page that _mi_page_free releases leaves its heap, and no other does.
LEMMA PageFreeTurns ==
  ASSUME TypeOK, NEW t \in Thread, NEW p \in HeapPages(t), PageFree(p), NEW q \in Page
  PROVE  PageTurns(t, q)
<1>1. p \in Page
  BY DEF HeapPages
<1>2. CASE q = p
  BY <1>1, <1>2 DEF PageFree, PageTurns, TypeOK, PageType
<1>3. CASE q # p
  BY <1>1, <1>3 DEF PageFree, PageTurns, TypeOK, PageType
<1> QED BY <1>2, <1>3

\* In every step, one of these things becomes of a page.
LEMMA PageStep ==
  ASSUME Safe, ~Reuse, NEW t \in Thread, Step(t), NEW q \in Page
  PROVE  PageTurns(t, q)
<1>0. TypeOK /\ Homes
  BY SafeParts
<1>1. Works(t)
  BY <1>0 DEF Homes
<1>2. CASE SamePages(t) \/ ReclaimUse(t)
  <2>1. UNCHANGED <<xheap, place>>
    BY <1>2 DEF SamePages, MallocFast, MallocGeneric, FreeRemote, StartCollect, ThreadDone, TakeDelayed, DelayedUse,
       DelayedDone, FindAvailable, FindExtend, ToFull, FindNone, FreshFails, MtClaim, MtPush, MtHeap, MtDelayed,
       MtReset, ReclaimAllDone, NeverDelayed, NeverDone, VisitDone, ReclaimUse, Return, atomics, fields
  <2> QED BY <2>1 DEF PageTurns
<1>3. CASE FindFull(t)
  <2>1. PICK p \in todo[t] : place' = [place EXCEPT ![p] = "full"]
    BY <1>3 DEF FindFull
  <2>2. p \in HeapPages(t) /\ p \in Page /\ xheap[p] = t /\ UNCHANGED xheap
    BY <1>1, <1>3 DEF FindFull, Works, Queue, HeapPages, atomics
  <2> QED BY <1>0, <2>1, <2>2 DEF PageTurns, TypeOK, PageType
<1>4. CASE PopAbandoned(t) \/ ReclaimAll(t)
  <2>1. PICK p \in Abandoned : place' = [place EXCEPT ![p] = "popped"] /\ UNCHANGED xheap
    BY <1>4 DEF PopAbandoned, ReclaimAll, atomics
  <2>2. p \in Page /\ place[p] = "abandoned" /\ xheap[p] = NULL
    BY <1>0 DEF Abandoned, Homes, PageHome
  <2> QED BY <1>0, <2>1, <2>2 DEF PageTurns, TypeOK, PageType
<1>5. CASE CheckFree(t)
  <2>1. place[pg[t]] = "popped" /\ xheap[pg[t]] = NULL /\ pg[t] \in Page
    BY <1>0, <1>1, <1>5 DEF CheckFree, Works, TypeOK, ThreadType
  <2>2. UNCHANGED xheap /\ (UNCHANGED place \/ place' = [place EXCEPT ![pg[t]] = "abandoned"])
    BY <1>5 DEF CheckFree
  <2> QED BY <1>0, <2>1, <2>2 DEF PageTurns, TypeOK, PageType
<1>6. CASE Reclaim(t)
  <2>1. place[pg[t]] = "popped" /\ xheap[pg[t]] = NULL /\ pg[t] \in Page
    BY <1>0, <1>1, <1>6 DEF Reclaim, Works, TypeOK, ThreadType
  <2>2. UNCHANGED place /\ xheap' = [xheap EXCEPT ![pg[t]] = t]
    BY <1>6 DEF Reclaim
  <2> QED BY <1>0, <1>6, <2>1, <2>2 DEF PageTurns, TypeOK, PageType
<1>7. CASE ReclaimCollect(t)
  <2>1. place[pg[t]] = "popped" /\ xheap[pg[t]] = t /\ pg[t] \in Page
    BY <1>0, <1>1, <1>7 DEF ReclaimCollect, Works, TypeOK, ThreadType
  <2>2. UNCHANGED xheap /\ \E w \in {"released", "queue"} : place' = [place EXCEPT ![pg[t]] = w]
    BY <1>7 DEF ReclaimCollect
  <2> QED BY <1>0, <1>7, <2>1, <2>2 DEF PageTurns, TypeOK, PageType
<1>8. CASE FreshPage(t)
  <2>1. PICK p \in Page : /\ place[p] = "fresh"
                          /\ xheap' = [xheap EXCEPT ![p] = t]
                          /\ place' = [place EXCEPT ![p] = "queue"]
    BY <1>8 DEF FreshPage
  <2>2. xheap[p] = NULL
    BY <1>0, <2>1 DEF Homes, PageHome
  <2> QED BY <1>0, <1>8, <2>1, <2>2 DEF PageTurns, TypeOK, PageType
<1>9. CASE FreeLocal(t) \/ DelayedFree(t)
  <2>1. PICK p \in HeapPages(t) : \/ UNCHANGED <<xheap, place>>
                                  \/ PageFree(p)
                                  \/ UNCHANGED xheap /\ place' = [place EXCEPT ![p] = IF @ = "full" THEN "queue" ELSE @]
    BY <1>9, LocalFreePage
  <2>2. CASE PageFree(p)
    BY <1>0, <2>2, PageFreeTurns
  <2>3. CASE ~PageFree(p)
    <3>1. p \in Page /\ place[p] \in {"queue", "full"} /\ xheap[p] = t
      BY DEF HeapPages
    <3> QED BY <1>0, <2>1, <2>3, <3>1 DEF PageTurns, TypeOK, PageType
  <2> QED BY <2>2, <2>3
<1>10. CASE CollectRetired(t)
  <2>1. CASE \E p \in Queue(t) : PageFree(p)
    <3>1. \E p \in HeapPages(t) : PageFree(p)
      BY <2>1 DEF Queue, HeapPages
    <3> QED BY <1>0, <3>1, PageFreeTurns
  <2>2. CASE UNCHANGED <<xheap, place>>
    BY <2>2 DEF PageTurns
  <2> QED BY <1>10, <2>1, <2>2 DEF CollectRetired
<1>11. CASE VisitPage(t)
  <2>1. CASE \E p \in todo[t] : PageFree(p)
    <3>1. \E p \in HeapPages(t) : PageFree(p)
      BY <1>1, <1>11, <2>1 DEF VisitPage, Works
    <3> QED BY <1>0, <3>1, PageFreeTurns
  <2>2. CASE UNCHANGED <<xheap, place>>
    BY <2>2 DEF PageTurns
  <2> QED BY <1>11, <2>1, <2>2 DEF VisitPage
<1>12. CASE PageAbandon(t)
  <2>1. pg[t] \in HeapPages(t) /\ pg[t] \in Page
    BY <1>1, <1>12 DEF PageAbandon, Works, HeapPages
  <2>2. xheap' = [xheap EXCEPT ![pg[t]] = NULL] /\ place' = [place EXCEPT ![pg[t]] = "abandoned"]
    BY <1>12 DEF PageAbandon
  <2> QED BY <1>0, <1>12, <2>1, <2>2 DEF PageTurns, TypeOK, PageType
<1> QED BY <1>2, <1>3, <1>4, <1>5, <1>6, <1>7, <1>8, <1>9, <1>10, <1>11, <1>12 DEF Step, Call, Continue, SamePages

\* in a step of t: what becomes of the flag of page p
FlagTurns(t, p) ==
  \/ flag'[p] = flag[p]
  \/ /\ DelayedUse(t) /\ blk'[t] \in batch[t] /\ p = PageOf[blk'[t]]
     /\ flag[p] \in {USE_DELAYED_FREE, NO_DELAYED_FREE} /\ flag'[p] = USE_DELAYED_FREE
  \/ ReclaimUse(t) /\ p = pg[t] /\ flag[p] # DELAYED_FREEING /\ flag'[p] = USE_DELAYED_FREE
  \/ MtClaim(t) /\ p = PageOf[blk[t]] /\ flag[p] = USE_DELAYED_FREE /\ flag'[p] = DELAYED_FREEING
  \/ MtReset(t) /\ p = PageOf[blk[t]] /\ flag[p] = DELAYED_FREEING /\ flag'[p] = NO_DELAYED_FREE
  \/ NeverDelayed(t) /\ p \in todo[t] /\ flag[p] # DELAYED_FREEING /\ flag'[p] = NEVER_DELAYED_FREE

\* In every step, one of these things becomes of a flag.
LEMMA FlagStep ==
  ASSUME Safe, NEW t \in Thread, Step(t), NEW q \in Page
  PROVE  FlagTurns(t, q)
<1>0. TypeOK /\ OneDelayedFreer
  BY SafeParts
<1>1. CASE DelayedUse(t)
  <2>1. PICK b \in batch[t] : /\ CanSetDelayed(PageOf[b])
                              /\ SetDelayed(PageOf[b], USE_DELAYED_FREE, FALSE)
                              /\ blk' = [blk EXCEPT ![t] = b]
    BY <1>1 DEF DelayedUse
  <2>2. blk'[t] = b
    BY <1>0, <2>1 DEF TypeOK, ThreadType
  <2>3. flag' = [flag EXCEPT ![PageOf[b]] = IF @ = NEVER_DELAYED_FREE THEN @ ELSE USE_DELAYED_FREE]
    BY <2>1 DEF SetDelayed
  <2>4. CASE q = PageOf[b]
    <3>1. flag[q] \in Flag /\ flag[q] # DELAYED_FREEING
      BY <1>0, <2>1, <2>4 DEF CanSetDelayed, TypeOK, PageType
    <3>2. flag'[q] = IF flag[q] = NEVER_DELAYED_FREE THEN flag[q] ELSE USE_DELAYED_FREE
      BY <1>0, <2>3, <2>4 DEF TypeOK, PageType
    <3> QED BY <1>1, <2>1, <2>2, <2>4, <3>1, <3>2 DEF FlagTurns, Flag
  <2>5. CASE q # PageOf[b]
    BY <1>0, <2>3, <2>5 DEF FlagTurns, TypeOK, PageType
  <2> QED BY <2>4, <2>5
<1>2. CASE ReclaimUse(t)
  <2>1. flag' = [flag EXCEPT ![pg[t]] = USE_DELAYED_FREE] /\ flag[pg[t]] # DELAYED_FREEING
    BY <1>2 DEF ReclaimUse, SetDelayed, CanSetDelayed
  <2> QED BY <1>0, <1>2, <2>1 DEF FlagTurns, TypeOK, PageType
<1>3. CASE MtClaim(t)
  <2>1. /\ flag' = [flag EXCEPT ![PageOf[blk[t]]] = DELAYED_FREEING]
        /\ flag[PageOf[blk[t]]] = USE_DELAYED_FREE
    BY <1>3 DEF MtClaim
  <2> QED BY <1>0, <1>3, <2>1 DEF FlagTurns, TypeOK, PageType
<1>4. CASE MtReset(t)
  <2>1. flag' = [flag EXCEPT ![PageOf[blk[t]]] = NO_DELAYED_FREE] /\ PageOf[blk[t]] \in Page
    BY <1>0, <1>4, BlockAssumption DEF MtReset, TypeOK, ThreadType
  <2>2. flag[PageOf[blk[t]]] = DELAYED_FREEING
    <3>1. Freeing(t, PageOf[blk[t]])
      BY <1>4 DEF MtReset, Freeing, FreeingLabel
    <3> QED BY <1>0, <2>1, <3>1 DEF OneDelayedFreer
  <2> QED BY <1>0, <1>4, <2>1, <2>2 DEF FlagTurns, TypeOK, PageType
<1>5. CASE NeverDelayed(t)
  <2>1. PICK p \in todo[t] : CanSetDelayed(p) /\ SetDelayed(p, NEVER_DELAYED_FREE, FALSE)
    BY <1>5 DEF NeverDelayed
  <2>2. flag' = [flag EXCEPT ![p] = IF @ = NEVER_DELAYED_FREE THEN @ ELSE NEVER_DELAYED_FREE]
        /\ flag[p] # DELAYED_FREEING
    BY <2>1 DEF SetDelayed, CanSetDelayed
  <2>3. CASE q = p
    <3>1. flag'[q] = NEVER_DELAYED_FREE
      BY <1>0, <2>2, <2>3 DEF TypeOK, PageType
    <3> QED BY <1>5, <2>1, <2>2, <2>3, <3>1 DEF FlagTurns
  <2>4. CASE q # p
    BY <1>0, <2>2, <2>4 DEF FlagTurns, TypeOK, PageType
  <2> QED BY <2>3, <2>4
<1>6. CASE ~(DelayedUse(t) \/ ReclaimUse(t) \/ MtClaim(t) \/ MtReset(t) \/ NeverDelayed(t))
  <2>1. CASE Call(t)
    BY <2>1 DEF Call, MallocFast, MallocGeneric, FreeLocal, FreeRemote, StartCollect, ThreadDone, atomics, FlagTurns
  <2>2. CASE \/ TakeDelayed(t) \/ DelayedFree(t) \/ DelayedDone(t) \/ FindAvailable(t) \/ FindExtend(t)
             \/ FindFull(t) \/ ToFull(t) \/ FindNone(t) \/ CollectRetired(t) \/ PopAbandoned(t)
    BY <2>2 DEF TakeDelayed, DelayedFree, DelayedDone, FindAvailable, FindExtend, FindFull, ToFull, FindNone,
       CollectRetired, PopAbandoned, atomics, FlagTurns
  <2>3. CASE \/ CheckFree(t) \/ Reclaim(t) \/ ReclaimCollect(t) \/ FreshPage(t) \/ FreshFails(t) \/ MtPush(t)
             \/ MtHeap(t) \/ MtDelayed(t) \/ ReclaimAll(t) \/ ReclaimAllDone(t)
    BY <2>3 DEF CheckFree, Reclaim, ReclaimCollect, FreshPage, FreshFails, MtPush, MtHeap, MtDelayed, ReclaimAll,
       ReclaimAllDone, atomics, FlagTurns
  <2>4. CASE NeverDone(t) \/ VisitPage(t) \/ PageAbandon(t) \/ VisitDone(t)
    BY <2>4 DEF NeverDone, VisitPage, PageAbandon, VisitDone, atomics, FlagTurns
  <2> QED BY <1>6, <2>1, <2>2, <2>3, <2>4 DEF Step, Continue
<1> QED BY <1>1, <1>2, <1>3, <1>4, <1>5, <1>6

\* in a step of t: what becomes of the delayed lists and batches
DelayedTurns(t) ==
  \/ UNCHANGED <<delayed_free, batch>>
  \/ /\ TakeDelayed(t) /\ batch'[t] = delayed_free[t] /\ delayed_free'[t] = {} /\ batch[t] = {}
     /\ \A u \in Thread \ {t} : delayed_free'[u] = delayed_free[u] /\ batch'[u] = batch[u]
  \/ /\ DelayedUse(t) /\ UNCHANGED delayed_free /\ blk'[t] \in batch[t] /\ batch'[t] = batch[t] \ {blk'[t]}
     /\ \A u \in Thread \ {t} : batch'[u] = batch[u]
     /\ flag[PageOf[blk'[t]]] # DELAYED_FREEING
     /\ flag'[PageOf[blk'[t]]] # NO_DELAYED_FREE
  \/ /\ MtDelayed(t) /\ UNCHANGED batch /\ delayed_free'[hp[t]] = delayed_free[hp[t]] \cup {blk[t]}
     /\ \A u \in Thread \ {hp[t]} : delayed_free'[u] = delayed_free[u]

\* In every step, one of these things becomes of the delayed lists.
LEMMA DelayedStep ==
  ASSUME Safe, NEW t \in Thread, Step(t)
  PROVE  DelayedTurns(t)
<1>0. TypeOK /\ Homes
  BY SafeParts
<1>1. CASE TakeDelayed(t)
  <2>1. batch[t] = {}
    BY <1>0, <1>1 DEF TakeDelayed, Homes, Works
  <2> QED BY <1>0, <1>1, <2>1 DEF TakeDelayed, DelayedTurns, TypeOK, PageType, ThreadType
<1>2. CASE DelayedUse(t)
  <2>1. PICK b \in batch[t] : /\ CanSetDelayed(PageOf[b])
                              /\ SetDelayed(PageOf[b], USE_DELAYED_FREE, FALSE)
                              /\ blk' = [blk EXCEPT ![t] = b]
                              /\ batch' = [batch EXCEPT ![t] = @ \ {b}]
    BY <1>2 DEF DelayedUse
  <2>2. blk'[t] = b /\ batch'[t] = batch[t] \ {b} /\ \A u \in Thread \ {t} : batch'[u] = batch[u]
    BY <1>0, <2>1 DEF TypeOK, ThreadType
  <2>3. PageOf[b] \in Page
    BY <1>0, <2>1, BlockAssumption DEF TypeOK, ThreadType
  <2>4. flag'[PageOf[b]] # NO_DELAYED_FREE
    BY <1>0, <2>1, <2>3 DEF SetDelayed, TypeOK, PageType
  <2> QED BY <1>2, <2>1, <2>2, <2>4 DEF DelayedTurns, DelayedUse, CanSetDelayed
<1>3. CASE MtDelayed(t)
  <2>1. hp[t] \in Thread
    BY <1>0, <1>3 DEF MtDelayed, TypeOK, ThreadType
  <2> QED BY <1>0, <1>3, <2>1 DEF MtDelayed, DelayedTurns, TypeOK, PageType
<1>4. CASE ~(TakeDelayed(t) \/ DelayedUse(t) \/ MtDelayed(t))
  <2>1. CASE Call(t)
    BY <2>1 DEF Call, MallocFast, MallocGeneric, FreeLocal, FreeRemote, StartCollect, ThreadDone, atomics, control,
       DelayedTurns
  <2>2. CASE \/ DelayedFree(t) \/ DelayedDone(t) \/ FindAvailable(t) \/ FindExtend(t)
             \/ FindFull(t) \/ ToFull(t) \/ FindNone(t) \/ CollectRetired(t) \/ PopAbandoned(t)
    BY <2>2 DEF DelayedFree, DelayedDone, FindAvailable, FindExtend, FindFull, ToFull, FindNone,
       CollectRetired, PopAbandoned, Return, atomics, DelayedTurns
  <2>3. CASE \/ CheckFree(t) \/ Reclaim(t) \/ ReclaimUse(t) \/ FreshPage(t) \/ MtClaim(t) \/ MtPush(t)
             \/ MtHeap(t) \/ MtReset(t) \/ ReclaimAll(t) \/ ReclaimAllDone(t)
    BY <2>3 DEF CheckFree, Reclaim, ReclaimUse, FreshPage, MtClaim, MtPush, MtHeap, MtReset, ReclaimAll,
       ReclaimAllDone, Return, atomics, DelayedTurns
  <2>4. CASE NeverDelayed(t) \/ NeverDone(t) \/ VisitPage(t) \/ PageAbandon(t) \/ VisitDone(t)
    BY <2>4 DEF NeverDelayed, NeverDone, VisitPage, PageAbandon, VisitDone, Return, atomics, DelayedTurns
  <2>5. CASE ReclaimCollect(t) \/ FreshFails(t)
    <3>1. ASSUME NoPage(t) PROVE UNCHANGED batch
      BY <3>1 DEF NoPage, Return
    <3>2. UNCHANGED batch
      BY <2>5, <3>1 DEF ReclaimCollect, FreshFails
    <3> QED BY <2>5, <3>2 DEF ReclaimCollect, FreshFails, atomics, DelayedTurns
  <2> QED BY <1>4, <2>1, <2>2, <2>3, <2>4, <2>5 DEF Step, Continue
<1> QED BY <1>1, <1>2, <1>3, <1>4

\* A block of a delayed list or a batch stays there unless it is being freed.
LEMMA PendingKept ==
  ASSUME Safe, NEW t \in Thread, Step(t), NEW h \in Thread, NEW b \in delayed_free[h] \cup batch[h],
         flag[PageOf[b]] = DELAYED_FREEING \/ flag'[PageOf[b]] = NO_DELAYED_FREE
  PROVE  b \in delayed_free'[h] \cup batch'[h]
  BY DelayedStep DEF DelayedTurns

\* A page in use keeps its heap, unless all its flags are NEVER_DELAYED_FREE.
LEMMA HeapKept ==
  ASSUME Safe, ~Reuse, NEW t \in Thread, Step(t), NEW p \in Page, xheap[p] # NULL, InUse(p)',
         flag[p] # NEVER_DELAYED_FREE
  PROVE  xheap'[p] = xheap[p]
<1>0. Homes /\ Flags
  BY SafeParts
<1>1. ~(PageAbandon(t) /\ p = pg[t] /\ p \in HeapPages(t))
  <2>1. PageAbandon(t) => pc[t] = "abandon" /\ goal[t] = "abandon"
    BY <1>0 DEF PageAbandon, Homes, Ends
  <2> QED BY <1>0, <2>1 DEF Flags, Closes
<1>2. PageTurns(t, p)
  BY PageStep
<1> QED BY <1>1, <1>2 DEF PageTurns, InUse, HeapPages

-----------------------------------------------------------------------------
(* Every action keeps the invariant of the flags *)

\* The labels of a reclaim are reached from the label before only.
LEMMA PcAt ==
  ASSUME TypeOK, NEW t \in Thread, Step(t)
  PROVE  /\ pc'[t] = "reclaim_use" => Reclaim(t)
         /\ pc'[t] = "reclaim_collect" => ReclaimUse(t)
         /\ pc'[t] = "mt_heap" => MtClaim(t)
         /\ pc'[t] = "mt_push" => MtHeap(t)
         /\ pc'[t] = "mt_reset" => MtDelayed(t) \/ (MtHeap(t) /\ xheap[PageOf[blk[t]]] = NULL)
         /\ pc'[t] = "dcollect" => DelayedUse(t)
         /\ pc'[t] = "done" => VisitDone(t) /\ goal[t] = "abandon"
<1> DEFINE Labels == {"reclaim_use", "reclaim_collect", "mt_heap", "mt_push", "mt_reset", "dcollect", "done"}
<1>1. CASE Call(t)
  <2>1. (pc'[t] = pc[t] /\ pc[t] = "idle") \/ pc'[t] \in {"take", "mt", "reclaim_all", "never"}
    BY <1>1 DEF Call, MallocFast, MallocGeneric, FreeLocal, FreeRemote, StartCollect, ThreadDone, Goto, control,
       TypeOK, ThreadType
  <2> QED BY <2>1
<1>2. CASE \/ TakeDelayed(t) \/ DelayedFree(t) \/ DelayedDone(t) \/ FindAvailable(t) \/ FindExtend(t)
           \/ FindFull(t) \/ ToFull(t) \/ FindNone(t) \/ CollectRetired(t) \/ PopAbandoned(t)
  <2>1. pc'[t] \notin Labels
    BY <1>2, ZenonT(60) DEF TakeDelayed, DelayedFree, DelayedDone, FindAvailable, FindExtend, FindFull, ToFull, FindNone,
       CollectRetired, PopAbandoned, Goto, Return, TypeOK, ThreadType
  <2> QED BY <2>1
<1>3. CASE CheckFree(t) \/ FreshPage(t) \/ MtPush(t) \/ MtReset(t) \/ ReclaimAll(t) \/ ReclaimAllDone(t)
  <2>1. pc'[t] \notin Labels
    BY <1>3, ZenonT(60) DEF CheckFree, FreshPage, MtPush, MtReset, ReclaimAll, ReclaimAllDone, Goto, Return, TypeOK, ThreadType
  <2> QED BY <2>1
<1>4. CASE NeverDelayed(t) \/ NeverDone(t) \/ VisitPage(t) \/ PageAbandon(t)
  <2>1. pc'[t] \notin Labels
    BY <1>4 DEF NeverDelayed, NeverDone, VisitPage, PageAbandon, Goto, TypeOK, ThreadType
  <2> QED BY <2>1
<1>5. CASE ReclaimCollect(t) \/ FreshFails(t)
  <2>1. pc'[t] \notin Labels
    <3>1. ASSUME NoPage(t) PROVE pc'[t] \notin Labels
      BY <3>1 DEF NoPage, Goto, Return, TypeOK, ThreadType
    <3> QED BY <1>5, <3>1 DEF ReclaimCollect, FreshFails, Goto, TypeOK, ThreadType
  <2> QED BY <2>1
<1>6. CASE VisitDone(t)
  BY <1>6 DEF VisitDone, Goto, Return, TypeOK, ThreadType
<1>7. CASE Reclaim(t) \/ ReclaimUse(t) \/ DelayedUse(t)
  BY <1>7 DEF Reclaim, ReclaimUse, DelayedUse, Goto, TypeOK, ThreadType
<1>8. CASE MtClaim(t) \/ MtHeap(t) \/ MtDelayed(t)
  BY <1>8 DEF MtClaim, MtHeap, MtDelayed, Goto, TypeOK, ThreadType
<1> QED BY <1>1, <1>2, <1>3, <1>4, <1>5, <1>6, <1>7, <1>8 DEF Step, Continue

\* The page whose flag a step changes is in use: it is of a heap, and it is the
\* thread's own unless the thread claims or resets the flag of a delayed free.
LEMMA FlagPage ==
  ASSUME Safe, NEW t \in Thread, Step(t), NEW q \in Page, flag'[q] # flag[q]
  PROVE  /\ InUse(q) /\ flag[q] = NEVER_DELAYED_FREE => ReclaimUse(t) /\ q = pg[t]
         /\ InUse(q)
         /\ \/ MtClaim(t) /\ flag[q] = USE_DELAYED_FREE
            \/ MtReset(t) /\ flag[q] = DELAYED_FREEING
            \/ DelayedUse(t) /\ xheap[q] = t /\ flag'[q] = USE_DELAYED_FREE
            \/ /\ ReclaimUse(t) /\ q = pg[t] /\ pc[t] = "reclaim_use" /\ xheap[q] = t /\ place[q] = "popped"
               /\ flag'[q] = USE_DELAYED_FREE
            \/ NeverDelayed(t) /\ q \in HeapPages(t) /\ flag'[q] = NEVER_DELAYED_FREE
<1>0. TypeOK /\ Homes /\ Flags /\ Placed
  BY SafeParts
<1>1. FlagTurns(t, q)
  BY FlagStep
<1>2. CASE DelayedUse(t) /\ blk'[t] \in batch[t] /\ q = PageOf[blk'[t]] /\ flag'[q] = USE_DELAYED_FREE
           /\ flag[q] # NEVER_DELAYED_FREE
  <2>1. PICK b \in batch[t] : b = blk'[t]
    BY <1>2
  <2>2. b \in Block /\ xheap[PageOf[b]] = t
    BY <1>0, <2>1 DEF Flags, Delays, TypeOK, ThreadType
  <2>3. Reached(b)
    BY <2>1 DEF Reached, Nobody, Outer, At
  <2> QED BY <1>0, <1>2, <2>1, <2>2, <2>3, PlacedParts
<1>3. CASE ReclaimUse(t) /\ q = pg[t] /\ flag'[q] = USE_DELAYED_FREE
  BY <1>0, <1>3 DEF ReclaimUse, Homes, Works, InUse
<1>4. CASE MtClaim(t) /\ q = PageOf[blk[t]] /\ flag[q] = USE_DELAYED_FREE
  <2>1. blk[t] \in Block /\ Reached(blk[t])
    BY <1>0, <1>4 DEF MtClaim, TypeOK, ThreadType, Reached, Nobody, Outer, At, InHand, HandLabel
  <2> QED BY <1>0, <1>4, <2>1, PlacedParts
<1>5. CASE MtReset(t) /\ q = PageOf[blk[t]] /\ flag[q] = DELAYED_FREEING
  BY <1>0, <1>5 DEF MtReset, Flags, Pushes, FreeingLabel
<1>6. CASE NeverDelayed(t) /\ q \in todo[t] /\ flag'[q] = NEVER_DELAYED_FREE
  <2>1. q \in HeapPages(t)
    BY <1>0, <1>6 DEF NeverDelayed, Homes, Works
  <2> QED BY <1>6, <2>1 DEF HeapPages, InUse
<1> QED BY <1>1, <1>2, <1>3, <1>4, <1>5, <1>6 DEF FlagTurns

\* Pages without a heap, and pages being reclaimed, have the right flag.
LEMMA FlagsRightStep ==
  ASSUME Safe, ~Reuse, NEW t \in Thread, Step(t)
  PROVE  FlagsRight'
<1>0. TypeOK /\ Homes /\ Flags
  BY SafeParts
<1>1. ASSUME NEW q \in Page, place'[q] = "fresh" PROVE flag'[q] = USE_DELAYED_FREE
  <2>1. place[q] = "fresh"
    BY <1>1, PageStep DEF PageTurns
  <2>2. flag[q] = USE_DELAYED_FREE
    BY <1>0, <2>1 DEF Flags, FlagsRight
  <2> QED BY <2>1, <2>2, FlagPage DEF InUse
<1>2. ASSUME NEW q \in Page, place'[q] \in {"abandoned", "popped"}, xheap'[q] = NULL
      PROVE  flag'[q] = NEVER_DELAYED_FREE
  <2>1. PageTurns(t, q)
    BY PageStep
  <2>2. CASE PageAbandon(t) /\ q = pg[t] /\ q \in HeapPages(t)
    <3>1. pc[t] = "abandon" /\ goal[t] = "abandon" /\ UNCHANGED flag
      BY <1>0, <2>2 DEF PageAbandon, Homes, Ends
    <3> QED BY <1>0, <2>2, <3>1 DEF Flags, Closes
  <2>3. CASE ~(PageAbandon(t) /\ q = pg[t] /\ q \in HeapPages(t))
    <3>1. place[q] \in {"abandoned", "popped"} /\ xheap[q] = NULL
      BY <1>2, <2>1, <2>3, ThreadAssumption DEF PageTurns
    <3>2. flag[q] = NEVER_DELAYED_FREE
      BY <1>0, <3>1 DEF Flags, FlagsRight
    <3> QED BY <3>1, <3>2, FlagPage, ThreadAssumption DEF InUse
  <2> QED BY <2>2, <2>3
<1>3. ASSUME NEW u \in Thread, pc'[u] = "reclaim_use" PROVE flag'[pg'[u]] = NEVER_DELAYED_FREE
  <2>1. CASE u = t
    <3>1. Reclaim(t)
      BY <1>0, <1>3, <2>1, PcAt
    <3>2. pg[t] \in Page /\ place[pg[t]] = "popped" /\ xheap[pg[t]] = NULL /\ UNCHANGED <<flag, pg>>
      BY <1>0, <3>1 DEF Reclaim, Homes, Works, TypeOK, ThreadType
    <3> QED BY <1>0, <2>1, <3>2 DEF Flags, FlagsRight
  <2>2. CASE u # t
    <3>1. pc[u] = "reclaim_use" /\ pg'[u] = pg[u]
      BY <1>0, <1>3, <2>2, OthersStep
    <3>2. pg[u] \in Page /\ flag[pg[u]] = NEVER_DELAYED_FREE
      BY <1>0, <3>1 DEF Flags, FlagsRight, TypeOK, ThreadType
    <3>3. ~(pc[t] = "reclaim_use" /\ pg[u] = pg[t])
      BY <1>0, <2>2, <3>1 DEF Homes, Works, Pops, PopLabel
    <3>4. place[pg[u]] = "popped" /\ xheap[pg[u]] = u
      BY <1>0, <3>1 DEF Homes, Works
    <3> QED BY <2>2, <3>1, <3>2, <3>3, <3>4, FlagPage DEF InUse
  <2> QED BY <2>1, <2>2
<1>4. ASSUME NEW u \in Thread, pc'[u] = "reclaim_collect" PROVE flag'[pg'[u]] # NEVER_DELAYED_FREE
  <2>1. CASE u = t
    <3>1. ReclaimUse(t)
      BY <1>0, <1>4, <2>1, PcAt
    <3>2. /\ pg[t] \in Page /\ UNCHANGED pg
          /\ flag' = [flag EXCEPT ![pg[t]] = USE_DELAYED_FREE]
      BY <1>0, <3>1 DEF ReclaimUse, SetDelayed, TypeOK, ThreadType
    <3> QED BY <1>0, <2>1, <3>2 DEF TypeOK, PageType
  <2>2. CASE u # t
    <3>1. pc[u] = "reclaim_collect" /\ pg'[u] = pg[u]
      BY <1>0, <1>4, <2>2, OthersStep
    <3>2. pg[u] \in Page /\ flag[pg[u]] # NEVER_DELAYED_FREE
      BY <1>0, <3>1 DEF Flags, FlagsRight, TypeOK, ThreadType
    <3>3. place[pg[u]] = "popped"
      BY <1>0, <3>1 DEF Homes, Works
    <3>4. flag'[pg[u]] = NEVER_DELAYED_FREE => NeverDelayed(t) /\ pg[u] \in todo[t]
      BY <3>2, FlagStep DEF FlagTurns
    <3>5. NeverDelayed(t) => todo[t] \subseteq HeapPages(t)
      BY <1>0 DEF NeverDelayed, Homes, Works
    <3> QED BY <3>1, <3>3, <3>4, <3>5 DEF HeapPages
  <2> QED BY <2>1, <2>2
<1> QED BY <1>1, <1>2, <1>3, <1>4 DEF FlagsRight

\* A page with NO_DELAYED_FREE has a block on the delayed list of its heap.
LEMMA NoDelayedStep ==
  ASSUME Safe, ~Reuse, NEW t \in Thread, Step(t)
  PROVE  NoDelayedPending'
<1>0. TypeOK /\ Homes /\ Flags
  BY SafeParts
<1> SUFFICES ASSUME NEW p \in Page, flag'[p] = NO_DELAYED_FREE, InUse(p)'
             PROVE  /\ xheap'[p] # NULL
                    /\ \E b \in delayed_free'[xheap'[p]] \cup batch'[xheap'[p]] : PageOf[b] = p
  BY DEF NoDelayedPending
<1>1. CASE flag[p] = NO_DELAYED_FREE
  <2>1. InUse(p)
    <3>1. place[p] # "fresh"
      BY <1>0, <1>1 DEF Flags, FlagsRight
    <3>2. PageTurns(t, p)
      BY PageStep
    <3> QED BY <3>1, <3>2 DEF PageTurns, InUse, HeapPages
  <2>2. xheap[p] \in Thread /\ \E b \in delayed_free[xheap[p]] \cup batch[xheap[p]] : PageOf[b] = p
    BY <1>0, <1>1, <2>1 DEF Flags, NoDelayedPending, TypeOK, PageType
  <2>3. PICK b \in delayed_free[xheap[p]] \cup batch[xheap[p]] : PageOf[b] = p
    BY <2>2
  <2>4. b \in delayed_free'[xheap[p]] \cup batch'[xheap[p]]
    BY <2>2, <2>3, PendingKept
  <2>5. xheap'[p] = xheap[p]
    BY <1>1, <2>2, HeapKept, ThreadAssumption
  <2> QED BY <2>2, <2>3, <2>4, <2>5, ThreadAssumption
<1>2. CASE flag[p] # NO_DELAYED_FREE
  <2>1. MtReset(t) /\ p = PageOf[blk[t]]
    BY <1>2, FlagStep DEF FlagTurns
  <2>2. xheap[p] # NULL /\ blk[t] \in delayed_free[xheap[p]] \cup batch[xheap[p]]
    BY <1>0, <2>1 DEF MtReset, Flags, Pushes, FreeingLabel
  <2>3. UNCHANGED <<xheap, delayed_free, batch>>
    BY <2>1 DEF MtReset, Return
  <2> QED BY <2>1, <2>2, <2>3
<1> QED BY <1>1, <1>2

\* How a step continues the end of a thread.
LEMMA EndAt ==
  ASSUME Safe, NEW t \in Thread, Step(t)
  PROVE  /\ goal[t] = "abandon" /\ goal'[t] # "abandon" => pc[t] = "visit" /\ todo[t] = {}
         /\ goal'[t] = "abandon" =>
              \/ ThreadDone(t) /\ pc'[t] = "never" /\ todo'[t] = HeapPages(t)
              \/ goal[t] = "abandon" /\ NeverDelayed(t) /\ pc[t] = "never" /\ pc'[t] = "never"
              \/ goal[t] = "abandon" /\ NeverDone(t) /\ pc[t] = "never" /\ pc'[t] = "take" /\ todo[t] = {}
              \/ goal[t] = "abandon" /\ TakeDelayed(t) /\ pc[t] = "take" /\ pc'[t] = "dblock"
              \/ goal[t] = "abandon" /\ pc[t] \notin {"never", "take"} /\ pc'[t] \notin {"never", "take"}
<1> DEFINE EndGoes == /\ goal[t] = "abandon" /\ goal'[t] # "abandon" => pc[t] = "visit" /\ todo[t] = {}
                      /\ goal'[t] = "abandon" =>
                           \/ ThreadDone(t) /\ pc'[t] = "never" /\ todo'[t] = HeapPages(t)
                           \/ goal[t] = "abandon" /\ NeverDelayed(t) /\ pc[t] = "never" /\ pc'[t] = "never"
                           \/ goal[t] = "abandon" /\ NeverDone(t) /\ pc[t] = "never" /\ pc'[t] = "take" /\ todo[t] = {}
                           \/ goal[t] = "abandon" /\ TakeDelayed(t) /\ pc[t] = "take" /\ pc'[t] = "dblock"
                           \/ goal[t] = "abandon" /\ pc[t] \notin {"never", "take"} /\ pc'[t] \notin {"never", "take"}
<1>0. TypeOK /\ Homes
  BY SafeParts
<1>1. goal[t] = "abandon" => pc[t] \in AbandonLabel
  BY <1>0 DEF Homes, Ends
<1>2. ASSUME ThreadDone(t) PROVE EndGoes
  BY <1>0, <1>1, <1>2 DEF ThreadDone, AbandonLabel, Goto, TypeOK, ThreadType
<1>3. ASSUME Call(t), ~ThreadDone(t) PROVE EndGoes
  BY <1>0, <1>1, <1>3 DEF Call, MallocFast, MallocGeneric, FreeLocal, FreeRemote, StartCollect, control, AbandonLabel,
     TypeOK, ThreadType
<1>4. ASSUME NeverDelayed(t) \/ NeverDone(t) \/ TakeDelayed(t) PROVE EndGoes
  <2>1. CASE NeverDelayed(t)
    BY <1>0, <2>1 DEF NeverDelayed, TypeOK, ThreadType
  <2>2. CASE NeverDone(t)
    BY <1>0, <2>2 DEF NeverDone, Goto, TypeOK, ThreadType
  <2>3. CASE TakeDelayed(t)
    BY <1>0, <2>3 DEF TakeDelayed, Goto, TypeOK, ThreadType
  <2> QED BY <1>4, <2>1, <2>2, <2>3
<1>5. ASSUME DelayedUse(t) \/ DelayedFree(t) \/ CollectRetired(t) \/ VisitPage(t) \/ PageAbandon(t) PROVE EndGoes
  BY <1>0, <1>5 DEF DelayedUse, DelayedFree, CollectRetired, VisitPage, PageAbandon, Goto, TypeOK, ThreadType
<1>6. ASSUME DelayedDone(t) PROVE EndGoes
  BY <1>0, <1>6 DEF DelayedDone, Goto, TypeOK, ThreadType
<1>7. ASSUME VisitDone(t) PROVE EndGoes
  BY <1>0, <1>7 DEF VisitDone, Goto, Return, TypeOK, ThreadType
<1>8. ASSUME pc[t] \notin AbandonLabel, Continue(t) PROVE EndGoes
  <2>1. goal'[t] # "abandon"
    <3>1. CASE FindAvailable(t) \/ FindExtend(t) \/ FindFull(t) \/ ToFull(t) \/ FindNone(t) \/ PopAbandoned(t)
      BY <1>0, <1>1, <1>8, <3>1 DEF FindAvailable, FindExtend, FindFull, ToFull, FindNone, PopAbandoned, Return,
         TypeOK, ThreadType
    <3>2. CASE CheckFree(t) \/ Reclaim(t) \/ ReclaimUse(t) \/ FreshPage(t) \/ ReclaimAll(t) \/ ReclaimAllDone(t)
      BY <1>0, <1>1, <1>8, <3>2 DEF CheckFree, Reclaim, ReclaimUse, FreshPage, ReclaimAll, ReclaimAllDone, Return,
         TypeOK, ThreadType
    <3>3. CASE MtClaim(t) \/ MtPush(t) \/ MtHeap(t) \/ MtDelayed(t) \/ MtReset(t)
      BY <1>0, <1>1, <1>8, <3>3 DEF MtClaim, MtPush, MtHeap, MtDelayed, MtReset, Return, TypeOK, ThreadType
    <3>4. CASE ReclaimCollect(t) \/ FreshFails(t)
      <4>1. ASSUME NoPage(t) PROVE goal'[t] # "abandon"
        BY <1>0, <1>1, <1>8, <4>1 DEF NoPage, Return, TypeOK, ThreadType
      <4>2. ASSUME ~NoPage(t) PROVE goal'[t] # "abandon"
        BY <1>0, <1>1, <1>8, <3>4, <4>2 DEF ReclaimCollect, FreshFails
      <4> QED BY <4>1, <4>2
    <3>5. \/ TakeDelayed(t) \/ DelayedUse(t) \/ DelayedFree(t) \/ DelayedDone(t) \/ CollectRetired(t)
          \/ NeverDelayed(t) \/ NeverDone(t) \/ VisitPage(t) \/ PageAbandon(t) \/ VisitDone(t)
          => pc[t] \in AbandonLabel
      BY DEF TakeDelayed, DelayedUse, DelayedFree, DelayedDone, CollectRetired, NeverDelayed, NeverDone, VisitPage,
         PageAbandon, VisitDone, AbandonLabel
    <3> QED BY <1>8, <3>1, <3>2, <3>3, <3>4, <3>5 DEF Continue
  <2> QED BY <1>1, <1>8, <2>1
<1>9. \/ FindAvailable(t) \/ FindExtend(t) \/ FindFull(t) \/ ToFull(t) \/ FindNone(t) \/ PopAbandoned(t)
      \/ CheckFree(t) \/ Reclaim(t) \/ ReclaimUse(t) \/ FreshPage(t) \/ ReclaimAll(t) \/ ReclaimAllDone(t)
      \/ MtClaim(t) \/ MtPush(t) \/ MtHeap(t) \/ MtDelayed(t) \/ MtReset(t) \/ ReclaimCollect(t) \/ FreshFails(t)
      => pc[t] \notin AbandonLabel
  BY DEF FindAvailable, FindExtend, FindFull, ToFull, FindNone, PopAbandoned, CheckFree, Reclaim, ReclaimUse, FreshPage,
     ReclaimAll, ReclaimAllDone, MtClaim, MtPush, MtHeap, MtDelayed, MtReset, ReclaimCollect, FreshFails, AbandonLabel
<1>10. EndGoes
  BY <1>2, <1>3, <1>4, <1>5, <1>6, <1>7, <1>8, <1>9 DEF Step, Continue
<1> QED BY <1>10

\* A page that joins a queue can be freed to by other threads.
LEMMA EntersHeap ==
  ASSUME Safe, ~Reuse, NEW t \in Thread, Step(t), NEW u \in Thread, NEW p \in HeapPages(u)', p \notin HeapPages(u)
  PROVE  u = t /\ pc[t] \in {"fresh", "reclaim_collect"} /\ flag'[p] # NEVER_DELAYED_FREE
<1>0. TypeOK /\ Homes /\ Flags
  BY SafeParts
<1>1. p \in Page /\ xheap'[p] = u /\ place'[p] \in {"queue", "full"}
  BY DEF HeapPages
<1>2. ~(xheap'[p] = xheap[p] /\ place'[p] = place[p])
  BY <1>1 DEF HeapPages
<1>3. PageTurns(t, p)
  BY <1>1, PageStep
<1>4. CASE FreshPage(t) /\ xheap'[p] = t /\ place[p] = "fresh"
  BY <1>0, <1>1, <1>4 DEF FreshPage, Flags, FlagsRight
<1>5. CASE ReclaimCollect(t) /\ p = pg[t] /\ xheap'[p] = t
  BY <1>0, <1>1, <1>5 DEF ReclaimCollect, Flags, FlagsRight
<1>6. ~(p \in HeapPages(t) /\ xheap'[p] = t)
  BY <1>1
<1> QED BY <1>1, <1>2, <1>3, <1>4, <1>5, <1>6, ThreadAssumption DEF PageTurns

\* A thread in a delayed free pushes to a heap one of whose queues the page is in.
LEMMA PushesTo ==
  ASSUME Safe, NEW t \in Thread, MtDelayed(t), NEW u \in Thread, u = hp[t],
         pc[u] \notin {"reclaim_use", "reclaim_collect"}
  PROVE  \E p \in HeapPages(u) : flag[p] = DELAYED_FREEING
<1>0. TypeOK /\ OneDelayedFreer /\ Homes /\ Flags
  BY SafeParts
<1>1. pc[t] = "mt_push" /\ blk[t] \in Block
  BY <1>0 DEF MtDelayed, TypeOK, ThreadType
<1>2. PICK p \in Page : p = PageOf[blk[t]]
  BY <1>1, BlockAssumption
<1>3. InUse(p) /\ xheap[p] = u
  BY <1>0, <1>1, <1>2 DEF Flags, Pushes, FreeingLabel
<1>4. flag[p] = DELAYED_FREEING
  BY <1>0, <1>1, <1>2 DEF OneDelayedFreer, Freeing, FreeingLabel
<1>5. p \in HeapPages(u)
  BY <1>0, <1>3, ThreadAssumption DEF Homes, PageHome, InUse, HeapPages
<1> QED BY <1>4, <1>5

\* While a thread ends its pages stay closed and its delayed list stays empty.
LEMMA EndKept ==
  ASSUME Safe, ~Reuse, NEW t \in Thread, Step(t), NEW u \in Thread, goal[u] = "abandon"
  PROVE  /\ HeapPages(u)' \subseteq HeapPages(u)
         /\ \A p \in HeapPages(u) : flag[p] = NEVER_DELAYED_FREE => flag'[p] = NEVER_DELAYED_FREE
         /\ pc[u] \notin {"never", "take"} => delayed_free'[u] = {}
<1>0. TypeOK /\ Homes /\ Flags
  BY SafeParts
<1>1. pc[u] \in AbandonLabel
  BY <1>0 DEF Homes, Ends
<1>2. HeapPages(u)' \subseteq HeapPages(u)
  BY <1>1, EntersHeap DEF AbandonLabel
<1>3. ASSUME NEW p \in HeapPages(u), flag[p] = NEVER_DELAYED_FREE PROVE flag'[p] = NEVER_DELAYED_FREE
  <2>1. p \in Page /\ place[p] \in {"queue", "full"}
    BY DEF HeapPages
  <2>2. ReclaimUse(t) => place[pg[t]] = "popped"
    BY <1>0 DEF ReclaimUse, Homes, Works
  <2> QED BY <1>3, <2>1, <2>2, FlagPage DEF InUse
<1>4. ASSUME pc[u] \notin {"never", "take"} PROVE delayed_free'[u] = {}
  <2>1. delayed_free[u] = {} /\ \A p \in HeapPages(u) : flag[p] = NEVER_DELAYED_FREE
    BY <1>0, <1>4 DEF Flags, Closes
  <2>2. ~(MtDelayed(t) /\ u = hp[t])
    BY <1>1, <2>1, PushesTo DEF AbandonLabel
  <2> QED BY <2>1, <2>2, DelayedStep DEF DelayedTurns
<1> QED BY <1>2, <1>3, <1>4

\* The pages and the delayed list of a thread that ends are closed in time.
LEMMA ClosesStep ==
  ASSUME Safe, ~Reuse, NEW t \in Thread, Step(t), NEW u \in Thread
  PROVE  Closes(u)'
<1>0. TypeOK /\ Homes /\ Flags
  BY SafeParts
<1>1. Ends(u) /\ Closes(u)
  BY <1>0 DEF Homes, Flags
<1>2. ASSUME u # t PROVE pc'[u] = pc[u] /\ goal'[u] = goal[u] /\ todo'[u] = todo[u]
  BY <1>0, <1>2, OthersStep
<1>3. ASSUME NEW p \in HeapPages(u)', flag'[p] = NEVER_DELAYED_FREE PROVE goal'[u] = "abandon"
  <2>1. p \in HeapPages(u) /\ p \in Page /\ xheap[p] = u
    BY <1>3, EntersHeap DEF HeapPages
  <2>2. goal[u] = "abandon"
    <3>1. CASE flag[p] = NEVER_DELAYED_FREE
      BY <1>1, <2>1, <3>1 DEF Closes
    <3>2. CASE flag[p] # NEVER_DELAYED_FREE
      <4>1. NeverDelayed(t) /\ p \in HeapPages(t)
        <5>1. NeverDelayed(t) /\ p \in todo[t]
          BY <1>3, <2>1, <3>2, FlagStep DEF FlagTurns
        <5> QED BY <1>0, <5>1 DEF NeverDelayed, Homes, Works
      <4>2. u = t /\ pc[u] = "never"
        BY <2>1, <4>1 DEF HeapPages, NeverDelayed
      <4> QED BY <1>1, <4>2 DEF Ends
    <3> QED BY <3>1, <3>2
  <2>3. ASSUME goal'[u] # "abandon" PROVE FALSE
    <3>1. u = t /\ pc[u] = "visit" /\ todo[u] = {}
      BY <1>2, <2>2, <2>3, EndAt
    <3> QED BY <1>1, <2>1, <2>2, <3>1 DEF Ends
  <2> QED BY <2>3
<1>4. ASSUME goal'[u] = "abandon"
      PROVE  /\ pc'[u] = "never" => \A p \in HeapPages(u)' \ todo'[u] : flag'[p] = NEVER_DELAYED_FREE
             /\ pc'[u] # "never" => \A p \in HeapPages(u)' : flag'[p] = NEVER_DELAYED_FREE
             /\ pc'[u] \notin {"never", "take"} => delayed_free'[u] = {}
  <2>1. CASE \/ u # t
             \/ pc[u] \notin {"never", "take"} /\ pc'[u] \notin {"never", "take"} /\ goal[u] = "abandon"
    <3>1. goal[u] = "abandon" /\ (pc'[u] = "never" <=> pc[u] = "never") /\ (pc'[u] = "take" <=> pc[u] = "take")
      BY <1>2, <1>4, <2>1
    <3>2. pc[u] = "never" => todo'[u] = todo[u]
      BY <1>2, <2>1
    <3> QED BY <1>1, <3>1, <3>2, EndKept DEF Closes
  <2>2. CASE u = t /\ ThreadDone(t) /\ pc'[t] = "never" /\ todo'[t] = HeapPages(t)
    <3>1. HeapPages(u)' = HeapPages(u)
      BY <2>2 DEF ThreadDone, HeapPages, atomics, fields
    <3> QED BY <2>2, <3>1
  <2>3. CASE u = t /\ goal[t] = "abandon" /\ NeverDelayed(t) /\ pc[t] = "never" /\ pc'[t] = "never"
    <3>1. HeapPages(u)' = HeapPages(u)
      BY <2>3 DEF NeverDelayed, HeapPages, fields
    <3>2. PICK p \in todo[t] : SetDelayed(p, NEVER_DELAYED_FREE, FALSE) /\ todo' = [todo EXCEPT ![t] = @ \ {p}]
      BY <2>3 DEF NeverDelayed
    <3>3. todo'[t] = todo[t] \ {p} /\ p \in Page
      BY <1>0, <3>2 DEF TypeOK, ThreadType
    <3>4. flag'[p] = NEVER_DELAYED_FREE
      BY <1>0, <3>2, <3>3 DEF SetDelayed, TypeOK, PageType
    <3> QED BY <1>1, <2>3, <3>1, <3>3, <3>4, EndKept DEF Closes
  <2>4. CASE u = t /\ goal[t] = "abandon" /\ NeverDone(t) /\ pc[t] = "never" /\ pc'[t] = "take" /\ todo[t] = {}
    BY <1>1, <2>4, EndKept DEF Closes
  <2>5. CASE u = t /\ goal[t] = "abandon" /\ TakeDelayed(t) /\ pc[t] = "take" /\ pc'[t] = "dblock"
    <3>1. delayed_free'[t] = {}
      BY <1>0, <2>5 DEF TakeDelayed, TypeOK, PageType
    <3> QED BY <1>1, <2>5, <3>1, EndKept DEF Closes
  <2> QED BY <1>4, <2>1, <2>2, <2>3, <2>4, <2>5, EndAt
<1>5. ASSUME pc'[u] = "done" PROVE delayed_free'[u] = {}
  <2>1. CASE u = t
    <3>1. VisitDone(t) /\ goal[t] = "abandon" /\ pc[t] = "visit"
      BY <1>0, <1>5, <2>1, PcAt DEF VisitDone
    <3> QED BY <2>1, <3>1, EndKept
  <2>2. CASE u # t
    <3>1. pc[u] = "done" /\ delayed_free[u] = {} /\ HeapPages(u) = {}
      BY <1>1, <1>2, <1>5, <2>2 DEF Closes, Ends
    <3>2. ~(MtDelayed(t) /\ u = hp[t])
      BY <3>1, PushesTo
    <3>3. ~TakeDelayed(t) \/ delayed_free'[u] = delayed_free[u]
      BY <1>0, <2>2 DEF TakeDelayed, TypeOK, PageType
    <3> QED BY <3>1, <3>2, <3>3, DelayedStep DEF DelayedTurns
  <2> QED BY <2>1, <2>2
<1> QED BY <1>3, <1>4, <1>5 DEF Closes

\* A block that a thread or a delayed list has is of a page in use.
LEMMA ReachedInUse ==
  ASSUME Safe, ~Reuse, NEW t \in Thread, Step(t), NEW u \in Thread, NEW c \in Block,
         c \in delayed_free'[u] \cup batch'[u] \/ InHand(u, c)'
  PROVE  InUse(PageOf[c])'
<1>1. Placed'
  BY BlocksStep DEF Blocks
<1>2. At(c, "delayed", u)' \/ At(c, "batch", u)' \/ At(c, "hand", u)'
  BY DEF At
<1>3. "delayed" \in Outer /\ "batch" \in Outer /\ "hand" \in Outer /\ u \in Thread \cup {NULL}
  BY DEF Outer
<1> QED BY <1>1, <1>2, <1>3 DEF Placed

\* The page and the heap of a delayed free stay.
LEMMA PushesStep ==
  ASSUME Safe, ~Reuse, NEW t \in Thread, Step(t), NEW u \in Thread
  PROVE  Pushes(u)'
<1>0. TypeOK /\ OneDelayedFreer /\ Homes /\ Flags /\ Placed
  BY SafeParts
<1>1. Pushes(u)
  BY <1>0 DEF Flags
<1> SUFFICES ASSUME pc'[u] \in FreeingLabel PROVE Pushes(u)'
  BY DEF Pushes, FreeingLabel
<1>2. CASE u # t
  <2>1. pc[u] \in FreeingLabel /\ pc'[u] = pc[u] /\ blk'[u] = blk[u] /\ hp'[u] = hp[u] /\ blk[u] \in Block
    BY <1>0, <1>2, OthersStep DEF FreeingLabel, TypeOK, ThreadType
  <2>2. PICK c \in Block : c = blk[u]
    BY <2>1
  <2>3. PICK p \in Page : p = PageOf[c]
    BY BlockAssumption
  <2>4. xheap[p] \in Thread /\ flag[p] = DELAYED_FREEING
    <3>1. Freeing(u, p)
      BY <2>1, <2>2, <2>3 DEF Freeing
    <3>2. xheap[p] # NULL
      BY <1>1, <2>1, <2>2, <2>3 DEF Pushes
    <3> QED BY <1>0, <3>1, <3>2 DEF OneDelayedFreer, TypeOK, PageType
  <2>5. PICK h \in Thread : h = xheap[p]
    BY <2>4
  <2>6. pc[u] = "mt_reset" => c \in delayed_free'[h] \cup batch'[h]
    BY <1>1, <2>2, <2>3, <2>4, <2>5, PendingKept DEF Pushes
  <2>7. pc[u] # "mt_reset" => InHand(u, c)'
    BY <2>1, <2>2 DEF InHand, HandLabel, FreeingLabel
  <2>8. InUse(p)'
    BY <2>3, <2>6, <2>7, ReachedInUse
  <2>9. xheap'[p] = h
    BY <2>4, <2>5, <2>8, HeapKept, ThreadAssumption
  <2> QED BY <1>1, <2>1, <2>2, <2>3, <2>5, <2>6, <2>8, <2>9, ThreadAssumption DEF Pushes
<1>3. CASE u = t
  <2>1. CASE MtClaim(t)
    <3>1. /\ pc[t] = "mt" /\ pc'[t] = "mt_heap" /\ UNCHANGED <<xheap, place, blk>>
          /\ flag[PageOf[blk[t]]] = USE_DELAYED_FREE /\ blk[t] \in Block
      BY <1>0, <2>1 DEF MtClaim, Goto, fields, TypeOK, ThreadType
    <3>2. Reached(blk[t])
      BY <3>1 DEF Reached, Nobody, Outer, At, InHand, HandLabel
    <3>3. PICK p \in Page : p = PageOf[blk[t]]
      BY <3>1, BlockAssumption
    <3>4. InUse(p)
      BY <1>0, <3>1, <3>2, <3>3, PlacedParts
    <3>5. xheap[p] # NULL
      BY <1>0, <3>1, <3>3, <3>4 DEF InUse, Homes, PageHome, Flags, FlagsRight
    <3> QED BY <1>3, <3>1, <3>3, <3>4, <3>5 DEF Pushes, InUse
  <2>2. CASE MtHeap(t)
    <3>1. /\ pc[t] = "mt_heap" /\ UNCHANGED <<xheap, place, blk>> /\ hp'[t] = xheap[PageOf[blk[t]]]
      BY <1>0, <2>2 DEF MtHeap, atomics, fields, TypeOK, ThreadType
    <3>2. InUse(PageOf[blk[t]]) /\ xheap[PageOf[blk[t]]] # NULL
      BY <1>1, <1>3, <3>1 DEF Pushes, FreeingLabel
    <3>3. pc'[t] = "mt_push"
      BY <1>0, <2>2, <3>2 DEF MtHeap, Goto, TypeOK, ThreadType
    <3> QED BY <1>3, <3>1, <3>2, <3>3 DEF Pushes, InUse
  <2>3. CASE MtDelayed(t)
    <3>1. /\ pc[t] = "mt_push" /\ pc'[t] = "mt_reset" /\ UNCHANGED <<xheap, place, blk, batch>>
          /\ hp[t] \in Thread /\ blk[t] \in delayed_free'[hp[t]]
      BY <1>0, <2>3 DEF MtDelayed, Goto, fields, TypeOK, PageType, ThreadType
    <3>2. InUse(PageOf[blk[t]]) /\ xheap[PageOf[blk[t]]] # NULL /\ xheap[PageOf[blk[t]]] = hp[t]
      BY <1>1, <1>3, <3>1 DEF Pushes, FreeingLabel
    <3> QED BY <1>3, <3>1, <3>2 DEF Pushes, InUse
  <2> QED BY <1>0, <1>3, <2>1, <2>2, <2>3, PcAt DEF FreeingLabel
<1> QED BY <1>2, <1>3

\* The delayed blocks of a heap stay blocks of its pages.
LEMMA DelaysStep ==
  ASSUME Safe, ~Reuse, NEW t \in Thread, Step(t), NEW u \in Thread
  PROVE  Delays(u)'
<1>0. TypeOK /\ Homes /\ Flags /\ Placed
  BY SafeParts
<1>1. Delays(u)
  BY <1>0 DEF Flags
<1>2. ASSUME NEW b \in delayed_free'[u] \cup batch'[u] PROVE xheap'[PageOf[b]] = u
  <2>1. b \in delayed_free[u] \cup batch[u] \/ (MtDelayed(t) /\ b = blk[t] /\ u = hp[t])
    BY DelayedStep DEF DelayedTurns
  <2>2. b \in Block
    BY <1>0, <2>1 DEF MtDelayed, TypeOK, PageType, ThreadType
  <2>3. PICK p \in Page : p = PageOf[b]
    BY <2>2, BlockAssumption
  <2>4. xheap[p] = u
    <3>1. MtDelayed(t) => xheap[PageOf[blk[t]]] = hp[t]
      BY <1>0 DEF MtDelayed, Flags, Pushes
    <3> QED BY <1>1, <2>1, <2>3, <3>1 DEF Delays
  <2>5. InUse(p)'
    BY <2>2, <2>3, ReachedInUse
  <2>6. ~(PageAbandon(t) /\ u = t)
    <3>1. PageAbandon(t) => pc[t] = "abandon" /\ goal[t] = "abandon" /\ ~MtDelayed(t)
      BY <1>0 DEF PageAbandon, MtDelayed, Homes, Ends
    <3> QED BY <1>0, <2>1, <3>1 DEF Flags, Closes, Homes, Works
  <2>7. PageTurns(t, p)
    BY PageStep
  <2> QED BY <2>3, <2>4, <2>5, <2>6, <2>7, ThreadAssumption DEF PageTurns, InUse, HeapPages
<1>3. ASSUME pc'[u] = "dcollect" PROVE xheap'[PageOf[blk'[u]]] = u
  <2>1. CASE u = t
    <3>1. DelayedUse(t)
      BY <1>0, <1>3, <2>1, PcAt
    <3>2. blk'[t] \in batch[t] /\ UNCHANGED xheap
      BY <1>0, <3>1 DEF DelayedUse, TypeOK, ThreadType
    <3> QED BY <1>1, <2>1, <3>2 DEF Delays
  <2>2. CASE u # t
    <3>1. pc[u] = "dcollect" /\ blk'[u] = blk[u] /\ blk[u] \in Block
      BY <1>0, <1>3, <2>2, OthersStep DEF TypeOK, ThreadType
    <3>2. PICK p \in Page : p = PageOf[blk[u]]
      BY <3>1, BlockAssumption
    <3>3. xheap[p] = u
      BY <1>1, <3>1, <3>2 DEF Delays
    <3> QED BY <2>2, <3>1, <3>2, <3>3, PageStep, ThreadAssumption DEF PageTurns, HeapPages
  <2> QED BY <2>1, <2>2
<1> QED BY <1>2, <1>3 DEF Delays

-----------------------------------------------------------------------------
(* The theorems *)

\* At the start no thread runs and no page is in use.
LEMMA SafeInit == Init => Safe
<1> SUFFICES ASSUME Init PROVE Safe
  OBVIOUS
<1>1. TypeOK /\ OneDelayedFreer
  BY TypeInit, OneFreerInit
<1>2. \A p \in Page : /\ place[p] = "fresh" /\ xheap[p] = NULL /\ flag[p] = USE_DELAYED_FREE
                      /\ Listed(p) = {} /\ capacity[p] = {} /\ used[p] = 0
  BY DEF Init, Listed
<1>3. \A t \in Thread : /\ pc[t] = "idle" /\ goal[t] = "none" /\ batch[t] = {} /\ delayed_free[t] = {}
  BY DEF Init
<1>4. \A t \in Thread : HeapPages(t) = {}
  BY <1>2 DEF HeapPages
<1>5. Homes
  BY <1>2, <1>3, <1>4 DEF Homes, PageHome, Works, Ends, PopLabel, AbandonLabel
<1>6. Flags
  BY <1>2, <1>3, <1>4 DEF Flags, FlagsRight, NoDelayedPending, InUse, Closes, Pushes, Delays, FreeingLabel
<1>7. Placed
  <2>1. \A b \in Block, k \in Kind, t \in Thread \cup {NULL} : ~At(b, k, t)
    BY BlockAssumption DEF Init, At, InHand, HandLabel
  <2>2. \A b \in Block : ~InUse(PageOf[b])
    BY <1>2, BlockAssumption DEF InUse
  <2>3. Outer \subseteq Kind
    BY DEF Outer, Kind
  <2> QED BY <2>1, <2>2, <2>3 DEF Placed
<1>8. Lists /\ UsedExact /\ FullUsed
  BY <1>2 DEF Lists, UsedExact, FullUsed, InUse
<1> QED BY <1>1, <1>5, <1>6, <1>7, <1>8 DEF Safe, Blocks

\* Every step keeps the invariant.
LEMMA SafeStep ==
  ASSUME Safe, ~Reuse, [Next]_vars
  PROVE  Safe'
<1>1. TypeOK' /\ OneDelayedFreer'
  BY SafeParts, TypeStep, OneFreerStep
<1>2. CASE Next
  <2>1. PICK t \in Thread : Step(t)
    BY <1>2 DEF Next, Step
  <2>2. FlagsRight' /\ NoDelayedPending'
    BY <2>1, FlagsRightStep, NoDelayedStep
  <2>3. \A u \in Thread : Closes(u)' /\ Pushes(u)' /\ Delays(u)'
    BY <2>1, ClosesStep, PushesStep, DelaysStep
  <2>4. Flags'
    BY <2>2, <2>3 DEF Flags
  <2>5. Homes' /\ Blocks'
    BY <2>1, HomesNext, BlocksStep
  <2> QED BY <1>1, <2>4, <2>5 DEF Safe
<1>3. CASE UNCHANGED vars
  <2>1. UNCHANGED <<flag, thread_free, xheap, delayed_free, free, local_free, used, capacity, retired, place,
                    visits, live, pc, goal, blk, pg, hp, todo, batch, tries, round, ret>>
    BY <1>3 DEF vars, atomics, fields, control
  <2>2. Homes'
    BY <2>1, SafeParts DEF Homes, PageHome, Works, Ends, Queue, HeapPages, Pops
  <2>3. Flags'
    BY <2>1, SafeParts DEF Flags, FlagsRight, NoDelayedPending, InUse, Closes, Pushes, Delays, HeapPages
  <2>4. Placed'
    BY <2>1, SafeParts DEF Placed, At, InHand, InUse
  <2>5. Lists' /\ UsedExact' /\ FullUsed'
    BY <2>1, SafeParts DEF Lists, UsedExact, FullUsed, Listed, InUse
  <2> QED BY <1>1, <2>2, <2>3, <2>4, <2>5 DEF Safe, Blocks
<1> QED BY <1>2, <1>3

\* The inductive invariant of the delayed-free protocol holds in every state.
THEOREM BlocksSafe ==
  ASSUME ~Reuse
  PROVE  Spec => []Safe
<1>1. Init => Safe
  BY SafeInit
<1>2. Safe /\ [Next]_vars => Safe'
  BY SafeStep
<1> QED BY <1>1, <1>2, PTL DEF Spec

\* The racy read of page->xheap in _mi_free_block_mt yields a heap that still
\* exists, and a heap that was given back to the OS has an empty delayed list,
\* for any number of threads that end at any time.
THEOREM FreedToLiveHeap ==
  ASSUME ~Reuse
  PROVE  Spec => []DelayedHeapAlive
<1>1. Safe => DelayedHeapAlive
  <2> SUFFICES ASSUME Safe, NEW t \in Thread
               PROVE  /\ goal[t] = "abandon" /\ pc[t] \in {"retired", "visit", "abandon"} =>
                           /\ delayed_free[t] = {}
                           /\ \A p \in HeapPages(t) : flag[p] = NEVER_DELAYED_FREE
                      /\ pc[t] \in FreeingLabel => InUse(PageOf[blk[t]]) /\ xheap[PageOf[blk[t]]] # NULL
                      /\ pc[t] = "mt_push" => pc[hp[t]] # "done" /\ xheap[PageOf[blk[t]]] = hp[t]
                      /\ pc[t] = "done" => delayed_free[t] = {} /\ batch[t] = {}
    BY DEF DelayedHeapAlive
  <2>1. TypeOK /\ Homes /\ Flags
    BY SafeParts
  <2>2. Closes(t) /\ Pushes(t) /\ Works(t)
    BY <2>1 DEF Flags, Homes
  <2>3. ASSUME pc[t] = "mt_push" PROVE pc[hp[t]] # "done"
    <3>1. /\ InUse(PageOf[blk[t]]) /\ xheap[PageOf[blk[t]]] = hp[t] /\ hp[t] \in Thread
          /\ PageOf[blk[t]] \in Page
      BY <2>1, <2>2, <2>3, BlockAssumption DEF Pushes, FreeingLabel, TypeOK, ThreadType
    <3>2. \/ PageOf[blk[t]] \in HeapPages(hp[t])
          \/ pc[hp[t]] \in {"reclaim_use", "reclaim_collect"}
      BY <2>1, <3>1, ThreadAssumption DEF Homes, PageHome, InUse, HeapPages
    <3> QED BY <2>1, <3>1, <3>2 DEF Homes, Ends
  <2> QED BY <2>2, <2>3 DEF Closes, Pushes, Works, FreeingLabel
<1> QED BY <1>1, BlocksSafe, PTL

\* While a page is marked NO_DELAYED_FREE a block of it is on the delayed list
\* of its heap, or was just taken from it: its owner will come to see the blocks
\* that other threads put on the page's own list.
THEOREM NoFreeForgotten ==
  ASSUME ~Reuse
  PROVE  Spec => []NoDelayedPending
<1>1. Safe => NoDelayedPending
  BY SafeParts DEF Flags
<1> QED BY <1>1, BlocksSafe, PTL

\* The used count of a page in use counts the blocks that are on neither of its
\* owner's lists.
THEOREM UsedCounts ==
  ASSUME ~Reuse
  PROVE  Spec => []UsedExact
<1>1. Safe => UsedExact
  BY SafeParts
<1> QED BY <1>1, BlocksSafe, PTL

\* A full page whose blocks have all been freed is on the delayed list of its
\* heap, with one of its blocks.
THEOREM FullPageFound ==
  ASSUME ~Reuse
  PROVE  Spec => []FullPageNotLost
<1>1. Safe => FullPageNotLost
  <2> SUFFICES ASSUME Safe, NEW p \in Page, place[p] = "full", pc[xheap[p]] = "idle",
                      \A b \in Reserved(p) : b \notin live /\ \A t \in Thread : ~InHand(t, b)
               PROVE  \E b \in delayed_free[xheap[p]] : PageOf[b] = p
    BY DEF FullPageNotLost
  <2>1. TypeOK /\ Homes /\ Flags /\ Placed /\ Lists /\ FullUsed
    BY SafeParts
  <2>2. PICK h \in Thread : h = xheap[p]
    BY <2>1 DEF Homes, PageHome, TypeOK, PageType
  <2>3. flag[p] # NEVER_DELAYED_FREE
    <3>1. goal[h] # "abandon" /\ p \in HeapPages(h)
      BY <2>1, <2>2 DEF Homes, Ends, AbandonLabel, HeapPages
    <3> QED BY <2>1, <3>1 DEF Flags, Closes
  <2>4. PICK b \in capacity[p] : b \notin Listed(p)
    BY <2>1, <2>3 DEF FullUsed
  <2>5. b \in Block /\ PageOf[b] = p /\ b \in Reserved(p)
    BY <2>1 DEF Lists, Reserved
  <2>6. \E k \in Kind : \E t \in Thread \cup {NULL} : At(b, k, t)
    BY <2>1, <2>5 DEF Placed, InUse
  <2>7. \E t \in Thread : b \in delayed_free[t] \/ b \in batch[t]
    BY <2>4, <2>5, <2>6 DEF At, Listed
  <2>8. PICK t \in Thread : b \in delayed_free[t] \/ b \in batch[t]
    BY <2>7
  <2>9. t = h
    BY <2>1, <2>2, <2>5, <2>8 DEF Flags, Delays
  <2>10. batch[h] = {}
    BY <2>1, <2>2 DEF Homes, Works
  <2> QED BY <2>2, <2>5, <2>8, <2>9, <2>10
<1> QED BY <1>1, BlocksSafe, PTL

\* In how many places a block is: one if it is somewhere, else none.
LEMMA PlacesCounted ==
  ASSUME Safe, NEW b \in Block
  PROVE  /\ Somewhere(b) => OnPage(b) + OffPage(b) = 1
         /\ ~Somewhere(b) => OnPage(b) + OffPage(b) = 0
         /\ ~Reached(b) => OffPage(b) = 0
<1>0. TypeOK /\ Placed
  BY SafeParts
<1> DEFINE On  == {l \in {"free", "local_free", "thread_free"} : At(b, l, NULL)}
           De  == {t \in Thread : At(b, "delayed", t)}
           Ba  == {t \in Thread : At(b, "batch", t)}
           Ha  == {t \in Thread : At(b, "hand", t)}
           Li  == IF At(b, "live", NULL) THEN 1 ELSE 0
           Off == Cardinality(De) + Cardinality(Ba) + Cardinality(Ha) + Li
<1>1. OnPage(b) = Cardinality(On)
  <2>1. On = {l \in {"free", "local_free", "thread_free"} :
                 \/ l = "free" /\ b \in free[PageOf[b]]
                 \/ l = "local_free" /\ b \in local_free[PageOf[b]]
                 \/ l = "thread_free" /\ b \in thread_free[PageOf[b]]}
    BY DEF At
  <2> QED BY <2>1 DEF OnPage
<1>2. OffPage(b) = Off
  <2>1. De = {t \in Thread : b \in delayed_free[t]}
    BY DEF At
  <2>2. Ba = {t \in Thread : b \in batch[t]}
    BY DEF At
  <2>3. Ha = {t \in Thread : InHand(t, b)}
    BY DEF At
  <2>4. Li = IF b \in live THEN 1 ELSE 0
    BY DEF At
  <2> QED BY <2>1, <2>2, <2>3, <2>4 DEF OffPage
<1>3. Cardinality({}) = 0
  BY FS_EmptySet
<1>4. ~Somewhere(b) => On = {} /\ De = {} /\ Ba = {} /\ Ha = {} /\ Li = 0
  BY DEF Somewhere, Kind, Nobody
<1>5. ~Reached(b) => De = {} /\ Ba = {} /\ Ha = {} /\ Li = 0
  BY DEF Reached, Outer, Nobody
<1>6. ASSUME Somewhere(b) PROVE Cardinality(On) + Off = 1
  <2>1. PICK k \in Kind : \E t \in Nobody : At(b, k, t)
    BY <1>6 DEF Somewhere
  <2>2. PICK t \in Nobody : At(b, k, t)
    BY <2>1
  <2>3. \A m \in Kind : \A u \in Nobody : At(b, m, u) <=> (m = k /\ u = t)
    BY <1>0, <2>2, OnlyThere
  <2>4. Cardinality({k}) = 1 /\ Cardinality({t}) = 1
    BY FS_Singleton
  <2>5. NULL \in Nobody /\ Thread \subseteq Nobody /\ NULL \notin Thread
    BY ThreadAssumption DEF Nobody
  <2>6. {"free", "local_free", "thread_free", "live", "delayed", "batch", "hand"} = Kind
    BY DEF Kind
  <2>7. CASE k \in {"free", "local_free", "thread_free"}
    <3>1. t = NULL
      BY <2>2, <2>7 DEF At
    <3>2. On = {k} /\ De = {} /\ Ba = {} /\ Ha = {} /\ Li = 0
      BY <2>3, <2>5, <2>6, <2>7, <3>1
    <3> QED BY <1>3, <2>4, <3>2
  <2>8. CASE k = "live"
    <3>1. t = NULL
      BY <2>2, <2>8 DEF At
    <3>2. On = {} /\ De = {} /\ Ba = {} /\ Ha = {} /\ Li = 1
      BY <2>3, <2>5, <2>6, <2>8, <3>1
    <3> QED BY <1>3, <3>2
  <2>9. CASE k = "delayed"
    <3>1. t \in Thread
      BY <2>2, <2>9 DEF At
    <3>2. On = {} /\ De = {t} /\ Ba = {} /\ Ha = {} /\ Li = 0
      BY <2>3, <2>5, <2>6, <2>9, <3>1
    <3> QED BY <1>3, <2>4, <3>2
  <2>10. CASE k = "batch"
    <3>1. t \in Thread
      BY <2>2, <2>10 DEF At
    <3>2. On = {} /\ De = {} /\ Ba = {t} /\ Ha = {} /\ Li = 0
      BY <2>3, <2>5, <2>6, <2>10, <3>1
    <3> QED BY <1>3, <2>4, <3>2
  <2>11. CASE k = "hand"
    <3>1. t \in Thread
      BY <2>2, <2>11 DEF At
    <3>2. On = {} /\ De = {} /\ Ba = {} /\ Ha = {t} /\ Li = 0
      BY <2>3, <2>5, <2>6, <2>11, <3>1
    <3> QED BY <1>3, <2>4, <3>2
  <2> QED BY <2>6, <2>7, <2>8, <2>9, <2>10, <2>11
<1> QED BY <1>1, <1>2, <1>3, <1>4, <1>5, <1>6

\* A block of a page in use is in exactly one place, and no block of any other
\* page is in use: no interleaving of frees, collects, abandoning and reclaiming
\* loses a block or hands it out twice.
THEOREM BlocksOwnedOnce ==
  ASSUME ~Reuse
  PROVE  Spec => []BlockOwnedOnce
<1>1. Safe => BlockOwnedOnce
  <2> SUFFICES ASSUME Safe, NEW b \in Block
               PROVE  IF ~InUse(PageOf[b]) THEN OffPage(b) = 0
                      ELSE OnPage(b) + OffPage(b) = IF b \in capacity[PageOf[b]] THEN 1 ELSE 0
    BY DEF BlockOwnedOnce
  <2>1. /\ InUse(PageOf[b]) => (b \in capacity[PageOf[b]] <=> Somewhere(b))
        /\ ~InUse(PageOf[b]) => ~Reached(b)
    BY SafeParts, PlacedParts
  <2> QED BY <2>1, PlacesCounted
<1> QED BY <1>1, BlocksSafe, PTL

-----------------------------------------------------------------------------
(* Blocks that are being freed *)

\* the labels at which a thread still works on a block that it frees
FreeLabel == {"mt"} \cup FreeingLabel

Frees(t, b) == blk[t] = b /\ pc[t] \in FreeLabel

\* Which blocks are freed by whom changes for the thread that moves only.
LEMMA FreesStep ==
  ASSUME TypeOK, NEW t \in Thread, Step(t),
         \/ blk'[t] = blk[t] /\ (pc'[t] \in FreeLabel <=> pc[t] \in FreeLabel)
         \/ pc'[t] \notin FreeLabel /\ pc[t] \notin FreeLabel
  PROVE  \A u \in Thread, b \in Block : Frees(u, b)' <=> Frees(u, b)
<1>1. ASSUME NEW u \in Thread, u # t, NEW b \in Block PROVE Frees(u, b)' <=> Frees(u, b)
  BY <1>1, OthersStep DEF Frees
<1>2. ASSUME NEW b \in Block PROVE Frees(t, b)' <=> Frees(t, b)
  BY DEF Frees
<1> QED BY <1>1, <1>2

\* A block that a thread frees is in its hands or on a delayed list.
LEMMA FreesWhere ==
  ASSUME Safe, NEW u \in Thread, NEW b \in Block, Frees(u, b)
  PROVE  /\ pc[u] # "mt_reset" => At(b, "hand", u)
         /\ pc[u] = "mt_reset" => \E v \in Thread : At(b, "delayed", v) \/ At(b, "batch", v)
<1>0. TypeOK /\ Flags
  BY SafeParts
<1>1. pc[u] # "mt_reset" => At(b, "hand", u)
  BY DEF Frees, FreeLabel, FreeingLabel, At, InHand, HandLabel
<1>2. ASSUME pc[u] = "mt_reset" PROVE \E v \in Thread : At(b, "delayed", v) \/ At(b, "batch", v)
  <2>1. /\ xheap[PageOf[b]] # NULL /\ PageOf[b] \in Page
        /\ b \in delayed_free[xheap[PageOf[b]]] \cup batch[xheap[PageOf[b]]]
    BY <1>0, <1>2, BlockAssumption DEF Frees, Flags, Pushes, FreeingLabel
  <2>2. xheap[PageOf[b]] \in Thread
    BY <1>0, <2>1 DEF TypeOK, PageType
  <2> QED BY <2>1, <2>2 DEF At
<1> QED BY <1>1, <1>2

\* Only one thread frees a block, and a block that is freed is not the program's.
LEMMA OneFrees ==
  ASSUME Safe, NEW u \in Thread, NEW b \in Block, Frees(u, b)
  PROVE  b \notin live /\ \A v \in Thread : Frees(v, b) => v = u
<1>0. OneDelayedFreer /\ Placed
  BY SafeParts
<1>1. b \notin live
  <2>1. b \in live => At(b, "live", NULL)
    BY DEF At
  <2>2. PICK k \in {"hand", "delayed", "batch"} : \E v \in Thread : At(b, k, v)
    BY FreesWhere
  <2>3. {"live", "hand", "delayed", "batch"} \subseteq Kind /\ NULL \in Nobody /\ Thread \subseteq Nobody
    BY DEF Kind, Nobody
  <2> QED BY <1>0, <2>1, <2>2, <2>3 DEF Placed, Nobody
<1>2. ASSUME NEW v \in Thread, Frees(v, b) PROVE v = u
  <2>1. {"hand", "delayed", "batch"} \subseteq Kind /\ Thread \subseteq Nobody
    BY DEF Kind, Nobody
  <2>2. CASE pc[u] = "mt_reset" /\ pc[v] = "mt_reset"
    <3>1. Freeing(u, PageOf[b]) /\ Freeing(v, PageOf[b]) /\ PageOf[b] \in Page
      BY <1>2, <2>2, BlockAssumption DEF Frees, Freeing, FreeingLabel
    <3> QED BY <1>0, <3>1 DEF OneDelayedFreer
  <2>3. CASE pc[u] # "mt_reset" /\ pc[v] # "mt_reset"
    <3>1. At(b, "hand", u) /\ At(b, "hand", v)
      BY <1>2, <2>3, FreesWhere
    <3> QED BY <1>0, <2>1, <3>1, OnlyThere
  <2>4. CASE pc[u] # "mt_reset" /\ pc[v] = "mt_reset"
    <3>1. At(b, "hand", u)
      BY <2>4, FreesWhere
    <3>2. PICK w \in Thread : At(b, "delayed", w) \/ At(b, "batch", w)
      BY <1>2, <2>4, FreesWhere
    <3> QED BY <1>0, <2>1, <3>1, <3>2, OnlyThere
  <2>5. CASE pc[u] = "mt_reset" /\ pc[v] # "mt_reset"
    <3>1. At(b, "hand", v)
      BY <1>2, <2>5, FreesWhere
    <3>2. PICK w \in Thread : At(b, "delayed", w) \/ At(b, "batch", w)
      BY <2>5, FreesWhere
    <3> QED BY <1>0, <2>1, <3>1, <3>2, OnlyThere
  <2> QED BY <2>2, <2>3, <2>4, <2>5
<1> QED BY <1>1, <1>2

-----------------------------------------------------------------------------
(* The refinement mapping *)

\* The status of a block says whether it is live, freed by a thread, or free.
LEMMA StatusIs ==
  /\ DOMAIN Status = Block
  /\ Status = [b \in Block |-> Status[b]]
  /\ \A b \in Block : Status[b] = IF b \in live THEN "live"
                                  ELSE IF \E t \in Thread : Frees(t, b) THEN "freeing" ELSE "free"
  BY DEF Status, Frees, FreeLabel

\* The same, after a step.
LEMMA StatusIsNext ==
  /\ DOMAIN Status' = Block
  /\ Status' = [b \in Block |-> Status'[b]]
  /\ \A b \in Block : Status'[b] = IF b \in live' THEN "live"
                                   ELSE IF \E t \in Thread : Frees(t, b)' THEN "freeing" ELSE "free"
  BY DEF Status, Frees, FreeLabel

\* A step that changes the status of one block.
LEMMA OneStatus ==
  ASSUME NEW c \in Block,
         \A b \in Block \ {c} : b \in live' <=> b \in live,
         \A b \in Block \ {c} : \A u \in Thread : Frees(u, b)' <=> Frees(u, b)
  PROVE  Status' = [Status EXCEPT ![c] = Status'[c]]
<1>1. \A b \in Block \ {c} : Status'[b] = Status[b]
  BY StatusIs, StatusIsNext
<1>2. /\ Status = [b \in Block |-> Status[b]]
      /\ Status' = [b \in Block |-> Status'[b]]
  BY StatusIs, StatusIsNext
<1> QED BY <1>1, <1>2

\* A step that changes the status of no block.
LEMMA SameStatus ==
  ASSUME UNCHANGED live, \A u \in Thread, b \in Block : Frees(u, b)' <=> Frees(u, b)
  PROVE  Status' = Status
<1>1. \A b \in Block : Status'[b] = Status[b]
  BY StatusIs, StatusIsNext
<1>2. /\ Status = [b \in Block |-> Status[b]]
      /\ Status' = [b \in Block |-> Status'[b]]
  BY StatusIs, StatusIsNext
<1> QED BY <1>1, <1>2

\* A malloc returns a block that was free.
LEMMA MallocStep ==
  ASSUME Safe, NEW t \in Thread, Step(t), NEW c \in Block, ~Reached(c), live' = live \cup {c},
         pc[t] \notin FreeLabel, pc'[t] \notin FreeLabel
  PROVE  Abstract!ANext
<1>0. TypeOK
  BY SafeParts
<1>1. \A u \in Thread, b \in Block : Frees(u, b)' <=> Frees(u, b)
  BY <1>0, FreesStep
<1>2. Status[c] = "free"
  <2>1. c \notin live
    BY DEF Reached, Outer, Nobody, At
  <2>2. ASSUME NEW u \in Thread, Frees(u, c) PROVE FALSE
    <3>1. \E k \in {"hand", "delayed", "batch"}, v \in Thread : At(c, k, v)
      BY <2>2, FreesWhere
    <3> QED BY <3>1 DEF Reached, Outer, Nobody
  <2> QED BY <2>1, <2>2, StatusIs
<1>3. Status'[c] = "live"
  BY StatusIsNext
<1>4. Status' = [Status EXCEPT ![c] = "live"]
  BY <1>1, <1>3, OneStatus
<1> QED BY <1>2, <1>4 DEF Abstract!ANext, Abstract!Malloc

\* The four actions that return a block to mi_malloc.
LEMMA MallocsStep ==
  ASSUME Safe, ~Reuse, NEW t \in Thread, MallocFast(t) \/ FindAvailable(t) \/ FindExtend(t) \/ FreshPage(t)
  PROVE  Abstract!ANext
<1>0. TypeOK /\ Homes /\ Placed /\ Lists /\ Step(t)
  BY SafeParts DEF Step, Call, Continue
<1>1. pc[t] \notin FreeLabel /\ pc'[t] \notin FreeLabel
  BY <1>0 DEF MallocFast, FindAvailable, FindExtend, FreshPage, control, Return, FreeLabel, FreeingLabel,
     TypeOK, ThreadType
<1>2. ASSUME NEW c \in Block, c \in Listed(PageOf[c]) PROVE ~Reached(c)
  <2>1. PICK k \in {"free", "local_free", "thread_free"} : At(c, k, NULL)
    BY <1>2 DEF Listed, At
  <2>2. k \in Kind /\ NULL \in Nobody /\ Outer \subseteq Kind /\ k \notin Outer
    BY DEF Kind, Nobody, Outer
  <2> QED BY <1>0, <2>1, <2>2, OnlyThere DEF Reached
<1>3. \E c \in Block : ~Reached(c) /\ live' = live \cup {c}
  <2>1. CASE MallocFast(t)
    <3>1. PICK p \in Page : \E c \in free[p] : live' = live \cup {c}
      BY <2>1 DEF MallocFast, PopBlock, Queue
    <3>2. PICK c \in free[p] : live' = live \cup {c}
      BY <3>1
    <3>3. c \in Block /\ PageOf[c] = p /\ c \in Listed(p)
      BY <1>0 DEF Lists, Listed, Reserved
    <3> QED BY <1>2, <3>2, <3>3
  <2>2. CASE FindAvailable(t)
    <3>1. PICK p \in todo[t] : \E c \in CollectedFree(p, FALSE) : live' = live \cup {c}
      BY <2>2 DEF FindAvailable, PopBlock
    <3>2. PICK c \in CollectedFree(p, FALSE) : live' = live \cup {c}
      BY <3>1
    <3>3. p \in Page /\ c \in Listed(p)
      BY <1>0 DEF TypeOK, ThreadType, CollectedFree, Pending, Listed
    <3>4. c \in Block /\ PageOf[c] = p
      BY <1>0, <3>3 DEF Lists, Reserved
    <3> QED BY <1>2, <3>2, <3>3, <3>4
  <2>3. CASE FindExtend(t)
    <3>1. PICK p \in todo[t] : \E e \in Extensions(p), c \in Block : PopBlock(p, c, e, used[p])
      BY <2>3 DEF FindExtend
    <3>2. PICK e \in Extensions(p), c \in Block : PopBlock(p, c, e, used[p])
      BY <3>1
    <3>3. PageOf[c] = p /\ c \notin capacity[p] /\ live' = live \cup {c}
      BY <3>2 DEF PopBlock, Extensions, Reserved
    <3>4. InUse(p)
      BY <1>0, <2>3 DEF FindExtend, Homes, Works, Queue, InUse
    <3>5. ~Somewhere(c)
      BY <1>0, <3>3, <3>4, PlacedParts
    <3>6. ~Reached(c)
      BY <3>5 DEF Reached, Somewhere, Outer, Kind
    <3> QED BY <3>3, <3>6
  <2>4. CASE FreshPage(t)
    <3>1. PICK p \in Page :
            /\ place[p] = "fresh"
            /\ \E e \in (IF free[p] = {} THEN Extensions(p) ELSE {{}}), c \in Block :
                 PopBlock(p, c, free[p] \cup e, used[p])
      BY <2>4 DEF FreshPage
    <3>2. free[p] = {}
      BY <1>0, <3>1 DEF Lists, Listed
    <3>3. PICK e \in Extensions(p), c \in Block : PopBlock(p, c, e, used[p])
      BY <3>1, <3>2
    <3>4. PageOf[c] = p /\ live' = live \cup {c}
      BY <3>3 DEF PopBlock, Extensions, Reserved
    <3>5. ~InUse(p)
      BY <3>1 DEF InUse
    <3>6. ~Reached(c)
      BY <1>0, <3>4, <3>5, PlacedParts
    <3> QED BY <3>4, <3>6
  <2> QED BY <2>1, <2>2, <2>3, <2>4
<1> QED BY <1>0, <1>1, <1>3, MallocStep

\* A free by the owner takes effect at once, another one starts.
LEMMA FreeStep ==
  ASSUME Safe, NEW t \in Thread, FreeLocal(t) \/ FreeRemote(t)
  PROVE  Abstract!ANext
<1>0. TypeOK /\ Step(t)
  BY SafeParts DEF Step, Call
<1>1. PICK c \in live : live' = live \ {c} /\ (FreeLocal(t) \/ blk' = [blk EXCEPT ![t] = c])
  BY DEF FreeLocal, FreeRemote
<1>2. c \in Block /\ Status[c] = "live"
  BY <1>0, <1>1, StatusIs DEF TypeOK, PageType
<1>3. pc[t] = "idle"
  BY DEF FreeLocal, FreeRemote
<1>4. CASE FreeLocal(t)
  <2>1. \A u \in Thread, b \in Block : Frees(u, b)' <=> Frees(u, b)
    BY <1>4 DEF FreeLocal, control, Frees
  <2>2. \A u \in Thread : ~Frees(u, c)
    BY <1>1, <1>2, OneFrees
  <2>3. Status'[c] = "free"
    BY <1>1, <1>2, <2>1, <2>2, StatusIsNext
  <2>4. Status' = [Status EXCEPT ![c] = "free"]
    BY <1>1, <1>2, <2>1, <2>3, OneStatus
  <2> QED BY <1>2, <2>4 DEF Abstract!ANext, Abstract!Free
<1>5. CASE FreeRemote(t) /\ blk' = [blk EXCEPT ![t] = c]
  <2>1. blk'[t] = c /\ pc'[t] = "mt"
    BY <1>0, <1>5 DEF FreeRemote, Goto, TypeOK, ThreadType
  <2>2. \A b \in Block \ {c} : \A u \in Thread : Frees(u, b)' <=> Frees(u, b)
    <3>1. ASSUME NEW b \in Block \ {c}, NEW u \in Thread, u # t PROVE Frees(u, b)' <=> Frees(u, b)
      BY <1>0, <3>1, OthersStep DEF Frees
    <3>2. ASSUME NEW b \in Block \ {c} PROVE ~Frees(t, b)' /\ ~Frees(t, b)
      BY <1>3, <2>1 DEF Frees, FreeLabel, FreeingLabel
    <3> QED BY <3>1, <3>2
  <2>3. Frees(t, c)'
    BY <2>1 DEF Frees, FreeLabel
  <2>4. Status'[c] = "freeing"
    BY <1>1, <1>2, <2>3, StatusIsNext
  <2>5. Status' = [Status EXCEPT ![c] = "freeing"]
    BY <1>1, <1>2, <2>2, <2>4, OneStatus
  <2> QED BY <1>2, <2>5 DEF Abstract!ANext, Abstract!Free
<1> QED BY <1>1, <1>4, <1>5

\* A free by another thread ends.
LEMMA FreeReturnsStep ==
  ASSUME Safe, NEW t \in Thread, MtPush(t) \/ MtReset(t)
  PROVE  Abstract!ANext
<1>0. TypeOK /\ Step(t)
  BY SafeParts DEF Step, Continue
<1>1. pc[t] \in FreeLabel /\ blk[t] \in Block /\ pc'[t] = "idle" /\ UNCHANGED live
  BY <1>0 DEF MtPush, MtReset, Return, FreeLabel, FreeingLabel, TypeOK, ThreadType
<1>2. PICK c \in Block : c = blk[t]
  BY <1>1
<1>3. Frees(t, c)
  BY <1>1, <1>2 DEF Frees
<1>4. Status[c] = "freeing"
  BY <1>3, OneFrees, StatusIs
<1>5. \A u \in Thread, b \in Block : Frees(u, b)' <=> Frees(u, b) /\ u # t
  <2>1. ASSUME NEW u \in Thread, u # t, NEW b \in Block PROVE Frees(u, b)' <=> Frees(u, b)
    BY <1>0, <2>1, OthersStep DEF Frees
  <2>2. ASSUME NEW b \in Block PROVE ~Frees(t, b)'
    BY <1>1 DEF Frees, FreeLabel, FreeingLabel
  <2> QED BY <2>1, <2>2
<1>6. \A b \in Block \ {c} : ~Frees(t, b)
  BY <1>2 DEF Frees
<1>7. Status'[c] = "free"
  <2>1. c \notin live' /\ \A u \in Thread : ~Frees(u, c)'
    BY <1>1, <1>3, <1>5, OneFrees
  <2> QED BY <2>1, StatusIsNext
<1>8. Status' = [Status EXCEPT ![c] = "free"]
  BY <1>1, <1>5, <1>6, <1>7, OneStatus
<1> QED BY <1>4, <1>8 DEF Abstract!ANext, Abstract!FreeReturns

\* the actions that return no block and end no free
Internal(t) ==
  \/ MallocGeneric(t) \/ StartCollect(t) \/ ThreadDone(t)
  \/ TakeDelayed(t) \/ DelayedUse(t) \/ DelayedFree(t) \/ DelayedDone(t)
  \/ FindFull(t) \/ ToFull(t) \/ FindNone(t)
  \/ CollectRetired(t) \/ PopAbandoned(t) \/ CheckFree(t)
  \/ Reclaim(t) \/ ReclaimUse(t) \/ ReclaimCollect(t) \/ FreshFails(t)
  \/ MtClaim(t) \/ MtHeap(t) \/ MtDelayed(t)
  \/ ReclaimAll(t) \/ ReclaimAllDone(t)
  \/ NeverDelayed(t) \/ NeverDone(t) \/ VisitPage(t) \/ PageAbandon(t) \/ VisitDone(t)

\* All other actions are invisible to the program.
LEMMA InternalStep ==
  ASSUME Safe, NEW t \in Thread, Internal(t)
  PROVE  Status' = Status
<1>0. TypeOK /\ Step(t)
  BY SafeParts DEF Internal, Step, Call, Continue
<1> DEFINE Silent == /\ UNCHANGED live
                     /\ \/ blk'[t] = blk[t] /\ (pc'[t] \in FreeLabel <=> pc[t] \in FreeLabel)
                        \/ pc'[t] \notin FreeLabel /\ pc[t] \notin FreeLabel
<1>1. ASSUME \/ MallocGeneric(t) \/ StartCollect(t) \/ ThreadDone(t)
             \/ TakeDelayed(t) \/ DelayedUse(t) \/ DelayedFree(t) \/ DelayedDone(t)
      PROVE  Silent
  BY <1>0, <1>1, ZenonT(60) DEF MallocGeneric, StartCollect, ThreadDone, TakeDelayed, DelayedUse, DelayedFree, DelayedDone,
     Goto, FreeLabel, FreeingLabel, TypeOK, ThreadType
<1>2. ASSUME FindFull(t) \/ ToFull(t) \/ FindNone(t) \/ CollectRetired(t) \/ PopAbandoned(t) \/ CheckFree(t)
      PROVE  Silent
  BY <1>0, <1>2 DEF FindFull, ToFull, FindNone, CollectRetired, PopAbandoned, CheckFree,
     Goto, FreeLabel, FreeingLabel, TypeOK, ThreadType
<1>3. ASSUME Reclaim(t) \/ ReclaimUse(t) \/ ReclaimAll(t) \/ ReclaimAllDone(t) PROVE Silent
  BY <1>0, <1>3 DEF Reclaim, ReclaimUse, ReclaimAll, ReclaimAllDone, Goto, FreeLabel, FreeingLabel, TypeOK, ThreadType
<1>4. ASSUME ReclaimCollect(t) \/ FreshFails(t) PROVE Silent
  <2>1. UNCHANGED live /\ pc[t] \notin FreeLabel
    BY <1>4 DEF ReclaimCollect, FreshFails, FreeLabel, FreeingLabel
  <2>2. ASSUME NoPage(t) PROVE pc'[t] \notin FreeLabel
    BY <1>0, <2>2 DEF NoPage, Goto, Return, FreeLabel, FreeingLabel, TypeOK, ThreadType
  <2>3. ASSUME ~NoPage(t) PROVE pc'[t] \notin FreeLabel
    BY <1>0, <1>4, <2>3 DEF ReclaimCollect, FreshFails, Goto, FreeLabel, FreeingLabel, TypeOK, ThreadType
  <2> QED BY <2>1, <2>2, <2>3
<1>5. ASSUME MtClaim(t) \/ MtHeap(t) \/ MtDelayed(t) PROVE Silent
  BY <1>0, <1>5 DEF MtClaim, MtHeap, MtDelayed, Goto, FreeLabel, FreeingLabel, TypeOK, ThreadType
<1>6. ASSUME NeverDelayed(t) \/ NeverDone(t) \/ VisitPage(t) \/ PageAbandon(t) \/ VisitDone(t) PROVE Silent
  BY <1>0, <1>6, ZenonT(60) DEF NeverDelayed, NeverDone, VisitPage, PageAbandon, VisitDone, Goto, Return, FreeLabel, FreeingLabel,
     TypeOK, ThreadType
<1>7. Silent
  BY <1>1, <1>2, <1>3, <1>4, <1>5, <1>6 DEF Internal
<1> QED BY <1>0, <1>7, FreesStep, SameStatus

\* Pages, lists, flags and delayed lists implement the allocator that the
\* program sees: malloc returns no block that is live or still being freed,
\* whatever the threads do meanwhile.
THEOREM AllocatorImplemented ==
  ASSUME ~Reuse
  PROVE  Spec => ImplementsAllocator
<1>1. Init => Abstract!AInit
  <2> SUFFICES ASSUME Init PROVE Status = [b \in Block |-> "free"]
    BY DEF Abstract!AInit
  <2> QED BY BlockAssumption DEF Init, Status, FreeingLabel
<1>2. Safe /\ [Next]_vars => [Abstract!ANext]_Status
  <2> SUFFICES ASSUME Safe, [Next]_vars PROVE [Abstract!ANext]_Status
    OBVIOUS
  <2>1. CASE Next
    <3>1. PICK t \in Thread : Call(t) \/ Continue(t)
      BY <2>1 DEF Next
    <3>2. \/ MallocFast(t) \/ FindAvailable(t) \/ FindExtend(t) \/ FreshPage(t)
          \/ FreeLocal(t) \/ FreeRemote(t) \/ MtPush(t) \/ MtReset(t) \/ Internal(t)
      BY <3>1 DEF Call, Continue, Internal
    <3> QED BY <3>2, MallocsStep, FreeStep, FreeReturnsStep, InternalStep
  <2>2. CASE UNCHANGED vars
    BY <2>2 DEF vars, control, Status
  <2> QED BY <2>1, <2>2
<1> QED BY <1>1, <1>2, BlocksSafe, PTL DEF Spec, ImplementsAllocator, Abstract!ASpec
==============================================================================
