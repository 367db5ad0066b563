---------------------------- MODULE MCThreadFree ----------------------------
\* Small instances of ThreadFree for TLC.
EXTENDS ThreadFree, TLC

CONSTANTS m, t1, t2, p1, p2, b1, b2, b3

\* one page of two blocks, or a second page of one block
TwoOnOne   == b1 :> p1 @@ b2 :> p1
TwoAndOne  == b1 :> p1 @@ b2 :> p1 @@ b3 :> p2

\* Three threads share the first page, and the second is used up; or one thread
\* has ended and the two others share both pages.
Ended == [t \in Thread |-> IF t = t2 THEN "done" ELSE "idle"]
UsedUp == [p \in Page |-> IF p = p2 THEN "released" ELSE "fresh"]
Elsewhere ==
  /\ flag = [p \in Page |-> USE_DELAYED_FREE]
  /\ thread_free = [p \in Page |-> {}] /\ xheap = [p \in Page |-> NULL]
  /\ delayed_free = [t \in Thread |-> {}]
  /\ free = [p \in Page |-> {}] /\ local_free = [p \in Page |-> {}]
  /\ used = [p \in Page |-> 0] /\ capacity = [p \in Page |-> {}]
  /\ retired = [p \in Page |-> FALSE] /\ visits = [p \in Page |-> 0]
  /\ live = {} /\ goal = [t \in Thread |-> "none"]
  /\ blk = [t \in Thread |-> NULL] /\ pg = [t \in Thread |-> NULL] /\ hp = [t \in Thread |-> NULL]
  /\ todo = [t \in Thread |-> {}] /\ batch = [t \in Thread |-> {}]
  /\ tries = [t \in Thread |-> 0] /\ round = [t \in Thread |-> 0] /\ ret = [t \in Thread |-> "none"]
MCInit ==
  /\ Elsewhere
  /\ \/ pc = Ended /\ place = [p \in Page |-> "fresh"]
     \/ pc = [t \in Thread |-> "idle"] /\ place = UsedUp
MCSpec == MCInit /\ [][Next]_vars

\* the blocks of the first page are interchangeable, and so are the threads but
\* the main one
Sym == Permutations({b1, b2}) \cup Permutations({t1, t2})
=============================================================================
