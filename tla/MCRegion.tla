------------------------------ MODULE MCRegion ------------------------------
(* Instances of module Region for TLC. *)
EXTENDS Region, TLC

CONSTANTS main, t1, t2

Whole(n) == {q \in Request : ~q.split /\ q.len % 2 = 0 /\ q.len >= n}
Process(threads, requests, resets, decommits, segment_resets) ==
  [eager_commit |-> TRUE, eager_region_commit |-> ~decommits, page_reset |-> resets,
   segment_reset |-> segment_resets, reset_decommits |-> decommits,
   threads |-> threads, requests |-> requests, commit_fails |-> FALSE]
\* commit on demand, without resets, and the OS may refuse
OnDemand(threads, requests) ==
  [Process(threads, requests, FALSE, FALSE, FALSE) EXCEPT !.eager_commit = FALSE, !.commit_fails = TRUE]

\* two threads that claim and release whole blocks
Claiming == {Process({main, t1}, Whole(2), TRUE, TRUE, FALSE)}
\* one thread with all sizes, and the options that go together on Windows and
\* on other systems
Resetting == {Process({main}, Request, TRUE, d, s) : d, s \in BOOLEAN}
\* three threads that need a region each, when there is room for two
Adding == {Process({main, t1, t2}, Whole(4), FALSE, FALSE, FALSE)}
\* segments of one block, whose commits fail
Failing == {OnDemand({main}, {q \in Request : q.len <= 2})}
AllProcesses == Claiming \cup Resetting \cup Adding \cup Failing

\* the threads but the main one are interchangeable
Sym == Permutations(Thread \ {Main})
=============================================================================
