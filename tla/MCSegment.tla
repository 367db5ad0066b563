----------------------------- MODULE MCSegment -----------------------------
EXTENDS Segment, TLC

CONSTANTS t1, t2, s1, s2

MCCapacity == [small |-> 2, medium |-> 2, large |-> 1, huge |-> 1]

\* eager commits, resets that decommit after one tick, and a segment cache
Base == [eager_commit |-> TRUE, eager_commit_delay |-> 0, page_reset |-> TRUE,
         reset_decommits |-> TRUE, abandoned_page_reset |-> FALSE, reset_delay |-> 1,
         segment_cache |-> 1, cache_sizes |-> {0, 1}, commit_fails |-> FALSE, late_frees |-> FALSE]
\* the defaults on Linux
Linux == [Base EXCEPT !.eager_commit_delay = 1, !.reset_decommits = FALSE,
                      !.segment_cache = 0, !.cache_sizes = {0}]
NoReset == [Base EXCEPT !.page_reset = FALSE]
MCOptions ==
  {Base, Linux,
   [Base EXCEPT !.reset_delay = 0, !.abandoned_page_reset = TRUE],
   [Base EXCEPT !.eager_commit = FALSE, !.abandoned_page_reset = TRUE],
   [NoReset EXCEPT !.late_frees = TRUE],
   [NoReset EXCEPT !.eager_commit = FALSE, !.commit_fails = TRUE]}

Perm == Permutations({s1, s2})
=============================================================================
