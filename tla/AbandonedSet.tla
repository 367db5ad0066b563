---------------------------- MODULE AbandonedSet ----------------------------
(***************************************************************************)
(* What the list of abandoned segments promises: it is a set.  A step adds *)
(* one segment that is not in it, or removes one that is.                  *)
(***************************************************************************)
CONSTANT Segment
VARIABLE listed

SInit == listed = {}

Add(s)    == s \notin listed /\ listed' = listed \cup {s}
Remove(s) == s \in listed /\ listed' = listed \ {s}

SNext == \E s \in Segment : Add(s) \/ Remove(s)

SSpec == SInit /\ [][SNext]_listed
=============================================================================
