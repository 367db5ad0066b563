--------------------------- MODULE MCAbandonedList ---------------------------
(* AbandonedList on small instances *)
EXTENDS AbandonedList

CONSTANTS t1, t2, t3, s1, s2
=============================================================================
