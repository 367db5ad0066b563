-------------------------------- MODULE Chains --------------------------------
(***************************************************************************)
(* Lists that are linked through a field of their elements: `link` gives   *)
(* the next element of each, or a value that is no element at the end.     *)
(***************************************************************************)

Closed(S, link) == \A y \in S : link[y] \in DOMAIN link => link[y] \in S

\* the elements of the list that starts with s
Reach(s, link) ==
  {x \in DOMAIN link : /\ s \in DOMAIN link
                       /\ \A S \in SUBSET DOMAIN link : s \in S /\ Closed(S, link) => x \in S}

\* the list has an end, so it has no cycle
EndsIn(s, link) ==
  s \in DOMAIN link => \E x \in Reach(s, link) : link[x] \notin DOMAIN link
=============================================================================
