------------------------------ MODULE Allocator ------------------------------
(***************************************************************************)
(* What mi_malloc and mi_free promise a multi-threaded program about the   *)
(* blocks: malloc returns a block that no one has, and a block that is     *)
(* passed to free is not returned again before that call of free has let   *)
(* go of it.                                                               *)
(***************************************************************************)
CONSTANT Block

VARIABLE status   \* of each block: "free", "live" (the program's) or
                  \* "freeing" (passed to a free that has not returned)

AInit == status = [b \in Block |-> "free"]

Malloc(b) ==
  /\ status[b] = "free"
  /\ status' = [status EXCEPT ![b] = "live"]

\* a free takes effect at once if the caller owns the page of the block
Free(b) ==
  /\ status[b] = "live"
  /\ status' \in {[status EXCEPT ![b] = s] : s \in {"freeing", "free"}}

FreeReturns(b) ==
  /\ status[b] = "freeing"
  /\ status' = [status EXCEPT ![b] = "free"]

ANext == \E b \in Block : Malloc(b) \/ Free(b) \/ FreeReturns(b)

ASpec == AInit /\ [][ANext]_status
=============================================================================
