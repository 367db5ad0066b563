------------------------------ MODULE BlockSets ------------------------------
(***************************************************************************)
(* What the words `xthread_free` of a page and `thread_delayed_free` of    *)
(* its heap promise: each holds a set of blocks that changes by one block, *)
(* or is taken as a whole, in one atomic step, and the delayed flag of the *)
(* page changes together with the first.  These are the steps of module    *)
(* ThreadFree.                                                             *)
(***************************************************************************)
CONSTANT Block
VARIABLES flag, thread_free, delayed_free

BInit == flag = "use" /\ thread_free = {} /\ delayed_free = {}

Claim == flag = "use" /\ flag' = "freeing" /\ UNCHANGED <<thread_free, delayed_free>>
Reset == flag = "freeing" /\ flag' = "no" /\ UNCHANGED <<thread_free, delayed_free>>
Set   == flag # "freeing" /\ flag' \in {"use", "never"} /\ UNCHANGED <<thread_free, delayed_free>>
Push  == /\ flag # "use"
         /\ \E b \in Block \ thread_free : thread_free' = thread_free \cup {b}
         /\ UNCHANGED <<flag, delayed_free>>
Take  == thread_free' = {} /\ UNCHANGED <<flag, delayed_free>>
Delay == /\ flag = "freeing"
         /\ \E b \in Block \ delayed_free : delayed_free' = delayed_free \cup {b}
         /\ UNCHANGED <<flag, thread_free>>
TakeDelayed == delayed_free' = {} /\ UNCHANGED <<flag, thread_free>>

BNext == Claim \/ Reset \/ Set \/ Push \/ Take \/ Delay \/ TakeDelayed

BSpec == BInit /\ [][BNext]_<<flag, thread_free, delayed_free>>
=============================================================================
