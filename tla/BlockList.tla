------------------------------ MODULE BlockList ------------------------------
(***************************************************************************)
(* The lists of free blocks of one page, word by word: `xthread_free` is   *)
(* one word that holds the first block and the delayed flag, the lists are *)
(* linked through the `next` field in the blocks themselves, which is the  *)
(* same field for every list a block is on, and every update is a read, a  *)
(* link and a compare-and-swap that is tried again when the word changed   *)
(* (alloc.c, page.c).  The owner pops and frees blocks without atomic      *)
(* operations; `free` and `local_free` are one list here.                  *)
(*                                                                         *)
(* A spurious failure of the weak compare-and-swap only repeats the        *)
(* iteration and is left out.                                              *)
(***************************************************************************)
EXTENDS Integers, FiniteSets, Chains

CONSTANTS
  Thread,    \* the threads
  Owner,     \* the one whose heap has the page
  Block,     \* the blocks of the page, page->capacity of them
  NULL

ASSUME OwnerAssumption == Owner \in Thread
ASSUME BlockAssumption == IsFiniteSet(Block) /\ NULL \notin Block

USE_DELAYED_FREE   == "use"
DELAYED_FREEING    == "freeing"
NO_DELAYED_FREE    == "no"
NEVER_DELAYED_FREE == "never"

VARIABLES
  xthread_free,         \* [block, delayed]
  thread_delayed_free,  \* first block of the heap's delayed list
  next,                 \* block->next
  local_free, used,
  live,                 \* blocks the program has
  \* of each thread
  pc, blk,
  tfree,                \* the value read from xthread_free
  dfree,                \* the value read from thread_delayed_free
  \* of the owner
  head,                 \* list taken from xthread_free
  batch,                \* list taken from thread_delayed_free
  delay,                \* arguments of _mi_page_use_delayed_free
  override_never

words  == <<xthread_free, thread_delayed_free>>
owned  == <<local_free, used>>
args   == <<head, batch, delay, override_never>>
locals == <<blk, tfree, dfree, args>>
vars   == <<words, next, owned, live, pc, locals>>

Flag  == {USE_DELAYED_FREE, DELAYED_FREEING, NO_DELAYED_FREE, NEVER_DELAYED_FREE}
Link  == Block \cup {NULL}
Word  == [block : Link, delayed : Flag]
Label == {"idle", "mt_read", "mt_claim", "mt_link", "mt_push", "h_read", "h_link", "h_cas",
          "r_read", "r_cas", "s_read", "s_cas", "c_read", "c_cas", "c_append",
          "d_read", "d_cas", "d_next", "d_free"}

TypeOK ==
  /\ xthread_free \in Word
  /\ thread_delayed_free \in Link
  /\ next \in [Block -> Link]
  /\ local_free \in Link
  /\ used \in 0 .. Cardinality(Block)
  /\ live \subseteq Block
  /\ pc \in [Thread -> Label]
  /\ blk \in [Thread -> Link]
  /\ tfree \in [Thread -> Word]
  /\ dfree \in [Thread -> Link]
  /\ head \in Link /\ batch \in Link
  /\ delay \in {USE_DELAYED_FREE, NEVER_DELAYED_FREE}
  /\ override_never \in BOOLEAN

Zero == [block |-> NULL, delayed |-> USE_DELAYED_FREE]

\* all blocks are the program's
Init ==
  /\ xthread_free = Zero
  /\ thread_delayed_free = NULL
  /\ next = [b \in Block |-> NULL]
  /\ local_free = NULL
  /\ used = Cardinality(Block)
  /\ live = Block
  /\ pc = [t \in Thread |-> "idle"]
  /\ blk = [t \in Thread |-> NULL]
  /\ tfree = [t \in Thread |-> Zero]
  /\ dfree = [t \in Thread |-> NULL]
  /\ head = NULL /\ batch = NULL
  /\ delay = USE_DELAYED_FREE
  /\ override_never = FALSE

Goto(t, label) == pc' = [pc EXCEPT ![t] = label]

\* the locals of a thread are forgotten where they are no longer used
Forget(t) ==
  /\ tfree' = [tfree EXCEPT ![t] = Zero]
  /\ dfree' = [dfree EXCEPT ![t] = NULL]

\* the blocks on the list that starts with b
OnList(b) == Reach(b, next)

-----------------------------------------------------------------------------
(* _mi_free_block_mt *)

FreeRemote(t) ==
  /\ t # Owner /\ pc[t] = "idle"
  /\ \E b \in live :
       /\ live' = live \ {b}
       /\ blk' = [blk EXCEPT ![t] = b]
  /\ Goto(t, "mt_read")
  /\ UNCHANGED <<words, next, owned, tfree, dfree, args>>

MtRead(t) ==
  /\ pc[t] = "mt_read"
  /\ tfree' = [tfree EXCEPT ![t] = xthread_free]
  /\ Goto(t, IF xthread_free.delayed = USE_DELAYED_FREE THEN "mt_claim" ELSE "mt_link")
  /\ UNCHANGED <<words, next, owned, live, blk, dfree, args>>

MtClaim(t) ==
  /\ pc[t] = "mt_claim"
  /\ IF xthread_free = tfree[t]
       THEN /\ xthread_free' = [tfree[t] EXCEPT !.delayed = DELAYED_FREEING]
            /\ Goto(t, "h_read")
       ELSE Goto(t, "mt_read") /\ UNCHANGED xthread_free
  /\ Forget(t)
  /\ UNCHANGED <<thread_delayed_free, next, owned, live, blk, args>>

MtLink(t) ==
  /\ pc[t] = "mt_link"
  /\ next' = [next EXCEPT ![blk[t]] = tfree[t].block]
  /\ Goto(t, "mt_push")
  /\ UNCHANGED <<words, owned, live, locals>>

\* Mutant: a store instead of the compare-and-swap
MtPushStore(t) ==
  /\ pc[t] = "mt_push"
  /\ xthread_free' = [tfree[t] EXCEPT !.block = blk[t]]
  /\ blk' = [blk EXCEPT ![t] = NULL]
  /\ Goto(t, "idle")
  /\ Forget(t)
  /\ UNCHANGED <<thread_delayed_free, next, owned, live, args>>

MtPush(t) ==
  /\ pc[t] = "mt_push"
  /\ IF xthread_free = tfree[t]
       THEN /\ xthread_free' = [tfree[t] EXCEPT !.block = blk[t]]
            /\ blk' = [blk EXCEPT ![t] = NULL]
            /\ Goto(t, "idle")
       ELSE Goto(t, "mt_read") /\ UNCHANGED <<xthread_free, blk>>
  /\ Forget(t)
  /\ UNCHANGED <<thread_delayed_free, next, owned, live, args>>

\* the push on heap->thread_delayed_free
HeapRead(t) ==
  /\ pc[t] = "h_read"
  /\ dfree' = [dfree EXCEPT ![t] = thread_delayed_free]
  /\ Goto(t, "h_link")
  /\ UNCHANGED <<words, next, owned, live, blk, tfree, args>>

HeapLink(t) ==
  /\ pc[t] = "h_link"
  /\ next' = [next EXCEPT ![blk[t]] = dfree[t]]
  /\ Goto(t, "h_cas")
  /\ UNCHANGED <<words, owned, live, locals>>

HeapCas(t) ==
  /\ pc[t] = "h_cas"
  /\ IF thread_delayed_free = dfree[t]
       THEN /\ thread_delayed_free' = blk[t]
            /\ blk' = [blk EXCEPT ![t] = NULL]
            /\ Goto(t, "r_read")
       ELSE Goto(t, "h_read") /\ UNCHANGED <<thread_delayed_free, blk>>
  /\ Forget(t)
  /\ UNCHANGED <<xthread_free, next, owned, live, args>>

\* and the reset of DELAYED_FREEING
ResetRead(t) ==
  /\ pc[t] = "r_read"
  /\ tfree' = [tfree EXCEPT ![t] = xthread_free]
  /\ Goto(t, "r_cas")
  /\ UNCHANGED <<words, next, owned, live, blk, dfree, args>>

ResetCas(t) ==
  /\ pc[t] = "r_cas"
  /\ IF xthread_free = tfree[t]
       THEN /\ xthread_free' = [tfree[t] EXCEPT !.delayed = NO_DELAYED_FREE]
            /\ Goto(t, "idle")
       ELSE Goto(t, "r_read") /\ UNCHANGED xthread_free
  /\ Forget(t)
  /\ UNCHANGED <<thread_delayed_free, next, owned, live, blk, args>>

-----------------------------------------------------------------------------
(* The owner: _mi_page_malloc and mi_free *)

OwnerIdle == pc[Owner] = "idle"

Malloc ==
  /\ OwnerIdle /\ local_free # NULL
  /\ live' = live \cup {local_free}
  /\ local_free' = next[local_free]
  /\ used' = used + 1
  /\ UNCHANGED <<words, next, pc, locals>>

\* block b goes on local_free
PushLocal(b) ==
  /\ next' = [next EXCEPT ![b] = local_free]
  /\ local_free' = b
  /\ used' = used - 1

FreeLocal ==
  /\ OwnerIdle
  /\ \E b \in live : PushLocal(b) /\ live' = live \ {b}
  /\ UNCHANGED <<words, pc, locals>>

\* _mi_page_use_delayed_free, called by _mi_free_delayed_block (then blk is the
\* block to free), when the heap is abandoned and when a page is reclaimed
UseDelayed ==
  /\ OwnerIdle
  /\ \/ delay' = NEVER_DELAYED_FREE /\ override_never' = FALSE
     \/ delay' = USE_DELAYED_FREE /\ override_never' = TRUE
  /\ Goto(Owner, "s_read")
  /\ UNCHANGED <<words, next, owned, live, blk, tfree, dfree, head, batch>>

AfterSet == IF blk[Owner] = NULL THEN "idle" ELSE "c_read"

SetRead ==
  /\ pc[Owner] = "s_read"
  /\ \/ /\ xthread_free.delayed = DELAYED_FREEING    \* yield and read again
        /\ UNCHANGED <<pc, tfree>>
     \/ /\ \/ xthread_free.delayed = delay
           \/ xthread_free.delayed = NEVER_DELAYED_FREE /\ ~override_never
        /\ Goto(Owner, AfterSet)
        /\ UNCHANGED tfree
     \/ /\ xthread_free.delayed \notin {DELAYED_FREEING, delay}
        /\ xthread_free.delayed = NEVER_DELAYED_FREE => override_never
        /\ tfree' = [tfree EXCEPT ![Owner] = xthread_free]
        /\ Goto(Owner, "s_cas")
  /\ UNCHANGED <<words, next, owned, live, blk, dfree, args>>

SetCas ==
  /\ pc[Owner] = "s_cas"
  /\ IF xthread_free = tfree[Owner]
       THEN /\ xthread_free' = [tfree[Owner] EXCEPT !.delayed = delay]
            /\ Goto(Owner, AfterSet)
       ELSE Goto(Owner, "s_read") /\ UNCHANGED xthread_free
  /\ Forget(Owner)
  /\ UNCHANGED <<thread_delayed_free, next, owned, live, blk, args>>

\* _mi_page_free_collect
Collect ==
  /\ OwnerIdle
  /\ Goto(Owner, "c_read")
  /\ UNCHANGED <<words, next, owned, live, locals>>

AfterCollect == IF blk[Owner] = NULL THEN "idle" ELSE "d_free"

\* the quick test (which a forced collect skips), and the read of the loop
CollectRead ==
  /\ pc[Owner] = "c_read"
  /\ tfree' = [tfree EXCEPT ![Owner] = xthread_free]
  /\ Goto(Owner, IF xthread_free.block = NULL THEN AfterCollect ELSE "c_cas")
  /\ UNCHANGED <<words, next, owned, live, blk, dfree, args>>

\* Mutant: the flag is cleared together with the list
CollectCasClears ==
  /\ pc[Owner] = "c_cas"
  /\ IF xthread_free = tfree[Owner]
       THEN /\ xthread_free' = Zero
            /\ head' = tfree[Owner].block
            /\ Goto(Owner, "c_append")
       ELSE Goto(Owner, "c_read") /\ UNCHANGED <<xthread_free, head>>
  /\ Forget(Owner)
  /\ UNCHANGED <<thread_delayed_free, next, owned, live, blk, batch, delay, override_never>>

CollectCas ==
  /\ pc[Owner] = "c_cas"
  /\ IF xthread_free = tfree[Owner]
       THEN /\ xthread_free' = [tfree[Owner] EXCEPT !.block = NULL]
            /\ head' = tfree[Owner].block
            /\ Goto(Owner, "c_append")
       ELSE Goto(Owner, "c_read") /\ UNCHANGED <<xthread_free, head>>
  /\ Forget(Owner)
  /\ UNCHANGED <<thread_delayed_free, next, owned, live, blk, batch, delay, override_never>>

\* Mutant: local_free is replaced instead of appended
CollectAppendDrops ==
  /\ pc[Owner] = "c_append"
  /\ local_free' = head
  /\ used' = used - Cardinality(OnList(head))
  /\ head' = NULL
  /\ Goto(Owner, AfterCollect)
  /\ UNCHANGED <<words, next, live, blk, tfree, dfree, batch, delay, override_never>>

\* the walk to the tail, which counts the blocks; a list longer than the
\* capacity is reported as corrupted and dropped
CollectAppend ==
  /\ pc[Owner] = "c_append"
  /\ LET tail == CHOOSE x \in OnList(head) : next[x] = NULL IN
       /\ next' = [next EXCEPT ![tail] = local_free]
       /\ local_free' = head
       /\ used' = used - Cardinality(OnList(head))
  /\ head' = NULL
  /\ Goto(Owner, AfterCollect)
  /\ UNCHANGED <<words, live, blk, tfree, dfree, batch, delay, override_never>>

\* _mi_heap_delayed_free: take over the list, ...
TakeRead ==
  /\ OwnerIdle
  /\ thread_delayed_free # NULL
  /\ dfree' = [dfree EXCEPT ![Owner] = thread_delayed_free]
  /\ Goto(Owner, "d_cas")
  /\ UNCHANGED <<words, next, owned, live, blk, tfree, args>>

TakeCas ==
  /\ pc[Owner] = "d_cas"
  /\ IF thread_delayed_free = dfree[Owner]
       THEN /\ thread_delayed_free' = NULL
            /\ batch' = dfree[Owner]
            /\ Goto(Owner, "d_next")
       ELSE Goto(Owner, "d_read") /\ UNCHANGED <<thread_delayed_free, batch>>
  /\ Forget(Owner)
  /\ UNCHANGED <<xthread_free, next, owned, live, blk, head, delay, override_never>>

TakeAgain ==
  /\ pc[Owner] = "d_read"
  /\ dfree' = [dfree EXCEPT ![Owner] = thread_delayed_free]
  /\ Goto(Owner, IF thread_delayed_free = NULL THEN "idle" ELSE "d_cas")
  /\ UNCHANGED <<words, next, owned, live, blk, tfree, args>>

\* Mutant: the link is read after the block was freed
DelayedNextLate ==
  /\ pc[Owner] = "d_next"
  /\ IF batch = NULL
       THEN Goto(Owner, "idle") /\ UNCHANGED <<blk, delay, override_never>>
       ELSE /\ blk' = [blk EXCEPT ![Owner] = batch]
            /\ delay' = USE_DELAYED_FREE /\ override_never' = FALSE
            /\ Goto(Owner, "s_read")
  /\ UNCHANGED <<words, next, owned, live, tfree, dfree, head, batch>>

\* ... read the link of each block before the block is freed, ...
DelayedNext ==
  /\ pc[Owner] = "d_next"
  /\ IF batch = NULL
       THEN Goto(Owner, "idle") /\ UNCHANGED <<blk, batch, delay, override_never>>
       ELSE /\ blk' = [blk EXCEPT ![Owner] = batch]
            /\ batch' = next[batch]
            /\ delay' = USE_DELAYED_FREE /\ override_never' = FALSE
            /\ Goto(Owner, "s_read")
  /\ UNCHANGED <<words, next, owned, live, tfree, dfree, head>>

\* ... and free it, after the flag was set and the page collected
DelayedFree ==
  /\ pc[Owner] = "d_free"
  /\ PushLocal(blk[Owner])
  /\ blk' = [blk EXCEPT ![Owner] = NULL]
  /\ Goto(Owner, "d_next")
  /\ UNCHANGED <<words, live, tfree, dfree, args>>

-----------------------------------------------------------------------------
Remote(t) ==
  \/ FreeRemote(t) \/ MtRead(t) \/ MtClaim(t) \/ MtLink(t) \/ MtPush(t)
  \/ HeapRead(t) \/ HeapLink(t) \/ HeapCas(t) \/ ResetRead(t) \/ ResetCas(t)
Own ==
  \/ Malloc \/ FreeLocal \/ UseDelayed \/ SetRead \/ SetCas
  \/ Collect \/ CollectRead \/ CollectCas \/ CollectAppend
  \/ TakeRead \/ TakeAgain \/ TakeCas \/ DelayedNext \/ DelayedFree

Next == Own \/ \E t \in Thread : Remote(t)

Spec == Init /\ [][Next]_vars

-----------------------------------------------------------------------------
(* Properties *)

\* labels at which the block of t is on no list
HandLabel == {"mt_read", "mt_claim", "mt_link", "mt_push", "h_read", "h_link", "h_cas",
              "s_read", "s_cas", "c_read", "c_cas", "c_append", "d_free"}

Lists  == <<xthread_free.block, thread_delayed_free, local_free, head, batch>>

\* Every block is in one place: with the program, in the hands of one thread
\* that frees it, or on one of the lists, and every list ends - although the
\* lists share the blocks' next field and no update is more than a
\* compare-and-swap of one word.  The walk that appends a list counts all of its
\* blocks: used is the number of blocks not on local_free, so the "corrupted
\* thread-free list" error (page.c:178) is never reported.
BlockListsIntact ==
  /\ \A i \in DOMAIN Lists : EndsIn(Lists[i], next)
  /\ \A b \in Block :
         Cardinality({i \in DOMAIN Lists : b \in OnList(Lists[i])})
       + Cardinality({t \in Thread : blk[t] = b /\ pc[t] \in HandLabel})
       + (IF b \in live THEN 1 ELSE 0) = 1
  /\ used = Cardinality(Block) - Cardinality(OnList(local_free))

\* The words implement atomic sets of blocks and a flag that changes with
\* them: the steps module ThreadFree is made of.
Sets == INSTANCE BlockSets WITH
  flag <- xthread_free.delayed,
  thread_free <- OnList(xthread_free.block),
  delayed_free <- OnList(thread_delayed_free)
ImplementsSets == Sets!BSpec
=============================================================================
