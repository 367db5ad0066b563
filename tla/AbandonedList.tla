---------------------------- MODULE AbandonedList ----------------------------
(***************************************************************************)
(* The global list of abandoned segments (segment.c): `abandoned` is a     *)
(* stack whose head carries a tag that every update increments, so that a  *)
(* pop cannot mistake a segment that left and came back for the one it     *)
(* read (the A-B-A problem); `abandoned_visited` holds the segments that   *)
(* were looked at and put aside, and moves to `abandoned` when that is     *)
(* empty; `abandoned_readers` counts the pops that may read a segment's    *)
(* `abandoned_next`, and memory is reset only when it is zero.             *)
(*                                                                         *)
(* One step is one access to `abandoned`, `abandoned_visited`,             *)
(* `abandoned_readers` or a segment's `abandoned_next`, or a change of the *)
(* memory of a segment.  The threads abandon the segments they own, pop,   *)
(* reclaim or put aside what they popped, and release segments to, and     *)
(* allocate them from, the region layer (region.c).                        *)
(***************************************************************************)
EXTENDS Integers, FiniteSets, Chains

CONSTANTS
  Thread, Segment,
  Direct,       \* segments allocated directly from the OS, not in a region
  TagMod,       \* number of tags (MI_TAGGED_MASK + 1)
  MaxCalls,     \* bound on the calls of mi_segment_abandon and mi_abandoned_pop
  NULL

ASSUME ThreadAssumption  == IsFiniteSet(Thread) /\ NULL \notin Thread
ASSUME SegmentAssumption == IsFiniteSet(Segment) /\ NULL \notin Segment /\ Direct \subseteq Segment
\* A call updates `abandoned` at most twice: the tag does not come round.
ASSUME TagAssumption     == MaxCalls \in Nat /\ TagMod \in Nat /\ TagMod > 2 * MaxCalls

VARIABLES
  abandoned,          \* [seg, tag], a mi_tagged_segment_t
  abandoned_visited,
  abandoned_readers,
  abandoned_next,     \* of each segment
  thread_id,          \* the owner of each segment, NULL when abandoned
  memory,             \* "mapped", "reset" (reset or unmapped)
  unused,             \* segments the region layer or the OS holds
  \* of each thread
  pc,
  seg,                \* the segment of the operation; first of the visited list
  ts,                 \* the value read from abandoned or abandoned_visited
  anext,              \* the link a pop read
  last,               \* last of the visited list
  \* history
  calls,              \* calls so far
  excused             \* during this pop the list was empty or another thread popped

shared  == <<abandoned, abandoned_visited, abandoned_readers>>
segment == <<abandoned_next, thread_id, memory, unused>>
locals  == <<seg, ts, anext, last>>
vars    == <<shared, segment, pc, locals, calls, excused>>

PopLabel == {"pop", "rv_check", "rv_grab", "rv_read", "rv_swap", "rv_again", "rv_link",
             "rv_cas", "pop_inc", "pop_read", "pop_next", "pop_cas", "pop_dec"}
Label    == PopLabel \cup {"idle", "push_read", "push_link", "push_cas", "pop_clear", "popped",
                           "v_read", "v_link", "v_cas", "await"}
Tagged   == [seg : Segment \cup {NULL}, tag : 0 .. TagMod - 1]

TypeOK ==
  /\ abandoned \in Tagged
  /\ abandoned_visited \in Segment \cup {NULL}
  /\ abandoned_readers \in 0 .. Cardinality(Thread)
  /\ abandoned_next \in [Segment -> Segment \cup {NULL}]
  /\ thread_id \in [Segment -> Thread \cup {NULL}]
  /\ memory \in [Segment -> {"mapped", "reset"}]
  /\ unused \subseteq Segment
  /\ pc \in [Thread -> Label]
  /\ seg \in [Thread -> Segment \cup {NULL}]
  /\ ts \in [Thread -> Tagged]
  /\ anext \in [Thread -> Segment \cup {NULL}]
  /\ last \in [Thread -> Segment \cup {NULL}]
  /\ calls \in 0 .. MaxCalls
  /\ excused \in [Thread -> BOOLEAN]

None == [seg |-> NULL, tag |-> 0]

\* the segments are in the hands of the region layer
Init ==
  /\ abandoned = None
  /\ abandoned_visited = NULL
  /\ abandoned_readers = 0
  /\ abandoned_next = [s \in Segment |-> NULL]
  /\ thread_id = [s \in Segment |-> NULL]
  /\ memory = [s \in Segment |-> "reset"]
  /\ unused = Segment
  /\ pc = [t \in Thread |-> "idle"]
  /\ seg = [t \in Thread |-> NULL]
  /\ ts = [t \in Thread |-> None]
  /\ anext = [t \in Thread |-> NULL]
  /\ last = [t \in Thread |-> NULL]
  /\ calls = 0
  /\ excused = [t \in Thread |-> FALSE]

-----------------------------------------------------------------------------
\* t goes on at label, or returns and forgets its locals
Goto(t, label) == pc' = [pc EXCEPT ![t] = label]
Return(t) ==
  /\ Goto(t, "idle")
  /\ seg' = [seg EXCEPT ![t] = NULL]
  /\ ts' = [ts EXCEPT ![t] = None]
  /\ anext' = [anext EXCEPT ![t] = NULL]
  /\ last' = [last EXCEPT ![t] = NULL]

\* mi_tagged_segment: s with the tag after the one in `from` (mutant: the tag
\* stays)
TaggedSame(s, from) == [seg |-> s, tag |-> from.tag]
TaggedNext(s, from) == [seg |-> s, tag |-> (from.tag + 1) % TagMod]

-----------------------------------------------------------------------------
(* Owning a segment: mi_segment_init, mi_segment_os_free, _mi_mem_free *)

SegmentInit(t) ==
  /\ pc[t] = "idle"
  /\ \E s \in unused :
       /\ unused' = unused \ {s}
       /\ memory' = [memory EXCEPT ![s] = "mapped"]
       /\ abandoned_next' = [abandoned_next EXCEPT ![s] = NULL]
       /\ thread_id' = [thread_id EXCEPT ![s] = t]
  /\ UNCHANGED <<shared, pc, locals, calls>>

\* A segment of a region stays mapped, or is reset once no pop is reading (with
\* the option segment_reset, and when _mi_mem_collect frees the region); one
\* that came directly from the OS is unmapped at once.
OsFree(t) ==
  /\ pc[t] = "idle"
  /\ \E s \in Segment :
       /\ thread_id[s] = t
       /\ thread_id' = [thread_id EXCEPT ![s] = NULL]
       /\ \/ /\ s \in Direct
             /\ memory' = [memory EXCEPT ![s] = "reset"]
             /\ unused' = unused \cup {s}
             /\ UNCHANGED <<pc, seg>>
          \/ /\ s \notin Direct
             /\ unused' = unused \cup {s}
             /\ UNCHANGED <<memory, pc, seg>>
          \/ /\ s \notin Direct
             /\ seg' = [seg EXCEPT ![t] = s]
             /\ Goto(t, "await")
             /\ UNCHANGED <<memory, unused>>
  /\ UNCHANGED <<shared, abandoned_next, ts, anext, last, calls>>

\* _mi_abandoned_await_readers, then the reset (mutant: it does not wait)
AwaitReadersNot(t) ==
  /\ pc[t] = "await"
  /\ memory' = [memory EXCEPT ![seg[t]] = "reset"]
  /\ unused' = unused \cup {seg[t]}
  /\ Return(t)
  /\ UNCHANGED <<shared, abandoned_next, thread_id, calls>>

AwaitReaders(t) ==
  /\ pc[t] = "await"
  /\ abandoned_readers = 0
  /\ memory' = [memory EXCEPT ![seg[t]] = "reset"]
  /\ unused' = unused \cup {seg[t]}
  /\ Return(t)
  /\ UNCHANGED <<shared, abandoned_next, thread_id, calls>>

-----------------------------------------------------------------------------
(* mi_segment_abandon and mi_abandoned_push *)

Abandon(t) ==
  /\ pc[t] = "idle"
  /\ calls < MaxCalls
  /\ calls' = calls + 1
  /\ \E s \in Segment :
       /\ thread_id[s] = t
       /\ thread_id' = [thread_id EXCEPT ![s] = NULL]
       /\ abandoned_next' = [abandoned_next EXCEPT ![s] = NULL]
       /\ seg' = [seg EXCEPT ![t] = s]
  /\ Goto(t, "push_read")
  /\ UNCHANGED <<shared, memory, unused, ts, anext, last>>

PushRead(t) ==
  /\ pc[t] = "push_read"
  /\ ts' = [ts EXCEPT ![t] = abandoned]
  /\ Goto(t, "push_link")
  /\ UNCHANGED <<shared, segment, seg, anext, last, calls>>

PushLink(t) ==
  /\ pc[t] = "push_link"
  /\ abandoned_next' = [abandoned_next EXCEPT ![seg[t]] = ts[t].seg]
  /\ Goto(t, "push_cas")
  /\ UNCHANGED <<shared, thread_id, memory, unused, locals, calls>>

PushCas(t) ==
  /\ pc[t] = "push_cas"
  /\ IF abandoned = ts[t]
       THEN abandoned' = TaggedNext(seg[t], ts[t]) /\ Return(t)
       ELSE Goto(t, "push_read") /\ UNCHANGED <<abandoned, locals>>
  /\ UNCHANGED <<abandoned_visited, abandoned_readers, segment, calls>>

-----------------------------------------------------------------------------
(* mi_abandoned_pop and mi_abandoned_visited_revisit *)

\* the quick check whether the list is empty
Pop(t) ==
  /\ pc[t] = "idle"
  /\ calls < MaxCalls
  /\ calls' = calls + 1
  /\ Goto(t, IF abandoned.seg = NULL THEN "rv_check" ELSE "pop_inc")
  /\ UNCHANGED <<shared, segment, locals>>

\* the quick check of the visited list: mi_abandoned_pop returns NULL (mutant:
\* the visited list is not looked at)
RevisitCheckNot(t) ==
  /\ pc[t] = "rv_check"
  /\ Goto(t, "idle")
  /\ UNCHANGED <<shared, segment, locals, calls>>

RevisitCheck(t) ==
  /\ pc[t] = "rv_check"
  /\ Goto(t, IF abandoned_visited = NULL THEN "idle" ELSE "rv_grab")
  /\ UNCHANGED <<shared, segment, locals, calls>>

\* grab the whole visited list
RevisitGrab(t) ==
  /\ pc[t] = "rv_grab"
  /\ abandoned_visited' = NULL
  /\ seg' = [seg EXCEPT ![t] = abandoned_visited]
  /\ Goto(t, IF abandoned_visited = NULL THEN "idle" ELSE "rv_read")
  /\ UNCHANGED <<abandoned, abandoned_readers, segment, ts, anext, last, calls>>

RevisitRead(t) ==
  /\ pc[t] = "rv_read"
  /\ ts' = [ts EXCEPT ![t] = abandoned]
  /\ Goto(t, IF abandoned.seg = NULL THEN "rv_swap" ELSE "rv_again")
  /\ UNCHANGED <<shared, segment, seg, anext, last, calls>>

\* try to swap it in
RevisitSwap(t) ==
  /\ pc[t] = "rv_swap"
  /\ IF abandoned = ts[t]
       THEN /\ abandoned' = TaggedNext(seg[t], ts[t])
            /\ seg' = [seg EXCEPT ![t] = NULL]
            /\ Goto(t, "pop_inc")
       ELSE /\ Goto(t, "rv_again")
            /\ UNCHANGED <<abandoned, seg>>
  /\ UNCHANGED <<abandoned_visited, abandoned_readers, segment, ts, anext, last, calls>>

\* or find its last segment and prepend it
RevisitAgain(t) ==
  /\ pc[t] = "rv_again"
  /\ ts' = [ts EXCEPT ![t] = abandoned]
  /\ last' = [last EXCEPT ![t] =
       IF @ # NULL THEN @
       ELSE CHOOSE s \in Reach(seg[t], abandoned_next) : abandoned_next[s] = NULL]
  /\ Goto(t, "rv_link")
  /\ UNCHANGED <<shared, segment, seg, anext, calls>>

\* (mutant: the rest of the abandoned list is not appended)
RevisitLinkForgets(t) ==
  /\ pc[t] = "rv_link"
  /\ Goto(t, "rv_cas")
  /\ UNCHANGED <<shared, segment, locals, calls>>

RevisitLink(t) ==
  /\ pc[t] = "rv_link"
  /\ abandoned_next' = [abandoned_next EXCEPT ![last[t]] = ts[t].seg]
  /\ Goto(t, "rv_cas")
  /\ UNCHANGED <<shared, thread_id, memory, unused, locals, calls>>

RevisitCas(t) ==
  /\ pc[t] = "rv_cas"
  /\ IF abandoned = ts[t]
       THEN /\ abandoned' = TaggedNext(seg[t], ts[t])
            /\ seg' = [seg EXCEPT ![t] = NULL]
            /\ last' = [last EXCEPT ![t] = NULL]
            /\ Goto(t, "pop_inc")
       ELSE /\ Goto(t, "rv_again")
            /\ UNCHANGED <<abandoned, seg, last>>
  /\ UNCHANGED <<abandoned_visited, abandoned_readers, segment, ts, anext, calls>>

PopInc(t) ==
  /\ pc[t] = "pop_inc"
  /\ abandoned_readers' = abandoned_readers + 1
  /\ Goto(t, "pop_read")
  /\ UNCHANGED <<abandoned, abandoned_visited, segment, locals, calls>>

PopRead(t) ==
  /\ pc[t] = "pop_read"
  /\ ts' = [ts EXCEPT ![t] = abandoned]
  /\ Goto(t, IF abandoned.seg = NULL THEN "pop_dec" ELSE "pop_next")
  /\ UNCHANGED <<shared, segment, seg, anext, last, calls>>

\* the read of the segment's abandoned_next
PopNext(t) ==
  /\ pc[t] = "pop_next"
  /\ anext' = [anext EXCEPT ![t] = abandoned_next[ts[t].seg]]
  /\ Goto(t, "pop_cas")
  /\ UNCHANGED <<shared, segment, seg, ts, last, calls>>

PopCas(t) ==
  /\ pc[t] = "pop_cas"
  /\ IF abandoned = ts[t]
       THEN /\ abandoned' = TaggedNext(anext[t], ts[t])
            /\ seg' = [seg EXCEPT ![t] = ts[t].seg]
            /\ Goto(t, "pop_dec")
       ELSE /\ Goto(t, "pop_read")
            /\ UNCHANGED <<abandoned, seg>>
  /\ UNCHANGED <<abandoned_visited, abandoned_readers, segment, ts, anext, last, calls>>

\* Mutant: the reader count is not released
PopDecLeaks(t) ==
  /\ pc[t] = "pop_dec"
  /\ IF seg[t] = NULL THEN Return(t) ELSE Goto(t, "pop_clear") /\ UNCHANGED locals
  /\ UNCHANGED <<shared, segment, calls>>

PopDec(t) ==
  /\ pc[t] = "pop_dec"
  /\ abandoned_readers' = abandoned_readers - 1
  /\ IF seg[t] = NULL THEN Return(t) ELSE Goto(t, "pop_clear") /\ UNCHANGED locals
  /\ UNCHANGED <<abandoned, abandoned_visited, segment, calls>>

PopClear(t) ==
  /\ pc[t] = "pop_clear"
  /\ abandoned_next' = [abandoned_next EXCEPT ![seg[t]] = NULL]
  /\ Goto(t, "popped")
  /\ UNCHANGED <<shared, thread_id, memory, unused, locals, calls>>

-----------------------------------------------------------------------------
(* What mi_segment_try_reclaim does with the segment *)

\* mi_segment_reclaim
Reclaim(t) ==
  /\ pc[t] = "popped"
  /\ thread_id' = [thread_id EXCEPT ![seg[t]] = t]
  /\ Return(t)
  /\ UNCHANGED <<shared, abandoned_next, memory, unused, calls>>

\* mi_abandoned_visited_push
PutAside(t) ==
  /\ pc[t] = "popped"
  /\ Goto(t, "v_read")
  /\ UNCHANGED <<shared, segment, locals, calls>>

VisitedRead(t) ==
  /\ pc[t] = "v_read"
  /\ ts' = [ts EXCEPT ![t] = [seg |-> abandoned_visited, tag |-> 0]]
  /\ Goto(t, "v_link")
  /\ UNCHANGED <<shared, segment, seg, anext, last, calls>>

VisitedLink(t) ==
  /\ pc[t] = "v_link"
  /\ abandoned_next' = [abandoned_next EXCEPT ![seg[t]] = ts[t].seg]
  /\ Goto(t, "v_cas")
  /\ UNCHANGED <<shared, thread_id, memory, unused, locals, calls>>

VisitedCas(t) ==
  /\ pc[t] = "v_cas"
  /\ IF abandoned_visited = ts[t].seg
       THEN abandoned_visited' = seg[t] /\ Return(t)
       ELSE Goto(t, "v_read") /\ UNCHANGED <<abandoned_visited, locals>>
  /\ UNCHANGED <<abandoned, abandoned_readers, segment, calls>>

-----------------------------------------------------------------------------
\* the segments on the two lists
Stack   == Reach(abandoned.seg, abandoned_next)
Visited == Reach(abandoned_visited, abandoned_next)

\* the visited list t has grabbed, up to its last segment
FlightLabel == {"rv_read", "rv_swap", "rv_again", "rv_link", "rv_cas"}
Cut(t) == IF last[t] = NULL THEN abandoned_next ELSE [abandoned_next EXCEPT ![last[t]] = NULL]
InFlight(t) == IF pc[t] \in FlightLabel THEN Reach(seg[t], Cut(t)) ELSE {}

Listed == Stack \cup Visited \cup UNION {InFlight(t) : t \in Thread}

\* history: whether t's pop has an excuse for finding nothing
Excuse(t) == Listed = {} \/ \E u \in Thread \ {t} : pc[u] \in PopLabel
Remember  == excused' = [t \in Thread |-> pc'[t] \in PopLabel /\ (excused[t] \/ Excuse(t) \/ Excuse(t)')]

Call(t)     == SegmentInit(t) \/ OsFree(t) \/ Abandon(t) \/ Pop(t)
Continue(t) ==
  \/ AwaitReaders(t)
  \/ PushRead(t) \/ PushLink(t) \/ PushCas(t)
  \/ RevisitCheck(t) \/ RevisitGrab(t) \/ RevisitRead(t) \/ RevisitSwap(t)
  \/ RevisitAgain(t) \/ RevisitLink(t) \/ RevisitCas(t)
  \/ PopInc(t) \/ PopRead(t) \/ PopNext(t) \/ PopCas(t) \/ PopDec(t) \/ PopClear(t)
  \/ Reclaim(t) \/ PutAside(t) \/ VisitedRead(t) \/ VisitedLink(t) \/ VisitedCas(t)

Next == (\E t \in Thread : Call(t) \/ Continue(t)) /\ Remember

Spec == Init /\ [][Next]_vars

\* every call goes on once it has started
FairSpec == Spec /\ \A t \in Thread : WF_vars(Continue(t) /\ Remember)

-----------------------------------------------------------------------------
(* Properties *)

\* labels at which the segment of t's operation is on no list
HandLabel == {"push_read", "push_link", "push_cas", "pop_dec", "pop_clear", "popped",
              "v_read", "v_link", "v_cas", "await"}

\* in how many places a segment is
Places(s) ==
    Cardinality({t \in Thread : thread_id[s] = t})
  + Cardinality({t \in Thread : seg[t] = s /\ pc[t] \in HandLabel})
  + Cardinality({t \in Thread : s \in InFlight(t)})
  + (IF s \in unused THEN 1 ELSE 0)
  + (IF s \in Stack THEN 1 ELSE 0)
  + (IF s \in Visited THEN 1 ELSE 0)

\* Every segment is in one place: owned by one thread, in the hands of one
\* operation, on one of the two lists, or released; and both lists end.  No
\* interleaving of pushes, pops and revisits loses a segment, gives it to two
\* threads or ties the lists together (the A-B-A problem of segment.c:883).
ListsIntact ==
  /\ \A s \in Segment : Places(s) = 1
  /\ EndsIn(abandoned.seg, abandoned_next)
  /\ EndsIn(abandoned_visited, abandoned_next)

\* A pop never reads abandoned_next of a segment whose memory was reset,
\* decommitted or unmapped meanwhile: abandoned_readers prevents it
\* (segment.c:887-888 and 922-924).
NoReadOfReset ==
  \A t \in Thread : pc[t] = "pop_next" => memory[ts[t].seg] = "mapped"

\* A pop that returns NULL has an excuse: at some moment of the call the lists
\* were empty, or another thread was popping too (and held the visited list or
\* took the last segment).  Module ThreadFree relies on it.
PopNullExcused ==
  [][\A t \in Thread : pc[t] \in PopLabel /\ pc'[t] = "idle" => excused[t]]_vars

\* The two lists together are one set of segments: no step adds or removes
\* more than the segment that is pushed or popped, and moving the visited list
\* changes nothing.
Contents == INSTANCE AbandonedSet WITH listed <- Listed
ImplementsSet == Contents!SSpec

\* Every call returns, if the other threads make finitely many calls: a failed
\* compare-and-swap means that another call got ahead, and waiting for the
\* readers ends.
ListCallsReturn == \A t \in Thread : pc[t] # "idle" ~> pc[t] = "idle"
=============================================================================
