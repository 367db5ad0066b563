------------------------------ MODULE BitScan ------------------------------
(***************************************************************************)
(* mi_bitmap_try_find_claim_field (bitmap.inc.c): the search of a field    *)
(* for `count` adjacent zero bits, which skips ahead with bit scans, and   *)
(* the claim of what it found, while other threads change the field.       *)
(* Module Region takes from here that a search stops at the first fit.     *)
(*                                                                         *)
(* A word is the set of its one bits; a shift drops the bits that leave    *)
(* the word.                                                               *)
(***************************************************************************)
EXTENDS Integers, FiniteSetsExt

CONSTANT Width  \* MI_BITMAP_FIELD_BITS

ASSUME WidthAssumption == Width \in Nat \ {0}

VARIABLES
  field,      \* the field of the bitmap, shared
  \* locals of mi_bitmap_try_find_claim_field
  count, map, bitidx, m,
  from,       \* ghost: bitidx when map was read
  pc

vars == <<field, count, map, bitidx, m, from, pc>>

Bit == 0 .. Width - 1

ShiftLeft(w, k)  == {b + k : b \in w} \cap Bit
ShiftRight(w, k) == {b - k : b \in w} \cap Bit

\* mi_bitmap_mask_(n, 0)
mask(n) == 0 .. n - 1

\* the first zero bit, and the last one bit
mi_bsf(w) == IF w = Bit THEN Width ELSE Min(Bit \ w)
mi_bsr(w) == Max(w)

\* Mutant: one too large
BitidxMaxOver(n) == Width - n + 1

bitidx_max(n) == Width - n

TypeOK ==
  /\ field \in SUBSET Bit /\ map \in SUBSET Bit /\ m \in SUBSET Bit
  /\ count \in 1 .. Width
  /\ bitidx \in 0 .. Width /\ from \in 0 .. Width
  /\ pc \in {"read", "scan", "claimed", "failed"}

Init ==
  /\ field \in SUBSET Bit
  /\ count \in 1 .. Width
  /\ map = {} /\ bitidx = 0 /\ m = {} /\ from = 0
  /\ pc = "read"

Read ==
  /\ pc = "read"
  /\ map' = field
  /\ bitidx' = mi_bsf(field)
  /\ m' = ShiftLeft(mask(count), mi_bsf(field))
  /\ from' = 0
  /\ pc' = IF field = Bit THEN "failed" ELSE "scan"
  /\ UNCHANGED <<field, count>>

\* Mutant: the field is written without comparing it
ClaimBlind ==
  /\ pc = "scan"
  /\ bitidx <= bitidx_max(count)
  /\ map \cap m = {}
  /\ field' = map \cup m
  /\ pc' = "claimed"
  /\ UNCHANGED <<count, map, bitidx, m, from>>

\* the bits at bitidx are free: claim them, or read again
Claim ==
  /\ pc = "scan"
  /\ bitidx <= bitidx_max(count)
  /\ map \cap m = {}
  /\ \/ /\ field = map
        /\ field' = map \cup m
        /\ pc' = "claimed"
        /\ UNCHANGED <<map, from>>
     \/ /\ field # map
        /\ map' = field
        /\ from' = bitidx
        /\ UNCHANGED <<field, pc>>
  /\ UNCHANGED <<count, bitidx, m>>

\* Mutant: the bit after the last one bit is skipped too
ShiftFar(n, w, i) == IF n = 1 THEN 1 ELSE mi_bsr(w) - i + 2

\* Mutant: up to the last one bit, and not past it
ShiftShort(n, w, i) == IF n = 1 THEN 1 ELSE mi_bsr(w) - i

shift(n, w, i) == IF n = 1 THEN 1 ELSE mi_bsr(w) - i + 1

\* on to the next bit range
Skip ==
  /\ pc = "scan"
  /\ bitidx <= bitidx_max(count)
  /\ map \cap m # {}
  /\ LET k == shift(count, map \cap m, bitidx)
     IN  bitidx' = bitidx + k /\ m' = ShiftLeft(m, k)
  /\ UNCHANGED <<field, count, map, from, pc>>

Fail ==
  /\ pc = "scan"
  /\ bitidx > bitidx_max(count)
  /\ pc' = "failed"
  /\ UNCHANGED <<field, count, map, bitidx, m, from>>

\* other threads claim and unclaim
Other ==
  /\ pc \in {"read", "scan"}
  /\ field' \in SUBSET Bit
  /\ UNCHANGED <<count, map, bitidx, m, from, pc>>

Next == Read \/ Claim \/ Skip \/ Fail \/ Other

\* the thread that searches goes on; the others need not
Spec == Init /\ [][Next]_vars /\ WF_vars(Read \/ Claim \/ Skip \/ Fail)

-----------------------------------------------------------------------------
(* Properties *)

Bits(n, i) == i .. (i + n - 1)

\* The scan passes no fit: no range of count zero bits of the value that was
\* read starts between where it was read and where the scan is, although the
\* scan jumps over bits it did not test (bitmap.inc.c:167).
FirstFit ==
  pc # "read" => \A j \in from .. (bitidx - 1) :
    j <= bitidx_max(count) => Bits(count, j) \cap map # {}

\* The bits that are claimed are count bits at bitidx, in the word: the shifts
\* lost none (the assertions "no overflow?" in bitmap.inc.c:150).
NoOverflow ==
  pc = "scan" /\ bitidx <= bitidx_max(count) =>
    m = Bits(count, bitidx) /\ ShiftRight(m, bitidx) = mask(count)

\* A claim takes zero bits of the field, and leaves the others as they are.
ClaimExact ==
  [][pc = "scan" /\ pc' = "claimed" =>
       /\ Bits(count, bitidx) \cap field = {}
       /\ field' = field \cup Bits(count, bitidx)]_vars

\* When the other threads leave the field alone from some time on, the search
\* ends: each round tests a later range (bitmap.inc.c:168 asserts a shift > 0).
Ends == <>[][~Other]_vars => <>(pc \in {"claimed", "failed"})
=============================================================================
