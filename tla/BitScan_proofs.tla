--------------------------- MODULE BitScan_proofs ---------------------------
(***************************************************************************)
(* Module BitScan for every width of a field: the scan passes no fit, its  *)
(* shifts lose no bit, and a claim takes exactly the bits it found.        *)
(***************************************************************************)
EXTENDS BitScan, NaturalsInduction, WellFoundedInduction, TLAPS

\* A set of naturals that is not empty has a least element.
LEMMA LeastNatural ==
  ASSUME NEW S \in SUBSET Nat, S # {}
  PROVE  \E x \in S : \A y \in S : x <= y
<1> DEFINE R == {ss \in Nat \X Nat : ss[1] < ss[2]}
<1>1. R = OpToRel(<, Nat)
  BY Zenon DEF OpToRel
<1>2. PICK x \in S : \A y \in S : ~ (<<y, x>> \in R)
  <2>1. IsWellFoundedOn(R, Nat)
    BY <1>1, NatLessThanWellFounded, Zenon
  <2> HIDE DEF R
  <2> QED
    BY <2>1, WFMin, Zenon
<1>3. ASSUME NEW y \in S PROVE x <= y
  <2>1. x \in Nat /\ y \in Nat
    OBVIOUS
  <2>2. ~ (y < x)
    BY <2>1, <1>2
  <2> QED
    BY <2>1, <2>2
<1> QED
  BY <1>3

\* mi_bsf returns the first zero bit, or the width: all bits before are one.
LEMMA Bsf ==
  ASSUME NEW w \in SUBSET Bit
  PROVE  /\ mi_bsf(w) \in 0 .. Width
         /\ w # Bit => mi_bsf(w) \in Bit
         /\ \A b \in 0 .. (mi_bsf(w) - 1) : b \in w
<1> USE WidthAssumption
<1>1. CASE w = Bit
  BY <1>1 DEF mi_bsf, Bit
<1>2. CASE w # Bit
  <2> DEFINE Z == Bit \ w
  <2>1. \E x \in Z : \A y \in Z : x <= y
    <3>1. Z \in SUBSET Nat
      BY DEF Bit
    <3>2. Z # {}
      BY <1>2
    <3> HIDE DEF Z
    <3> QED
      BY <3>1, <3>2, LeastNatural
  <2>2. mi_bsf(w) \in Bit \ w /\ \A y \in Bit \ w : mi_bsf(w) <= y
    BY <2>1, <1>2 DEF mi_bsf, Min
  <2> QED
    BY <2>2, <1>2 DEF Bit
<1> QED
  BY <1>1, <1>2

\* mi_bsr returns the last one bit.
LEMMA Bsr ==
  ASSUME NEW w \in SUBSET Bit, w # {}
  PROVE  mi_bsr(w) \in w /\ \A b \in w : b <= mi_bsr(w)
<1> USE WidthAssumption
<1> DEFINE S == {Width - b : b \in w}
<1>1. S \in SUBSET Nat /\ S # {}
  BY DEF Bit
<1>2. PICK x \in S : \A y \in S : x <= y
  <2> HIDE DEF S
  <2> QED
    BY <1>1, LeastNatural
<1>3. \E b \in w : \A c \in w : b >= c
  <2>1. PICK b \in w : x = Width - b
    BY <1>2
  <2>2. ASSUME NEW c \in w PROVE b >= c
    BY <1>2, <2>1 DEF Bit
  <2> QED
    BY <2>2
<1>4. mi_bsr(w) \in w /\ \A c \in w : mi_bsr(w) >= c
  BY <1>3 DEF mi_bsr, Max
<1> QED
  BY <1>4 DEF Bit

\* A shift moves the bits of a range, as far as they are in the word.
LEMMA ShiftBits ==
  ASSUME NEW n \in Nat, NEW i \in Nat, NEW k \in Nat
  PROVE  ShiftLeft(Bits(n, i) \cap Bit, k) = Bits(n, i + k) \cap Bit
<1> USE WidthAssumption
<1>1. ASSUME NEW x \in Bits(n, i + k) \cap Bit
      PROVE  x \in ShiftLeft(Bits(n, i) \cap Bit, k)
  <2>1. x - k \in Bits(n, i) \cap Bit /\ x = (x - k) + k
    BY <1>1 DEF Bits, Bit
  <2> QED
    BY <2>1, <1>1 DEF ShiftLeft
<1>2. ASSUME NEW x \in ShiftLeft(Bits(n, i) \cap Bit, k)
      PROVE  x \in Bits(n, i + k) \cap Bit
  BY <1>2 DEF ShiftLeft, Bits, Bit
<1> QED
  BY <1>1, <1>2

\* A range that ends in the word is in it.
LEMMA BitsInWord ==
  ASSUME NEW n \in Nat, NEW i \in Nat, i + n <= Width
  PROVE  Bits(n, i) \subseteq Bit
  BY WidthAssumption DEF Bits, Bit

\* The inductive invariant: m is the mask at bitidx, what is left of it in the
\* word.
MaskAt == pc = "scan" => m = Bits(count, bitidx) \cap Bit

IInv == TypeOK /\ MaskAt /\ FirstFit

LEMMA InitIInv == Init => IInv
  BY WidthAssumption DEF Init, IInv, TypeOK, MaskAt, FirstFit

LEMMA ReadIInv == IInv /\ Read => IInv'
<1> SUFFICES ASSUME IInv, Read PROVE IInv'
  OBVIOUS
<1> USE WidthAssumption
<1>1. field \in SUBSET Bit /\ count \in 1 .. Width
  BY DEF IInv, TypeOK
<1>2. bitidx' \in 0 .. Width /\ \A b \in 0 .. (bitidx' - 1) : b \in map'
  BY <1>1, Bsf DEF Read
<1>3. m' = Bits(count', bitidx') \cap Bit
  <2>1. mask(count) = Bits(count, 0) \cap Bit
    <3>1. mask(count) = Bits(count, 0)
      BY <1>1 DEF mask, Bits
    <3> QED
      BY <3>1, <1>1, BitsInWord
  <2> QED
    <3> DEFINE k == mi_bsf(field)
    <3>1. k \in Nat /\ count \in Nat
      BY <1>1, Bsf
    <3> HIDE DEF k
    <3>2. ShiftLeft(Bits(count, 0) \cap Bit, k) = Bits(count, 0 + k) \cap Bit
      BY <3>1, ShiftBits
    <3>3. 0 + k = k
      BY <3>1
    <3>4. m' = ShiftLeft(mask(count), k) /\ bitidx' = k /\ count' = count
      BY DEF Read, k
    <3> QED
      BY <2>1, <3>2, <3>3, <3>4
<1>4. TypeOK'
  BY <1>1, <1>2 DEF Read, TypeOK, ShiftLeft
<1>5. FirstFit'
  <2> SUFFICES ASSUME NEW j \in from' .. (bitidx' - 1), j <= bitidx_max(count')
               PROVE  Bits(count', j) \cap map' # {}
    BY DEF FirstFit
  <2>1. j \in 0 .. (bitidx' - 1)
    BY <1>2 DEF Read
  <2>2. j \in Bits(count', j)
    BY <2>1, <1>1, <1>2 DEF Read, Bits
  <2> QED
    BY <2>1, <2>2, <1>2
<1> QED
  BY <1>3, <1>4, <1>5 DEF IInv, MaskAt

LEMMA ClaimIInv == IInv /\ Claim => IInv'
<1> SUFFICES ASSUME IInv, Claim PROVE IInv'
  OBVIOUS
<1> USE WidthAssumption
<1>1. TypeOK'
  BY DEF IInv, TypeOK, Claim
<1>2. MaskAt'
  BY DEF IInv, MaskAt, Claim
<1>3. FirstFit'
  <2>1. CASE field = map
    BY <2>1 DEF IInv, FirstFit, Claim, bitidx_max
  <2>2. CASE field # map
    BY <2>2 DEF IInv, TypeOK, FirstFit, Claim
  <2> QED
    BY <2>1, <2>2
<1> QED
  BY <1>1, <1>2, <1>3 DEF IInv

\* The jump of the scan ends behind a one bit that every range it passes holds.
LEMMA SkipIInv == IInv /\ Skip => IInv'
<1> SUFFICES ASSUME IInv, Skip PROVE IInv'
  OBVIOUS
<1> USE WidthAssumption
<1> DEFINE k == shift(count, map \cap m, bitidx)
<1>1. /\ map \in SUBSET Bit /\ m \in SUBSET Bit
      /\ count \in 1 .. Width /\ bitidx \in 0 .. Width /\ from \in 0 .. Width
      /\ bitidx <= Width - count
  BY DEF IInv, TypeOK, Skip, bitidx_max
<1>m. m = Bits(count, bitidx) /\ m = Bits(count, bitidx) \cap Bit
  BY <1>1, BitsInWord DEF IInv, MaskAt, Skip
<1>2. \E b \in map \cap m : b = bitidx + k - 1 /\ k \in 1 .. count
  <2>1. CASE count = 1
    <3>1. m = {bitidx}
      BY <1>1, <1>m, <2>1 DEF Bits
    <3>2. bitidx \in map
      BY <3>1 DEF Skip
    <3> QED
      BY <3>1, <3>2, <2>1, <1>1 DEF shift
  <2>2. CASE count # 1
    <3>1. mi_bsr(map \cap m) \in map \cap m
      BY <1>1, Bsr DEF Skip
    <3>2. k = mi_bsr(map \cap m) - bitidx + 1
      BY <2>2 DEF shift
    <3> QED
      BY <3>1, <3>2, <1>1, <1>m DEF Bits
  <2> QED
    BY <2>1, <2>2
<1> HIDE DEF k
<1>3. bitidx' = bitidx + k /\ m' = ShiftLeft(m, k) /\ k \in 1 .. count
  BY <1>2 DEF Skip, k
<1>4. TypeOK'
  BY <1>1, <1>3 DEF IInv, TypeOK, Skip, ShiftLeft
<1>5. MaskAt'
  BY <1>1, <1>m, <1>3, ShiftBits DEF MaskAt, Skip
<1>6. FirstFit'
  <2> SUFFICES ASSUME NEW j \in from' .. (bitidx' - 1), j <= bitidx_max(count')
               PROVE  Bits(count', j) \cap map' # {}
    BY DEF FirstFit
  <2>1. CASE j < bitidx
    BY <2>1, <1>1, <1>3 DEF IInv, FirstFit, Skip, bitidx_max
  <2>2. CASE j >= bitidx
    <3>1. PICK b \in map \cap m : b = bitidx + k - 1
      BY <1>2
    <3>2. b \in Bits(count', j)
      BY <3>1, <2>2, <1>1, <1>m, <1>3 DEF Bits, Skip
    <3> QED
      BY <3>1, <3>2 DEF Skip
  <2> QED
    BY <2>1, <2>2, <1>1, <1>3 DEF Skip
<1> QED
  BY <1>4, <1>5, <1>6 DEF IInv

LEMMA NextIInv == IInv /\ [Next]_vars => IInv'
<1> SUFFICES ASSUME IInv, [Next]_vars PROVE IInv'
  OBVIOUS
<1>1. CASE Read
  BY <1>1, ReadIInv
<1>2. CASE Claim
  BY <1>2, ClaimIInv
<1>3. CASE Skip
  BY <1>3, SkipIInv
<1>4. CASE Fail
  BY <1>4 DEF Fail, IInv, TypeOK, MaskAt, FirstFit, bitidx_max
<1>5. CASE Other
  BY <1>5 DEF Other, IInv, TypeOK, MaskAt, FirstFit, bitidx_max
<1>6. CASE UNCHANGED vars
  BY <1>6 DEF vars, IInv, TypeOK, MaskAt, FirstFit, bitidx_max
<1> QED
  BY <1>1, <1>2, <1>3, <1>4, <1>5, <1>6 DEF Next

\* For every width of the field the scan passes no fit
\* (mi_bitmap_try_find_claim_field).
THEOREM FindsFirstFit == Spec => []FirstFit
<1>1. IInv => FirstFit
  BY DEF IInv
<1> QED
  BY <1>1, InitIInv, NextIInv, PTL DEF Spec

\* For every width the mask that is claimed has all its bits: the assertions
\* of mi_bitmap_try_find_claim_field hold.
THEOREM MaskWhole == Spec => []NoOverflow
<1>1. IInv => NoOverflow
  <2> SUFFICES ASSUME IInv, pc = "scan", bitidx <= bitidx_max(count)
               PROVE  m = Bits(count, bitidx) /\ ShiftRight(m, bitidx) = mask(count)
    BY DEF NoOverflow
  <2> USE WidthAssumption
  <2>1. count \in 1 .. Width /\ bitidx \in 0 .. Width /\ bitidx <= Width - count
    BY DEF IInv, TypeOK, bitidx_max
  <2>2. m = Bits(count, bitidx)
    <3>1. count \in Nat /\ bitidx \in Nat /\ bitidx + count <= Width
      BY <2>1
    <3> QED
      BY <3>1, BitsInWord DEF IInv, MaskAt
  <2>3. ASSUME NEW x \in mask(count) PROVE x \in ShiftRight(m, bitidx)
    <3>1. x + bitidx \in m /\ x = (x + bitidx) - bitidx /\ x \in Bit
      BY <2>1, <2>2, <2>3 DEF mask, Bits, Bit
    <3> QED
      BY <3>1 DEF ShiftRight
  <2>4. ASSUME NEW x \in ShiftRight(m, bitidx) PROVE x \in mask(count)
    BY <2>1, <2>2, <2>4 DEF mask, Bits, ShiftRight
  <2> QED
    BY <2>2, <2>3, <2>4
<1> QED
  BY <1>1, InitIInv, NextIInv, PTL DEF Spec

\* For every width a claim sets count zero bits of the field and no other
\* (the compare-and-swap of mi_bitmap_try_find_claim_field).
THEOREM ClaimsExactly == Spec => ClaimExact
<1>1. IInv /\ [Next]_vars =>
        [pc = "scan" /\ pc' = "claimed" =>
           /\ Bits(count, bitidx) \cap field = {}
           /\ field' = field \cup Bits(count, bitidx)]_vars
  <2> SUFFICES ASSUME IInv, Next, pc = "scan", pc' = "claimed"
               PROVE  /\ Bits(count, bitidx) \cap field = {}
                      /\ field' = field \cup Bits(count, bitidx)
    OBVIOUS
  <2> USE WidthAssumption
  <2>1. Claim
    BY DEF Next, Read, Skip, Fail, Other
  <2>2. field = map /\ field' = map \cup m /\ map \cap m = {}
    BY <2>1 DEF Claim
  <2>3. m = Bits(count, bitidx)
    <3>1. count \in Nat /\ bitidx \in Nat /\ bitidx + count <= Width
      BY <2>1 DEF Claim, IInv, TypeOK, bitidx_max
    <3> QED
      BY <3>1, BitsInWord DEF IInv, MaskAt
  <2> QED
    BY <2>2, <2>3
<1> QED
  BY <1>1, InitIInv, NextIInv, PTL DEF Spec, ClaimExact
=============================================================================
