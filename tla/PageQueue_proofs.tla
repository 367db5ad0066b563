-------------------------- MODULE PageQueue_proofs --------------------------
(***************************************************************************)
(* The invariants of module PageQueue, for every set of pages and sizes.   *)
(*                                                                         *)
(* The classes of sizes first: what Bin and BinTable have to do with each  *)
(* other, up to the largest class.  Then what taking a page out of a       *)
(* queue, pushing and appending leave in it, and that each function of     *)
(* page-queue.c leaves the array of first pages exact (RemoveIs, PushIs,   *)
(* EnqueueIs).  Inv is the inductive invariant: the heap (HeapInv), each   *)
(* page (PageInv), and what the running call relies on (Role).  An action  *)
(* changes the heap in one of four ways: not at all (HeapSame), a page     *)
(* leaves (HeapRemoves), comes (HeapPushes) or moves (HeapMoves).          *)
(***************************************************************************)
EXTENDS PageQueue, TLAPS, FiniteSetTheorems, SequenceTheorems, WellFoundedInduction

(***************************************************************************)
(* The size classes.  A class of more than 8 words is one of four between  *)
(* two powers of two, so _mi_bin finds it from the highest bit of a size   *)
(* and the next two.                                                       *)
(***************************************************************************)

\* The powers of two up to 2^32.
LEMMA PowerIs == \A b :
  /\ (b = 0 => 2 ^ b = 1) /\ (b = 1 => 2 ^ b = 2) /\ (b = 2 => 2 ^ b = 4) /\ (b = 3 => 2 ^ b = 8)
  /\ (b = 4 => 2 ^ b = 16) /\ (b = 5 => 2 ^ b = 32) /\ (b = 6 => 2 ^ b = 64) /\ (b = 7 => 2 ^ b = 128)
  /\ (b = 8 => 2 ^ b = 256) /\ (b = 9 => 2 ^ b = 512) /\ (b = 10 => 2 ^ b = 1024) /\ (b = 11 => 2 ^ b = 2048)
  /\ (b = 12 => 2 ^ b = 4096) /\ (b = 13 => 2 ^ b = 8192) /\ (b = 14 => 2 ^ b = 16384) /\ (b = 15 => 2 ^ b = 32768)
  /\ (b = 16 => 2 ^ b = 65536) /\ (b = 17 => 2 ^ b = 131072) /\ (b = 18 => 2 ^ b = 262144) /\ (b = 19 => 2 ^ b = 524288)
  /\ (b = 20 => 2 ^ b = 1048576) /\ (b = 21 => 2 ^ b = 2097152) /\ (b = 22 => 2 ^ b = 4194304) /\ (b = 23 => 2 ^ b = 8388608)
  /\ (b = 24 => 2 ^ b = 16777216) /\ (b = 25 => 2 ^ b = 33554432) /\ (b = 26 => 2 ^ b = 67108864) /\ (b = 27 => 2 ^ b = 134217728)
  /\ (b = 28 => 2 ^ b = 268435456) /\ (b = 29 => 2 ^ b = 536870912) /\ (b = 30 => 2 ^ b = 1073741824) /\ (b = 31 => 2 ^ b = 2147483648)
  /\ (b = 32 => 2 ^ b = 4294967296)
<1>0. \A b : b = 0 => 2 ^ b = 1
  BY SMT
<1>1. \A b : b = 1 => 2 ^ b = 2
  BY SMT
<1>2. \A b : b = 2 => 2 ^ b = 4
  BY SMT
<1>3. \A b : b = 3 => 2 ^ b = 8
  BY SMT
<1>4. \A b : b = 4 => 2 ^ b = 16
  BY SMT
<1>5. \A b : b = 5 => 2 ^ b = 32
  BY SMT
<1>6. \A b : b = 6 => 2 ^ b = 64
  BY SMT
<1>7. \A b : b = 7 => 2 ^ b = 128
  BY SMT
<1>8. \A b : b = 8 => 2 ^ b = 256
  BY SMT
<1>9. \A b : b = 9 => 2 ^ b = 512
  BY SMT
<1>10. \A b : b = 10 => 2 ^ b = 1024
  BY SMT
<1>11. \A b : b = 11 => 2 ^ b = 2048
  BY SMT
<1>12. \A b : b = 12 => 2 ^ b = 4096
  BY SMT
<1>13. \A b : b = 13 => 2 ^ b = 8192
  BY SMT
<1>14. \A b : b = 14 => 2 ^ b = 16384
  BY SMT
<1>15. \A b : b = 15 => 2 ^ b = 32768
  BY SMT
<1>16. \A b : b = 16 => 2 ^ b = 65536
  BY SMT
<1>17. \A b : b = 17 => 2 ^ b = 131072
  BY SMT
<1>18. \A b : b = 18 => 2 ^ b = 262144
  BY SMT
<1>19. \A b : b = 19 => 2 ^ b = 524288
  BY SMT
<1>20. \A b : b = 20 => 2 ^ b = 1048576
  BY SMT
<1>21. \A b : b = 21 => 2 ^ b = 2097152
  BY SMT
<1>22. \A b : b = 22 => 2 ^ b = 4194304
  BY SMT
<1>23. \A b : b = 23 => 2 ^ b = 8388608
  BY SMT
<1>24. \A b : b = 24 => 2 ^ b = 16777216
  BY SMT
<1>25. \A b : b = 25 => 2 ^ b = 33554432
  BY SMT
<1>26. \A b : b = 26 => 2 ^ b = 67108864
  BY SMT
<1>27. \A b : b = 27 => 2 ^ b = 134217728
  BY SMT
<1>28. \A b : b = 28 => 2 ^ b = 268435456
  BY SMT
<1>29. \A b : b = 29 => 2 ^ b = 536870912
  BY SMT
<1>30. \A b : b = 30 => 2 ^ b = 1073741824
  BY SMT
<1>31. \A b : b = 31 => 2 ^ b = 2147483648
  BY SMT
<1>32. \A b : b = 32 => 2 ^ b = 4294967296
  BY SMT
<1> QED
  BY <1>0, <1>1, <1>2, <1>3, <1>4, <1>5, <1>6, <1>7, <1>8, <1>9, <1>10, <1>11, <1>12, <1>13, <1>14, <1>15, <1>16,
     <1>17, <1>18, <1>19, <1>20, <1>21, <1>22, <1>23, <1>24, <1>25, <1>26, <1>27, <1>28, <1>29, <1>30, <1>31, <1>32, SMT

Power(b) == 2 ^ b
Quarter(b) == 2 ^ (b - 2)

\* A power of two is a positive number below the next one.
LEMMA PowerGrows ==
  ASSUME NEW a \in 0 .. 18, NEW b \in 0 .. 18, a <= b
  PROVE  Power(a) \in Nat \ {0} /\ Power(b) \in Nat \ {0} /\ Power(a) <= Power(b)
BY PowerIs DEF Power

\* The highest bit of a number is where it is below the next power.
LEMMA BsrIs ==
  ASSUME NEW b \in 3 .. 17, NEW x \in Nat, Power(b) <= x, x < Power(b + 1)
  PROVE  Bsr(x) = b
<1>1. ASSUME NEW a \in 0 .. 31, 2 ^ a <= x, x < 2 ^ (a + 1)
      PROVE  a = b
  BY PowerIs, <1>1 DEF Power
<1> QED
  BY <1>1 DEF Bsr, Power

\* The classes, and the largest size below one.  Classes 0, 3, 5 and 7 have no size.
Class == {1, 2, 4, 6, 8} \cup 9 .. 68
Low(c) == IF c <= 2 THEN c - 1 ELSE IF c <= 8 THEN c - 2 ELSE BinTable[c]

\* The table: the first classes go by a word, the others by a quarter of a
\* power of two.
LEMMA SmallTable == BinTable[1] = 1 /\ \A i \in 2 .. 9 : BinTable[i] = i - 1
<1>1. ASSUME NEW i \in 2 .. 9
      PROVE  BinTable[i] = i - 1
  <2>1. i = 2 \/ i = 3 \/ i = 4 \/ i = 5 \/ i = 6 \/ i = 7 \/ i = 8 \/ i = 9
    OBVIOUS
  <2> QED
    BY <2>1 DEF BinTable
<1> QED
  BY <1>1 DEF BinTable

\* The entries of the table from class 9 on.
LEMMA LargeTable ==
  ASSUME NEW b \in 3 .. 17
  PROVE  /\ Quarter(b) \in Nat \ {0} /\ Quarter(b) % 2 = 0
         /\ Power(b) = 4 * Quarter(b) /\ Power(b + 1) = 8 * Quarter(b)
         /\ BinTable[4 * b - 3] = 4 * Quarter(b) /\ BinTable[4 * b - 2] = 5 * Quarter(b)
         /\ BinTable[4 * b - 1] = 6 * Quarter(b) /\ BinTable[4 * b] = 7 * Quarter(b)
         /\ BinTable[4 * b + 1] = 8 * Quarter(b)
<1>1. CASE b = 3
  BY <1>1, PowerIs, SMT DEF Power, Quarter, BinTable
<1>2. CASE b = 4
  BY <1>2, PowerIs, SMT DEF Power, Quarter, BinTable
<1>3. CASE b = 5
  BY <1>3, PowerIs, SMT DEF Power, Quarter, BinTable
<1>4. CASE b = 6
  BY <1>4, PowerIs, SMT DEF Power, Quarter, BinTable
<1>5. CASE b = 7
  BY <1>5, PowerIs, SMT DEF Power, Quarter, BinTable
<1>6. CASE b = 8
  BY <1>6, PowerIs, SMT DEF Power, Quarter, BinTable
<1>7. CASE b = 9
  BY <1>7, PowerIs, SMT DEF Power, Quarter, BinTable
<1>8. CASE b = 10
  BY <1>8, PowerIs, SMT DEF Power, Quarter, BinTable
<1>9. CASE b = 11
  BY <1>9, PowerIs, SMT DEF Power, Quarter, BinTable
<1>10. CASE b = 12
  BY <1>10, PowerIs, SMT DEF Power, Quarter, BinTable
<1>11. CASE b = 13
  BY <1>11, PowerIs, SMT DEF Power, Quarter, BinTable
<1>12. CASE b = 14
  BY <1>12, PowerIs, SMT DEF Power, Quarter, BinTable
<1>13. CASE b = 15
  BY <1>13, PowerIs, SMT DEF Power, Quarter, BinTable
<1>14. CASE b = 16
  BY <1>14, PowerIs, SMT DEF Power, Quarter, BinTable
<1>15. CASE b = 17
  BY <1>15, PowerIs, SMT DEF Power, Quarter, BinTable
<1> QED
  BY <1>1, <1>2, <1>3, <1>4, <1>5, <1>6, <1>7, <1>8, <1>9, <1>10, <1>11, <1>12, <1>13, <1>14, <1>15

\* Multiplication with a positive number keeps the order.
LEMMA TimesGrows ==
  ASSUME NEW m \in Nat, NEW n \in Nat, NEW P \in Nat, m < n
  PROVE  m * P + P <= n * P
<1>1. PICK k \in Nat : n = m + 1 + k
  <2>1. n - m - 1 \in Nat
    OBVIOUS
  <2> QED
    BY <2>1
<1>2. n * P = m * P + P + k * P
  BY <1>1
<1>3. k * P \in Nat /\ m * P \in Nat
  BY <1>1
<1> QED
  BY <1>2, <1>3

\* Dividing by a quarter of the power of two gives the quarter.
LEMMA QuarterIs ==
  ASSUME NEW P \in Nat \ {0}, NEW x \in Nat, 4 * P <= x, x < 8 * P
  PROVE  \E j \in 0 .. 3 : (x \div P) % 4 = j /\ (4 + j) * P <= x /\ x < (5 + j) * P
<1>1. PICK e \in Nat : e = x \div P /\ e * P <= x /\ x < e * P + P
  <2>1. x \div P \in Nat /\ (x \div P) * P <= x /\ x < (x \div P) * P + P
    OBVIOUS
  <2> QED
    BY <2>1
<1>2. ~(e < 4)
  <2>1. e < 4 => e * P + P <= 4 * P
    BY TimesGrows
  <2> QED
    BY <1>1, <2>1
<1>3. ~(7 < e)
  <2>1. 7 < e => 7 * P + P <= e * P
    BY TimesGrows
  <2> QED
    BY <1>1, <2>1
<1>4. e = 4 \/ e = 5 \/ e = 6 \/ e = 7
  BY <1>2, <1>3
<1>5. PICK j \in 0 .. 3 : e = 4 + j
  BY <1>4
<1>6. e % 4 = j
  BY <1>4, <1>5
<1>7. (5 + j) * P = e * P + P
  BY <1>4, <1>5
<1> QED
  BY <1>1, <1>5, <1>6, <1>7

\* Each class but the first small ones is one of four between two powers.
LEMMA ClassSplit ==
  ASSUME NEW c \in 9 .. 68
  PROVE  \E b \in 3 .. 17, j \in 0 .. 3 : c = 4 * b - 3 + j
<1>1. PICK b \in 3 .. 17 : 4 * b - 3 <= c /\ c < 4 * b + 1
  <2>1. (c + 3) \div 4 \in 3 .. 17 /\ 4 * ((c + 3) \div 4) <= c + 3 /\ c + 3 < 4 * ((c + 3) \div 4) + 4
    OBVIOUS
  <2> QED
    BY <2>1
<1> QED
  BY <1>1

\* The bounds of such a class.
LEMMA BoundsAre ==
  ASSUME NEW b \in 3 .. 17, NEW j \in 0 .. 3, NEW P, P = Quarter(b)
  PROVE  /\ P \in Nat \ {0} /\ Power(b) = 4 * P /\ Power(b + 1) = 8 * P
         /\ Low(4 * b - 3 + j) = (4 + j) * P
         /\ BinSize(4 * b - 3 + j) = (5 + j) * P
         /\ BinSize(4 * b - 3 + j) % 2 = 0
<1>1. /\ P \in Nat \ {0} /\ P % 2 = 0 /\ Power(b) = 4 * P /\ Power(b + 1) = 8 * P
      /\ BinTable[4 * b - 3] = 4 * P /\ BinTable[4 * b - 2] = 5 * P /\ BinTable[4 * b - 1] = 6 * P
      /\ BinTable[4 * b] = 7 * P /\ BinTable[4 * b + 1] = 8 * P
  BY LargeTable
<1>2. PICK c : c = 4 * b - 3 + j
  OBVIOUS
<1>3. c \in 9 .. 68 /\ Low(c) = BinTable[c] /\ BinSize(c) = BinTable[c + 1]
  BY <1>2 DEF Low, BinSize, BIN_HUGE
<1>4. j = 0 \/ j = 1 \/ j = 2 \/ j = 3
  OBVIOUS
<1>5. BinTable[c] = (4 + j) * P /\ BinTable[c + 1] = (5 + j) * P
  BY <1>1, <1>2, <1>4
<1>6. ((5 + j) * P) % 2 = 0
  <2>1. PICK k \in Nat : P = 2 * k
    BY <1>1
  <2>2. (5 + j) * P = 2 * ((5 + j) * k)
    BY <1>4, <2>1
  <2>3. (5 + j) * k \in Nat
    BY <1>4, <2>1
  <2> QED
    BY <2>2, <2>3
<1> QED
  BY <1>1, <1>2, <1>3, <1>5, <1>6

\* The bounds of the small classes.
LEMMA SmallBounds ==
  /\ Low(1) = 0 /\ Low(2) = 1 /\ Low(4) = 2 /\ Low(6) = 4 /\ Low(8) = 6
  /\ \A b \in 0 .. 8 : BinSize(b) = IF b = 0 THEN 1 ELSE b
<1>1. ASSUME NEW b \in 1 .. 8
      PROVE  BinSize(b) = b
  <2>1. BinSize(b) = BinTable[b + 1] /\ b + 1 \in 2 .. 9
    BY DEF BinSize, BIN_HUGE
  <2> QED
    BY <2>1, SmallTable
<1>2. BinSize(0) = 1
  BY SmallTable DEF BinSize, BIN_HUGE
<1> QED
  BY <1>1, <1>2 DEF Low

\* The classes of sizes are 1 to 68.
LEMMA ClassTypes ==
  ASSUME NEW c \in Class
  PROVE  /\ c \in 1 .. 68 /\ Low(c) \in Nat /\ BinSize(c) \in Nat \ {0} /\ Low(c) < BinSize(c)
         /\ BinSize(c) % 2 = 0 \/ c = 1
<1>1. CASE c \in {1, 2, 4, 6, 8}
  BY <1>1, SmallBounds
<1>2. CASE c \in 9 .. 68
  <2>1. PICK b \in 3 .. 17, j \in 0 .. 3 : c = 4 * b - 3 + j
    BY <1>2, ClassSplit
  <2>2. PICK P : P = Quarter(b)
    OBVIOUS
  <2>3. P \in Nat \ {0} /\ Low(c) = (4 + j) * P /\ BinSize(c) = (5 + j) * P /\ BinSize(c) % 2 = 0
    BY <2>1, <2>2, BoundsAre
  <2>4. (5 + j) * P = (4 + j) * P + P /\ (4 + j) * P \in Nat
    BY <2>3
  <2> QED
    BY <1>2, <2>3, <2>4
<1> QED
  BY <1>1, <1>2 DEF Class

\* Classes follow one another without a gap.
LEMMA ClassOrder ==
  ASSUME NEW c \in Class, NEW d \in Class, c < d
  PROVE  BinSize(c) <= Low(d)
<1>1. CASE d \in {1, 2, 4, 6, 8}
  BY <1>1, SmallBounds DEF Class
<1>2. CASE d \in 9 .. 68
  <2>1. PICK b \in 3 .. 17, j \in 0 .. 3 : d = 4 * b - 3 + j
    BY <1>2, ClassSplit
  <2>2. PICK P : P = Quarter(b)
    OBVIOUS
  <2>3. P \in Nat \ {0} /\ Low(d) = (4 + j) * P /\ Power(b) = 4 * P
    BY <2>1, <2>2, BoundsAre
  <2>4. 4 * P <= (4 + j) * P
    BY <2>3
  <2>5. 8 <= 4 * P
    BY <2>3, PowerIs, PowerGrows DEF Power
  <2>6. CASE c \in {1, 2, 4, 6, 8}
    BY <2>3, <2>4, <2>5, <2>6, SmallBounds
  <2>7. CASE c \in 9 .. 68
    <3>1. PICK a \in 3 .. 17, i \in 0 .. 3 : c = 4 * a - 3 + i
      BY <2>7, ClassSplit
    <3>2. PICK R : R = Quarter(a)
      OBVIOUS
    <3>3. R \in Nat \ {0} /\ BinSize(c) = (5 + i) * R /\ Power(a + 1) = 8 * R
      BY <3>1, <3>2, BoundsAre
    <3>4. CASE a = b
      <4>1. 5 + i <= 4 + j /\ R = P
        BY <2>1, <2>2, <3>1, <3>2, <3>4
      <4>2. (5 + i) * P <= (4 + j) * P
        BY <2>3, <4>1, Z3
      <4> QED
        BY <2>3, <3>3, <4>1, <4>2
    <3>5. CASE a # b
      <4>1. a + 1 <= b
        BY <2>1, <3>1, <3>5
      <4>2. 8 * R <= 4 * P
        BY <2>3, <3>3, <4>1, PowerGrows
      <4>3. (5 + i) * R <= 8 * R
        BY <3>3
      <4>4. (5 + i) * R \in Nat /\ (4 + j) * P \in Nat
        BY <2>3, <3>3
      <4> QED
        BY <2>3, <2>4, <3>3, <4>2, <4>3, <4>4
    <3> QED
      BY <3>4, <3>5
  <2> QED
    BY <2>6, <2>7 DEF Class
<1> QED
  BY <1>1, <1>2 DEF Class

\* The class that _mi_bin finds holds the size, and the one below does not.
LEMMA BinHolds ==
  ASSUME NEW w \in 1 .. LargeMax
  PROVE  Bin(w) \in Class /\ Low(Bin(w)) < w /\ w <= BinSize(Bin(w))
<1>1. CASE w <= 8
  <2>1. w = 1 \/ w = 2 \/ w = 3 \/ w = 4 \/ w = 5 \/ w = 6 \/ w = 7 \/ w = 8
    BY <1>1
  <2>2. Bin(w) = IF w <= 1 THEN 1 ELSE 2 * ((w + 1) \div 2)
    BY <1>1 DEF Bin
  <2>3. Bin(w) = IF w <= 2 THEN w ELSE IF w <= 4 THEN 4 ELSE IF w <= 6 THEN 6 ELSE 8
    BY <2>1, <2>2
  <2> QED
    BY <2>1, <2>3, SmallBounds DEF Class
<1>2. CASE w > 8
  <2>1. PICK x \in Nat : x = w - 1 /\ 8 <= x /\ x < 262144
    BY <1>2, SizeAssumption
  <2>2. PICK b \in 3 .. 17 : Power(b) <= x /\ x < Power(b + 1)
    BY <2>1, PowerIs, SMT DEF Power
  <2>3. Bsr(x) = b
    BY <2>1, <2>2, BsrIs
  <2>4. PICK P : P = Quarter(b)
    OBVIOUS
  <2>5. P \in Nat \ {0} /\ 4 * P <= x /\ x < 8 * P
    BY <2>2, <2>4, BoundsAre
  <2>6. PICK j \in 0 .. 3 : (x \div P) % 4 = j /\ (4 + j) * P <= x /\ x < (5 + j) * P
    BY <2>1, <2>5, QuarterIs
  <2>7. Bin(w) = 4 * b + j - 3
    <3>1. Bin(w) = 4 * Bsr(w - 1) + (((w - 1) \div 2 ^ (Bsr(w - 1) - 2)) % 4) - 3
      BY <1>2, SizeAssumption DEF Bin
    <3>2. w - 1 = x /\ 2 ^ (b - 2) = P
      BY <2>1, <2>4 DEF Quarter
    <3> QED
      BY <2>3, <2>6, <3>1, <3>2
  <2>8. PICK c : c = 4 * b - 3 + j
    OBVIOUS
  <2>9. Bin(w) = c /\ c \in 9 .. 68
    BY <2>7, <2>8
  <2>10. Low(c) = (4 + j) * P /\ BinSize(c) = (5 + j) * P
    BY <2>4, <2>8, BoundsAre
  <2>11. Low(c) < w /\ w <= BinSize(c)
    <3>1. (4 + j) * P \in Nat /\ (5 + j) * P \in Nat
      BY <2>5
    <3> QED
      BY <2>1, <2>6, <2>10, <3>1
  <2> QED
    BY <2>9, <2>11 DEF Class
<1> QED
  BY <1>1, <1>2

\* A size between the bounds of a class has that class.
LEMMA BinOf ==
  ASSUME NEW c \in Class, NEW w \in 1 .. LargeMax, Low(c) < w, w <= BinSize(c)
  PROVE  Bin(w) = c
<1>1. PICK d \in Class : d = Bin(w) /\ Low(d) < w /\ w <= BinSize(d)
  BY BinHolds
<1>2. ~(c < d)
  <2>1. SUFFICES ASSUME c < d
                 PROVE  FALSE
    OBVIOUS
  <2>2. BinSize(c) <= Low(d)
    BY <2>1, ClassOrder
  <2> QED
    BY <1>1, <2>2, ClassTypes, SizeAssumption
<1>3. ~(d < c)
  <2>1. SUFFICES ASSUME d < c
                 PROVE  FALSE
    OBVIOUS
  <2>2. BinSize(d) <= Low(c)
    BY <2>1, ClassOrder
  <2> QED
    BY <1>1, <2>2, ClassTypes, SizeAssumption
<1> QED
  BY <1>1, <1>2, <1>3, ClassTypes

\* The largest small and large sizes fill their classes.
LEMMA ClassFilled ==
  ASSUME NEW m \in {SmallMax, LargeMax}
  PROVE  m \in 1 .. LargeMax /\ BinSize(Bin(m)) = m
<1>1. m \in 1 .. LargeMax
  BY SizeAssumption
<1>2. PICK b \in 1 .. 68 : BinTable[b + 1] = m /\ (b = 1 \/ m % 2 = 0)
  BY ClassAssumption
<1>3. BinSize(b) = m
  BY <1>2 DEF BinSize, BIN_HUGE
<1>4. b \notin {3, 5, 7}
  <2>1. b \in {3, 5, 7} => m = b
    BY <1>3, SmallBounds
  <2> QED
    BY <1>2, <2>1
<1>5. b \in Class
  BY <1>4 DEF Class
<1>6. Low(b) < m /\ m <= BinSize(b)
  BY <1>1, <1>3, <1>5, ClassTypes
<1> QED
  BY <1>1, <1>3, <1>5, <1>6, BinOf

\* Of the sizes up to one that fills its class, the class is no greater, and
\* neither is what it holds.
LEMMA ClassBelow ==
  ASSUME NEW m \in 1 .. LargeMax, BinSize(Bin(m)) = m, NEW w \in 1 .. m
  PROVE  Bin(w) <= Bin(m) /\ BinSize(Bin(w)) \in 1 .. m
<1>1. w \in 1 .. LargeMax /\ m \in Nat
  BY SizeAssumption
<1>2. PICK c \in Class, d \in Class : /\ c = Bin(w) /\ d = Bin(m)
                                      /\ Low(c) < w /\ w <= BinSize(c) /\ Low(d) < m /\ BinSize(d) = m
  BY <1>1, BinHolds
<1>3. c \in Nat /\ d \in Nat /\ Low(c) \in Nat /\ BinSize(c) \in Nat \ {0} /\ Low(d) \in Nat
  BY ClassTypes
<1>4. ~(d < c)
  <2>1. d < c => m <= Low(c)
    BY <1>2, ClassOrder
  <2> QED
    BY <1>1, <1>2, <1>3, <2>1
<1>5. c < d => BinSize(c) <= Low(d)
  BY ClassOrder
<1>6. c = d \/ c < d
  BY <1>3, <1>4
<1> QED
  BY <1>1, <1>2, <1>3, <1>4, <1>5, <1>6

\* The classes that have sizes, and the queues that have pages.
LEMMA ClassesAre ==
  ASSUME NEW w \in 1 .. LargeMax
  PROVE  /\ Bin(w) \in Class \cap Bins /\ BinSize(Bin(w)) \in 1 .. LargeMax
         /\ Bin(BinSize(Bin(w))) = Bin(w)
         /\ w \in 1 .. SmallMax => BinSize(Bin(w)) \in 1 .. SmallMax
<1>1. LargeMax \in 1 .. LargeMax /\ SmallMax \in 1 .. LargeMax
  BY SizeAssumption
<1>2. Bin(w) <= Bin(LargeMax) /\ BinSize(Bin(w)) \in 1 .. LargeMax
  BY <1>1, ClassBelow, ClassFilled
<1>3. w \in 1 .. SmallMax => BinSize(Bin(w)) \in 1 .. SmallMax
  BY <1>1, ClassBelow, ClassFilled
<1>4. PICK c \in Class : c = Bin(w)
  BY BinHolds
<1>5. Bin(BinSize(c)) = c
  <2>1. PICK v \in 1 .. LargeMax : v = BinSize(c)
    BY <1>2, <1>4
  <2>2. Low(c) < v /\ v <= BinSize(c)
    BY <2>1, ClassTypes
  <2> QED
    BY <2>1, <2>2, BinOf
<1>6. c \in Bins
  <2>1. c \in Nat /\ Bin(LargeMax) \in Nat
    BY <1>1, BinHolds, ClassTypes
  <2> QED
    BY <1>2, <1>4, <2>1 DEF Bins
<1> QED
  BY <1>2, <1>3, <1>4, <1>5, <1>6

\* Every size has the smallest class that holds it.
LEMMA TableHolds == ClassTable
<1> DEFINE classes == {b \in Bins : b <= 1 \/ BinTable[b + 1] % 2 = 0}
<1>1. LargeMax \in 1 .. LargeMax
  BY SizeAssumption
<1>2. PICK n \in 1 .. 68 : n = Bin(LargeMax)
  BY <1>1, BinHolds, ClassTypes
<1>3. Bins = 0 .. n
  BY <1>2 DEF Bins
<1>4. \A b \in Bins : BinSize(b) = BinTable[b + 1]
  BY <1>3 DEF BinSize, BIN_HUGE
<1>5. ASSUME NEW b \in classes
      PROVE  b = 0 \/ b \in Class
  <2>1. b \in Bins /\ (b <= 1 \/ BinSize(b) % 2 = 0)
    BY <1>4
  <2>2. CASE b >= 9
    BY <1>3, <2>1, <2>2 DEF Class
  <2>3. CASE b \in 0 .. 8
    <3>1. b > 0 => BinSize(b) = b
      BY <2>3, SmallBounds
    <3>2. b \in {0, 1, 2, 4, 6, 8}
      BY <2>1, <2>3, <3>1
    <3> QED
      BY <3>2 DEF Class
  <2> QED
    BY <1>3, <2>1, <2>2, <2>3
<1>6. ASSUME NEW w \in 1 .. LargeMax
      PROVE  /\ Bin(w) \in classes /\ BinSize(Bin(w)) >= w
             /\ \A b \in classes : BinSize(b) >= w => BinSize(Bin(w)) <= BinSize(b)
  <2>1. PICK c \in Class : /\ c = Bin(w) /\ c \in Bins /\ Low(c) < w /\ w <= BinSize(c)
                           /\ c \in 1 .. 68 /\ BinSize(c) \in Nat
                           /\ BinSize(c) % 2 = 0 \/ c = 1
    BY BinHolds, ClassesAre, ClassTypes
  <2>2. c \in classes
    BY <1>4, <2>1
  <2>3. w \in Nat
    BY SizeAssumption
  <2>4. ASSUME NEW b \in classes, BinSize(b) >= w
        PROVE  BinSize(c) <= BinSize(b)
    <3>1. CASE b = 0
      <4>1. w = 1
        BY <2>3, <2>4, <3>1, SmallBounds
      <4>2. Low(1) < w /\ w <= BinSize(1) /\ 1 \in Class
        BY <4>1, SmallBounds DEF Class
      <4>3. c = 1
        BY <2>1, <4>2, BinOf
      <4> QED
        BY <3>1, <4>3, SmallBounds
    <3>2. CASE b \in Class
      <4>1. b \in Nat /\ BinSize(b) \in Nat /\ Low(b) \in Nat /\ Low(b) <= BinSize(b)
        BY <3>2, ClassTypes
      <4>2. ~(b < c)
        <5>1. b < c => BinSize(b) <= Low(c)
          BY <3>2, ClassOrder
        <5> QED
          BY <2>1, <2>3, <2>4, <4>1, <5>1, ClassTypes
      <4>3. c < b => BinSize(c) <= Low(b)
        BY <3>2, ClassOrder
      <4> QED
        BY <2>1, <4>1, <4>2, <4>3
    <3> QED
      BY <1>5, <3>1, <3>2
  <2> QED
    BY <2>1, <2>2, <2>3, <2>4
<1> QED
  BY <1>6 DEF ClassTable

\* The entries that mi_heap_queue_first_update sets are those of the class.
LEMMA StartIs ==
  ASSUME NEW c \in Class, BinSize(c) \in 1 .. SmallMax
  PROVE  /\ Start(c) \in Nat
         /\ \A w \in 1 .. SmallMax : w \in Start(c) .. BinSize(c) <=> Bin(w) = c
<1> DEFINE idx  == BinSize(c)
           same == {q \in 0 .. c - 1 : \A r \in q .. c - 1 : Bin(BinSize(r)) = Bin(idx)}
           prev == IF same = {} THEN c - 1
                   ELSE LET low == CHOOSE q \in same : \A r \in same : q <= r
                        IN  IF low = 0 THEN 0 ELSE low - 1
<1>1. Start(c) = IF idx <= 1 THEN 0 ELSE IF 1 + BinSize(prev) > idx THEN idx ELSE 1 + BinSize(prev)
  BY DEF Start
<1>2. /\ c \in 1 .. 68 /\ Low(c) \in Nat /\ idx \in Nat \ {0} /\ Low(c) < idx
      /\ SmallMax \in Nat /\ LargeMax \in Nat /\ SmallMax <= LargeMax
  BY ClassTypes, SizeAssumption
<1>3. Bin(idx) = c
  BY <1>2, BinOf
<1>4. Start(c) = IF c = 1 THEN 0 ELSE Low(c) + 1
  <2>1. CASE c = 1
    BY <1>1, <2>1, SmallBounds
  <2>2. CASE c # 1 /\ c - 1 \in Class
    <3>1. BinSize(c - 1) = Low(c)
      <4>1. CASE c = 2
        BY <4>1, SmallBounds
      <4>2. CASE c # 2
        <5>1. c \in 9 .. 68
          BY <2>2, <4>2 DEF Class
        <5> QED
          BY <5>1 DEF Low, BinSize, BIN_HUGE
      <4> QED
        BY <4>1, <4>2
    <3>2. Bin(BinSize(c - 1)) = c - 1
      <4>1. BinSize(c - 1) \in 1 .. LargeMax /\ Low(c - 1) < BinSize(c - 1)
        BY <1>2, <2>2, <3>1, ClassTypes
      <4> QED
        BY <2>2, <4>1, BinOf
    <3>3. same = {}
      <4>1. ASSUME NEW q \in 0 .. c - 1, \A r \in q .. c - 1 : Bin(BinSize(r)) = Bin(idx)
            PROVE  FALSE
        <5>1. c - 1 \in q .. c - 1
          BY <1>2, <4>1
        <5> QED
          BY <1>2, <1>3, <3>2, <4>1, <5>1
      <4> QED
        BY <4>1
    <3>4. prev = c - 1
      BY <3>3
    <3> HIDE DEF same, prev, idx
    <3>5. idx > 1
      BY <1>2, <2>2, <3>1, ClassTypes
    <3> QED
      BY <1>1, <1>2, <2>2, <3>1, <3>4, <3>5
  <2>3. CASE c \in {4, 6, 8}
    <3>1. /\ BinSize(c) = c /\ BinSize(c - 1) = c - 1 /\ BinSize(c - 2) = c - 2 /\ Low(c) = c - 2
          /\ Low(c - 2) < c - 2 /\ c - 2 \in Class
      BY <2>3, SmallBounds DEF Class
    <3>2. Bin(BinSize(c - 1)) = c
      BY <1>2, <2>3, <3>1, BinOf
    <3>3. Bin(BinSize(c - 2)) = c - 2
      BY <1>2, <2>3, <3>1, BinOf
    <3>4. \A q \in 0 .. c - 1 : q \in same <=> q = c - 1
      <4>1. ASSUME NEW q \in 0 .. c - 1, q # c - 1, q \in same
            PROVE  FALSE
        <5>1. c - 2 \in q .. c - 1
          BY <2>3, <4>1
        <5> QED
          BY <1>3, <2>3, <3>3, <4>1, <5>1
      <4>2. c - 1 \in same
        <5>1. \A r \in c - 1 .. c - 1 : r = c - 1
          BY <2>3
        <5> QED
          BY <1>2, <1>3, <3>2, <5>1
      <4> QED
        BY <4>1, <4>2
    <3>5. same = {c - 1}
      <4>1. \A q \in same : q \in 0 .. c - 1
        OBVIOUS
      <4>2. c - 1 \in 0 .. c - 1
        BY <2>3
      <4> QED
        BY <3>4, <4>1, <4>2
    <3> HIDE DEF same
    <3>6. prev = c - 2
      <4>1. (CHOOSE q \in same : \A r \in same : q <= r) = c - 1
        BY <2>3, <3>5
      <4> QED
        BY <2>3, <3>5, <4>1
    <3> HIDE DEF prev
    <3> QED
      BY <1>1, <2>3, <3>1, <3>6
  <2>4. c = 1 \/ c - 1 \in Class \/ c \in {4, 6, 8}
    BY DEF Class
  <2> QED
    BY <2>1, <2>2, <2>3, <2>4
<1>5. ASSUME NEW w \in 1 .. SmallMax
      PROVE  w \in Start(c) .. BinSize(c) <=> Bin(w) = c
  <2>1. w \in 1 .. LargeMax
    BY <1>2
  <2>2. Bin(w) = c => Low(c) < w /\ w <= BinSize(c)
    BY <2>1, BinHolds
  <2>3. Low(c) < w /\ w <= BinSize(c) => Bin(w) = c
    BY <2>1, BinOf
  <2>4. w \in Start(c) .. BinSize(c) <=> Low(c) < w /\ w <= BinSize(c)
    BY <1>2, <1>4, SmallBounds
  <2> QED
    BY <2>2, <2>3, <2>4
<1> QED
  BY <1>2, <1>4, <1>5

-----------------------------------------------------------------------------
(***************************************************************************)
(* Queues: what the functions of page-queue.c leave in them.               *)
(***************************************************************************)

Has(q, p) == \E i \in DOMAIN q : q[i] = p
Once(q)   == \A i, j \in DOMAIN q : q[i] = q[j] => i = j

\* The first page of a queue.
LEMMA FirstIs ==
  ASSUME NEW q \in Seq(Page)
  PROVE  /\ First(q) \in Page \cup {EMPTY}
         /\ First(q) # EMPTY => q # <<>> /\ 1 \in DOMAIN q /\ q[1] = First(q) /\ Has(q, First(q))
         /\ First(q) = EMPTY => q = <<>>
<1>1. CASE q = <<>>
  BY <1>1 DEF First
<1>2. CASE q # <<>>
  <2>1. Len(q) \in Nat /\ DOMAIN q = 1 .. Len(q) /\ Len(q) # 0
    BY <1>2, LenProperties, EmptySeq
  <2>2. 1 \in DOMAIN q
    BY <2>1
  <2>3. q[1] \in Page
    BY <2>2, ElementOfSeq
  <2> QED
    BY <1>2, <2>2, <2>3, PageAssumption DEF First, Has
<1> QED
  BY <1>1, <1>2

\* mi_page_queue_remove unlinks the page and leaves the others in their order.
LEMMA WithoutIs ==
  ASSUME NEW q \in Seq(Page), NEW p \in Page, Has(q, p), Once(q)
  PROVE  /\ Without(q, p) \in Seq(Page) /\ Once(Without(q, p))
         /\ \A x \in Page : Has(Without(q, p), x) <=> Has(q, x) /\ x # p
         /\ First(q) # p => First(Without(q, p)) = First(q)
         /\ q[1] = p => First(Without(q, p)) = IF Len(q) = 1 THEN EMPTY ELSE q[2]
<1>1. PICK n \in Nat : n = Len(q) /\ DOMAIN q = 1 .. n
  BY LenProperties
<1>2. PICK i \in 1 .. n : q[i] = p /\ \A j \in 1 .. n : q[j] = p => j = i
  BY <1>1 DEF Has, Once
<1>3. PICK a, b, r : /\ a = SubSeq(q, 1, i - 1) /\ b = SubSeq(q, i + 1, n) /\ r = a \o b
                     /\ Without(q, p) = r
  <2>1. (CHOOSE j \in DOMAIN q : q[j] = p) = i
    BY <1>1, <1>2
  <2>2. ~ \A j \in DOMAIN q : q[j] # p
    BY <1>1, <1>2
  <2>3. Without(q, p) = SubSeq(q, 1, i - 1) \o SubSeq(q, i + 1, Len(q))
    BY <2>1, <2>2, Zenon DEF Without
  <2> QED
    BY <1>1, <2>3
<1>4. a \in Seq(Page) /\ Len(a) = i - 1 /\ \A k \in 1 .. i - 1 : a[k] = q[k]
  <2>1. \A k \in 1 .. i - 1 : q[k] \in Page
    BY <1>1, ElementOfSeq
  <2> QED
    BY <1>1, <1>3, <2>1, SubSeqProperties
<1>5. b \in Seq(Page) /\ Len(b) = n - i /\ \A k \in 1 .. n - i : b[k] = q[i + k]
  <2>1. \A k \in i + 1 .. n : q[k] \in Page
    BY <1>1, ElementOfSeq
  <2>2. i + 1 \in Int /\ n \in Int
    BY <1>1
  <2>3. /\ b \in Seq(Page) /\ Len(b) = IF i + 1 <= n THEN n - (i + 1) + 1 ELSE 0
        /\ \A k \in 1 .. n - (i + 1) + 1 : b[k] = q[(i + 1) + k - 1]
    BY <1>3, <2>1, <2>2, SubSeqProperties
  <2>4. n - (i + 1) + 1 = n - i /\ \A k \in 1 .. n - i : (i + 1) + k - 1 = i + k
    BY <1>1
  <2> QED
    BY <1>1, <2>3, <2>4
<1>6. /\ r \in Seq(Page) /\ Len(r) = n - 1 /\ DOMAIN r = 1 .. n - 1
      /\ \A k \in 1 .. n - 1 : r[k] = IF k < i THEN q[k] ELSE q[k + 1]
  <2>1. /\ r \in Seq(Page) /\ Len(r) = Len(a) + Len(b)
        /\ \A k \in 1 .. Len(a) + Len(b) : r[k] = IF k <= Len(a) THEN a[k] ELSE b[k - Len(a)]
    BY <1>3, <1>4, <1>5, ConcatProperties
  <2>2. Len(r) = n - 1 /\ DOMAIN r = 1 .. n - 1
    BY <1>1, <1>4, <1>5, <2>1, LenProperties
  <2>3. ASSUME NEW k \in 1 .. n - 1
        PROVE  r[k] = IF k < i THEN q[k] ELSE q[k + 1]
    <3>1. CASE k < i
      <4>1. k \in 1 .. i - 1
        BY <1>1, <3>1
      <4>2. k \in 1 .. Len(a) + Len(b) /\ k <= Len(a)
        BY <1>1, <1>4, <1>5, <4>1
      <4>3. r[k] = a[k]
        BY <2>1, <4>2
      <4>4. a[k] = q[k]
        BY <1>4, <4>1
      <4> QED
        BY <3>1, <4>3, <4>4
    <3>2. CASE ~(k < i)
      <4>1. k - (i - 1) \in 1 .. n - i /\ i + (k - (i - 1)) = k + 1
        BY <1>1, <3>2
      <4>2. r[k] = b[k - (i - 1)]
        <5>1. k \in 1 .. Len(a) + Len(b) /\ ~(k <= Len(a))
          BY <1>1, <1>4, <1>5, <3>2
        <5> QED
          BY <1>4, <2>1, <5>1
      <4>3. b[k - (i - 1)] = q[i + (k - (i - 1))]
        BY <1>5, <4>1
      <4> QED
        BY <3>2, <4>1, <4>2, <4>3
    <3> QED
      BY <3>1, <3>2
  <2> QED
    BY <2>1, <2>2, <2>3
<1>7. Once(r)
  <2>1. SUFFICES ASSUME NEW k \in 1 .. n - 1, NEW l \in 1 .. n - 1, r[k] = r[l]
                 PROVE  k = l
    BY <1>6 DEF Once
  <2>2. PICK x \in 1 .. n, y \in 1 .. n : /\ x = IF k < i THEN k ELSE k + 1
                                          /\ y = IF l < i THEN l ELSE l + 1
    BY <1>1
  <2>3. r[k] = q[x] /\ r[l] = q[y]
    BY <1>6, <2>2
  <2>4. x = y
    <3>1. q[x] = q[y] /\ x \in DOMAIN q /\ y \in DOMAIN q
      BY <1>1, <2>1, <2>3
    <3> QED
      BY <3>1 DEF Once
  <2> QED
    BY <1>1, <2>2, <2>4
<1>8. ASSUME NEW x \in Page
      PROVE  Has(r, x) <=> Has(q, x) /\ x # p
  <2>1. ASSUME NEW k \in 1 .. n - 1, r[k] = x
        PROVE  Has(q, x) /\ x # p
    <3>1. PICK y \in 1 .. n : y = IF k < i THEN k ELSE k + 1
      BY <1>1
    <3>2. y # i /\ q[y] = x
      BY <1>1, <1>6, <2>1, <3>1
    <3> QED
      BY <1>1, <1>2, <3>2 DEF Has
  <2>2. ASSUME NEW y \in 1 .. n, q[y] = x, x # p
        PROVE  Has(r, x)
    <3>1. y # i
      BY <1>2, <2>2
    <3>2. PICK k \in 1 .. n - 1 : y = IF k < i THEN k ELSE k + 1
      <4>1. CASE y < i
        <5>1. y \in 1 .. n - 1 /\ y = IF y < i THEN y ELSE y + 1
          BY <1>1, <4>1
        <5> QED
          BY <5>1, Zenon
      <4>2. CASE y > i
        <5>1. PICK k \in 1 .. n - 1 : k = y - 1
          BY <1>1, <4>2
        <5>2. y = IF k < i THEN k ELSE k + 1
          BY <1>1, <4>2, <5>1
        <5> QED
          BY <5>2
      <4> QED
        BY <1>1, <3>1, <4>1, <4>2
    <3>3. r[k] = x
      BY <1>6, <2>2, <3>2
    <3> QED
      BY <1>6, <3>3 DEF Has
  <2> QED
    BY <1>1, <1>6, <2>1, <2>2 DEF Has
<1>9. First(q) # p => First(r) = First(q)
  <2>1. SUFFICES ASSUME First(q) # p
                 PROVE  First(r) = First(q)
    OBVIOUS
  <2>2. q # <<>> /\ First(q) = q[1]
    BY <1>1, <1>2, EmptySeq DEF First
  <2>3. i # 1
    BY <1>2, <2>1, <2>2
  <2>4. r[1] = q[1] /\ 1 \in 1 .. n - 1
    BY <1>1, <1>6, <2>3
  <2>5. r # <<>>
    BY <1>6, <2>4, EmptySeq
  <2> QED
    BY <2>2, <2>4, <2>5 DEF First
<1>10. q[1] = p => First(r) = IF Len(q) = 1 THEN EMPTY ELSE q[2]
  <2>1. SUFFICES ASSUME q[1] = p
                 PROVE  First(r) = IF n = 1 THEN EMPTY ELSE q[2]
    BY <1>1
  <2>2. i = 1
    BY <1>1, <1>2, <2>1
  <2>3. CASE n = 1
    <3>1. r = <<>>
      BY <1>6, <2>3, EmptySeq
    <3> QED
      BY <2>3, <3>1 DEF First
  <2>4. CASE n # 1
    <3>1. 1 \in 1 .. n - 1
      BY <1>1, <2>4
    <3>2. r[1] = q[2] /\ r # <<>>
      BY <1>6, <2>2, <3>1, EmptySeq
    <3> QED
      BY <2>4, <3>2 DEF First
  <2> QED
    BY <2>3, <2>4
<1> QED
  BY <1>3, <1>6, <1>7, <1>8, <1>9, <1>10

\* A page is pushed at the front.
LEMMA PushedIs ==
  ASSUME NEW q \in Seq(Page), NEW p \in Page, ~Has(q, p), Once(q)
  PROVE  /\ <<p>> \o q \in Seq(Page) /\ Once(<<p>> \o q) /\ First(<<p>> \o q) = p
         /\ \A x \in Page : Has(<<p>> \o q, x) <=> Has(q, x) \/ x = p
<1>1. PICK n \in Nat : n = Len(q) /\ DOMAIN q = 1 .. n
  BY LenProperties
<1>2. PICK a : a = <<p>> /\ a \in Seq(Page) /\ Len(a) = 1 /\ a[1] = p
  <2>1. <<p>> \in Seq(Page) /\ Len(<<p>>) = 1 /\ <<p>>[1] = p
    OBVIOUS
  <2> QED
    BY <2>1, Zenon
<1>3. PICK r : r = a \o q
  OBVIOUS
<1>4. /\ r \in Seq(Page) /\ DOMAIN r = 1 .. n + 1 /\ Len(r) = n + 1 /\ r[1] = p
      /\ \A k \in 2 .. n + 1 : r[k] = q[k - 1]
  <2>1. /\ r \in Seq(Page) /\ Len(r) = 1 + n
        /\ \A k \in 1 .. 1 + n : r[k] = IF k <= 1 THEN a[k] ELSE q[k - 1]
    BY <1>1, <1>2, <1>3, ConcatProperties
  <2> QED
    BY <1>2, <2>1, LenProperties
<1>5. r # <<>>
  BY <1>4, EmptySeq
<1>6. Once(r)
  <2>1. SUFFICES ASSUME NEW k \in 1 .. n + 1, NEW l \in 1 .. n + 1, r[k] = r[l], k # l
                 PROVE  FALSE
    BY <1>4 DEF Once
  <2>2. CASE k = 1 \/ l = 1
    <3>1. PICK m \in 2 .. n + 1 : r[m] = p
      <4>1. CASE k = 1
        <5>1. l \in 2 .. n + 1 /\ r[l] = p
          BY <1>4, <2>1, <4>1
        <5> QED
          BY <5>1
      <4>2. CASE l = 1
        <5>1. k \in 2 .. n + 1 /\ r[k] = p
          BY <1>4, <2>1, <4>2
        <5> QED
          BY <5>1
      <4> QED
        BY <2>2, <4>1, <4>2
    <3>2. m - 1 \in DOMAIN q /\ q[m - 1] = p
      BY <1>1, <1>4, <3>1
    <3> QED
      BY <3>2 DEF Has
  <2>3. CASE k # 1 /\ l # 1
    <3>1. k - 1 \in 1 .. n /\ l - 1 \in 1 .. n /\ q[k - 1] = q[l - 1]
      BY <1>1, <1>4, <2>1, <2>3
    <3> QED
      BY <1>1, <2>1, <3>1 DEF Once
  <2> QED
    BY <2>2, <2>3
<1>7. ASSUME NEW x \in Page
      PROVE  Has(r, x) <=> Has(q, x) \/ x = p
  <2>1. Has(r, x) => Has(q, x) \/ x = p
    <3>1. SUFFICES ASSUME NEW k \in 1 .. n + 1, r[k] = x, x # p
                   PROVE  Has(q, x)
      BY <1>4 DEF Has
    <3>2. k - 1 \in 1 .. n /\ q[k - 1] = x
      BY <1>1, <1>4, <3>1
    <3> QED
      BY <1>1, <3>2 DEF Has
  <2>2. Has(q, x) => Has(r, x)
    <3>1. SUFFICES ASSUME NEW k \in 1 .. n, q[k] = x
                   PROVE  Has(r, x)
      BY <1>1 DEF Has
    <3>2. k + 1 \in 2 .. n + 1 /\ (k + 1) - 1 = k
      BY <1>1
    <3>3. k + 1 \in DOMAIN r /\ r[k + 1] = x
      BY <1>4, <3>1, <3>2
    <3> QED
      BY <3>3 DEF Has
  <2>3. x = p => Has(r, x)
    BY <1>1, <1>4 DEF Has
  <2> QED
    BY <2>1, <2>2, <2>3
<1> QED
  BY <1>2, <1>3, <1>4, <1>5, <1>6, <1>7 DEF First

\* A page is enqueued at the end.
LEMMA AppendedIs ==
  ASSUME NEW q \in Seq(Page), NEW p \in Page, ~Has(q, p), Once(q)
  PROVE  /\ Append(q, p) \in Seq(Page) /\ Once(Append(q, p))
         /\ First(Append(q, p)) = IF q = <<>> THEN p ELSE First(q)
         /\ \A x \in Page : Has(Append(q, p), x) <=> Has(q, x) \/ x = p
<1>1. PICK n \in Nat : n = Len(q) /\ DOMAIN q = 1 .. n
  BY LenProperties
<1>2. PICK r : r = Append(q, p)
  OBVIOUS
<1>3. /\ r \in Seq(Page) /\ DOMAIN r = 1 .. n + 1 /\ Len(r) = n + 1 /\ r[n + 1] = p
      /\ \A k \in 1 .. n : r[k] = q[k]
  BY <1>1, <1>2, AppendProperties, LenProperties
<1>4. First(r) = IF q = <<>> THEN p ELSE First(q)
  <2>1. r # <<>>
    BY <1>3, EmptySeq
  <2>2. CASE q = <<>>
    BY <1>1, <1>3, <2>1, <2>2, EmptySeq DEF First
  <2>3. CASE q # <<>>
    <3>1. 1 \in 1 .. n
      BY <1>1, <2>3, EmptySeq
    <3> QED
      BY <1>3, <2>1, <2>3, <3>1 DEF First
  <2> QED
    BY <2>2, <2>3
<1>5. Once(r)
  <2>1. SUFFICES ASSUME NEW k \in 1 .. n + 1, NEW l \in 1 .. n + 1, r[k] = r[l], k # l
                 PROVE  FALSE
    BY <1>3 DEF Once
  <2>2. k \in 1 .. n \/ k = n + 1
    BY <1>1
  <2>3. l \in 1 .. n \/ l = n + 1
    BY <1>1
  <2>4. \A m \in 1 .. n : r[m] # p
    BY <1>1, <1>3 DEF Has
  <2> QED
    BY <1>1, <1>3, <2>1, <2>2, <2>3, <2>4 DEF Once
<1>6. ASSUME NEW x \in Page
      PROVE  Has(r, x) <=> Has(q, x) \/ x = p
  <2>1. \A k \in 1 .. n + 1 : k \in 1 .. n \/ k = n + 1
    BY <1>1
  <2>2. \A k \in 1 .. n : k \in 1 .. n + 1
    BY <1>1
  <2>3. n + 1 \in 1 .. n + 1
    BY <1>1
  <2> QED
    BY <1>1, <1>3, <2>1, <2>2, <2>3 DEF Has
<1> QED
  BY <1>2, <1>3, <1>4, <1>5, <1>6

-----------------------------------------------------------------------------
(***************************************************************************)
(* The functions of page-queue.c on the heap: the array of first pages is  *)
(* exact again after each of them.                                         *)
(***************************************************************************)

HeapRec == [queue : [Queues -> Seq(Page)], direct : [0 .. SmallMax + Padding -> Page \cup {EMPTY}], count : Int]

\* the queues that have pages: of the classes with sizes, and the full queue
HeapQueue == (Class \cap Bins) \cup {BIN_FULL}

\* the array is exact but for class b, whose entries are the same; the entry for
\* the padding of the largest small size is not used
ExactBut(h, b) ==
  /\ \A w \in 1 .. SmallMax : Bin(w) # b => h.direct[w] = First(h.queue[Bin(w)])
  /\ \A v, w \in 1 .. SmallMax : Bin(v) = b /\ Bin(w) = b => h.direct[v] = h.direct[w]
  /\ \A w \in SmallMax + 1 .. SmallMax + Padding : h.direct[w] = EMPTY
Exact(h) ==
  /\ \A w \in 1 .. SmallMax : h.direct[w] = First(h.queue[Bin(w)])
  /\ \A w \in SmallMax + 1 .. SmallMax + Padding : h.direct[w] = EMPTY

\* The sizes at which the code makes a difference.
LEMMA SizeFacts ==
  SmallMax \in Nat \ {0} /\ LargeMax \in Nat \ {0} /\ SmallMax <= LargeMax /\ Padding \in {0, 1}
BY SizeAssumption, SMT

\* The classes of sizes have queues, and none of them is the full queue.
LEMMA QueueFacts ==
  /\ HeapQueue \subseteq Queues /\ BIN_FULL = 74 /\ BIN_FULL \in HeapQueue /\ BIN_FULL \notin Class
  /\ \A w \in 1 .. LargeMax : Bin(w) \in HeapQueue /\ Bin(w) # BIN_FULL
  /\ \A b \in Bins : b \in 0 .. 68
  /\ \A b \in HeapQueue : b \in 0 .. BIN_FULL /\ (b # BIN_FULL => b \in Class /\ b \in Bins)
<1>1. BIN_FULL = 74 /\ BIN_FULL \notin Class
  BY DEF BIN_FULL, Class
<1>2. \A w \in 1 .. LargeMax : Bin(w) \in Class \cap Bins
  BY ClassesAre
<1>3. \A b \in Class : b \in 1 .. 68
  BY ClassTypes
<1>4. \A b \in Bins : b \in 0 .. 68
  <2>1. Bin(LargeMax) \in 1 .. 68
    BY <1>2, <1>3, SizeFacts
  <2> QED
    BY <2>1 DEF Bins
<1> QED
  BY <1>1, <1>2, <1>3, <1>4 DEF HeapQueue, Queues

\* The sizes of the classes that the array serves, and which entry is theirs.
LEMMA SizeOfQueue ==
  ASSUME NEW b \in HeapQueue, ~(BinSize(b) > SmallMax)
  PROVE  b \in Class /\ BinSize(b) \in 1 .. SmallMax /\ Bin(BinSize(b)) = b
<1>1. b # BIN_FULL
  <2>1. BinSize(BIN_FULL) = LargeMax + (BIN_FULL - BIN_HUGE) + 1
    BY DEF BinSize, BIN_HUGE, BIN_FULL
  <2>2. BinSize(BIN_FULL) > SmallMax
    BY <2>1, SizeFacts, SMT DEF BIN_HUGE, BIN_FULL
  <2> QED
    BY <2>2
<1>2. b \in Class
  BY <1>1, QueueFacts
<1>3. PICK s \in Nat \ {0} : s = BinSize(b) /\ Low(b) < s
  BY <1>2, ClassTypes
<1>4. s \in 1 .. SmallMax /\ s \in 1 .. LargeMax
  BY <1>3, SizeFacts
<1>5. Bin(s) = b
  <2>1. s <= BinSize(b)
    BY <1>3
  <2> QED
    BY <1>2, <1>3, <1>4, <2>1, BinOf
<1> QED
  BY <1>2, <1>3, <1>4, <1>5

\* mi_heap_queue_first_update makes the array exact.
LEMMA UpdateIs ==
  ASSUME NEW h \in HeapRec, NEW b \in HeapQueue, ExactBut(h, b)
  PROVE  /\ FirstUpdate(h, b) \in HeapRec /\ Exact(FirstUpdate(h, b))
         /\ FirstUpdate(h, b).queue = h.queue /\ FirstUpdate(h, b).count = h.count
<1>1. ASSUME NEW w \in 1 .. SmallMax
      PROVE  w \in 1 .. LargeMax /\ BinSize(Bin(w)) \in 1 .. SmallMax /\ w \in 0 .. SmallMax + Padding
  <2>1. w \in 1 .. LargeMax /\ w \in 0 .. SmallMax + Padding
    BY SizeFacts
  <2> QED
    BY <2>1, ClassesAre
<1>2. CASE BinSize(b) > SmallMax
  <2>1. FirstUpdate(h, b) = h
    BY <1>2 DEF FirstUpdate
  <2>2. \A w \in 1 .. SmallMax : Bin(w) # b
    BY <1>1, <1>2, SizeFacts
  <2>3. Exact(h)
    BY <2>2 DEF Exact, ExactBut
  <2> QED
    BY <2>1, <2>3
<1>3. CASE ~(BinSize(b) > SmallMax) /\ h.direct[BinSize(b)] = First(h.queue[b])
  <2>1. FirstUpdate(h, b) = h
    BY <1>3 DEF FirstUpdate
  <2>2. BinSize(b) \in 1 .. SmallMax /\ Bin(BinSize(b)) = b
    BY <1>3, SizeOfQueue
  <2>3. \A w \in 1 .. SmallMax : Bin(w) = b => h.direct[w] = First(h.queue[b])
    BY <1>3, <2>2 DEF ExactBut
  <2>4. Exact(h)
    BY <2>3 DEF Exact, ExactBut
  <2> QED
    BY <2>1, <2>4
<1>4. CASE ~(BinSize(b) > SmallMax) /\ h.direct[BinSize(b)] # First(h.queue[b])
  <2>1. b \in Class /\ BinSize(b) \in 1 .. SmallMax /\ b \in Queues
    BY <1>4, SizeOfQueue, QueueFacts
  <2>2. PICK f : f = First(h.queue[b])
    OBVIOUS
  <2>3. f \in Page \cup {EMPTY}
    BY <2>1, <2>2, FirstIs DEF HeapRec
  <2>4. DOMAIN h.direct = 0 .. SmallMax + Padding
    BY DEF HeapRec
  <2>5. PICK d : d = [w \in 0 .. SmallMax + Padding |->
                        IF w \in Start(b) .. BinSize(b) THEN f ELSE h.direct[w]]
    OBVIOUS
  <2>6. FirstUpdate(h, b) = [h EXCEPT !.direct = d]
    BY <1>4, <2>2, <2>4, <2>5 DEF FirstUpdate
  <2>7. d \in [0 .. SmallMax + Padding -> Page \cup {EMPTY}]
    BY <2>3, <2>5 DEF HeapRec
  <2>8. PICK r : r = [h EXCEPT !.direct = d]
    OBVIOUS
  <2>9. r \in HeapRec /\ r.direct = d /\ r.queue = h.queue /\ r.count = h.count
    BY <2>7, <2>8 DEF HeapRec
  <2>10. ASSUME NEW w \in 1 .. SmallMax
         PROVE  d[w] = First(h.queue[Bin(w)])
    <3>1. w \in Start(b) .. BinSize(b) <=> Bin(w) = b
      BY <2>1, StartIs
    <3>2. d[w] = IF Bin(w) = b THEN f ELSE h.direct[w]
      BY <1>1, <2>5, <3>1
    <3> QED
      BY <2>2, <3>2 DEF ExactBut
  <2>11. ASSUME NEW w \in SmallMax + 1 .. SmallMax + Padding
         PROVE  d[w] = EMPTY
    <3>1. w \in 0 .. SmallMax + Padding /\ ~(w \in Start(b) .. BinSize(b))
      BY <2>1, SizeFacts
    <3>2. d[w] = h.direct[w]
      BY <2>5, <3>1
    <3> QED
      BY <3>2 DEF ExactBut
  <2> QED
    BY <2>6, <2>8, <2>9, <2>10, <2>11 DEF Exact
<1> QED
  BY <1>2, <1>3, <1>4

\* A heap whose array is exact, and another queue b in it.
Changed(h, b, q, n) == [h EXCEPT !.queue[b] = q, !.count = n]

\* The array is exact again when the entries of the class that changed have its first page.
LEMMA ExactChanges ==
  ASSUME NEW h \in HeapRec, Exact(h), NEW b \in HeapQueue, NEW q \in Seq(Page), NEW n \in Int,
         NEW r, r = Changed(h, b, q, n)
  PROVE  /\ r \in HeapRec /\ r.queue = [h.queue EXCEPT ![b] = q] /\ r.count = n
         /\ ExactBut(r, b)
         /\ First(q) = First(h.queue[b]) => Exact(r)
<1>2. b \in Queues
  BY QueueFacts
<1>3. /\ r \in HeapRec /\ r.queue = [h.queue EXCEPT ![b] = q] /\ r.count = n /\ r.direct = h.direct
  BY <1>2 DEF HeapRec, Changed
<1>4. \A w \in 1 .. SmallMax : Bin(w) \in Queues
  <2>1. \A w \in 1 .. SmallMax : w \in 1 .. LargeMax
    BY SizeFacts
  <2> QED
    BY <2>1, QueueFacts
<1>5. \A c \in Queues : r.queue[c] = IF c = b THEN q ELSE h.queue[c]
  BY <1>2, <1>3 DEF HeapRec
<1>6. ExactBut(r, b)
  BY <1>3, <1>4, <1>5 DEF Exact, ExactBut
<1>7. First(q) = First(h.queue[b]) => Exact(r)
  BY <1>3, <1>4, <1>5 DEF Exact
<1> QED
  BY <1>3, <1>6, <1>7

\* mi_page_queue_remove
LEMMA RemoveIs ==
  ASSUME NEW h \in HeapRec, Exact(h), NEW b \in HeapQueue, NEW p \in Page,
         Has(h.queue[b], p), Once(h.queue[b])
  PROVE  /\ Remove(h, b, p) \in HeapRec /\ Exact(Remove(h, b, p))
         /\ Remove(h, b, p).queue = [h.queue EXCEPT ![b] = Without(h.queue[b], p)]
         /\ Remove(h, b, p).count = h.count - 1
<1>1. PICK q : q = h.queue[b] /\ q \in Seq(Page)
  BY QueueFacts DEF HeapRec
<1>2. PICK v \in Seq(Page) : v = Without(q, p) /\ (First(q) # p => First(v) = First(q))
  BY <1>1, WithoutIs
<1>3. PICK n \in Int : n = h.count - 1
  BY DEF HeapRec
<1>4. PICK r : r = Changed(h, b, v, n)
  OBVIOUS
<1>5. /\ r \in HeapRec /\ r.queue = [h.queue EXCEPT ![b] = v] /\ r.count = n
      /\ ExactBut(r, b)
      /\ First(v) = First(h.queue[b]) => Exact(r)
  BY <1>2, <1>3, <1>4, ExactChanges
<1>6. r = [h EXCEPT !.queue[b] = Without(@, p), !.count = @ - 1]
  BY <1>1, <1>2, <1>3, <1>4 DEF Changed
<1>7. Remove(h, b, p) = IF First(q) = p THEN FirstUpdate(r, b) ELSE r
  BY <1>1, <1>6 DEF Remove
<1>8. CASE First(q) = p
  <2>1. Remove(h, b, p) = FirstUpdate(r, b)
    BY <1>7, <1>8
  <2>2. /\ FirstUpdate(r, b) \in HeapRec /\ Exact(FirstUpdate(r, b))
        /\ FirstUpdate(r, b).queue = r.queue /\ FirstUpdate(r, b).count = r.count
    BY <1>5, UpdateIs
  <2> QED
    BY <1>1, <1>2, <1>3, <1>5, <2>1, <2>2
<1>9. CASE First(q) # p
  <2>1. Remove(h, b, p) = r
    BY <1>7, <1>9
  <2> QED
    BY <1>1, <1>2, <1>3, <1>5, <1>9, <2>1
<1> QED
  BY <1>8, <1>9

\* mi_page_queue_push
LEMMA PushIs ==
  ASSUME NEW h \in HeapRec, Exact(h), NEW b \in HeapQueue, NEW p \in Page
  PROVE  /\ Push(h, b, p) \in HeapRec /\ Exact(Push(h, b, p))
         /\ Push(h, b, p).queue = [h.queue EXCEPT ![b] = <<p>> \o h.queue[b]]
         /\ Push(h, b, p).count = h.count + 1
<1>1. PICK q : q = h.queue[b] /\ q \in Seq(Page)
  BY QueueFacts DEF HeapRec
<1>2. PICK v \in Seq(Page) : v = <<p>> \o q
  <2>1. <<p>> \in Seq(Page)
    OBVIOUS
  <2>2. <<p>> \o q \in Seq(Page)
    BY <1>1, <2>1, ConcatProperties
  <2> QED
    BY <2>2
<1>3. PICK n \in Int : n = h.count + 1
  BY DEF HeapRec
<1>4. PICK r : r = Changed(h, b, v, n)
  OBVIOUS
<1>5. /\ r \in HeapRec /\ r.queue = [h.queue EXCEPT ![b] = v] /\ r.count = n
      /\ ExactBut(r, b)
      /\ First(v) = First(h.queue[b]) => Exact(r)
  <2>1. v \in Seq(Page)
    BY <1>2
  <2> QED
    BY <1>3, <1>4, <2>1, ExactChanges
<1>6. r = [h EXCEPT !.queue[b] = <<p>> \o @, !.count = @ + 1]
  BY <1>1, <1>2, <1>3, <1>4 DEF Changed
<1>7. Push(h, b, p) = FirstUpdate(r, b)
  BY <1>6 DEF Push
<1>8. /\ FirstUpdate(r, b) \in HeapRec /\ Exact(FirstUpdate(r, b))
      /\ FirstUpdate(r, b).queue = r.queue /\ FirstUpdate(r, b).count = r.count
  BY <1>5, UpdateIs
<1> QED
  BY <1>1, <1>2, <1>3, <1>5, <1>7, <1>8

\* mi_page_queue_enqueue_from
LEMMA EnqueueIs ==
  ASSUME NEW h \in HeapRec, Exact(h), NEW to \in HeapQueue, NEW from \in HeapQueue, to # from,
         NEW p \in Page, Has(h.queue[from], p), Once(h.queue[from]),
         ~Has(h.queue[to], p), Once(h.queue[to])
  PROVE  /\ EnqueueFrom(h, to, from, p) \in HeapRec /\ Exact(EnqueueFrom(h, to, from, p))
         /\ EnqueueFrom(h, to, from, p).queue =
              [h.queue EXCEPT ![from] = Without(h.queue[from], p), ![to] = Append(h.queue[to], p)]
         /\ EnqueueFrom(h, to, from, p).count = h.count
<1>1. PICK q, t : q = h.queue[from] /\ q \in Seq(Page) /\ t = h.queue[to] /\ t \in Seq(Page)
  BY QueueFacts DEF HeapRec
<1>2. PICK v \in Seq(Page) : v = Without(q, p) /\ (First(q) # p => First(v) = First(q))
  BY <1>1, WithoutIs
<1>3. PICK a \in Seq(Page) : a = Append(t, p) /\ (t # <<>> => First(a) = First(t))
  <2>1. t \in Seq(Page) /\ ~Has(t, p) /\ Once(t)
    BY <1>1
  <2>2. Append(t, p) \in Seq(Page) /\ First(Append(t, p)) = IF t = <<>> THEN p ELSE First(t)
    BY <2>1, AppendedIs
  <2> QED
    BY <2>2
<1>4. PICK n \in Int : n = h.count
  BY DEF HeapRec
<1>5. PICK r : r = [h EXCEPT !.queue[from] = v]
  OBVIOUS
<1>6. r = Changed(h, from, v, n)
  BY <1>4, <1>5 DEF HeapRec, Changed
<1>7. /\ r \in HeapRec /\ r.queue = [h.queue EXCEPT ![from] = v] /\ r.count = n
      /\ ExactBut(r, from)
      /\ First(v) = First(h.queue[from]) => Exact(r)
  <2>1. v \in Seq(Page) /\ n \in Int
    BY <1>2, <1>4
  <2> QED
    BY <1>6, <2>1, ExactChanges
<1>8. PICK u : u = IF First(q) = p THEN FirstUpdate(r, from) ELSE r
  OBVIOUS
<1>9. u \in HeapRec /\ Exact(u) /\ u.queue = r.queue /\ u.count = n
  <2>1. CASE First(q) = p
    <3>1. u = FirstUpdate(r, from)
      BY <1>8, <2>1
    <3>2. /\ FirstUpdate(r, from) \in HeapRec /\ Exact(FirstUpdate(r, from))
          /\ FirstUpdate(r, from).queue = r.queue /\ FirstUpdate(r, from).count = r.count
      BY <1>7, UpdateIs
    <3> QED
      BY <1>7, <3>1, <3>2
  <2>2. CASE First(q) # p
    BY <1>1, <1>2, <1>7, <1>8, <2>2
  <2> QED
    BY <2>1, <2>2
<1>10. u.queue[to] = t
  BY <1>1, <1>7, <1>9, QueueFacts DEF HeapRec
<1>11. PICK x : x = [u EXCEPT !.queue[to] = a]
  OBVIOUS
<1>12. x = Changed(u, to, a, n)
  BY <1>9, <1>11 DEF HeapRec, Changed
<1>13. /\ x \in HeapRec /\ x.queue = [u.queue EXCEPT ![to] = a] /\ x.count = n
       /\ ExactBut(x, to)
       /\ First(a) = First(u.queue[to]) => Exact(x)
  <2>1. a \in Seq(Page)
    BY <1>3
  <2>2. u \in HeapRec /\ Exact(u)
    BY <1>9
  <2>3. n \in Int
    BY <1>4
  <2>4. \A z : z = Changed(u, to, a, n) =>
          /\ z \in HeapRec /\ z.queue = [u.queue EXCEPT ![to] = a] /\ z.count = n
          /\ ExactBut(z, to)
          /\ First(a) = First(u.queue[to]) => Exact(z)
    BY <2>1, <2>2, <2>3, ExactChanges
  <2> QED
    BY <1>12, <2>4, Zenon
<1>14. x.queue = [h.queue EXCEPT ![from] = v, ![to] = a]
  BY <1>7, <1>9, <1>13
<1>15. EnqueueFrom(h, to, from, p) = IF u.queue[to] = <<>> THEN FirstUpdate(x, to) ELSE x
  <2>1. r = [h EXCEPT !.queue[from] = Without(@, p)]
    BY <1>1, <1>2, <1>5
  <2>2. x = [u EXCEPT !.queue[to] = Append(@, p)]
    BY <1>3, <1>10, <1>11
  <2>3. EnqueueFrom(h, to, from, p) =
          LET r1 == [h EXCEPT !.queue[from] = Without(@, p)]
              u1 == IF First(h.queue[from]) = p THEN FirstUpdate(r1, from) ELSE r1
              a1 == [u1 EXCEPT !.queue[to] = Append(@, p)]
          IN  IF u1.queue[to] = <<>> THEN FirstUpdate(a1, to) ELSE a1
    BY DEF EnqueueFrom
  <2>4. EnqueueFrom(h, to, from, p) =
          LET u1 == IF First(q) = p THEN FirstUpdate(r, from) ELSE r
              a1 == [u1 EXCEPT !.queue[to] = Append(@, p)]
          IN  IF u1.queue[to] = <<>> THEN FirstUpdate(a1, to) ELSE a1
    BY <1>1, <2>1, <2>3
  <2>5. EnqueueFrom(h, to, from, p) =
          LET a1 == [u EXCEPT !.queue[to] = Append(@, p)]
          IN  IF u.queue[to] = <<>> THEN FirstUpdate(a1, to) ELSE a1
    BY <1>8, <2>4
  <2> QED
    BY <2>2, <2>5
<1>16. CASE t = <<>>
  <2>1. EnqueueFrom(h, to, from, p) = FirstUpdate(x, to)
    BY <1>10, <1>15, <1>16
  <2>2. /\ FirstUpdate(x, to) \in HeapRec /\ Exact(FirstUpdate(x, to))
        /\ FirstUpdate(x, to).queue = x.queue /\ FirstUpdate(x, to).count = x.count
    BY <1>13, UpdateIs
  <2> QED
    BY <1>1, <1>2, <1>3, <1>4, <1>13, <1>14, <2>1, <2>2
<1>17. CASE t # <<>>
  <2>1. EnqueueFrom(h, to, from, p) = x
    BY <1>10, <1>15, <1>17
  <2>2. Exact(x)
    BY <1>3, <1>10, <1>13, <1>17
  <2> QED
    BY <1>1, <1>2, <1>3, <1>4, <1>13, <1>14, <2>1, <2>2
<1> QED
  BY <1>16, <1>17

-----------------------------------------------------------------------------
(***************************************************************************)
(* The inductive invariant.                                                *)
(***************************************************************************)

DirectInv ==
  /\ \A w \in 1 .. SmallMax : direct[w] = First(queue[Bin(w)])
  /\ \A w \in SmallMax + 1 .. SmallMax + Padding : direct[w] = EMPTY

\* Every queue has the pages of the heap that are said to be there, once.
QueuesInv == \A b \in Queues :
  /\ Once(queue[b])
  /\ \A p \in Page : Has(queue[b], p) <=> page[p].place = "heap" /\ QueueOf(page[p]) = b
HeapPages == {p \in Page : page[p].place = "heap"}
HeapInv == DirectInv /\ QueuesInv /\ page_count = Cardinality(HeapPages)

\* The sizes of the pages are those of the classes; the blocks in use are the
\* program's and those that other threads have freed; a block is delayed only
\* while its page is in the heap.
SizeOk(s) == \E w \in 1 .. LargeMax : s = BinSize(Bin(w))
PageInv(p) ==
  /\ page[p].place \in {"heap", "abandoned"} =>
       SizeOk(page[p].size) /\ page[p].used = live[p] + page[p].remote + page[p].delayed
  /\ page[p].place = "abandoned" => ~page[p].in_full
  /\ page[p].delayed > 0 => page[p].place = "heap"
  /\ page[p].place = "fresh" => page[p] = Fresh0 /\ live[p] = 0

\* What the running call relies on: the page a search looks at is the first of its
\* queue; a collection has freed the delayed blocks before it goes through the
\* pages, and the one at the end of a thread still has all pages to visit.
Role ==
  /\ pc = "search" => cur.w \in 1 .. LargeMax /\ cur.p = First(queue[Bin(cur.w)])
  /\ pc # "idle" /\ cur.collect = "none" => cur.w # 0
  /\ pc \in {"search", "fresh"} => cur.collect = "none"
  /\ pc = "visit" => cur.collect # "none"
  /\ pc = "visit" \/ (pc = "retired" /\ cur.collect # "none") => \A p \in Page : page[p].delayed = 0
  /\ pc = "visit" => \A p \in cur.todo : page[p].place = "heap"
  /\ pc = "visit" /\ cur.collect = "abandon" => HeapPages \subseteq cur.todo
  /\ cur.collect = "abandon" => cur.w = 0

Inv == TypeOK /\ HeapInv /\ (\A p \in Page : PageInv(p)) /\ Role

HeapType ==
  /\ queue \in [Queues -> Seq(Page)]
  /\ direct \in [0 .. SmallMax + Padding -> Page \cup {EMPTY}]
  /\ page_count \in Nat

\* The size of a page is the size of its class.
LEMMA SizeIs ==
  ASSUME NEW s, SizeOk(s)
  PROVE  s \in 1 .. LargeMax /\ Bin(s) \in HeapQueue /\ Bin(s) # BIN_FULL /\ BinSize(Bin(s)) = s
<1>1. PICK w \in 1 .. LargeMax : s = BinSize(Bin(w))
  BY DEF SizeOk
<1>2. s \in 1 .. LargeMax /\ Bin(s) = Bin(w)
  BY <1>1, ClassesAre
<1> QED
  BY <1>1, <1>2, QueueFacts

\* The queue of a page is one that has pages.
LEMMA QueueOfIs ==
  ASSUME NEW pg, SizeOk(pg.size), pg.in_full \in BOOLEAN
  PROVE  /\ QueueOf(pg) \in HeapQueue
         /\ pg.in_full => QueueOf(pg) = BIN_FULL
         /\ ~pg.in_full => QueueOf(pg) = Bin(pg.size) /\ QueueOf(pg) # BIN_FULL
BY SizeIs, QueueFacts DEF QueueOf

\* The heap as a record, and a step that sets it.
LEMMA HeapIs ==
  ASSUME HeapType, DirectInv
  PROVE  \E h \in HeapRec : h = Heap /\ Exact(h) /\ h.queue = queue /\ h.direct = direct /\ h.count = page_count
<1>1. PICK h : h = Heap
  OBVIOUS
<1>2. h \in HeapRec /\ h.queue = queue /\ h.direct = direct /\ h.count = page_count
  BY <1>1 DEF HeapType, HeapRec, Heap
<1>3. Exact(h)
  BY <1>2 DEF DirectInv, Exact
<1> QED
  BY <1>1, <1>2, <1>3

\* A step that sets the heap to a record whose array is exact.
LEMMA SetHeapIs ==
  ASSUME NEW h \in HeapRec, Exact(h), SetHeap(h)
  PROVE  /\ DirectInv' /\ queue' = h.queue /\ page_count' = h.count /\ page_count' \in Int
         /\ queue' \in [Queues -> Seq(Page)] /\ direct' \in [0 .. SmallMax + Padding -> Page \cup {EMPTY}]
<1>1. queue' = h.queue /\ direct' = h.direct /\ page_count' = h.count
  BY DEF SetHeap
<1>2. DirectInv'
  BY <1>1 DEF DirectInv, Exact
<1> QED
  BY <1>1, <1>2 DEF HeapRec

\* The pages of the heap can be counted.
LEMMA HeapPagesFinite == IsFiniteSet(HeapPages) /\ Cardinality(HeapPages) \in Nat
<1>1. IsFiniteSet(HeapPages)
  BY PageAssumption, FS_Subset DEF HeapPages
<1> QED
  BY <1>1, FS_CardinalityType

\* A step that leaves the heap alone and every page in its place.
LEMMA HeapSame ==
  ASSUME HeapType, HeapInv, UNCHANGED heap,
         \A p \in Page : /\ page'[p].place = "heap" <=> page[p].place = "heap"
                         /\ page[p].place = "heap" => QueueOf(page'[p]) = QueueOf(page[p])
  PROVE  HeapType' /\ HeapInv'
<1>1. queue' = queue /\ direct' = direct /\ page_count' = page_count
  BY DEF heap
<1>2. HeapType'
  BY <1>1 DEF HeapType
<1>3. DirectInv'
  BY <1>1 DEF HeapInv, DirectInv
<1>4. QueuesInv'
  <2>1. SUFFICES ASSUME NEW b \in Queues
                 PROVE  /\ Once(queue[b])
                        /\ \A p \in Page : Has(queue[b], p) <=> page'[p].place = "heap" /\ QueueOf(page'[p]) = b
    BY <1>1 DEF QueuesInv
  <2>2. /\ Once(queue[b])
        /\ \A p \in Page : Has(queue[b], p) <=> page[p].place = "heap" /\ QueueOf(page[p]) = b
    BY DEF HeapInv, QueuesInv
  <2> QED
    BY <2>2
<1>5. HeapPages' = HeapPages
  BY DEF HeapPages
<1> QED
  BY <1>1, <1>2, <1>3, <1>4, <1>5 DEF HeapInv

\* A step that takes page p out of its queue.
LEMMA HeapRemoves ==
  ASSUME HeapType, HeapInv, NEW p \in Page, page[p].place = "heap", QueueOf(page[p]) \in HeapQueue,
         SetHeap(Remove(Heap, QueueOf(page[p]), p)), page'[p].place # "heap",
         \A q \in Page : q # p => page'[q] = page[q]
  PROVE  HeapType' /\ HeapInv'
<1>1. PICK h \in HeapRec : h = Heap /\ Exact(h) /\ h.queue = queue /\ h.direct = direct /\ h.count = page_count
  BY HeapIs DEF HeapInv
<1>2. PICK b \in HeapQueue : b = QueueOf(page[p])
  OBVIOUS
<1>3. b \in Queues
  BY QueueFacts
<1>4. h.queue[b] \in Seq(Page) /\ Has(h.queue[b], p) /\ Once(h.queue[b])
  BY <1>1, <1>2, <1>3 DEF HeapInv, QueuesInv, HeapType
<1>5. PICK r : r = Remove(h, b, p)
  OBVIOUS
<1>6. r \in HeapRec /\ Exact(r) /\ r.queue = [h.queue EXCEPT ![b] = Without(h.queue[b], p)] /\ r.count = h.count - 1
  BY <1>1, <1>2, <1>4, <1>5, RemoveIs
<1>7. SetHeap(r)
  BY <1>1, <1>2, <1>5
<1>8. /\ DirectInv' /\ queue' = r.queue /\ page_count' = r.count /\ page_count' \in Int
      /\ queue' \in [Queues -> Seq(Page)] /\ direct' \in [0 .. SmallMax + Padding -> Page \cup {EMPTY}]
  BY <1>6, <1>7, SetHeapIs
<1>9. /\ Once(Without(h.queue[b], p))
      /\ \A x \in Page : Has(Without(h.queue[b], p), x) <=> Has(h.queue[b], x) /\ x # p
  BY <1>4, WithoutIs
<1>10. \A c \in Queues : queue'[c] = IF c = b THEN Without(h.queue[b], p) ELSE queue[c]
  BY <1>1, <1>3, <1>6, <1>8 DEF HeapRec
<1>11. QueuesInv'
  <2>1. SUFFICES ASSUME NEW c \in Queues
                 PROVE  /\ Once(queue'[c])
                        /\ \A q \in Page : Has(queue'[c], q) <=> page'[q].place = "heap" /\ QueueOf(page'[q]) = c
    BY DEF QueuesInv
  <2>2. /\ Once(queue[c])
        /\ \A q \in Page : Has(queue[c], q) <=> page[q].place = "heap" /\ QueueOf(page[q]) = c
    BY DEF HeapInv, QueuesInv
  <2>3. CASE c = b
    BY <1>1, <1>9, <1>10, <2>2, <2>3
  <2>4. CASE c # b
    <3>1. queue'[c] = queue[c] /\ ~Has(queue[c], p)
      BY <1>2, <1>10, <2>2, <2>4
    <3> QED
      BY <2>2, <3>1
  <2> QED
    BY <2>3, <2>4
<1>12. page_count' = Cardinality(HeapPages') /\ page_count' \in Nat
  <2>1. p \in HeapPages /\ HeapPages' = HeapPages \ {p}
    BY DEF HeapPages
  <2>2. Cardinality(HeapPages') = Cardinality(HeapPages) - 1
    BY <2>1, HeapPagesFinite, FS_RemoveElement
  <2>3. Cardinality(HeapPages') \in Nat
    <3>1. IsFiniteSet(HeapPages')
      BY <2>1, HeapPagesFinite, FS_RemoveElement
    <3> QED
      BY <3>1, FS_CardinalityType
  <2>4. page_count = Cardinality(HeapPages)
    BY DEF HeapInv
  <2> QED
    BY <1>1, <1>6, <1>8, <2>2, <2>3, <2>4
<1> QED
  BY <1>8, <1>11, <1>12 DEF HeapInv, HeapType

\* A step that puts page p at the front of its queue.
LEMMA HeapPushes ==
  ASSUME HeapType, HeapInv, NEW p \in Page, page[p].place # "heap", NEW b \in HeapQueue,
         SetHeap(Push(Heap, b, p)), page'[p].place = "heap", QueueOf(page'[p]) = b,
         \A q \in Page : q # p => page'[q] = page[q]
  PROVE  HeapType' /\ HeapInv'
<1>1. PICK h \in HeapRec : h = Heap /\ Exact(h) /\ h.queue = queue /\ h.direct = direct /\ h.count = page_count
  BY HeapIs DEF HeapInv
<1>3. b \in Queues
  BY QueueFacts
<1>4. h.queue[b] \in Seq(Page) /\ ~Has(h.queue[b], p) /\ Once(h.queue[b])
  BY <1>1, <1>3 DEF HeapInv, QueuesInv, HeapType
<1>5. PICK r : r = Push(h, b, p)
  OBVIOUS
<1>6. r \in HeapRec /\ Exact(r) /\ r.queue = [h.queue EXCEPT ![b] = <<p>> \o h.queue[b]] /\ r.count = h.count + 1
  BY <1>1, <1>5, PushIs
<1>7. SetHeap(r)
  BY <1>1, <1>5
<1>8. /\ DirectInv' /\ queue' = r.queue /\ page_count' = r.count /\ page_count' \in Int
      /\ queue' \in [Queues -> Seq(Page)] /\ direct' \in [0 .. SmallMax + Padding -> Page \cup {EMPTY}]
  BY <1>6, <1>7, SetHeapIs
<1>9. PICK v : /\ v = <<p>> \o h.queue[b] /\ Once(v)
               /\ \A x \in Page : Has(v, x) <=> Has(h.queue[b], x) \/ x = p
  <2>1. PICK q \in Seq(Page) : q = h.queue[b] /\ ~Has(q, p) /\ Once(q)
    BY <1>4
  <2>2. Once(<<p>> \o q) /\ \A x \in Page : Has(<<p>> \o q, x) <=> Has(q, x) \/ x = p
    BY <2>1, PushedIs
  <2> QED
    BY <2>1, <2>2, Zenon
<1>10. \A c \in Queues : queue'[c] = IF c = b THEN v ELSE queue[c]
  BY <1>1, <1>3, <1>6, <1>8, <1>9 DEF HeapRec
<1>11. QueuesInv'
  <2>1. SUFFICES ASSUME NEW c \in Queues
                 PROVE  /\ Once(queue'[c])
                        /\ \A q \in Page : Has(queue'[c], q) <=> page'[q].place = "heap" /\ QueueOf(page'[q]) = c
    BY DEF QueuesInv
  <2>2. /\ Once(queue[c])
        /\ \A q \in Page : Has(queue[c], q) <=> page[q].place = "heap" /\ QueueOf(page[q]) = c
    BY DEF HeapInv, QueuesInv
  <2>5. \A x \in Page : Has(v, x) <=> Has(h.queue[b], x) \/ x = p
    BY <1>9
  <2>3. CASE c = b
    BY <1>1, <1>9, <1>10, <2>2, <2>3, <2>5
  <2>4. CASE c # b
    <3>1. queue'[c] = queue[c] /\ ~Has(queue[c], p)
      BY <1>10, <2>2, <2>4
    <3> QED
      BY <2>2, <2>4, <3>1
  <2> QED
    BY <2>3, <2>4
<1>12. page_count' = Cardinality(HeapPages') /\ page_count' \in Nat
  <2>1. p \notin HeapPages /\ HeapPages' = HeapPages \cup {p}
    BY DEF HeapPages
  <2>2. Cardinality(HeapPages') = Cardinality(HeapPages) + 1
    BY <2>1, HeapPagesFinite, FS_AddElement
  <2>4. page_count = Cardinality(HeapPages)
    BY DEF HeapInv
  <2> QED
    BY <1>1, <1>6, <1>8, <2>2, <2>4, HeapPagesFinite
<1> QED
  BY <1>8, <1>11, <1>12 DEF HeapInv, HeapType

\* A step that moves page p from its queue to the end of another.
LEMMA HeapMoves ==
  ASSUME HeapType, HeapInv, NEW p \in Page, page[p].place = "heap", QueueOf(page[p]) \in HeapQueue,
         NEW to \in HeapQueue, QueueOf(page[p]) # to,
         SetHeap(EnqueueFrom(Heap, to, QueueOf(page[p]), p)),
         page'[p].place = "heap", QueueOf(page'[p]) = to,
         \A q \in Page : q # p => page'[q] = page[q]
  PROVE  /\ HeapType' /\ HeapInv'
         /\ queue'[QueueOf(page[p])] = Without(queue[QueueOf(page[p])], p)
<1>1. PICK h \in HeapRec : h = Heap /\ Exact(h) /\ h.queue = queue /\ h.direct = direct /\ h.count = page_count
  BY HeapIs DEF HeapInv
<1>2. PICK b \in HeapQueue : b = QueueOf(page[p])
  OBVIOUS
<1>3. b \in Queues /\ to \in Queues /\ b # to
  BY <1>2, QueueFacts
<1>4. /\ h.queue[b] \in Seq(Page) /\ Has(h.queue[b], p) /\ Once(h.queue[b])
      /\ h.queue[to] \in Seq(Page) /\ ~Has(h.queue[to], p) /\ Once(h.queue[to])
  BY <1>1, <1>2, <1>3 DEF HeapInv, QueuesInv, HeapType
<1>5. PICK r : r = EnqueueFrom(h, to, b, p)
  OBVIOUS
<1>6. /\ r \in HeapRec /\ Exact(r) /\ r.count = h.count
      /\ r.queue = [h.queue EXCEPT ![b] = Without(h.queue[b], p), ![to] = Append(h.queue[to], p)]
  <2>1. /\ EnqueueFrom(h, to, b, p) \in HeapRec /\ Exact(EnqueueFrom(h, to, b, p))
        /\ EnqueueFrom(h, to, b, p).queue =
             [h.queue EXCEPT ![b] = Without(h.queue[b], p), ![to] = Append(h.queue[to], p)]
        /\ EnqueueFrom(h, to, b, p).count = h.count
    <3>1. Exact(h) /\ to # b /\ Has(h.queue[b], p) /\ Once(h.queue[b]) /\ ~Has(h.queue[to], p) /\ Once(h.queue[to])
      BY <1>1, <1>3, <1>4
    <3> QED
      BY <3>1, EnqueueIs
  <2> QED
    BY <1>5, <2>1, Zenon
<1>7. SetHeap(r)
  BY <1>1, <1>2, <1>5
<1>8. /\ DirectInv' /\ queue' = r.queue /\ page_count' = r.count /\ page_count' \in Int
      /\ queue' \in [Queues -> Seq(Page)] /\ direct' \in [0 .. SmallMax + Padding -> Page \cup {EMPTY}]
  BY <1>6, <1>7, SetHeapIs
<1>9. PICK v : /\ v = Without(h.queue[b], p) /\ Once(v)
               /\ \A x \in Page : Has(v, x) <=> Has(h.queue[b], x) /\ x # p
  <2>1. PICK q \in Seq(Page) : q = h.queue[b] /\ Has(q, p) /\ Once(q)
    BY <1>4
  <2>2. Once(Without(q, p)) /\ \A x \in Page : Has(Without(q, p), x) <=> Has(q, x) /\ x # p
    BY <2>1, WithoutIs
  <2> QED
    BY <2>1, <2>2, Zenon
<1>10. PICK a : /\ a = Append(h.queue[to], p) /\ Once(a)
                /\ \A x \in Page : Has(a, x) <=> Has(h.queue[to], x) \/ x = p
  <2>1. PICK q \in Seq(Page) : q = h.queue[to] /\ ~Has(q, p) /\ Once(q)
    BY <1>4
  <2>2. Once(Append(q, p)) /\ \A x \in Page : Has(Append(q, p), x) <=> Has(q, x) \/ x = p
    BY <2>1, AppendedIs
  <2> QED
    BY <2>1, <2>2, Zenon
<1>11. \A c \in Queues : queue'[c] = IF c = b THEN v ELSE IF c = to THEN a ELSE queue[c]
  BY <1>1, <1>3, <1>6, <1>8, <1>9, <1>10 DEF HeapRec
<1>12. QueuesInv'
  <2>1. SUFFICES ASSUME NEW c \in Queues
                 PROVE  /\ Once(queue'[c])
                        /\ \A q \in Page : Has(queue'[c], q) <=> page'[q].place = "heap" /\ QueueOf(page'[q]) = c
    BY DEF QueuesInv
  <2>2. /\ Once(queue[c])
        /\ \A q \in Page : Has(queue[c], q) <=> page[q].place = "heap" /\ QueueOf(page[q]) = c
    BY DEF HeapInv, QueuesInv
  <2>3. CASE c = b
    <3>1. \A x \in Page : Has(v, x) <=> Has(h.queue[b], x) /\ x # p
      BY <1>9
    <3> QED
      BY <1>1, <1>3, <1>9, <1>11, <2>2, <2>3, <3>1
  <2>4. CASE c = to
    <3>1. \A x \in Page : Has(a, x) <=> Has(h.queue[to], x) \/ x = p
      BY <1>10
    <3> QED
      BY <1>1, <1>3, <1>10, <1>11, <2>2, <2>4, <3>1
  <2>5. CASE c # b /\ c # to
    <3>1. queue'[c] = queue[c] /\ ~Has(queue[c], p)
      BY <1>2, <1>11, <2>2, <2>5
    <3> QED
      BY <2>2, <2>5, <3>1
  <2> QED
    BY <2>3, <2>4, <2>5
<1>13. HeapPages' = HeapPages
  BY DEF HeapPages
<1>14. page_count' = page_count /\ page_count = Cardinality(HeapPages)
  BY <1>1, <1>6, <1>8 DEF HeapInv
<1> QED
  BY <1>1, <1>2, <1>3, <1>8, <1>9, <1>11, <1>12, <1>13, <1>14 DEF HeapInv, HeapType

-----------------------------------------------------------------------------
(***************************************************************************)
(* What the functions on a page do to it, and parts that actions share.    *)
(***************************************************************************)

\* _mi_page_free_collect takes the blocks freed by others off the count.
LEMMA CollectIs ==
  ASSUME NEW pg \in PageRec, pg.remote <= pg.used, NEW force \in BOOLEAN,
         NEW c, c = Collect(pg, force)
  PROVE  /\ c \in PageRec /\ c.remote = 0 /\ c.used = pg.used - pg.remote
         /\ c.place = pg.place /\ c.in_full = pg.in_full /\ c.size = pg.size /\ c.delayed = pg.delayed
         /\ c.capacity = pg.capacity /\ QueueOf(c) = QueueOf(pg)
<1>1. /\ pg.free \in Nat /\ pg.local \in Nat /\ pg.remote \in Nat /\ pg.used \in Nat
      /\ pg.capacity \in Nat /\ pg.size \in Nat /\ pg.delayed \in Nat /\ pg.expire \in Nat
      /\ pg.in_full \in BOOLEAN /\ pg.place \in {"fresh", "heap", "huge", "abandoned", "released"}
  BY DEF PageRec
<1>2. PICK f \in Nat, l \in Nat : /\ f = IF pg.free = 0 \/ force THEN pg.free + (pg.local + pg.remote) ELSE pg.free
                                  /\ l = IF pg.free = 0 \/ force THEN 0 ELSE pg.local + pg.remote
  <2>1. CASE pg.free = 0 \/ force
    <3>1. pg.free + (pg.local + pg.remote) \in Nat /\ 0 \in Nat
      BY <1>1
    <3> QED
      BY <2>1, <3>1, Zenon
  <2>2. CASE ~(pg.free = 0 \/ force)
    <3>1. pg.local + pg.remote \in Nat /\ pg.free \in Nat
      BY <1>1
    <3> QED
      BY <2>2, <3>1, Zenon
  <2> QED
    BY <2>1, <2>2
<1>3. PICK u \in Nat : u = pg.used - pg.remote
  BY <1>1
<1>4. c = [pg EXCEPT !.used = u, !.remote = 0, !.free = f, !.local = l]
  BY <1>2, <1>3 DEF Collect
<1>5. c \in PageRec
  <2>1. f \in Nat /\ l \in Nat /\ u \in Nat /\ 0 \in Nat
    BY <1>2, <1>3
  <2> QED
    BY <1>4, <2>1 DEF PageRec
<1>6. /\ c.remote = 0 /\ c.used = u
      /\ c.place = pg.place /\ c.in_full = pg.in_full /\ c.size = pg.size /\ c.delayed = pg.delayed
      /\ c.capacity = pg.capacity
  BY <1>4 DEF PageRec
<1> QED
  BY <1>3, <1>5, <1>6 DEF QueueOf

\* mi_page_extend_free makes free blocks.
LEMMA ExtendIs ==
  ASSUME NEW pg \in PageRec, pg.capacity < Reserved, NEW e, e = Extend(pg)
  PROVE  /\ e \in PageRec /\ e.free > 0
         /\ e.place = pg.place /\ e.in_full = pg.in_full /\ e.size = pg.size /\ e.delayed = pg.delayed
         /\ e.used = pg.used /\ e.remote = pg.remote /\ QueueOf(e) = QueueOf(pg)
<1>1. pg.free \in Nat /\ pg.capacity \in Nat
  BY DEF PageRec
<1>2. PICK n \in Nat \ {0} : n = IF Reserved - pg.capacity > MaxExtend THEN MaxExtend ELSE Reserved - pg.capacity
  <2>1. CASE Reserved - pg.capacity > MaxExtend
    BY <2>1, BoundAssumption
  <2>2. CASE ~(Reserved - pg.capacity > MaxExtend)
    <3>1. Reserved - pg.capacity \in Nat \ {0}
      BY <1>1, BoundAssumption
    <3> QED
      BY <2>2, <3>1
  <2> QED
    BY <2>1, <2>2
<1>3. PICK f \in Nat \ {0}, k \in Nat : f = pg.free + n /\ k = pg.capacity + n
  BY <1>1, <1>2
<1>4. e = [pg EXCEPT !.free = f, !.capacity = k]
  BY <1>2, <1>3 DEF Extend
<1>5. e \in PageRec /\ e.free = f
  BY <1>3, <1>4 DEF PageRec
<1>6. /\ e.place = pg.place /\ e.in_full = pg.in_full /\ e.size = pg.size /\ e.delayed = pg.delayed
      /\ e.used = pg.used /\ e.remote = pg.remote
  BY <1>4 DEF PageRec
<1> QED
  BY <1>3, <1>5, <1>6 DEF QueueOf

\* A block that is taken is in use.
LEMMA PopIs ==
  ASSUME NEW pg \in PageRec, pg.free > 0, NEW e, e = Pop(pg)
  PROVE  /\ e \in PageRec /\ e.used = pg.used + 1
         /\ e.place = pg.place /\ e.in_full = pg.in_full /\ e.size = pg.size /\ e.delayed = pg.delayed
         /\ e.remote = pg.remote /\ QueueOf(e) = QueueOf(pg)
<1>1. pg.free - 1 \in Nat /\ pg.used + 1 \in Nat
  BY DEF PageRec
<1>2. e = [pg EXCEPT !.free = pg.free - 1, !.used = pg.used + 1]
  BY DEF Pop
<1>3. e \in PageRec
  BY <1>1, <1>2 DEF PageRec
<1>4. /\ e.used = pg.used + 1
      /\ e.place = pg.place /\ e.in_full = pg.in_full /\ e.size = pg.size /\ e.delayed = pg.delayed
      /\ e.remote = pg.remote
  BY <1>2 DEF PageRec
<1> QED
  BY <1>3, <1>4 DEF QueueOf

\* A page given back keeps the blocks that others are freeing only.
LEMMA ReleaseIs ==
  ASSUME NEW pg \in PageRec, NEW e, e = Release(pg)
  PROVE  e \in PageRec /\ e.place = "released" /\ e.delayed = pg.delayed
BY DEF Release, Fresh0, PageRec

\* What page p and its blocks are after a step, and the others as before.
LEMMA OnePage ==
  ASSUME TypeOK, \A q \in Page : PageInv(q), NEW p \in Page, NEW pg \in PageRec, NEW n \in Nat,
         page' = [page EXCEPT ![p] = pg], live' = [live EXCEPT ![p] = n],
         pg.place \in {"heap", "abandoned"} => SizeOk(pg.size) /\ pg.used = n + pg.remote + pg.delayed,
         pg.place = "abandoned" => ~pg.in_full,
         pg.delayed > 0 => pg.place = "heap",
         pg.place # "fresh"
  PROVE  /\ page' \in [Page -> PageRec] /\ live' \in [Page -> Nat] /\ page'[p] = pg
         /\ \A q \in Page : q # p => page'[q] = page[q]
         /\ \A q \in Page : PageInv(q)'
<1>1. page \in [Page -> PageRec] /\ live \in [Page -> Nat]
  BY DEF TypeOK
<1>2. page'[p] = pg /\ live'[p] = n /\ \A q \in Page : q # p => page'[q] = page[q] /\ live'[q] = live[q]
  BY <1>1
<1>3. page' \in [Page -> PageRec] /\ live' \in [Page -> Nat]
  BY <1>1
<1>4. ASSUME NEW q \in Page
      PROVE  PageInv(q)'
  <2>1. CASE q = p
    BY <1>2, <2>1 DEF PageInv
  <2>2. CASE q # p
    <3>1. page'[q] = page[q] /\ live'[q] = live[q] /\ PageInv(q)
      BY <1>2, <2>2
    <3> QED
      BY <3>1 DEF PageInv
  <2> QED
    BY <2>1, <2>2
<1> QED
  BY <1>2, <1>3, <1>4

\* The live blocks do not change.
LEMMA SameLive ==
  ASSUME TypeOK, live' = live, NEW p \in Page
  PROVE  live[p] \in Nat /\ live' = [live EXCEPT ![p] = live[p]]
<1>1. live \in [Page -> Nat]
  BY DEF TypeOK
<1> QED
  BY <1>1

\* A page of the heap and what it holds.
LEMMA HeapPage ==
  ASSUME Inv, NEW p \in Page, page[p].place \in {"heap", "abandoned"}
  PROVE  /\ page[p] \in PageRec /\ SizeOk(page[p].size) /\ QueueOf(page[p]) \in HeapQueue
         /\ page[p].used = live[p] + page[p].remote + page[p].delayed
         /\ live[p] \in Nat /\ page[p].remote \in Nat /\ page[p].delayed \in Nat /\ page[p].used \in Nat
         /\ page[p].remote <= page[p].used /\ page[p].in_full \in BOOLEAN
<1>1. page[p] \in PageRec /\ live[p] \in Nat
  BY DEF Inv, TypeOK
<1>2. /\ page[p].remote \in Nat /\ page[p].delayed \in Nat /\ page[p].used \in Nat
      /\ page[p].in_full \in BOOLEAN
  BY <1>1 DEF PageRec
<1>3. SizeOk(page[p].size) /\ page[p].used = live[p] + page[p].remote + page[p].delayed
  BY DEF Inv, PageInv
<1>4. page[p].remote <= page[p].used
  BY <1>1, <1>2, <1>3
<1> QED
  BY <1>1, <1>2, <1>3, <1>4, QueueOfIs

\* A page in a queue is a page of the heap.
LEMMA InQueueIs ==
  ASSUME Inv, NEW b \in Queues, NEW p \in Page, Has(queue[b], p)
  PROVE  page[p].place = "heap" /\ QueueOf(page[p]) = b
BY DEF Inv, HeapInv, QueuesInv

\* The first page of a queue.
LEMMA FirstInQueue ==
  ASSUME Inv, NEW b \in Queues, First(queue[b]) # EMPTY
  PROVE  /\ First(queue[b]) \in Page /\ queue[b] # <<>> /\ queue[b][1] = First(queue[b])
         /\ Has(queue[b], First(queue[b]))
         /\ page[First(queue[b])].place = "heap" /\ QueueOf(page[First(queue[b])]) = b
<1>1. queue[b] \in Seq(Page)
  BY DEF Inv, TypeOK
<1>2. PICK p \in Page : /\ p = First(queue[b]) /\ queue[b] # <<>> /\ queue[b][1] = p /\ Has(queue[b], p)
  BY <1>1, FirstIs
<1> QED
  BY <1>2, InQueueIs

\* A call that has ended relies on nothing.
LEMMA RoleIdle ==
  ASSUME pc' = "idle", cur' = NoCall
  PROVE  Role'
BY DEF Role, NoCall

\* No call is a call.
LEMMA NoCallIs == NoCall \in Call
BY DEF NoCall, Call, BIN_FULL

\* A call ends with a block of page p.
LEMMA ReturnIs ==
  ASSUME Inv, NEW p \in Page, NEW pg \in PageRec, pg.free > 0, pg.place \in {"heap", "huge"},
         pg.place = "heap" => SizeOk(pg.size) /\ pg.used = live[p] + pg.remote + pg.delayed,
         pg.delayed > 0 => pg.place = "heap",
         Return(p, pg)
  PROVE  /\ page' \in [Page -> PageRec] /\ live' \in [Page -> Nat]
         /\ page'[p].place = pg.place /\ QueueOf(page'[p]) = QueueOf(pg)
         /\ \A q \in Page : q # p => page'[q] = page[q]
         /\ \A q \in Page : PageInv(q)'
         /\ pc' = "idle" /\ cur' = NoCall /\ Role'
<1>1. PICK e : e = Pop(pg)
  OBVIOUS
<1>2. /\ e \in PageRec /\ e.used = pg.used + 1
      /\ e.place = pg.place /\ e.in_full = pg.in_full /\ e.size = pg.size /\ e.delayed = pg.delayed
      /\ e.remote = pg.remote /\ QueueOf(e) = QueueOf(pg)
  BY <1>1, PopIs
<1>3. live[p] \in Nat
  BY DEF Inv, TypeOK
<1>4. PICK n \in Nat : n = live[p] + 1
  BY <1>3
<1>5. page' = [page EXCEPT ![p] = e] /\ live' = [live EXCEPT ![p] = n] /\ pc' = "idle" /\ cur' = NoCall
  BY <1>1, <1>4 DEF Return
<1>6. pg.remote \in Nat /\ pg.delayed \in Nat
  BY DEF PageRec
<1>7. e.place \in {"heap", "abandoned"} => SizeOk(e.size) /\ e.used = n + e.remote + e.delayed
  BY <1>2, <1>3, <1>4, <1>6
<1>8. TypeOK /\ \A q \in Page : PageInv(q)
  BY DEF Inv
<1>9. /\ page' \in [Page -> PageRec] /\ live' \in [Page -> Nat] /\ page'[p] = e
      /\ \A q \in Page : q # p => page'[q] = page[q]
      /\ \A q \in Page : PageInv(q)'
  BY <1>2, <1>5, <1>7, <1>8, OnePage
<1>10. Role'
  BY <1>5, RoleIdle
<1> QED
  BY <1>2, <1>5, <1>9, <1>10

\* The call goes on with the search for a page.
LEMMA FindPageIs ==
  ASSUME HeapType, NEW c \in Call, c.w # 0, c.collect = "none", FindPage(c), queue' = queue
  PROVE  cur' \in Call /\ pc' \in {"search", "fresh"} /\ Role'
<1>1. c.w \in Nat
  BY DEF Call
<1>2. CASE c.w > LargeMax
  <2>1. pc' = "fresh" /\ cur' = c
    BY <1>2 DEF FindPage
  <2> QED
    BY <2>1 DEF Role
<1>3. CASE ~(c.w > LargeMax)
  <2>1. c.w \in 1 .. LargeMax
    BY <1>1, <1>3, SizeFacts
  <2>2. pc' = "search" /\ cur' = [c EXCEPT !.p = First(queue[Bin(c.w)])]
    BY <1>3 DEF FindPage
  <2>3. queue[Bin(c.w)] \in Seq(Page)
    BY <2>1, QueueFacts DEF HeapType
  <2>4. First(queue[Bin(c.w)]) \in Page \cup {EMPTY}
    BY <2>3, FirstIs
  <2>5. cur' \in Call /\ cur'.w = c.w /\ cur'.collect = "none" /\ cur'.p = First(queue[Bin(c.w)])
    BY <2>2, <2>4 DEF Call
  <2>6. Role'
    BY <2>1, <2>2, <2>5 DEF Role
  <2> QED
    BY <2>2, <2>5, <2>6
<1> QED
  BY <1>2, <1>3

\* The call goes on after mi_page_fresh returned NULL.
LEMMA AgainIs ==
  ASSUME HeapType', cur \in Call, cur.w # 0, cur.collect = "none", Again
  PROVE  cur' \in Call /\ pc' \in {"idle", "delayed", "search"} /\ Role'
<1>1. cur.w \in Nat /\ cur.round \in 1 .. 4
  BY DEF Call
<1>2. CASE cur.round \in {1, 3} /\ cur.w <= LargeMax
  <2>1. cur.w \in 1 .. LargeMax
    BY <1>1, <1>2, SizeFacts
  <2>2. pc' = "search" /\ cur' = [cur EXCEPT !.round = cur.round + 1, !.p = First(queue'[Bin(cur.w)])]
    BY <1>2 DEF Again
  <2>3. queue'[Bin(cur.w)] \in Seq(Page)
    BY <2>1, QueueFacts DEF HeapType
  <2>4. First(queue'[Bin(cur.w)]) \in Page \cup {EMPTY}
    BY <2>3, FirstIs
  <2>5. cur.round + 1 \in 1 .. 4
    BY <1>2
  <2>6. cur' \in Call /\ cur'.w = cur.w /\ cur'.collect = "none" /\ cur'.p = First(queue'[Bin(cur.w)])
    BY <2>2, <2>4, <2>5 DEF Call
  <2>7. Role'
    BY <2>1, <2>2, <2>6 DEF Role
  <2> QED
    BY <2>2, <2>6, <2>7
<1>3. CASE ~(cur.round \in {1, 3} /\ cur.w <= LargeMax) /\ cur.round < 3
  <2>1. pc' = "delayed" /\ cur' = [NoCall EXCEPT !.w = cur.w, !.round = 3, !.collect = "force"]
    BY <1>3 DEF Again
  <2>2. cur' = [w |-> cur.w, p |-> EMPTY, round |-> 3, collect |-> "force", todo |-> {},
                bin |-> 0, min |-> BIN_FULL, max |-> 0]
    BY <2>1 DEF NoCall
  <2>4. cur' \in Call /\ cur'.w = cur.w /\ cur'.collect = "force"
    BY <1>1, <2>2, QueueFacts DEF Call
  <2>3. Role'
    BY <2>1, <2>4 DEF Role
  <2> QED
    BY <2>1, <2>3, <2>4
<1>4. CASE ~(cur.round \in {1, 3} /\ cur.w <= LargeMax) /\ ~(cur.round < 3)
  <2>1. pc' = "idle" /\ cur' = NoCall
    BY <1>4 DEF Again
  <2> QED
    BY <2>1, RoleIdle, NoCallIs
<1> QED
  BY <1>2, <1>3, <1>4

-----------------------------------------------------------------------------
(***************************************************************************)
(* The actions preserve the invariant.                                     *)
(***************************************************************************)

\* The invariant of the next state, from its parts.
LEMMA InvIs ==
  ASSUME init' \in BOOLEAN, retired_min' \in 0 .. BIN_FULL, retired_max' \in 0 .. BIN_FULL,
         HeapType', HeapInv', page' \in [Page -> PageRec], live' \in [Page -> Nat],
         \A p \in Page : PageInv(p)',
         pc' \in {"idle", "delayed", "search", "retired", "fresh", "visit"}, cur' \in Call, Role'
  PROVE  Inv'
BY DEF Inv, TypeOK, HeapType

\* The parts of the invariant.
LEMMA InvParts ==
  ASSUME Inv
  PROVE  /\ TypeOK /\ HeapType /\ HeapInv /\ (\A p \in Page : PageInv(p)) /\ Role
         /\ init \in BOOLEAN /\ retired_min \in 0 .. BIN_FULL /\ retired_max \in 0 .. BIN_FULL
         /\ page \in [Page -> PageRec] /\ live \in [Page -> Nat] /\ cur \in Call
         /\ pc \in {"idle", "delayed", "search", "retired", "fresh", "visit"}
BY DEF Inv, TypeOK, HeapType

\* The call does not go on, and the queue of a search stays as it is.
LEMMA RoleSame ==
  ASSUME Role, pc' = pc, cur' = cur, pc \in {"idle", "delayed", "search", "fresh"},
         pc = "search" => queue' = queue
  PROVE  Role'
BY DEF Role

\* The bounds and the sizes are numbers.
LEMMA ConstantFacts ==
  /\ RetireCycles \in Nat /\ RetireCycles \div 4 \in Nat /\ Reserved \in Nat \ {0}
  /\ \A w \in Sizes : w \in Nat \ {0}
<1>1. \A w \in Sizes : w \in Nat \ {0}
  BY SizeAssumption, SMT
<1>2. RetireCycles \in Nat /\ RetireCycles \div 4 \in Nat /\ Reserved \in Nat \ {0}
  BY BoundAssumption, SMT
<1> QED
  BY <1>1, <1>2

\* The pages and their blocks do not change.
LEMMA SamePages ==
  ASSUME Inv, page' = page, live' = live
  PROVE  /\ page' \in [Page -> PageRec] /\ live' \in [Page -> Nat]
         /\ \A p \in Page : PageInv(p)'
         /\ UNCHANGED heap => HeapType' /\ HeapInv'
<1>1. \A p \in Page : PageInv(p)'
  BY DEF Inv, PageInv
<1>2. UNCHANGED heap => HeapType' /\ HeapInv'
  BY InvParts, HeapSame
<1> QED
  BY <1>1, <1>2, InvParts

\* The rest of a local free, when n blocks of page p are the program's.
LEMMA FreeIntoIs ==
  ASSUME Inv, NEW p \in Page, page[p].place = "heap", NEW pg \in PageRec, NEW n \in Nat,
         live' = [live EXCEPT ![p] = n], pg.place = "heap", pg.size = page[p].size,
         pg.in_full = page[p].in_full, pg.used = n + pg.remote + pg.delayed, FreeInto(p, pg)
  PROVE  /\ HeapType' /\ HeapInv' /\ page' \in [Page -> PageRec] /\ live' \in [Page -> Nat]
         /\ \A q \in Page : PageInv(q)'
         /\ retired_min' \in 0 .. BIN_FULL /\ retired_max' \in 0 .. BIN_FULL
<1>1. /\ TypeOK /\ HeapType /\ HeapInv /\ \A q \in Page : PageInv(q)
  BY InvParts
<1>2. retired_min \in 0 .. BIN_FULL /\ retired_max \in 0 .. BIN_FULL
  BY InvParts
<1>3. /\ SizeOk(pg.size) /\ QueueOf(page[p]) \in HeapQueue /\ pg.in_full \in BOOLEAN
  BY HeapPage
<1>4. QueueOf(pg) = QueueOf(page[p]) /\ QueueOf(pg) \in 0 .. BIN_FULL
  BY <1>3, QueueFacts DEF QueueOf
<1>5. CASE pg.used # 0
  <2>1. PICK e : e = [pg EXCEPT !.in_full = FALSE]
    OBVIOUS
  <2>2. /\ e \in PageRec /\ e.place = "heap" /\ e.size = pg.size /\ ~e.in_full /\ e.used = pg.used
        /\ e.remote = pg.remote /\ e.delayed = pg.delayed
    BY <2>1 DEF PageRec
  <2>3. /\ page' = [page EXCEPT ![p] = e] /\ SetHeap(Unfull(Heap, p, pg))
        /\ UNCHANGED <<retired_min, retired_max>>
    BY <1>5, <2>1 DEF FreeInto
  <2>4. SizeOk(e.size) /\ e.used = n + e.remote + e.delayed
    BY <1>3, <2>2
  <2>5. /\ page' \in [Page -> PageRec] /\ live' \in [Page -> Nat] /\ page'[p] = e
        /\ \A q \in Page : q # p => page'[q] = page[q]
        /\ \A q \in Page : PageInv(q)'
    BY <1>1, <2>2, <2>3, <2>4, OnePage
  <2>6. QueueOf(e) = Bin(pg.size) /\ Bin(pg.size) \in HeapQueue /\ Bin(pg.size) # BIN_FULL
    BY <1>3, <2>2, SizeIs DEF QueueOf
  <2>7. CASE pg.in_full
    <3>1. QueueOf(page[p]) = BIN_FULL
      BY <1>4, <2>7 DEF QueueOf
    <3>2. SetHeap(EnqueueFrom(Heap, Bin(pg.size), QueueOf(page[p]), p))
      BY <2>3, <2>7, <3>1 DEF Unfull
    <3>3. HeapType' /\ HeapInv'
      BY <1>1, <1>3, <2>2, <2>5, <2>6, <3>1, <3>2, HeapMoves
    <3> QED
      BY <1>2, <2>3, <2>5, <3>3
  <2>8. CASE ~pg.in_full
    <3>1. SetHeap(Heap)
      BY <2>3, <2>8 DEF Unfull
    <3>2. UNCHANGED heap
      BY <3>1 DEF SetHeap, Heap, heap
    <3>3. QueueOf(page'[p]) = QueueOf(page[p])
      BY <1>4, <2>5, <2>6, <2>8 DEF QueueOf
    <3>4. HeapType' /\ HeapInv'
      <4>1. ASSUME NEW q \in Page
            PROVE  /\ page'[q].place = "heap" <=> page[q].place = "heap"
                   /\ page[q].place = "heap" => QueueOf(page'[q]) = QueueOf(page[q])
        BY <2>2, <2>5, <3>3
      <4> QED
        BY <1>1, <3>2, <4>1, HeapSame
    <3> QED
      BY <1>2, <2>3, <2>5, <3>4
  <2> QED
    BY <2>7, <2>8
<1>6. CASE pg.used = 0 /\ ~pg.in_full /\ queue[QueueOf(pg)] = <<p>>
  <2>1. PICK x \in Nat : x = IF pg.size <= SmallObjMax THEN RetireCycles ELSE RetireCycles \div 4
    BY ConstantFacts
  <2>2. PICK e : e = [pg EXCEPT !.expire = x]
    OBVIOUS
  <2>3. /\ e \in PageRec /\ e.place = "heap" /\ e.size = pg.size /\ e.in_full = pg.in_full
        /\ e.used = pg.used /\ e.remote = pg.remote /\ e.delayed = pg.delayed
    BY <2>2 DEF PageRec
  <2>4. page' = [page EXCEPT ![p] = e] /\ UNCHANGED heap
    BY <1>6, <2>1, <2>2 DEF FreeInto
  <2>5. /\ retired_min' = IF QueueOf(pg) < retired_min THEN QueueOf(pg) ELSE retired_min
        /\ retired_max' = IF QueueOf(pg) > retired_max THEN QueueOf(pg) ELSE retired_max
    BY <1>6 DEF FreeInto
  <2>6. retired_min' \in 0 .. BIN_FULL /\ retired_max' \in 0 .. BIN_FULL
    BY <1>2, <1>4, <2>5
  <2>7. SizeOk(e.size) /\ e.used = n + e.remote + e.delayed
    BY <1>3, <2>3
  <2>8. /\ page' \in [Page -> PageRec] /\ live' \in [Page -> Nat] /\ page'[p] = e
        /\ \A q \in Page : q # p => page'[q] = page[q]
        /\ \A q \in Page : PageInv(q)'
    BY <1>1, <2>3, <2>4, <2>7, OnePage
  <2>9. HeapType' /\ HeapInv'
    <3>1. QueueOf(e) = QueueOf(page[p])
      BY <2>3 DEF QueueOf
    <3>2. ASSUME NEW q \in Page
          PROVE  /\ page'[q].place = "heap" <=> page[q].place = "heap"
                 /\ page[q].place = "heap" => QueueOf(page'[q]) = QueueOf(page[q])
      BY <2>3, <2>8, <3>1
    <3> QED
      BY <1>1, <2>4, <3>2, HeapSame
  <2> QED
    BY <2>6, <2>8, <2>9
<1>7. CASE pg.used = 0 /\ ~(~pg.in_full /\ queue[QueueOf(pg)] = <<p>>)
  <2>1. PICK e : e = Release(pg)
    OBVIOUS
  <2>2. e \in PageRec /\ e.place = "released" /\ e.delayed = pg.delayed
    BY <2>1, ReleaseIs
  <2>3. /\ page' = [page EXCEPT ![p] = e] /\ SetHeap(Remove(Heap, QueueOf(page[p]), p))
        /\ UNCHANGED <<retired_min, retired_max>>
    BY <1>4, <1>7, <2>1 DEF FreeInto
  <2>4. e.delayed = 0
    <3>1. pg.remote \in Nat /\ pg.delayed \in Nat
      BY DEF PageRec
    <3> QED
      BY <1>7, <2>2, <3>1
  <2>5. /\ page' \in [Page -> PageRec] /\ live' \in [Page -> Nat] /\ page'[p] = e
        /\ \A q \in Page : q # p => page'[q] = page[q]
        /\ \A q \in Page : PageInv(q)'
    <3>1. /\ ~(e.place \in {"heap", "abandoned"}) /\ e.place # "abandoned" /\ e.place # "fresh"
          /\ ~(e.delayed > 0)
      BY <2>2, <2>4
    <3>2. page' = [page EXCEPT ![p] = e] /\ e \in PageRec
      BY <2>2, <2>3
    <3> QED
      BY <1>1, <3>1, <3>2, OnePage
  <2>6. HeapType' /\ HeapInv'
    BY <1>1, <1>3, <2>2, <2>3, <2>5, HeapRemoves
  <2> QED
    BY <1>2, <2>3, <2>5, <2>6
<1> QED
  BY <1>5, <1>6, <1>7

\* A block is taken from the page in the array of first pages, or the slow way begins.
LEMMA MallocInv ==
  ASSUME Inv, NEW w \in Sizes, Malloc(w)
  PROVE  Inv'
<1>1. /\ TypeOK /\ HeapType /\ HeapInv /\ Role /\ init \in BOOLEAN
      /\ retired_min \in 0 .. BIN_FULL /\ retired_max \in 0 .. BIN_FULL
  BY InvParts
<1>2. retired_min' \in 0 .. BIN_FULL /\ retired_max' \in 0 .. BIN_FULL /\ UNCHANGED heap
  BY <1>1 DEF Malloc
<1>3. w \in Nat \ {0}
  BY ConstantFacts
<1>4. PICK p : p = IF w <= SmallMax + Padding THEN direct[w] ELSE EMPTY
  OBVIOUS
<1>5. CASE p # EMPTY /\ (p # EMPTY => page[p].free > 0)
  <2>1. Return(p, page[p]) /\ init' = init
    BY <1>4, <1>5 DEF Malloc
  <2>2. PICK b \in Queues : First(queue[b]) = p
    <3>1. w <= SmallMax + Padding /\ p = direct[w]
      BY <1>4, <1>5
    <3>2. w \in 1 .. SmallMax \/ w \in SmallMax + 1 .. SmallMax + Padding
      BY <1>3, <3>1, SizeFacts
    <3>3. w \in 1 .. SmallMax /\ p = First(queue[Bin(w)])
      BY <1>1, <1>5, <3>1, <3>2 DEF HeapInv, DirectInv
    <3>4. w \in 1 .. LargeMax
      BY <3>3, SizeFacts
    <3> QED
      BY <3>3, <3>4, QueueFacts
  <2>3. p \in Page /\ page[p].place = "heap"
    BY <1>5, <2>2, FirstInQueue
  <2>4. /\ page[p] \in PageRec /\ SizeOk(page[p].size)
        /\ page[p].used = live[p] + page[p].remote + page[p].delayed
    BY <2>3, HeapPage
  <2>5. /\ page' \in [Page -> PageRec] /\ live' \in [Page -> Nat]
        /\ page'[p].place = "heap" /\ QueueOf(page'[p]) = QueueOf(page[p])
        /\ \A q \in Page : q # p => page'[q] = page[q]
        /\ \A q \in Page : PageInv(q)'
        /\ pc' = "idle" /\ cur' = NoCall /\ Role'
    BY <1>5, <2>1, <2>3, <2>4, ReturnIs
  <2>6. HeapType' /\ HeapInv'
    <3>1. ASSUME NEW q \in Page
          PROVE  /\ page'[q].place = "heap" <=> page[q].place = "heap"
                 /\ page[q].place = "heap" => QueueOf(page'[q]) = QueueOf(page[q])
      BY <2>3, <2>5
    <3> QED
      BY <1>1, <1>2, <3>1, HeapSame
  <2> QED
    BY <1>1, <1>2, <2>1, <2>5, <2>6, NoCallIs, InvIs
<1>6. CASE ~(p # EMPTY /\ (p # EMPTY => page[p].free > 0))
  <2>1. init' = TRUE /\ pc' = "delayed" /\ cur' = [NoCall EXCEPT !.w = w] /\ page' = page /\ live' = live
    BY <1>4, <1>6 DEF Malloc
  <2>2. cur' \in Call /\ cur'.w = w /\ cur'.collect = "none"
    BY <1>3, <2>1, QueueFacts DEF NoCall, Call
  <2>3. Role'
    BY <1>3, <2>1, <2>2 DEF Role
  <2> QED
    BY <1>2, <2>1, <2>2, <2>3, SamePages, InvIs
<1> QED
  BY <1>5, <1>6

\* A collection begins.
LEMMA StartCollectInv ==
  ASSUME Inv, NEW kind \in {"normal", "force", "abandon"}, StartCollect(kind)
  PROVE  Inv'
<1>1. /\ init' \in BOOLEAN /\ retired_min' \in 0 .. BIN_FULL /\ retired_max' \in 0 .. BIN_FULL
      /\ UNCHANGED heap /\ page' = page /\ live' = live
      /\ pc' = "delayed" /\ cur' = [NoCall EXCEPT !.collect = kind]
  BY InvParts DEF StartCollect
<1>2. cur' \in Call /\ cur'.w = 0 /\ cur'.collect = kind
  BY <1>1, QueueFacts DEF NoCall, Call
<1>3. Role'
  BY <1>1, <1>2 DEF Role
<1> QED
  BY <1>1, <1>2, <1>3, SamePages, InvIs

\* The thread frees a delayed block.
LEMMA DelayedInv ==
  ASSUME Inv, Delayed
  PROVE  Inv'
<1>1. /\ TypeOK /\ Role /\ init' \in BOOLEAN /\ live' = live /\ pc' = "delayed" /\ pc = "delayed" /\ cur' = cur
      /\ cur' \in Call
  BY InvParts DEF Delayed
<1>2. PICK p \in Page :
        /\ page[p].delayed > 0
        /\ LET pg == Collect(page[p], FALSE)
           IN  FreeInto(p, [pg EXCEPT !.delayed = @ - 1, !.used = @ - 1, !.local = @ + 1])
  BY DEF Delayed
<1>3. page[p].place = "heap"
  BY <1>2 DEF Inv, PageInv
<1>4. /\ page[p] \in PageRec /\ page[p].used = live[p] + page[p].remote + page[p].delayed
      /\ live[p] \in Nat /\ page[p].remote \in Nat /\ page[p].delayed \in Nat /\ page[p].remote <= page[p].used
  BY <1>3, HeapPage
<1>5. PICK c : c = Collect(page[p], FALSE)
  OBVIOUS
<1>6. /\ c \in PageRec /\ c.remote = 0 /\ c.used = page[p].used - page[p].remote
      /\ c.place = page[p].place /\ c.in_full = page[p].in_full /\ c.size = page[p].size
      /\ c.delayed = page[p].delayed
  BY <1>4, <1>5, CollectIs
<1>7. PICK e : e = [c EXCEPT !.delayed = c.delayed - 1, !.used = c.used - 1, !.local = c.local + 1]
  OBVIOUS
<1>8. c.delayed - 1 \in Nat /\ c.used - 1 \in Nat /\ c.local + 1 \in Nat
  <2>1. c.local \in Nat
    BY <1>6 DEF PageRec
  <2> QED
    BY <1>2, <1>4, <1>6, <2>1
<1>9. /\ e \in PageRec /\ e.remote = 0 /\ e.used = c.used - 1 /\ e.delayed = c.delayed - 1
      /\ e.place = c.place /\ e.in_full = c.in_full /\ e.size = c.size
  BY <1>6, <1>7, <1>8 DEF PageRec
<1>10. FreeInto(p, e)
  BY <1>2, <1>5, <1>7
<1>11. e.used = live[p] + e.remote + e.delayed
  BY <1>4, <1>6, <1>9
<1>12. live' = [live EXCEPT ![p] = live[p]]
  BY <1>1, SameLive
<1>13. /\ HeapType' /\ HeapInv' /\ page' \in [Page -> PageRec] /\ live' \in [Page -> Nat]
       /\ \A q \in Page : PageInv(q)'
       /\ retired_min' \in 0 .. BIN_FULL /\ retired_max' \in 0 .. BIN_FULL
  BY <1>3, <1>4, <1>6, <1>9, <1>10, <1>11, <1>12, FreeIntoIs
<1>14. Role'
  BY <1>1, RoleSame
<1> QED
  BY <1>1, <1>13, <1>14, InvIs

\* All delayed blocks are freed.
LEMMA DelayedEndInv ==
  ASSUME Inv, DelayedEnd
  PROVE  Inv'
<1>1. /\ TypeOK /\ HeapType /\ Role /\ cur \in Call /\ init' \in BOOLEAN
      /\ retired_min \in 0 .. BIN_FULL
      /\ retired_min' \in 0 .. BIN_FULL /\ retired_max' \in 0 .. BIN_FULL
      /\ UNCHANGED heap /\ queue' = queue /\ page' = page /\ live' = live /\ pc = "delayed"
      /\ \A p \in Page : page[p].delayed = 0
  BY InvParts DEF DelayedEnd, heap
<1>2. CASE cur.collect # "none"
  <2>1. pc' = "retired" /\ cur' = [cur EXCEPT !.bin = retired_min]
    BY <1>2 DEF DelayedEnd
  <2>2. cur' \in Call /\ cur'.w = cur.w /\ cur'.collect = cur.collect
    BY <1>1, <2>1 DEF Call
  <2>3. Role'
    BY <1>1, <1>2, <2>1, <2>2 DEF Role
  <2> QED
    BY <1>1, <2>1, <2>2, <2>3, SamePages, InvIs
<1>3. CASE cur.collect = "none"
  <2>1. FindPage(cur)
    BY <1>3 DEF DelayedEnd
  <2>2. cur.w # 0
    BY <1>1, <1>3 DEF Role
  <2>3. cur' \in Call /\ pc' \in {"search", "fresh"} /\ Role'
    BY <1>1, <1>3, <2>1, <2>2, FindPageIs
  <2> QED
    BY <1>1, <2>3, SamePages, InvIs
<1> QED
  BY <1>2, <1>3

\* The first page of the queue that a search looks at.
LEMMA SearchedPage ==
  ASSUME Inv, pc = "search", cur.p # EMPTY
  PROVE  /\ cur.w \in 1 .. LargeMax /\ cur.p \in Page /\ cur.p = First(queue[Bin(cur.w)])
         /\ queue[Bin(cur.w)] \in Seq(Page) /\ queue[Bin(cur.w)] # <<>> /\ queue[Bin(cur.w)][1] = cur.p
         /\ Has(queue[Bin(cur.w)], cur.p) /\ Once(queue[Bin(cur.w)])
         /\ page[cur.p].place = "heap" /\ QueueOf(page[cur.p]) = Bin(cur.w)
<1>1. cur.w \in 1 .. LargeMax /\ cur.p = First(queue[Bin(cur.w)])
  BY DEF Inv, Role
<1>2. PICK b \in Queues : b = Bin(cur.w)
  BY <1>1, QueueFacts
<1>3. queue[b] \in Seq(Page) /\ Once(queue[b])
  BY DEF Inv, TypeOK, HeapInv, QueuesInv
<1>4. /\ First(queue[b]) \in Page /\ queue[b] # <<>> /\ queue[b][1] = First(queue[b])
      /\ Has(queue[b], First(queue[b]))
      /\ page[First(queue[b])].place = "heap" /\ QueueOf(page[First(queue[b])]) = b
  BY <1>1, <1>2, FirstInQueue
<1> QED
  BY <1>1, <1>2, <1>3, <1>4

\* Page p of the heap or abandoned, collected.
LEMMA CollectedPage ==
  ASSUME Inv, NEW p \in Page, page[p].place \in {"heap", "abandoned"}, NEW force \in BOOLEAN,
         NEW c, c = Collect(page[p], force)
  PROVE  /\ c \in PageRec /\ c.remote = 0 /\ c.place = page[p].place /\ c.in_full = page[p].in_full
         /\ c.size = page[p].size /\ c.delayed = page[p].delayed /\ c.capacity = page[p].capacity
         /\ QueueOf(c) = QueueOf(page[p]) /\ SizeOk(c.size)
         /\ c.used = live[p] + c.remote + c.delayed
<1>1. /\ page[p] \in PageRec /\ SizeOk(page[p].size)
      /\ page[p].used = live[p] + page[p].remote + page[p].delayed
      /\ live[p] \in Nat /\ page[p].remote \in Nat /\ page[p].delayed \in Nat /\ page[p].used \in Nat
      /\ page[p].remote <= page[p].used
  BY HeapPage
<1>2. /\ c \in PageRec /\ c.remote = 0 /\ c.used = page[p].used - page[p].remote
      /\ c.place = page[p].place /\ c.in_full = page[p].in_full /\ c.size = page[p].size
      /\ c.delayed = page[p].delayed
      /\ c.capacity = page[p].capacity /\ QueueOf(c) = QueueOf(page[p])
  BY <1>1, CollectIs
<1> QED
  BY <1>1, <1>2

\* The search ends with a page that has a free block.
LEMMA FoundInv ==
  ASSUME Inv, Found
  PROVE  Inv'
<1>1. pc = "search" /\ cur.p # EMPTY
  BY DEF Found
<1>2. PICK p \in Page : p = cur.p /\ page[p].place = "heap"
  BY <1>1, SearchedPage
<1>3. PICK c : c = Collect(page[p], FALSE)
  OBVIOUS
<1>4. /\ c \in PageRec /\ c.remote = 0 /\ c.place = "heap" /\ QueueOf(c) = QueueOf(page[p]) /\ SizeOk(c.size)
      /\ c.used = live[p] + c.remote + c.delayed
  BY <1>2, <1>3, CollectedPage
<1>5. PICK f : f = IF c.free = 0 /\ c.capacity < Reserved THEN Extend(c) ELSE c
  OBVIOUS
<1>6. /\ f \in PageRec /\ f.place = "heap" /\ QueueOf(f) = QueueOf(page[p]) /\ SizeOk(f.size)
      /\ f.used = live[p] + f.remote + f.delayed
  <2>1. CASE c.free = 0 /\ c.capacity < Reserved
    <3>1. f = Extend(c)
      BY <1>5, <2>1
    <3>2. /\ f \in PageRec /\ f.place = c.place /\ f.size = c.size /\ f.delayed = c.delayed
          /\ f.used = c.used /\ f.remote = c.remote /\ QueueOf(f) = QueueOf(c)
      BY <1>4, <2>1, <3>1, ExtendIs
    <3> QED
      BY <1>4, <3>2
  <2>2. CASE ~(c.free = 0 /\ c.capacity < Reserved)
    BY <1>4, <1>5, <2>2
  <2> QED
    BY <2>1, <2>2
<1>7. PICK e : e = [f EXCEPT !.expire = 0]
  OBVIOUS
<1>8. /\ e \in PageRec /\ e.place = "heap" /\ e.size = f.size /\ e.in_full = f.in_full /\ e.used = f.used
      /\ e.remote = f.remote /\ e.delayed = f.delayed /\ e.free = f.free
  BY <1>6, <1>7 DEF PageRec
<1>9. QueueOf(e) = QueueOf(page[p])
  BY <1>6, <1>8 DEF QueueOf
<1>10. e.free > 0 /\ Return(p, e)
  <2>1. LET pg == Collect(page[cur.p], FALSE)
            found == IF pg.free = 0 /\ pg.capacity < Reserved THEN Extend(pg) ELSE pg
        IN  found.free > 0 /\ Return(cur.p, [found EXCEPT !.expire = 0])
    BY DEF Found
  <2>2. f.free > 0 /\ Return(p, [f EXCEPT !.expire = 0])
    BY <1>2, <1>3, <1>5, <2>1
  <2> QED
    BY <1>7, <1>8, <2>2
<1>11. e.place = "heap" => SizeOk(e.size) /\ e.used = live[p] + e.remote + e.delayed
  BY <1>6, <1>8
<1>12. /\ page' \in [Page -> PageRec] /\ live' \in [Page -> Nat]
       /\ page'[p].place = "heap" /\ QueueOf(page'[p]) = QueueOf(page[p])
       /\ \A q \in Page : q # p => page'[q] = page[q]
       /\ \A q \in Page : PageInv(q)'
       /\ pc' = "idle" /\ cur' = NoCall /\ Role'
  BY <1>8, <1>9, <1>10, <1>11, ReturnIs
<1>13. /\ init' \in BOOLEAN /\ retired_min' \in 0 .. BIN_FULL /\ retired_max' \in 0 .. BIN_FULL
       /\ UNCHANGED heap /\ HeapType /\ HeapInv
  BY InvParts DEF Found
<1>14. HeapType' /\ HeapInv'
  <2>1. ASSUME NEW q \in Page
        PROVE  /\ page'[q].place = "heap" <=> page[q].place = "heap"
               /\ page[q].place = "heap" => QueueOf(page'[q]) = QueueOf(page[q])
    BY <1>2, <1>12
  <2> QED
    BY <1>13, <2>1, HeapSame
<1> QED
  BY <1>12, <1>13, <1>14, NoCallIs, InvIs

\* The page that the search leaves behind was the first, and so the next one is
\* the first when it has moved to the full queue.
LEMMA ToFullInv ==
  ASSUME Inv, ToFull
  PROVE  Inv'
<1>1. pc = "search" /\ cur.p # EMPTY
  BY DEF ToFull
<1>2. PICK p \in Page : p = cur.p /\ page[p].place = "heap"
  BY <1>1, SearchedPage
<1>3. PICK b \in HeapQueue : b = Bin(cur.w) /\ b # BIN_FULL
  BY <1>1, SearchedPage, QueueFacts
<1>4. PICK q \in Seq(Page) : q = queue[b] /\ q # <<>> /\ q[1] = p /\ Has(q, p) /\ Once(q)
  BY <1>1, <1>2, <1>3, SearchedPage
<1>5. QueueOf(page[p]) = b /\ cur.w \in 1 .. LargeMax
  BY <1>1, <1>2, <1>3, SearchedPage
<1>6. PICK c : c = Collect(page[p], FALSE)
  OBVIOUS
<1>7. /\ c \in PageRec /\ c.remote = 0 /\ c.place = "heap" /\ SizeOk(c.size)
      /\ c.used = live[p] + c.remote + c.delayed
  BY <1>2, <1>6, CollectedPage
<1>8. PICK e : e = [c EXCEPT !.in_full = TRUE]
  OBVIOUS
<1>9. /\ e \in PageRec /\ e.place = "heap" /\ e.size = c.size /\ e.in_full /\ e.used = c.used
      /\ e.remote = c.remote /\ e.delayed = c.delayed
  BY <1>7, <1>8 DEF PageRec
<1>10. QueueOf(e) = BIN_FULL
  BY <1>9 DEF QueueOf
<1>11. /\ SetHeap(EnqueueFrom(Heap, BIN_FULL, b, p)) /\ page' = [page EXCEPT ![p] = e]
       /\ \E i \in DOMAIN q :
            /\ q[i] = p
            /\ cur' = [cur EXCEPT !.p = IF i = Len(q) THEN EMPTY ELSE q[i + 1]]
  BY <1>2, <1>3, <1>4, <1>6, <1>8 DEF ToFull
<1>12. /\ TypeOK /\ HeapType /\ HeapInv /\ Role /\ cur \in Call /\ \A x \in Page : PageInv(x)
       /\ init' \in BOOLEAN /\ retired_min' \in 0 .. BIN_FULL /\ retired_max' \in 0 .. BIN_FULL
       /\ live' = live /\ pc' = "search"
  BY InvParts DEF ToFull
<1>13. live[p] \in Nat /\ live' = [live EXCEPT ![p] = live[p]]
  BY <1>12, SameLive
<1>14. SizeOk(e.size) /\ e.used = live[p] + e.remote + e.delayed
  BY <1>7, <1>9
<1>15. /\ page' \in [Page -> PageRec] /\ live' \in [Page -> Nat] /\ page'[p] = e
       /\ \A x \in Page : x # p => page'[x] = page[x]
       /\ \A x \in Page : PageInv(x)'
  <2>1. page' = [page EXCEPT ![p] = e] /\ e \in PageRec /\ e.place = "heap"
    BY <1>9, <1>11
  <2> QED
    BY <1>12, <1>13, <1>14, <2>1, OnePage
<1>16. HeapType' /\ HeapInv' /\ queue'[b] = Without(q, p)
  <2>1. SetHeap(EnqueueFrom(Heap, BIN_FULL, QueueOf(page[p]), p))
    BY <1>5, <1>11
  <2>2. HeapType' /\ HeapInv' /\ queue'[QueueOf(page[p])] = Without(queue[QueueOf(page[p])], p)
    BY <1>2, <1>3, <1>5, <1>9, <1>10, <1>12, <1>15, <2>1, QueueFacts, HeapMoves
  <2> QED
    BY <1>4, <1>5, <2>2
<1>17. PICK n \in Page \cup {EMPTY} : /\ n = First(queue'[b]) /\ cur' = [cur EXCEPT !.p = n]
  <2>1. PICK i \in DOMAIN q : q[i] = p /\ cur' = [cur EXCEPT !.p = IF i = Len(q) THEN EMPTY ELSE q[i + 1]]
    BY <1>11
  <2>2. i = 1
    <3>1. 1 \in DOMAIN q
      BY <1>4, LenProperties, EmptySeq
    <3> QED
      BY <1>4, <2>1, <3>1 DEF Once
  <2>3. First(Without(q, p)) = IF Len(q) = 1 THEN EMPTY ELSE q[2]
    BY <1>4, WithoutIs
  <2>4. Without(q, p) \in Seq(Page)
    BY <1>4, WithoutIs
  <2>5. First(Without(q, p)) \in Page \cup {EMPTY}
    BY <2>4, FirstIs
  <2>6. cur' = [cur EXCEPT !.p = IF Len(q) = 1 THEN EMPTY ELSE q[2]]
    <3>1. (1 = Len(q) <=> Len(q) = 1) /\ 1 + 1 = 2
      OBVIOUS
    <3> QED
      BY <2>1, <2>2, <3>1
  <2> QED
    BY <1>16, <2>3, <2>5, <2>6, Zenon
<1>18. cur' \in Call /\ cur'.w = cur.w /\ cur'.collect = cur.collect /\ cur'.p = n
  BY <1>12, <1>17 DEF Call
<1>19. Role'
  BY <1>1, <1>3, <1>5, <1>12, <1>17, <1>18 DEF Role
<1> QED
  BY <1>12, <1>15, <1>16, <1>18, <1>19, InvIs

\* The search ends without a page.
LEMMA SearchEndInv ==
  ASSUME Inv, SearchEnd
  PROVE  Inv'
<1>1. /\ Role /\ cur \in Call /\ init' \in BOOLEAN /\ retired_min \in 0 .. BIN_FULL
      /\ retired_min' \in 0 .. BIN_FULL /\ retired_max' \in 0 .. BIN_FULL
      /\ UNCHANGED heap /\ page' = page /\ live' = live /\ pc = "search" /\ pc' = "retired"
      /\ cur' = [cur EXCEPT !.bin = retired_min, !.min = BIN_FULL, !.max = 0]
  BY InvParts DEF SearchEnd
<1>2. cur' \in Call /\ cur'.w = cur.w /\ cur'.collect = cur.collect
  <2>1. BIN_FULL \in 0 .. BIN_FULL /\ 0 \in 0 .. BIN_FULL
    BY QueueFacts
  <2>2. cur \in Call /\ retired_min \in 0 .. BIN_FULL
    BY <1>1
  <2>3. cur' = [cur EXCEPT !.bin = retired_min, !.min = BIN_FULL, !.max = 0]
    BY <1>1
  <2> QED
    BY <2>1, <2>2, <2>3 DEF Call
<1>3. Role'
  BY <1>1, <1>2 DEF Role
<1> QED
  BY <1>1, <1>2, <1>3, SamePages, InvIs

\* A set of naturals that is not empty has a least element.
LEMMA LeastNatural ==
  ASSUME NEW S \in SUBSET Nat, S # {}
  PROVE  \E x \in S : \A y \in S : x <= y
<1> DEFINE R == {ss \in Nat \X Nat : ss[1] < ss[2]}
<1>1. R = OpToRel(<, Nat)
  BY Zenon DEF OpToRel
<1>2. PICK x \in S : \A y \in S : ~ (<<y, x>> \in R)
  <2>1. IsWellFoundedOn(R, Nat)
    BY <1>1, NatLessThanWellFounded, Zenon
  <2> HIDE DEF R
  <2> QED
    BY <2>1, WFMin, Zenon
<1>3. ASSUME NEW y \in S PROVE x <= y
  <2>1. x \in Nat /\ y \in Nat
    OBVIOUS
  <2>2. ~ (y < x)
    BY <2>1, <1>2
  <2> QED
    BY <2>1, <2>2
<1> QED
  BY <1>3

\* The classes whose first page is retired, from the next one on.
RetiredBins == {b \in Bins \cap (cur.bin .. retired_max) :
                  queue[b] # <<>> /\ (queue[b] # <<>> => page[queue[b][1]].expire # 0)}

\* The page that _mi_heap_collect_retired looks at.
LEMMA RetiredPage ==
  ASSUME Inv, NEW b, RetiredBins # {}, b = CHOOSE x \in RetiredBins : \A y \in RetiredBins : x <= y
  PROVE  /\ b \in Bins /\ b + 1 \in 0 .. BIN_FULL /\ queue[b][1] \in Page
         /\ page[queue[b][1]].place = "heap" /\ QueueOf(page[queue[b][1]]) = b
         /\ page[queue[b][1]].expire # 0
<1>1. RetiredBins \in SUBSET Nat
  <2>1. \A x \in Bins : x \in Nat
    <3>1. \A x \in Bins : x \in 0 .. 68
      BY QueueFacts
    <3> QED
      BY <3>1
  <2> QED
    BY <2>1, Zenon DEF RetiredBins
<1>2. b \in RetiredBins
  BY <1>1, LeastNatural
<1>3. b \in Bins /\ b \in Queues /\ queue[b] # <<>> /\ page[queue[b][1]].expire # 0
  BY <1>2 DEF RetiredBins, Queues
<1>4. queue[b] \in Seq(Page)
  BY <1>3 DEF Inv, TypeOK
<1>5. First(queue[b]) = queue[b][1] /\ First(queue[b]) # EMPTY
  BY <1>3, <1>4, FirstIs DEF First
<1>6. b + 1 \in 0 .. BIN_FULL
  <2>1. b \in 0 .. 68 /\ BIN_FULL = 74
    BY <1>3, QueueFacts
  <2>2. \A x \in 0 .. 68 : x + 1 \in 0 .. 74
    OBVIOUS
  <2> QED
    BY <2>1, <2>2, Zenon
<1> QED
  BY <1>3, <1>5, <1>6, FirstInQueue

\* A page whose number of cycles is set to n stays where it is.
LEMMA ExpireSet ==
  ASSUME Inv, NEW p \in Page, page[p].place = "heap", NEW n \in Nat,
         page' = [page EXCEPT ![p].expire = n], live' = live, UNCHANGED heap
  PROVE  /\ HeapType' /\ HeapInv' /\ page' \in [Page -> PageRec] /\ live' \in [Page -> Nat]
         /\ \A q \in Page : PageInv(q)'
         /\ \A q \in Page : page'[q].delayed = page[q].delayed
<1>1. PICK e : e = [page[p] EXCEPT !.expire = n]
  OBVIOUS
<1>2. /\ TypeOK /\ HeapType /\ HeapInv /\ page \in [Page -> PageRec] /\ \A q \in Page : PageInv(q)
  BY InvParts
<1>3. /\ page[p] \in PageRec /\ SizeOk(page[p].size)
      /\ page[p].used = live[p] + page[p].remote + page[p].delayed
  BY HeapPage
<1>4. /\ e \in PageRec /\ e.place = "heap" /\ e.size = page[p].size /\ e.in_full = page[p].in_full
      /\ e.used = page[p].used /\ e.remote = page[p].remote /\ e.delayed = page[p].delayed
  BY <1>1, <1>3 DEF PageRec
<1>5. page' = [page EXCEPT ![p] = e]
  BY <1>1, <1>2
<1>6. live[p] \in Nat /\ live' = [live EXCEPT ![p] = live[p]]
  BY <1>2, SameLive
<1>7. SizeOk(e.size) /\ e.used = live[p] + e.remote + e.delayed
  BY <1>3, <1>4
<1>8. /\ page' \in [Page -> PageRec] /\ live' \in [Page -> Nat] /\ page'[p] = e
      /\ \A q \in Page : q # p => page'[q] = page[q]
      /\ \A q \in Page : PageInv(q)'
  <2>1. e.place # "abandoned" /\ e.place # "fresh" /\ e.place = "heap" /\ e \in PageRec
    BY <1>4
  <2> QED
    BY <1>2, <1>5, <1>6, <1>7, <2>1, OnePage
<1>9. QueueOf(e) = QueueOf(page[p])
  BY <1>4 DEF QueueOf
<1>10. ASSUME NEW q \in Page
       PROVE  /\ page'[q].place = "heap" <=> page[q].place = "heap"
              /\ page[q].place = "heap" => QueueOf(page'[q]) = QueueOf(page[q])
              /\ page'[q].delayed = page[q].delayed
  BY <1>4, <1>8, <1>9
<1>11. HeapType' /\ HeapInv'
  BY <1>2, <1>10, HeapSame
<1> QED
  BY <1>8, <1>10, <1>11

\* A page of the heap that is given back: no block of it is used.
LEMMA PageReleased ==
  ASSUME Inv, NEW p \in Page, page[p].place = "heap", NEW pg \in PageRec,
         pg.delayed = page[p].delayed, page[p].delayed = 0,
         page' = [page EXCEPT ![p] = Release(pg)], live' = live,
         SetHeap(Remove(Heap, QueueOf(page[p]), p))
  PROVE  /\ HeapType' /\ HeapInv' /\ page' \in [Page -> PageRec] /\ live' \in [Page -> Nat]
         /\ \A q \in Page : PageInv(q)'
         /\ \A q \in Page : page'[q].delayed = page[q].delayed
         /\ page'[p].place # "heap" /\ \A q \in Page : q # p => page'[q] = page[q]
<1>1. PICK e : e = Release(pg)
  OBVIOUS
<1>2. e \in PageRec /\ e.place = "released" /\ e.delayed = 0
  BY <1>1, ReleaseIs
<1>3. /\ TypeOK /\ HeapType /\ HeapInv /\ \A q \in Page : PageInv(q)
  BY InvParts
<1>4. live[p] \in Nat /\ live' = [live EXCEPT ![p] = live[p]]
  BY <1>3, SameLive
<1>5. /\ page' \in [Page -> PageRec] /\ live' \in [Page -> Nat] /\ page'[p] = e
      /\ \A q \in Page : q # p => page'[q] = page[q]
      /\ \A q \in Page : PageInv(q)'
  <2>1. /\ ~(e.place \in {"heap", "abandoned"}) /\ e.place # "abandoned" /\ e.place # "fresh"
        /\ ~(e.delayed > 0)
    BY <1>2
  <2>2. page' = [page EXCEPT ![p] = e] /\ e \in PageRec
    BY <1>1, <1>2
  <2>3. /\ e.place \in {"heap", "abandoned"} =>
             SizeOk(e.size) /\ e.used = live[p] + e.remote + e.delayed
        /\ e.place = "abandoned" => ~e.in_full
        /\ e.delayed > 0 => e.place = "heap"
        /\ e.place # "fresh"
    BY <2>1
  <2>4. TypeOK /\ \A q \in Page : PageInv(q)
    BY <1>3
  <2> QED
    BY <1>4, <2>2, <2>3, <2>4, OnePage
<1>6. HeapType' /\ HeapInv'
  BY <1>2, <1>3, <1>5, HeapPage, HeapRemoves
<1>7. ASSUME NEW q \in Page
      PROVE  page'[q].delayed = page[q].delayed
  BY <1>2, <1>5
<1> QED
  BY <1>2, <1>5, <1>6, <1>7

\* A class with a retired page, in each of the four ways.
LEMMA RetiredInv ==
  ASSUME Inv, Retired
  PROVE  Inv'
<1>1. /\ pc = "retired" /\ init' \in BOOLEAN /\ live' = live
      /\ Role /\ cur \in Call /\ retired_min \in 0 .. BIN_FULL /\ retired_max \in 0 .. BIN_FULL
  BY InvParts DEF Retired
<1>2. PICK R, b, p : /\ R = RetiredBins /\ b = CHOOSE x \in RetiredBins : \A y \in RetiredBins : x <= y
                     /\ p = queue[b][1]
  OBVIOUS
<1>3. PICK n : n = page[p].expire - 1
  OBVIOUS
<1>4. ASSUME R # {}
      PROVE  /\ b \in Bins /\ b + 1 \in 0 .. BIN_FULL /\ b \in 0 .. BIN_FULL
             /\ p \in Page /\ page[p].place = "heap" /\ QueueOf(page[p]) = b
             /\ n \in Nat /\ page[p] \in PageRec
  <2>1. /\ b \in Bins /\ b + 1 \in 0 .. BIN_FULL
        /\ p \in Page /\ page[p].place = "heap" /\ QueueOf(page[p]) = b /\ page[p].expire # 0
    BY <1>2, <1>4, RetiredPage
  <2>2. page[p] \in PageRec
    BY <2>1, InvParts
  <2>3. n \in Nat
    BY <1>3, <2>1, <2>2 DEF PageRec
  <2>4. b \in 0 .. BIN_FULL
    BY <2>1, QueueFacts
  <2> QED
    BY <2>1, <2>2, <2>3, <2>4
<1> DEFINE Gone == /\ R # {} /\ page[p].used = 0 /\ SetHeap(Remove(Heap, b, p))
                   /\ page' = [page EXCEPT ![p] = Release([page[p] EXCEPT !.expire = n])]
                   /\ cur' = [cur EXCEPT !.bin = b + 1]
                   /\ UNCHANGED <<retired_min, retired_max, pc>>
           Kept == /\ R # {} /\ page' = [page EXCEPT ![p].expire = n] /\ cur' = Keep(b)
                   /\ UNCHANGED <<heap, retired_min, retired_max, pc>>
           Busy == /\ R # {} /\ page' = [page EXCEPT ![p].expire = 0] /\ cur' = [cur EXCEPT !.bin = b + 1]
                   /\ UNCHANGED <<heap, retired_min, retired_max, pc>>
           Done == /\ retired_min' = cur.min /\ retired_max' = cur.max
                   /\ IF cur.collect # "none"
                        THEN pc' = "visit" /\ cur' = [cur EXCEPT !.todo = HeapPages]
                        ELSE pc' = "fresh" /\ UNCHANGED cur
                   /\ UNCHANGED <<heap, page>>
<1>5. Gone \/ Kept \/ Busy \/ Done
  BY <1>2, <1>3 DEF Retired, RetiredBins, HeapPages
<1>6. ASSUME NEW c \in Call, cur' = c, c.w = cur.w, c.collect = cur.collect, pc' = pc,
             \A q \in Page : page'[q].delayed = page[q].delayed
      PROVE  cur' \in Call /\ pc' = "retired" /\ Role'
  BY <1>1, <1>6 DEF Role
<1>7. CASE Gone
  <2>1. PICK g : g = [page[p] EXCEPT !.expire = n]
    OBVIOUS
  <2>2. g \in PageRec /\ g.delayed = page[p].delayed
    BY <1>4, <1>7, <2>1 DEF PageRec
  <2>3. page[p].delayed = 0
    <3>1. /\ page[p].used = live[p] + page[p].remote + page[p].delayed
          /\ live[p] \in Nat /\ page[p].remote \in Nat /\ page[p].delayed \in Nat
      BY <1>4, <1>7, HeapPage
    <3> QED
      BY <1>7, <3>1
  <2>4. page' = [page EXCEPT ![p] = Release(g)] /\ SetHeap(Remove(Heap, QueueOf(page[p]), p))
    BY <1>4, <1>7, <2>1
  <2>5. /\ HeapType' /\ HeapInv' /\ page' \in [Page -> PageRec] /\ live' \in [Page -> Nat]
        /\ \A q \in Page : PageInv(q)'
        /\ \A q \in Page : page'[q].delayed = page[q].delayed
    BY <1>1, <1>4, <1>7, <2>2, <2>3, <2>4, PageReleased
  <2>6. PICK c : c = [cur EXCEPT !.bin = b + 1]
    OBVIOUS
  <2>7. c \in Call /\ c.w = cur.w /\ c.collect = cur.collect
    BY <1>1, <1>4, <1>7, <2>6 DEF Call
  <2>8. cur' \in Call /\ pc' = "retired" /\ Role'
    BY <1>6, <1>7, <2>5, <2>6, <2>7
  <2> QED
    BY <1>1, <1>7, <2>5, <2>8, InvIs
<1>8. CASE Kept
  <2>5. /\ HeapType' /\ HeapInv' /\ page' \in [Page -> PageRec] /\ live' \in [Page -> Nat]
        /\ \A q \in Page : PageInv(q)'
        /\ \A q \in Page : page'[q].delayed = page[q].delayed
    BY <1>1, <1>4, <1>8, ExpireSet
  <2>6. PICK c : c = Keep(b)
    OBVIOUS
  <2>7. c \in Call /\ c.w = cur.w /\ c.collect = cur.collect
    <3>1. PICK x \in 0 .. BIN_FULL, y \in 0 .. BIN_FULL :
             /\ x = IF b < cur.min THEN b ELSE cur.min
             /\ y = IF b > cur.max THEN b ELSE cur.max
      <4>1. cur.min \in 0 .. BIN_FULL /\ cur.max \in 0 .. BIN_FULL /\ b \in 0 .. BIN_FULL
        BY <1>1, <1>4, <1>8 DEF Call
      <4>2. (IF b < cur.min THEN b ELSE cur.min) \in 0 .. BIN_FULL
        BY <4>1
      <4>3. (IF b > cur.max THEN b ELSE cur.max) \in 0 .. BIN_FULL
        BY <4>1
      <4> QED
        BY <4>2, <4>3, Zenon
    <3>2. c = [cur EXCEPT !.bin = b + 1, !.min = x, !.max = y]
      <4>1. c = [cur EXCEPT !.bin = b + 1, !.min = IF b < cur.min THEN b ELSE cur.min,
                            !.max = IF b > cur.max THEN b ELSE cur.max]
        BY <2>6, Zenon DEF Keep
      <4> QED
        BY <3>1, <4>1, Zenon
    <3>3. cur \in Call /\ b + 1 \in 0 .. BIN_FULL /\ x \in 0 .. BIN_FULL /\ y \in 0 .. BIN_FULL
      BY <1>1, <1>4, <1>8
    <3> QED
      BY <3>2, <3>3 DEF Call
  <2>8. cur' \in Call /\ pc' = "retired" /\ Role'
    BY <1>6, <1>8, <2>5, <2>6, <2>7
  <2> QED
    BY <1>1, <1>8, <2>5, <2>8, InvIs
<1>9. CASE Busy
  <2>5. /\ HeapType' /\ HeapInv' /\ page' \in [Page -> PageRec] /\ live' \in [Page -> Nat]
        /\ \A q \in Page : PageInv(q)'
        /\ \A q \in Page : page'[q].delayed = page[q].delayed
    BY <1>1, <1>4, <1>9, ExpireSet
  <2>6. PICK c : c = [cur EXCEPT !.bin = b + 1]
    OBVIOUS
  <2>7. c \in Call /\ c.w = cur.w /\ c.collect = cur.collect
    BY <1>1, <1>4, <1>9, <2>6 DEF Call
  <2>8. cur' \in Call /\ pc' = "retired" /\ Role'
    BY <1>6, <1>9, <2>5, <2>6, <2>7
  <2> QED
    BY <1>1, <1>9, <2>5, <2>8, InvIs
<1>10. CASE Done
  <2>1. UNCHANGED heap /\ page' = page
    BY <1>10
  <2>2. retired_min' \in 0 .. BIN_FULL /\ retired_max' \in 0 .. BIN_FULL
    BY <1>1, <1>10 DEF Call
  <2>3. CASE cur.collect # "none"
    <3>1. pc' = "visit" /\ cur' = [cur EXCEPT !.todo = HeapPages] /\ HeapPages \in SUBSET Page
      BY <1>10, <2>3 DEF HeapPages
    <3>2. cur' \in Call /\ cur'.w = cur.w /\ cur'.collect = cur.collect /\ cur'.todo = HeapPages
      BY <1>1, <3>1 DEF Call
    <3>3. \A q \in Page : page[q].delayed = 0
      BY <1>1, <2>3 DEF Role
    <3>4. HeapPages' = HeapPages
      BY <2>1 DEF HeapPages
    <3>5. \A q \in HeapPages : page[q].place = "heap"
      BY DEF HeapPages
    <3>6. Role'
      BY <1>1, <2>1, <2>3, <3>1, <3>2, <3>3, <3>4, <3>5 DEF Role
    <3> QED
      BY <1>1, <2>1, <2>2, <3>1, <3>2, <3>6, SamePages, InvIs
  <2>4. CASE cur.collect = "none"
    <3>1. pc' = "fresh" /\ cur' = cur
      BY <1>10, <2>4
    <3>2. Role'
      BY <1>1, <2>4, <3>1 DEF Role
    <3> QED
      BY <1>1, <2>1, <2>2, <3>1, <3>2, SamePages, InvIs
  <2> QED
    BY <2>3, <2>4
<1> QED
  BY <1>5, <1>7, <1>8, <1>9, <1>10

\* A page of a segment is put into its queue.
LEMMA FreshPageInv ==
  ASSUME Inv, FreshPage
  PROVE  Inv'
<1>1. /\ TypeOK /\ HeapType /\ HeapInv /\ Role /\ cur \in Call /\ live \in [Page -> Nat]
      /\ init' \in BOOLEAN /\ retired_min' \in 0 .. BIN_FULL /\ retired_max' \in 0 .. BIN_FULL
      /\ pc = "fresh" /\ cur.w <= LargeMax
  BY InvParts DEF FreshPage
<1>2. PICK p \in Page :
        /\ page[p].place = "fresh" /\ SetHeap(Push(Heap, Bin(cur.w), p))
        /\ Return(p, Extend([page[p] EXCEPT !.place = "heap", !.size = BinSize(Bin(cur.w))]))
  BY DEF FreshPage
<1>3. cur.w \in 1 .. LargeMax
  <2>1. cur.w \in Nat /\ cur.w # 0
    BY <1>1 DEF Role, Call
  <2> QED
    BY <1>1, <2>1, SizeFacts
<1>4. PICK b \in HeapQueue : b = Bin(cur.w)
  BY <1>3, QueueFacts
<1>5. PICK s : /\ s = BinSize(Bin(cur.w)) /\ SizeOk(s) /\ s \in Nat
               /\ Bin(s) = b
  <2>1. SizeOk(BinSize(Bin(cur.w)))
    BY <1>3 DEF SizeOk
  <2>2. BinSize(Bin(cur.w)) \in 1 .. LargeMax
    BY <2>1, SizeIs
  <2>3. Bin(BinSize(Bin(cur.w))) = Bin(cur.w)
    BY <1>3, ClassesAre
  <2> QED
    BY <1>4, <2>1, <2>2, <2>3
<1>6. page[p] = Fresh0 /\ live[p] = 0
  BY <1>2 DEF Inv, PageInv
<1>7. PICK g : g = [Fresh0 EXCEPT !.place = "heap", !.size = s]
  OBVIOUS
<1>8. /\ g \in PageRec /\ g.place = "heap" /\ g.size = s /\ ~g.in_full /\ g.capacity = 0 /\ g.used = 0
      /\ g.remote = 0 /\ g.delayed = 0
  BY <1>5, <1>7 DEF Fresh0, PageRec
<1>9. PICK e : e = Extend(g)
  OBVIOUS
<1>10. /\ e \in PageRec /\ e.free > 0 /\ e.place = "heap" /\ e.size = s /\ e.in_full = g.in_full
       /\ e.used = 0 /\ e.remote = 0 /\ e.delayed = 0
  BY <1>8, <1>9, ConstantFacts, ExtendIs
<1>11. QueueOf(e) = b
  BY <1>5, <1>8, <1>10 DEF QueueOf
<1>12. Return(p, e)
  BY <1>2, <1>5, <1>6, <1>7, <1>9
<1>13. e.used = live[p] + e.remote + e.delayed
  BY <1>6, <1>10
<1>14. /\ page' \in [Page -> PageRec] /\ live' \in [Page -> Nat]
       /\ page'[p].place = "heap" /\ QueueOf(page'[p]) = b
       /\ \A q \in Page : q # p => page'[q] = page[q]
       /\ \A q \in Page : PageInv(q)'
       /\ pc' = "idle" /\ cur' = NoCall /\ Role'
  BY <1>5, <1>10, <1>11, <1>12, <1>13, ReturnIs
<1>15. HeapType' /\ HeapInv'
  <2>1. page[p].place # "heap" /\ SetHeap(Push(Heap, b, p))
    BY <1>2, <1>4
  <2> QED
    BY <1>1, <1>14, <2>1, HeapPushes
<1> QED
  BY <1>1, <1>14, <1>15, NoCallIs, InvIs

\* A huge page is in no queue.
LEMMA HugePageInv ==
  ASSUME Inv, HugePage
  PROVE  Inv'
<1>1. /\ TypeOK /\ HeapType /\ HeapInv /\ Role /\ cur \in Call /\ UNCHANGED heap
      /\ init' \in BOOLEAN /\ retired_min' \in 0 .. BIN_FULL /\ retired_max' \in 0 .. BIN_FULL
  BY InvParts DEF HugePage
<1>2. PICK p \in Page :
        /\ page[p].place = "fresh"
        /\ Return(p, [page[p] EXCEPT !.place = "huge", !.size = cur.w, !.free = 1, !.capacity = 1])
  BY DEF HugePage
<1>3. page[p] = Fresh0
  BY <1>2 DEF Inv, PageInv
<1>4. PICK e : e = [Fresh0 EXCEPT !.place = "huge", !.size = cur.w, !.free = 1, !.capacity = 1]
  OBVIOUS
<1>5. e \in PageRec /\ e.place = "huge" /\ e.free = 1 /\ e.delayed = 0
  <2>1. cur.w \in Nat
    BY <1>1 DEF Call
  <2> QED
    BY <1>4, <2>1 DEF Fresh0, PageRec
<1>6. Return(p, e)
  BY <1>2, <1>3, <1>4
<1>7. e.free > 0 /\ e.place # "heap" /\ e.place \in {"heap", "huge"} /\ ~(e.delayed > 0)
  BY <1>5
<1>8. /\ page' \in [Page -> PageRec] /\ live' \in [Page -> Nat]
      /\ page'[p].place = e.place
      /\ \A q \in Page : q # p => page'[q] = page[q]
      /\ \A q \in Page : PageInv(q)'
      /\ pc' = "idle" /\ cur' = NoCall /\ Role'
  BY <1>5, <1>6, <1>7, ReturnIs
<1>9. HeapType' /\ HeapInv'
  <2>1. ASSUME NEW q \in Page
        PROVE  /\ page'[q].place = "heap" <=> page[q].place = "heap"
               /\ page[q].place = "heap" => QueueOf(page'[q]) = QueueOf(page[q])
    BY <1>2, <1>7, <1>8
  <2> QED
    BY <1>1, <2>1, HeapSame
<1> QED
  BY <1>1, <1>8, <1>9, NoCallIs, InvIs

\* An abandoned page comes into the heap, or is given back.
LEMMA ReclaimPageInv ==
  ASSUME Inv, ReclaimPage
  PROVE  Inv'
<1>1. /\ TypeOK /\ HeapType /\ HeapInv /\ Role /\ cur \in Call /\ \A q \in Page : PageInv(q)
  BY InvParts
<1>2. /\ init' \in BOOLEAN /\ retired_min' \in 0 .. BIN_FULL /\ retired_max' \in 0 .. BIN_FULL
      /\ pc = "fresh" /\ live' = live
  BY InvParts DEF ReclaimPage
<1>3. PICK p \in Page :
       LET pg == Collect(page[p], FALSE)
           right == pg.size = BinSize(Bin(cur.w)) /\ (pg.free > 0 \/ pg.capacity < Reserved)
       IN
       /\ page[p].place = "abandoned"
       /\ IF pg.used = 0
            THEN page' = [page EXCEPT ![p] = Release(pg)] /\ UNCHANGED <<heap, pc, cur>>
            ELSE /\ page' = [page EXCEPT ![p] = [pg EXCEPT !.place = "heap"]]
                 /\ SetHeap(Push(Heap, Bin(pg.size), p))
                 /\ IF right THEN Again ELSE UNCHANGED <<pc, cur>>
  BY DEF ReclaimPage
<1>4. PICK c : c = Collect(page[p], FALSE)
  OBVIOUS
<1>5. page[p].place = "abandoned"
  BY <1>3
<1>6. /\ c \in PageRec /\ c.remote = 0 /\ c.in_full = page[p].in_full /\ SizeOk(c.size)
      /\ c.delayed = page[p].delayed /\ c.used = live[p] + c.remote + c.delayed
  BY <1>4, <1>5, CollectedPage
<1>7. ~c.in_full /\ c.delayed = 0
  <2>1. ~page[p].in_full /\ ~(page[p].delayed > 0)
    BY <1>1, <1>5 DEF PageInv
  <2>2. c.delayed \in Nat
    BY <1>6 DEF PageRec
  <2> QED
    BY <1>6, <2>1, <2>2
<1>8. live[p] \in Nat /\ live' = [live EXCEPT ![p] = live[p]]
  BY <1>1, <1>2, SameLive
<1>9. cur.w # 0 /\ cur.collect = "none"
  BY <1>1, <1>2 DEF Role
<1>10. CASE c.used = 0
  <2>1. PICK e : e = Release(c)
    OBVIOUS
  <2>2. e \in PageRec /\ e.place = "released" /\ e.delayed = 0
    BY <1>6, <1>7, <2>1, ReleaseIs
  <2>3. page' = [page EXCEPT ![p] = e] /\ UNCHANGED heap /\ pc' = pc /\ cur' = cur
    BY <1>3, <1>4, <1>10, <2>1
  <2>4. /\ page' \in [Page -> PageRec] /\ live' \in [Page -> Nat] /\ page'[p] = e
        /\ \A q \in Page : q # p => page'[q] = page[q]
        /\ \A q \in Page : PageInv(q)'
    <3>1. /\ ~(e.place \in {"heap", "abandoned"}) /\ e.place # "abandoned" /\ e.place # "fresh"
          /\ ~(e.delayed > 0)
      BY <2>2
    <3>2. page' = [page EXCEPT ![p] = e] /\ e \in PageRec
      BY <2>2, <2>3
    <3> QED
      BY <1>1, <1>8, <3>1, <3>2, OnePage
  <2>5. HeapType' /\ HeapInv'
    <3>1. ASSUME NEW q \in Page
          PROVE  /\ page'[q].place = "heap" <=> page[q].place = "heap"
                 /\ page[q].place = "heap" => QueueOf(page'[q]) = QueueOf(page[q])
      BY <1>5, <2>2, <2>4
    <3> QED
      BY <1>1, <2>3, <3>1, HeapSame
  <2>6. Role'
    BY <1>1, <1>2, <2>3, RoleSame
  <2> QED
    BY <1>1, <1>2, <2>3, <2>4, <2>5, <2>6, InvIs
<1>11. CASE c.used # 0
  <2>1. PICK e : e = [c EXCEPT !.place = "heap"]
    OBVIOUS
  <2>2. /\ e \in PageRec /\ e.place = "heap" /\ e.size = c.size /\ ~e.in_full /\ e.used = c.used
        /\ e.remote = 0 /\ e.delayed = 0
    BY <1>6, <1>7, <2>1 DEF PageRec
  <2>3. QueueOf(e) = Bin(c.size) /\ Bin(c.size) \in HeapQueue
    BY <1>6, <2>2, SizeIs DEF QueueOf
  <2>4. /\ page' = [page EXCEPT ![p] = e] /\ SetHeap(Push(Heap, Bin(c.size), p))
        /\ Again \/ (pc' = pc /\ cur' = cur)
    BY <1>3, <1>4, <1>11, <2>1
  <2>5. SizeOk(e.size) /\ e.used = live[p] + e.remote + e.delayed
    BY <1>6, <1>7, <2>2
  <2>6. /\ page' \in [Page -> PageRec] /\ live' \in [Page -> Nat] /\ page'[p] = e
        /\ \A q \in Page : q # p => page'[q] = page[q]
        /\ \A q \in Page : PageInv(q)'
    <3>1. page' = [page EXCEPT ![p] = e] /\ e \in PageRec /\ e.place = "heap"
      BY <2>2, <2>4
    <3> QED
      BY <1>1, <1>8, <2>5, <3>1, OnePage
  <2>7. HeapType' /\ HeapInv'
    <3>1. page[p].place # "heap" /\ SetHeap(Push(Heap, Bin(c.size), p)) /\ page'[p].place = "heap"
          /\ QueueOf(page'[p]) = Bin(c.size)
      BY <1>5, <2>2, <2>3, <2>4, <2>6
    <3> QED
      BY <1>1, <2>3, <2>6, <3>1, HeapPushes
  <2>8. cur' \in Call /\ pc' \in {"idle", "delayed", "search", "fresh"} /\ Role'
    <3>1. CASE Again
      BY <1>1, <1>9, <2>7, <3>1, AgainIs
    <3>2. CASE pc' = pc /\ cur' = cur
      <4>1. Role'
        BY <1>1, <1>2, <3>2, RoleSame
      <4> QED
        BY <1>1, <1>2, <3>2, <4>1
    <3> QED
      BY <2>4, <3>1, <3>2
  <2> QED
    BY <1>2, <2>6, <2>7, <2>8, InvIs
<1> QED
  BY <1>10, <1>11

\* No page is found.
LEMMA OutOfMemoryInv ==
  ASSUME Inv, OutOfMemory
  PROVE  Inv'
<1>1. /\ Role /\ cur \in Call /\ pc = "fresh" /\ Again
      /\ init' \in BOOLEAN /\ retired_min' \in 0 .. BIN_FULL /\ retired_max' \in 0 .. BIN_FULL
      /\ UNCHANGED heap /\ page' = page /\ live' = live
  BY InvParts DEF OutOfMemory
<1>2. cur.w # 0 /\ cur.collect = "none"
  BY <1>1 DEF Role
<1>3. /\ page' \in [Page -> PageRec] /\ live' \in [Page -> Nat]
      /\ HeapType' /\ HeapInv' /\ \A p \in Page : PageInv(p)'
  BY <1>1, SamePages
<1>4. cur' \in Call /\ pc' \in {"idle", "delayed", "search"} /\ Role'
  BY <1>1, <1>2, <1>3, AgainIs
<1> QED
  BY <1>1, <1>3, <1>4, InvIs

\* The heap without a page.
EmptyHeap ==
  /\ queue = NoQueues /\ direct = NoDirect /\ page_count = 0
  /\ \A p \in Page : page[p].place # "heap"
\* An empty heap satisfies the invariant of the heap.
LEMMA EmptyHeapIs == EmptyHeap => HeapType /\ HeapInv
<1> SUFFICES ASSUME EmptyHeap
             PROVE  HeapType /\ HeapInv
  OBVIOUS
<1>1. \A b \in Queues : queue[b] = <<>>
  BY DEF EmptyHeap, NoQueues
<1>2. \A w \in 0 .. SmallMax + Padding : direct[w] = EMPTY
  BY DEF EmptyHeap, NoDirect
<1>3. queue \in [Queues -> Seq(Page)]
  <2>1. <<>> \in Seq(Page)
    BY EmptySeq
  <2> QED
    BY <2>1 DEF EmptyHeap, NoQueues
<1>4. direct \in [0 .. SmallMax + Padding -> Page \cup {EMPTY}]
  BY DEF EmptyHeap, NoDirect
<1>5. DirectInv
  <2>1. ASSUME NEW w \in 1 .. SmallMax
        PROVE  direct[w] = First(queue[Bin(w)])
    <3>1. w \in 1 .. LargeMax /\ w \in 0 .. SmallMax + Padding
      BY SizeFacts
    <3>2. queue[Bin(w)] = <<>>
      BY <1>1, <3>1, QueueFacts
    <3> QED
      BY <1>2, <3>1, <3>2 DEF First
  <2>2. ASSUME NEW w \in SmallMax + 1 .. SmallMax + Padding
        PROVE  direct[w] = EMPTY
    <3>1. w \in 0 .. SmallMax + Padding
      BY SizeFacts
    <3> QED
      BY <1>2, <3>1
  <2> QED
    BY <2>1, <2>2 DEF DirectInv
<1>6. QueuesInv
  <2>1. ASSUME NEW b \in Queues
        PROVE  /\ Once(queue[b])
               /\ \A p \in Page : Has(queue[b], p) <=> page[p].place = "heap" /\ QueueOf(page[p]) = b
    BY <1>1 DEF EmptyHeap, Once, Has
  <2> QED
    BY <2>1 DEF QueuesInv
<1>7. page_count = Cardinality(HeapPages)
  <2>1. HeapPages = {}
    BY DEF EmptyHeap, HeapPages
  <2> QED
    BY <2>1, FS_EmptySet DEF EmptyHeap
<1> QED
  BY <1>3, <1>4, <1>5, <1>6, <1>7 DEF EmptyHeap, HeapType, HeapInv

\* The same of the next state.
LEMMA EmptyHeapNext == EmptyHeap' => HeapType' /\ HeapInv'
BY EmptyHeapIs, PTL

\* A page is visited by a collection: given back, abandoned or kept.
LEMMA VisitInv ==
  ASSUME Inv, Visit
  PROVE  Inv'
<1>1. /\ TypeOK /\ HeapType /\ HeapInv /\ Role /\ cur \in Call /\ \A q \in Page : PageInv(q)
  BY InvParts
<1>2. /\ init' \in BOOLEAN /\ retired_min' \in 0 .. BIN_FULL /\ retired_max' \in 0 .. BIN_FULL
      /\ pc = "visit" /\ pc' = "visit" /\ live' = live
  BY InvParts DEF Visit
<1>3. PICK p \in cur.todo :
       LET pg == Collect(page[p], cur.collect # "normal") IN
       /\ IF pg.used = 0
            THEN /\ SetHeap(Remove(Heap, QueueOf(pg), p))
                 /\ page' = [page EXCEPT ![p] = Release(pg)]
          ELSE IF cur.collect = "abandon"
            THEN /\ SetHeap(Remove(Heap, QueueOf(pg), p))
                 /\ page' = [page EXCEPT ![p] = [pg EXCEPT !.place = "abandoned", !.in_full = FALSE]]
          ELSE page' = [page EXCEPT ![p] = pg] /\ UNCHANGED heap
       /\ cur' = [cur EXCEPT !.todo = @ \ {p}]
  BY DEF Visit
<1>4. p \in Page /\ page[p].place = "heap" /\ page[p].delayed = 0
  BY <1>1, <1>2 DEF Role, Call
<1>5. PICK f \in BOOLEAN : f = (cur.collect # "normal")
  OBVIOUS
<1>6. PICK c : c = Collect(page[p], f)
  OBVIOUS
<1>7. /\ c \in PageRec /\ c.remote = 0 /\ c.place = "heap" /\ c.in_full = page[p].in_full
      /\ c.size = page[p].size /\ c.delayed = 0
      /\ QueueOf(c) = QueueOf(page[p]) /\ SizeOk(c.size) /\ c.used = live[p] + c.remote + c.delayed
  BY <1>4, <1>6, CollectedPage
<1>8. live[p] \in Nat /\ live' = [live EXCEPT ![p] = live[p]]
  BY <1>1, <1>2, <1>4, SameLive
<1>9. QueueOf(page[p]) \in HeapQueue
  BY <1>4, HeapPage
<1>10. /\ cur' \in Call /\ cur'.w = cur.w /\ cur'.collect = cur.collect /\ cur'.todo = cur.todo \ {p}
  <2>1. cur' = [cur EXCEPT !.todo = cur.todo \ {p}] /\ cur.todo \ {p} \in SUBSET Page
    BY <1>1, <1>3 DEF Call
  <2> QED
    BY <1>1, <2>1 DEF Call
\* the part of Role that depends on the case
<1>11. ASSUME \A q \in Page : q # p => page'[q] = page[q], page'[p].delayed = 0,
              cur.collect = "abandon" => page'[p].place # "heap"
       PROVE  Role'
  <2>1. \A q \in Page : page'[q].delayed = 0
    BY <1>1, <1>2, <1>11 DEF Role
  <2>2. \A q \in cur'.todo : page'[q].place = "heap"
    BY <1>1, <1>2, <1>10, <1>11 DEF Role, Call
  <2>3. cur.collect = "abandon" => HeapPages' \subseteq cur'.todo
    <3>1. ASSUME cur.collect = "abandon", NEW q \in HeapPages'
          PROVE  q \in cur'.todo
      <4>1. q \in Page /\ q # p /\ page'[q] = page[q] /\ page'[q].place = "heap"
        BY <1>11, <3>1 DEF HeapPages
      <4>2. q \in HeapPages
        BY <4>1 DEF HeapPages
      <4>3. q \in cur.todo
        BY <1>1, <1>2, <3>1, <4>2 DEF Role
      <4> QED
        BY <1>10, <4>1, <4>3
    <3> QED
      BY <3>1
  <2> QED
    BY <1>1, <1>2, <1>10, <2>1, <2>2, <2>3 DEF Role
<1>12. CASE c.used = 0
  <2>1. page' = [page EXCEPT ![p] = Release(c)] /\ SetHeap(Remove(Heap, QueueOf(page[p]), p))
    BY <1>3, <1>5, <1>6, <1>7, <1>12
  <2>2. /\ HeapType' /\ HeapInv' /\ page' \in [Page -> PageRec] /\ live' \in [Page -> Nat]
        /\ \A q \in Page : PageInv(q)'
        /\ \A q \in Page : page'[q].delayed = page[q].delayed
        /\ page'[p].place # "heap" /\ \A q \in Page : q # p => page'[q] = page[q]
    BY <1>2, <1>4, <1>7, <2>1, PageReleased
  <2>3. Role'
    BY <1>4, <1>11, <2>2
  <2> QED
    BY <1>2, <1>10, <2>2, <2>3, InvIs
<1>13. CASE c.used # 0 /\ cur.collect = "abandon"
  <2>1. PICK e : e = [c EXCEPT !.place = "abandoned", !.in_full = FALSE]
    OBVIOUS
  <2>2. /\ e \in PageRec /\ e.place = "abandoned" /\ e.size = c.size /\ ~e.in_full /\ e.used = c.used
        /\ e.remote = c.remote /\ e.delayed = 0
    BY <1>7, <2>1 DEF PageRec
  <2>3. page' = [page EXCEPT ![p] = e] /\ SetHeap(Remove(Heap, QueueOf(page[p]), p))
    BY <1>3, <1>5, <1>6, <1>7, <1>13, <2>1
  <2>4. SizeOk(e.size) /\ e.used = live[p] + e.remote + e.delayed
    BY <1>7, <2>2
  <2>5. /\ page' \in [Page -> PageRec] /\ live' \in [Page -> Nat] /\ page'[p] = e
        /\ \A q \in Page : q # p => page'[q] = page[q]
        /\ \A q \in Page : PageInv(q)'
    <3>1. page' = [page EXCEPT ![p] = e] /\ e \in PageRec /\ e.place # "fresh" /\ ~(e.delayed > 0)
          /\ ~e.in_full
      BY <2>2, <2>3
    <3> QED
      BY <1>1, <1>4, <1>8, <2>4, <3>1, OnePage
  <2>6. page'[p].place # "heap" /\ page'[p].delayed = 0
    BY <2>2, <2>5
  <2>7. HeapType' /\ HeapInv'
    BY <1>1, <1>4, <1>9, <2>3, <2>5, <2>6, HeapRemoves
  <2>8. Role'
    BY <1>11, <2>5, <2>6
  <2> QED
    BY <1>2, <1>10, <2>5, <2>7, <2>8, InvIs
<1>14. CASE c.used # 0 /\ cur.collect # "abandon"
  <2>1. page' = [page EXCEPT ![p] = c] /\ UNCHANGED heap
    BY <1>3, <1>5, <1>6, <1>14
  <2>2. /\ page' \in [Page -> PageRec] /\ live' \in [Page -> Nat] /\ page'[p] = c
        /\ \A q \in Page : q # p => page'[q] = page[q]
        /\ \A q \in Page : PageInv(q)'
    <3>1. c \in PageRec /\ c.place = "heap" /\ c.place # "abandoned" /\ c.place # "fresh"
      BY <1>7
    <3> QED
      BY <1>1, <1>4, <1>7, <1>8, <2>1, <3>1, OnePage
  <2>3. HeapType' /\ HeapInv'
    <3>1. ASSUME NEW q \in Page
          PROVE  /\ page'[q].place = "heap" <=> page[q].place = "heap"
                 /\ page[q].place = "heap" => QueueOf(page'[q]) = QueueOf(page[q])
      BY <1>4, <1>7, <2>2
    <3> QED
      BY <1>1, <2>1, <3>1, HeapSame
  <2>4. Role'
    BY <1>7, <1>11, <1>14, <2>2
  <2> QED
    BY <1>2, <1>10, <2>2, <2>3, <2>4, InvIs
<1> QED
  BY <1>12, <1>13, <1>14

\* At the end of a thread no page of its heap is left when the heap is reset.
LEMMA VisitEndInv ==
  ASSUME Inv, VisitEnd
  PROVE  Inv'
<1>1. /\ TypeOK /\ HeapType /\ HeapInv /\ Role /\ cur \in Call /\ init \in BOOLEAN
      /\ retired_min \in 0 .. BIN_FULL /\ retired_max \in 0 .. BIN_FULL
  BY InvParts
<1>2. /\ page' = page /\ live' = live /\ pc = "visit" /\ cur.todo = {}
      /\ IF cur.w # 0 THEN FindPage([cur EXCEPT !.collect = "none"]) ELSE pc' = "idle" /\ cur' = NoCall
      /\ IF cur.collect = "abandon"
           THEN /\ init' = FALSE
                /\ SetHeap([queue |-> NoQueues, direct |-> NoDirect, count |-> 0])
                /\ retired_min' = BIN_FULL /\ retired_max' = 0
           ELSE UNCHANGED <<init, heap, retired_min, retired_max>>
  BY DEF VisitEnd
<1>3. page' \in [Page -> PageRec] /\ live' \in [Page -> Nat] /\ \A p \in Page : PageInv(p)'
  BY <1>2, SamePages
<1>4. CASE cur.collect = "abandon"
  <2>1. cur.w = 0 /\ HeapPages = {}
    BY <1>1, <1>2, <1>4 DEF Role
  <2>2. pc' = "idle" /\ cur' = NoCall
    BY <1>2, <2>1
  <2>3. init' = FALSE /\ retired_min' = BIN_FULL /\ retired_max' = 0
    BY <1>2, <1>4
  <2>4. queue' = NoQueues /\ direct' = NoDirect /\ page_count' = 0
    <3>1. SetHeap([queue |-> NoQueues, direct |-> NoDirect, count |-> 0])
      BY <1>2, <1>4
    <3> QED
      BY <3>1 DEF SetHeap
  <2>5. \A p \in Page : page'[p].place # "heap"
    BY <1>2, <2>1 DEF HeapPages
  <2>6. HeapType' /\ HeapInv'
    <3>1. EmptyHeap'
      BY <2>4, <2>5 DEF EmptyHeap
    <3> QED
      BY <3>1, EmptyHeapNext
  <2>7. retired_min' \in 0 .. BIN_FULL /\ retired_max' \in 0 .. BIN_FULL
    BY <2>3, QueueFacts
  <2> QED
    BY <1>3, <2>2, <2>3, <2>6, <2>7, RoleIdle, NoCallIs, InvIs
<1>5. CASE cur.collect # "abandon"
  <2>1. UNCHANGED heap /\ queue' = queue /\ init' = init
        /\ retired_min' = retired_min /\ retired_max' = retired_max
    BY <1>2, <1>5 DEF heap
  <2>2. HeapType' /\ HeapInv'
    BY <1>2, <2>1, SamePages
  <2>3. CASE cur.w # 0
    <3>1. PICK c : c = [cur EXCEPT !.collect = "none"]
      OBVIOUS
    <3>2. c \in Call /\ c.w # 0 /\ c.collect = "none"
      BY <1>1, <2>3, <3>1 DEF Call
    <3>3. FindPage(c)
      BY <1>2, <2>3, <3>1
    <3>4. cur' \in Call /\ pc' \in {"search", "fresh"} /\ Role'
      BY <1>1, <2>1, <3>2, <3>3, FindPageIs
    <3> QED
      BY <1>1, <1>3, <2>1, <2>2, <3>4, InvIs
  <2>4. CASE cur.w = 0
    <3>1. pc' = "idle" /\ cur' = NoCall
      BY <1>2, <2>4
    <3> QED
      BY <1>1, <1>3, <2>1, <2>2, <3>1, RoleIdle, NoCallIs, InvIs
  <2> QED
    BY <2>3, <2>4
<1> QED
  BY <1>4, <1>5

\* The program frees a block of a page of the heap.
LEMMA FreeInv ==
  ASSUME Inv, NEW p \in Page, Free(p)
  PROVE  Inv'
<1>1. /\ Role /\ init' \in BOOLEAN /\ pc = "idle" /\ pc' = pc /\ cur' = cur /\ cur' \in Call
      /\ live[p] > 0 /\ page[p].place = "heap"
  BY InvParts DEF Free
<1>2. /\ page[p] \in PageRec /\ page[p].used = live[p] + page[p].remote + page[p].delayed
      /\ live[p] \in Nat /\ page[p].remote \in Nat /\ page[p].delayed \in Nat
  BY <1>1, HeapPage
<1>3. PICK n \in Nat : n = live[p] - 1
  BY <1>1, <1>2
<1>4. PICK e : e = [page[p] EXCEPT !.used = page[p].used - 1, !.local = page[p].local + 1]
  OBVIOUS
<1>5. page[p].used - 1 \in Nat /\ page[p].local + 1 \in Nat
  <2>1. page[p].local \in Nat
    BY <1>2 DEF PageRec
  <2> QED
    BY <1>1, <1>2, <2>1
<1>6. /\ e \in PageRec /\ e.used = page[p].used - 1 /\ e.place = "heap" /\ e.size = page[p].size
      /\ e.in_full = page[p].in_full /\ e.remote = page[p].remote /\ e.delayed = page[p].delayed
  BY <1>1, <1>2, <1>4, <1>5 DEF PageRec
<1>7. live' = [live EXCEPT ![p] = n] /\ FreeInto(p, e)
  BY <1>3, <1>4 DEF Free
<1>8. e.used = n + e.remote + e.delayed
  BY <1>2, <1>3, <1>6
<1>9. /\ HeapType' /\ HeapInv' /\ page' \in [Page -> PageRec] /\ live' \in [Page -> Nat]
      /\ \A q \in Page : PageInv(q)'
      /\ retired_min' \in 0 .. BIN_FULL /\ retired_max' \in 0 .. BIN_FULL
  BY <1>1, <1>6, <1>7, <1>8, FreeIntoIs
<1>10. Role'
  BY <1>1, RoleSame
<1> QED
  BY <1>1, <1>9, <1>10, InvIs

\* Another thread frees a block, in each of the three ways.
LEMMA RemoteFreeInv ==
  ASSUME Inv, NEW p \in Page, RemoteFree(p)
  PROVE  Inv'
<1>1. /\ TypeOK /\ HeapType /\ HeapInv /\ Role /\ page \in [Page -> PageRec] /\ \A q \in Page : PageInv(q)
  BY InvParts
<1>2. /\ init' \in BOOLEAN /\ retired_min' \in 0 .. BIN_FULL /\ retired_max' \in 0 .. BIN_FULL
      /\ UNCHANGED heap /\ queue' = queue /\ pc \in {"idle", "search"} /\ pc' = pc /\ cur' = cur /\ cur' \in Call
      /\ live[p] > 0
  BY InvParts DEF RemoteFree, heap
<1>3. live[p] \in Nat
  BY InvParts
<1>4. PICK n \in Nat : n = live[p] - 1
  BY <1>2, <1>3
<1>5. live' = [live EXCEPT ![p] = n]
  BY <1>4 DEF RemoteFree
<1>6. Role'
  BY <1>1, <1>2, RoleSame
<1>7. PICK g \in PageRec : g = page[p]
  BY <1>1
<1>8. g.remote \in Nat /\ g.delayed \in Nat
  BY DEF PageRec
<1>9. /\ g.place \in {"heap", "abandoned"} => SizeOk(g.size) /\ g.used = live[p] + g.remote + g.delayed
      /\ g.place = "abandoned" => ~g.in_full
      /\ g.delayed > 0 => g.place = "heap"
  BY <1>1, <1>7 DEF PageInv
\* each way changes the page alone and leaves it in its queue
<1>10. ASSUME NEW e \in PageRec, page' = [page EXCEPT ![p] = e],
              e.place \in {"heap", "abandoned"} => SizeOk(e.size) /\ e.used = n + e.remote + e.delayed,
              e.place = "abandoned" => ~e.in_full,
              e.delayed > 0 => e.place = "heap", e.place # "fresh",
              e.place = "heap" <=> g.place = "heap",
              g.place = "heap" => QueueOf(e) = QueueOf(g)
       PROVE  Inv'
  <2>1. /\ page' \in [Page -> PageRec] /\ live' \in [Page -> Nat] /\ page'[p] = e
        /\ \A q \in Page : q # p => page'[q] = page[q]
        /\ \A q \in Page : PageInv(q)'
    BY <1>1, <1>5, <1>10, OnePage
  <2>2. HeapType' /\ HeapInv'
    <3>1. ASSUME NEW q \in Page
          PROVE  /\ page'[q].place = "heap" <=> page[q].place = "heap"
                 /\ page[q].place = "heap" => QueueOf(page'[q]) = QueueOf(page[q])
      BY <1>7, <1>10, <2>1
    <3> QED
      BY <1>1, <1>2, <3>1, HeapSame
  <2> QED
    BY <1>2, <1>6, <2>1, <2>2, InvIs
<1>11. CASE g.place \in {"heap", "abandoned"} /\ page' = [page EXCEPT ![p].remote = @ + 1]
  <2>1. PICK e : e = [g EXCEPT !.remote = g.remote + 1]
    OBVIOUS
  <2>2. /\ e \in PageRec /\ e.place = g.place /\ e.size = g.size /\ e.in_full = g.in_full /\ e.used = g.used
        /\ e.remote = g.remote + 1 /\ e.delayed = g.delayed
    BY <1>8, <2>1 DEF PageRec
  <2>3. page' = [page EXCEPT ![p] = e]
    BY <1>1, <1>7, <1>11, <2>1
  <2>4. e.used = n + e.remote + e.delayed
    BY <1>3, <1>4, <1>8, <1>9, <1>11, <2>2
  <2>5. QueueOf(e) = QueueOf(g) /\ e.place # "fresh"
    BY <1>11, <2>2 DEF QueueOf
  <2> QED
    BY <1>9, <1>10, <1>11, <2>2, <2>3, <2>4, <2>5
<1>12. CASE g.place = "heap" /\ g.delayed = 0 /\ page' = [page EXCEPT ![p].delayed = 1]
  <2>1. PICK e : e = [g EXCEPT !.delayed = 1]
    OBVIOUS
  <2>2. /\ e \in PageRec /\ e.place = g.place /\ e.size = g.size /\ e.in_full = g.in_full /\ e.used = g.used
        /\ e.remote = g.remote /\ e.delayed = 1
    BY <1>8, <2>1 DEF PageRec
  <2>3. page' = [page EXCEPT ![p] = e]
    BY <1>1, <1>7, <1>12, <2>1
  <2>4. e.used = n + e.remote + e.delayed
    BY <1>3, <1>4, <1>8, <1>9, <1>12, <2>2
  <2>5. QueueOf(e) = QueueOf(g) /\ e.place # "fresh"
    BY <1>12, <2>2 DEF QueueOf
  <2> QED
    BY <1>9, <1>10, <1>12, <2>2, <2>3, <2>4, <2>5
<1>13. CASE g.place = "huge" /\ page' = [page EXCEPT ![p] = Release([@ EXCEPT !.used = 0])]
  <2>1. PICK d : d = [g EXCEPT !.used = 0]
    OBVIOUS
  <2>2. d \in PageRec /\ d.delayed = g.delayed
    BY <2>1 DEF PageRec
  <2>3. PICK e : e = Release(d)
    OBVIOUS
  <2>4. e \in PageRec /\ e.place = "released" /\ e.delayed = d.delayed
    BY <2>2, <2>3, ReleaseIs
  <2>5. page' = [page EXCEPT ![p] = e]
    BY <1>1, <1>7, <1>13, <2>1, <2>3
  <2>6. /\ ~(e.place \in {"heap", "abandoned"}) /\ e.place # "abandoned" /\ e.place # "fresh"
        /\ e.place # "heap" /\ g.place # "heap" /\ ~(e.delayed > 0)
    BY <1>9, <1>13, <2>2, <2>4
  <2> QED
    BY <1>10, <2>4, <2>5, <2>6
<1> QED
  BY <1>7, <1>11, <1>12, <1>13 DEF RemoteFree

-----------------------------------------------------------------------------
(***************************************************************************)
(* The theorems.                                                           *)
(***************************************************************************)

\* The invariant holds at the start.
LEMMA InvInit == Init => Inv
<1> SUFFICES ASSUME Init
             PROVE  Inv
  OBVIOUS
<1>1. /\ init = FALSE /\ queue = NoQueues /\ direct = NoDirect /\ page_count = 0
      /\ retired_min = BIN_FULL /\ retired_max = 0
      /\ page = [p \in Page |-> Fresh0] /\ live = [p \in Page |-> 0] /\ pc = "idle" /\ cur = NoCall
  BY DEF Init
<1>2. Fresh0 \in PageRec /\ Fresh0.place = "fresh" /\ Fresh0.delayed = 0
  BY DEF Fresh0, PageRec
<1>3. \A p \in Page : page[p] = Fresh0 /\ live[p] = 0
  BY <1>1
<1>4. page \in [Page -> PageRec] /\ live \in [Page -> Nat]
  BY <1>1, <1>2
<1>5. HeapType /\ HeapInv
  <2>1. EmptyHeap
    BY <1>1, <1>2, <1>3 DEF EmptyHeap
  <2> QED
    BY <2>1, EmptyHeapIs
<1>6. \A p \in Page : PageInv(p)
  BY <1>2, <1>3 DEF PageInv
<1>7. Role
  BY <1>1 DEF Role, NoCall
<1>8. retired_min \in 0 .. BIN_FULL /\ retired_max \in 0 .. BIN_FULL
  BY <1>1, QueueFacts
<1>9. TypeOK
  BY <1>1, <1>4, <1>5, <1>8, NoCallIs DEF TypeOK, HeapType
<1> QED
  BY <1>5, <1>6, <1>7, <1>9 DEF Inv

\* A stuttering step keeps the invariant.
LEMMA InvUnchanged == Inv /\ UNCHANGED vars => Inv'
<1> SUFFICES ASSUME Inv, UNCHANGED vars
             PROVE  Inv'
  OBVIOUS
<1>1. /\ init' = init /\ UNCHANGED heap /\ queue' = queue /\ retired_min' = retired_min
      /\ retired_max' = retired_max /\ page' = page /\ live' = live /\ pc' = pc /\ cur' = cur
  BY DEF vars, heap
<1>2. HeapPages' = HeapPages
  BY <1>1 DEF HeapPages
<1>3. Role'
  BY <1>1, <1>2, InvParts DEF Role
<1> QED
  BY <1>1, <1>3, InvParts, SamePages, InvIs

\* Every step keeps the invariant.
LEMMA InvNext == Inv /\ [Next]_vars => Inv'
<1> SUFFICES ASSUME Inv, [Next]_vars
             PROVE  Inv'
  OBVIOUS
<1>1. CASE \E w \in Sizes : Malloc(w)
  BY <1>1, MallocInv
<1>2. CASE \E kind \in {"normal", "force", "abandon"} : StartCollect(kind)
  BY <1>2, StartCollectInv
<1>3. CASE \E p \in Page : Free(p) \/ RemoteFree(p)
  BY <1>3, FreeInv, RemoteFreeInv
<1>4. CASE Delayed \/ DelayedEnd \/ Found \/ ToFull \/ SearchEnd \/ Retired
  BY <1>4, DelayedInv, DelayedEndInv, FoundInv, ToFullInv, SearchEndInv, RetiredInv
<1>5. CASE FreshPage \/ HugePage \/ ReclaimPage \/ OutOfMemory \/ Visit \/ VisitEnd
  BY <1>5, FreshPageInv, HugePageInv, ReclaimPageInv, OutOfMemoryInv, VisitInv, VisitEndInv
<1>6. CASE UNCHANGED vars
  BY <1>6, InvUnchanged
<1> QED
  BY <1>1, <1>2, <1>3, <1>4, <1>5, <1>6 DEF Next

\* The inductive invariant holds in every state of the specification.
THEOREM PageQueueInvariant == Spec => []Inv
BY InvInit, InvNext, PTL DEF Spec

\* Every variable has its type.
THEOREM PageQueueTypes == Spec => []TypeOK
<1>1. Inv => TypeOK
  BY DEF Inv
<1> QED
  BY <1>1, PageQueueInvariant, PTL

\* Every entry of pages_free_direct is the first page of the queue of its size.
THEOREM DirectEntriesExact == Spec => []DirectExact
<1>1. Inv => DirectExact
  BY DEF Inv, HeapInv, DirectInv, DirectExact
<1> QED
  BY <1>1, PageQueueInvariant, PTL

\* Each page of the heap is once in the queue of its size or in the full queue,
\* no other page is in a queue, and page_count counts them; a search looks at the
\* first page of its queue (page-queue.c:180-194, page.c:719).
THEOREM PageQueuesExact == Spec => []QueuesExact
<1>1. ASSUME Inv
      PROVE  QueuesExact
  <2>1. ASSUME NEW b \in Queues, NEW i \in DOMAIN queue[b]
        PROVE  /\ page[queue[b][i]].place = "heap" /\ QueueOf(page[queue[b][i]]) = b
               /\ \A j \in DOMAIN queue[b] : queue[b][j] = queue[b][i] => i = j
    <3>1. queue[b] \in Seq(Page) /\ Once(queue[b])
      BY <1>1 DEF Inv, TypeOK, HeapInv, QueuesInv
    <3>2. PICK p \in Page : p = queue[b][i]
      BY <2>1, <3>1, ElementOfSeq, LenProperties
    <3>3. Has(queue[b], p)
      BY <2>1, <3>2 DEF Has
    <3>4. page[p].place = "heap" /\ QueueOf(page[p]) = b
      BY <1>1, <3>3, InQueueIs
    <3>5. \A j \in DOMAIN queue[b] : queue[b][j] = queue[b][i] => i = j
      BY <2>1, <3>1, Zenon DEF Once
    <3> QED
      BY <3>2, <3>4, <3>5
  <2>2. ASSUME NEW p \in Page, page[p].place = "heap"
        PROVE  \E i \in DOMAIN queue[QueueOf(page[p])] : queue[QueueOf(page[p])][i] = p
    <3>1. PICK b \in Queues : b = QueueOf(page[p])
      BY <1>1, <2>2, HeapPage, QueueFacts
    <3>2. Has(queue[b], p)
      BY <1>1, <2>2, <3>1 DEF Inv, HeapInv, QueuesInv
    <3> QED
      BY <3>1, <3>2 DEF Has
  <2>3. page_count = Cardinality({p \in Page : page[p].place = "heap"})
    BY <1>1 DEF Inv, HeapInv, HeapPages
  <2>4. pc = "search" => cur.p = First(queue[Bin(cur.w)])
    BY <1>1 DEF Inv, Role
  <2> QED
    BY <2>1, <2>2, <2>3, <2>4 DEF QueuesExact
<1> QED
  BY <1>1, PageQueueInvariant, PTL

\* Every size has the smallest class that holds it, and the pages of the heap
\* have the size of a class.
THEOREM ClassesFit == Spec => []ClassFits
<1>1. ASSUME Inv, NEW p \in Page, page[p].place = "heap"
      PROVE  ClassTable /\ page[p].size = BinSize(Bin(page[p].size))
  <2>1. SizeOk(page[p].size)
    BY <1>1, HeapPage
  <2>2. BinSize(Bin(page[p].size)) = page[p].size
    BY <2>1, SizeIs
  <2> QED
    BY <2>2, TableHolds
<1>2. Inv => ClassFits
  BY <1>1 DEF ClassFits
<1> QED
  BY <1>2, PageQueueInvariant, PTL
=============================================================================
