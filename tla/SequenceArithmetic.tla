------------------------- MODULE SequenceArithmetic -------------------------
(***************************************************************************)
(* Facts about numbers on a circle of m values, the arithmetic behind the  *)
(* 16-bit RTP sequence numbers: numbers less than a turn apart have        *)
(* different residues, and the two distances between residues add up to a  *)
(* turn.  And induction, as a fact about sets of numbers.                  *)
(***************************************************************************)
EXTENDS Integers, WellFoundedInduction, TLAPS

(* Division with remainder.                                                *)
LEMMA DivisionWithRemainder ==
  ASSUME NEW m \in Nat \ {0}, NEW a \in Int
  PROVE  /\ a % m \in 0..(m - 1)
         /\ a \div m \in Int
         /\ a = m * (a \div m) + (a % m)
OBVIOUS

(* The residue is the only number of 0..m-1 that differs by whole turns.   *)
LEMMA ResidueIsUnique ==
  ASSUME NEW m \in Nat \ {0}, NEW a \in Int, NEW turns \in Int,
         NEW r \in 0..(m - 1), a = m * turns + r
  PROVE  a % m = r
OBVIOUS

(* A whole turn more is at least m more.                                   *)
LEMMA TurnsAreApart ==
  ASSUME NEW m \in Nat \ {0}, NEW p \in Int, NEW q \in Int, p < q
  PROVE  m * q >= m * p + m
<1>1. m * (q - p - 1) >= 0
  OBVIOUS
<1>2. QED
  BY <1>1

(* Two numbers less than a turn apart with the same residue are the same:  *)
(* why one slot per 16-bit number is enough to recognize a duplicate.      *)
LEMMA SameResidueWithinTurn ==
  ASSUME NEW m \in Nat \ {0}, NEW a \in Int, NEW b \in Int,
         a % m = b % m, a <= b, b - a < m
  PROVE  a = b
<1> DEFINE p == a \div m
           q == b \div m
<1>1. /\ p \in Int /\ q \in Int
      /\ a = m * p + (a % m) /\ b = m * q + (b % m)
  BY DivisionWithRemainder
<1>2. m * q - m * p < m /\ m * q >= m * p
  BY <1>1
<1>3. CASE p < q
  BY <1>1, <1>2, <1>3, TurnsAreApart
<1>4. CASE q < p
  BY <1>1, <1>2, <1>4, TurnsAreApart
<1>5. CASE p = q
  BY <1>1, <1>5
<1>6. QED
  BY <1>1, <1>3, <1>4, <1>5

(* Going forward by the distance between two residues reaches the residue. *)
LEMMA ForwardDistance ==
  ASSUME NEW m \in Nat \ {0}, NEW h \in Int, NEW s \in 0..(m - 1)
  PROVE  /\ ((s - (h % m)) % m) \in 0..(m - 1)
         /\ (h + ((s - (h % m)) % m)) % m = s
<1> DEFINE d == s - (h % m)
<1>1. /\ h \div m \in Int /\ h % m \in 0..(m - 1)
      /\ h = m * (h \div m) + (h % m)
  BY DivisionWithRemainder
<1>2. d \in Int
  BY <1>1
<1>3. /\ d \div m \in Int /\ d % m \in 0..(m - 1)
      /\ d = m * (d \div m) + (d % m)
  BY <1>2, DivisionWithRemainder
<1> DEFINE turns == h \div m - d \div m
           n == h + (d % m)
<1>4. n \in Int /\ turns \in Int /\ n = m * turns + s
  BY <1>1, <1>3
<1>5. n % m = s
  <2> HIDE DEF n, turns
  <2>1. QED
    BY <1>4, ResidueIsUnique
<1>6. QED
  BY <1>3, <1>5

(* Going back by the distance the other way reaches it as well.            *)
LEMMA BackwardDistance ==
  ASSUME NEW m \in Nat \ {0}, NEW h \in Int, NEW s \in 0..(m - 1)
  PROVE  /\ (((h % m) - s) % m) \in 0..(m - 1)
         /\ (h - (((h % m) - s) % m)) % m = s
<1> DEFINE d == (h % m) - s
<1>1. /\ h \div m \in Int /\ h % m \in 0..(m - 1)
      /\ h = m * (h \div m) + (h % m)
  BY DivisionWithRemainder
<1>2. d \in Int
  BY <1>1
<1>3. /\ d \div m \in Int /\ d % m \in 0..(m - 1)
      /\ d = m * (d \div m) + (d % m)
  BY <1>2, DivisionWithRemainder
<1> DEFINE turns == h \div m + d \div m
           n == h - (d % m)
<1>4. n \in Int /\ turns \in Int /\ n = m * turns + s
  BY <1>1, <1>3
<1>5. n % m = s
  <2> HIDE DEF n, turns
  <2>1. QED
    BY <1>4, ResidueIsUnique
<1>6. QED
  BY <1>3, <1>5

(* The two distances between different residues add up to one turn.        *)
LEMMA DistancesAddUp ==
  ASSUME NEW m \in Nat \ {0}, NEW r \in 0..(m - 1), NEW s \in 0..(m - 1)
  PROVE  /\ r = s => (s - r) % m = 0 /\ (r - s) % m = 0
         /\ r # s => ((s - r) % m) + ((r - s) % m) = m
<1>1. CASE r = s
  <2>1. (s - r) % m = 0
    BY <1>1, ResidueIsUnique, s - r = m * 0 + 0
  <2>2. QED
    BY <1>1, <2>1
<1>2. CASE r < s
  <2>1. (s - r) % m = s - r
    BY <1>2, ResidueIsUnique, s - r = m * 0 + (s - r)
  <2>2. (r - s) % m = m - (s - r)
    BY <1>2, ResidueIsUnique, r - s = m * (-1) + (m - (s - r))
  <2>3. QED
    BY <1>2, <2>1, <2>2
<1>3. CASE r > s
  <2>1. (r - s) % m = r - s
    BY <1>3, ResidueIsUnique, r - s = m * 0 + (r - s)
  <2>2. (s - r) % m = m - (r - s)
    BY <1>3, ResidueIsUnique, s - r = m * (-1) + (m - (r - s))
  <2>3. QED
    BY <1>3, <2>1, <2>2
<1>4. QED
  BY <1>1, <1>2, <1>3

(* Taking the residue before or after a shift makes no difference.         *)
LEMMA ShiftedResidue ==
  ASSUME NEW m \in Nat \ {0}, NEW a \in Int, NEW b \in Int
  PROVE  ((a % m) + b) % m = (a + b) % m
<1> DEFINE p == a \div m
           q == (a + b) \div m
           r == (a + b) % m
<1>1. p \in Int /\ a % m \in Int /\ a = m * p + (a % m)
  BY DivisionWithRemainder
<1>2. q \in Int /\ r \in 0..(m - 1) /\ a + b = m * q + r
  BY a + b \in Int, DivisionWithRemainder
<1> HIDE DEF p, q, r
<1>3. (a % m) + b = m * (q - p) + r
  BY <1>1, <1>2
<1>4. (a % m) + b \in Int /\ q - p \in Int
  BY <1>1, <1>2
<1>5. ((a % m) + b) % m = r
  BY <1>2, <1>3, <1>4, ResidueIsUnique
<1>6. QED
  BY <1>5 DEF r

(* What fits into a whole number of times, fits at most quotient times.    *)
LEMMA QuotientIsLargest ==
  ASSUME NEW m \in Nat \ {0}, NEW a \in Nat, NEW k \in Int, k * m <= a
  PROVE  k <= a \div m
<1> DEFINE q == a \div m
<1>1. q \in Int /\ a % m \in 0..(m - 1) /\ a = m * q + (a % m)
  BY DivisionWithRemainder
<1> HIDE DEF q
<1>2. CASE q < k
  <2>1. m * k >= m * q + m
    BY <1>1, <1>2, TurnsAreApart
  <2>2. QED
    BY <1>1, <2>1
<1>3. QED
  BY <1>1, <1>2 DEF q

(* Products of differences, for terms in which nothing else is to be seen. *)
LEMMA ProductOfDifference ==
  ASSUME NEW a \in Int, NEW b \in Int, NEW c \in Int
  PROVE  (a - b) * c = a * c - b * c
OBVIOUS

(* A product grows with its factor.                                        *)
LEMMA ProductIsMonotonic ==
  ASSUME NEW a \in Nat, NEW b \in Nat, NEW c \in Nat, a <= b
  PROVE  a * c <= b * c /\ a * c \in Nat
<1>1. (b - a) * c >= 0
  OBVIOUS
<1>2. (b - a) * c = b * c - a * c
  BY ProductOfDifference
<1>3. a * c \in Int /\ b * c \in Int /\ a * c >= 0
  OBVIOUS
<1>4. QED
  BY <1>1, <1>2, <1>3

(* The distance of two residues is the distance of the numbers.            *)
LEMMA DifferenceOfResidues ==
  ASSUME NEW m \in Nat \ {0}, NEW a \in Int, NEW d \in 0..(m - 1)
  PROVE  (((a + d) % m) - (a % m)) % m = d
<1> DEFINE p == a \div m
           q == (a + d) \div m
           r == a % m
           s == (a + d) % m
<1>1. p \in Int /\ r \in Int /\ a = m * p + r
  BY DivisionWithRemainder
<1>2. q \in Int /\ s \in Int /\ a + d = m * q + s
  BY a + d \in Int, DivisionWithRemainder
<1> HIDE DEF p, q, r, s
<1> DEFINE mp == m * p
           mq == m * q
<1>3. m * (p - q) = mp - mq /\ mp \in Int /\ mq \in Int
  BY <1>1, <1>2
<1>4. s - r \in Int /\ p - q \in Int /\ s - r = m * (p - q) + d
  <2>1. a = mp + r /\ a + d = mq + s
    BY <1>1, <1>2
  <2> HIDE DEF mp, mq
  <2>2. s - r = mp - mq + d
    BY <1>1, <1>2, <1>3, <2>1
  <2>3. QED
    BY <1>1, <1>2, <1>3, <2>2
<1>5. (s - r) % m = d
  BY <1>4, ResidueIsUnique
<1>6. QED
  BY <1>5 DEF r, s

(* A set of numbers with zero and the successor of each of its members is  *)
(* all of them: a counterexample would have a least one.                   *)
LEMMA InductionOnSet ==
  ASSUME NEW S, 0 \in S, \A n \in Nat : n \in S => n + 1 \in S
  PROVE  Nat \subseteq S
<1> DEFINE Rest == Nat \ S
           Less == {pair \in Nat \X Nat : pair[1] < pair[2]}
<1>1. IsWellFoundedOn(Less, Nat)
  BY NatLessThanWellFounded DEF OpToRel
<1>2. \A x, y \in Nat : <<x, y>> \in Less <=> x < y
  OBVIOUS
<1>3. SUFFICES ASSUME Rest # {} PROVE FALSE
  OBVIOUS
<1>4. PICK x \in Rest : \A y \in Rest : ~ (<<y, x>> \in Less)
  <2> HIDE DEF Less
  <2>1. QED
    BY <1>1, <1>3, WFMin
<1>5. x \in Nat /\ x \notin S /\ x # 0
  OBVIOUS
<1>6. x - 1 \in Nat /\ x - 1 < x /\ (x - 1) + 1 = x
  BY <1>5
<1>7. x - 1 \in S
  BY <1>2, <1>4, <1>5, <1>6
<1>8. QED
  BY <1>5, <1>6, <1>7
=============================================================================
