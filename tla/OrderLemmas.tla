---------------------------- MODULE OrderLemmas ----------------------------
(***************************************************************************)
(* Facts that the proofs of several components use: the least of a set of  *)
(* numbers, induction over a set of numbers, sequences, ring indices and   *)
(* division.                                                               *)
(***************************************************************************)
EXTENDS Integers, FiniteSets, FiniteSetsExt, FiniteSetTheorems,
        WellFoundedInduction, SequenceTheorems, TLAPS

(* Min returns the least element of a nonempty set of natural numbers: an  *)
(* upward for loop of the kernel stops at its first hit.                   *)
LEMMA MinLemma ==
  ASSUME NEW S \in SUBSET Nat, S # {}
  PROVE  Min(S) \in S /\ \A y \in S : Min(S) <= y
<1> DEFINE Below(x) == {y \in S : y <= x}
           T == {Below(x) : x \in S}
<1>1. \A x \in S : IsFiniteSet(Below(x))
  BY FS_BoundedSetOfNaturals
<1>2. T \subseteq FiniteSubsetsOf(S) /\ T # {}
  BY <1>1 DEF FiniteSubsetsOf
<1>3. PICK B \in T : \A C \in T : ~ (<<C, B>> \in StrictSubsetOrdering(S))
  <2> HIDE DEF T
  <2> QED BY <1>2, WFMin, FS_StrictSubsetOrderingWellFounded
<1>4. PICK x \in S : B = Below(x) BY <1>3
<1>5. \A y \in S : x <= y
  <2> SUFFICES ASSUME NEW y \in S, ~ (x <= y) PROVE FALSE OBVIOUS
  <2>1. x \in Nat /\ y \in Nat /\ y < x /\ x \notin Below(y) /\ x \in Below(x) OBVIOUS
  <2>2. Below(y) \subseteq Below(x)
    <3>1. \A z \in S : z <= y => z <= x BY <2>1
    <3> QED BY <3>1
  <2>3. <<Below(y), Below(x)>> \in StrictSubsetOrdering(S)
    BY <2>1, <2>2 DEF StrictSubsetOrdering
  <2> QED BY <1>3, <1>4, <2>3
<1> QED BY <1>5 DEF Min

(* Induction: a set of numbers that contains 0, and with a number below n  *)
(* the next one, contains 0 .. n.                                          *)
LEMMA IntervalInduction ==
  ASSUME NEW n \in Nat, NEW G,
         0 \in G, \A k \in 0 .. n - 1 : k \in G => k + 1 \in G
  PROVE  0 .. n \subseteq G
<1> DEFINE Bad == (0 .. n) \ G
<1> SUFFICES ASSUME Bad # {} PROVE FALSE OBVIOUS
<1>1. Bad \in SUBSET Nat OBVIOUS
<1>2. Min(Bad) \in Bad /\ \A y \in Bad : Min(Bad) <= y BY <1>1, MinLemma
<1>3. PICK b \in Bad : \A y \in Bad : b <= y BY <1>2
<1>4. b \in 0 .. n /\ b \notin G /\ b # 0 BY <1>3
<1>5. b - 1 \in 0 .. n - 1 /\ (b - 1) + 1 = b BY <1>4
<1>6. b - 1 \notin G BY <1>4, <1>5
<1>7. b - 1 \in Bad BY <1>5, <1>6
<1> QED BY <1>3, <1>5, <1>7

(* CHOOSE finds the least element of a nonempty set of natural numbers:    *)
(* the first free handle, slot or socket the kernel's loops stop at.       *)
LEMMA LeastExists ==
  ASSUME NEW S \in SUBSET Nat, S # {}
  PROVE  LET x == CHOOSE x \in S : \A y \in S : x <= y
         IN  x \in S /\ \A y \in S : x <= y
<1>1. \E x \in S : \A y \in S : x <= y BY MinLemma
<1> QED BY <1>1

(* A function on 1 .. n is a sequence of length n.                         *)
LEMMA FunctionIsSeq ==
  ASSUME NEW n \in Nat, NEW S, NEW f \in [1 .. n -> S]
  PROVE  f \in Seq(S) /\ Len(f) = n
<1>1. f \in Seq(S) BY SeqDef
<1>2. DOMAIN f = 1 .. Len(f) /\ Len(f) \in Nat /\ DOMAIN f = 1 .. n BY <1>1, LenProperties
<1> QED BY <1>1, <1>2

(* A sequence after the update of one of its elements.                     *)
LEMMA SeqUpdate ==
  ASSUME NEW S, NEW s \in Seq(S), NEW i \in 1 .. Len(s), NEW e \in S
  PROVE  /\ [s EXCEPT ![i] = e] \in Seq(S) /\ Len([s EXCEPT ![i] = e]) = Len(s)
         /\ \A j \in 1 .. Len(s) : [s EXCEPT ![i] = e][j] = IF j = i THEN e ELSE s[j]
BY ExceptSeq

(* An index reduced modulo the size of a ring is an index of the ring.     *)
LEMMA ModRange ==
  ASSUME NEW N \in Nat \ {0}, NEW a \in Int
  PROVE  a % N \in 0 .. N - 1
OBVIOUS

(* Advancing an index of a ring of N places by a and then by b, as the     *)
(* drivers and pipe.c do with % N, is advancing it by a + b.               *)
LEMMA RingAdvance ==
  ASSUME NEW N \in Nat \ {0}, NEW r \in 0 .. N - 1, NEW a \in 0 .. N, NEW b \in 0 .. N - a
  PROVE  (((r + a) % N) + b) % N = (r + (a + b)) % N
<1> DEFINE x == (r + a) % N
<1>1. x = IF r + a < N THEN r + a ELSE r + a - N
  <2>1. CASE r + a < N BY <2>1
  <2>2. CASE ~(r + a < N) BY <2>2
  <2> QED BY <2>1, <2>2
<1> HIDE DEF x
<1>2. x + b = r + (a + b) \/ x + b = r + (a + b) - N BY <1>1
<1>3. x + b \in Int /\ -N <= x + b /\ x + b < N + N /\ x + b >= 0 BY <1>1
<1>4. r + (a + b) \in Int /\ r + (a + b) < N + N /\ r + (a + b) >= 0 OBVIOUS
<1>5. CASE x + b = r + (a + b) BY <1>5 DEF x
<1>6. CASE x + b = r + (a + b) - N
  <2> DEFINE y == x + b
  <2>1. y \in 0 .. N - 1 /\ r + (a + b) = y + N BY <1>3, <1>4, <1>6
  <2>2. y % N = (y + N) % N
    <3> HIDE DEF y
    <3> QED BY <2>1
  <2> QED BY <2>1, <2>2 DEF x
<1> QED BY <1>2, <1>5, <1>6

(* The distance from the place of a ring where writing goes on, c places   *)
(* after r, to the place of the i-th element.                              *)
LEMMA RingPlace ==
  ASSUME NEW N \in Nat \ {0}, NEW r \in 0 .. N - 1, NEW c \in 0 .. N, NEW i \in 1 .. N
  PROVE  (((r + i - 1) % N) - ((r + c) % N)) % N = IF i <= c THEN N - c + i - 1 ELSE i - 1 - c
<1> DEFINE at == (r + i - 1) % N
           w == (r + c) % N
<1>1. at = IF r + i - 1 < N THEN r + i - 1 ELSE r + i - 1 - N
  <2>1. CASE r + i - 1 < N BY <2>1
  <2>2. CASE ~(r + i - 1 < N) BY <2>2
  <2> QED BY <2>1, <2>2
<1>2. w = IF r + c < N THEN r + c ELSE r + c - N
  <2>1. CASE r + c < N BY <2>1
  <2>2. CASE ~(r + c < N) BY <2>2
  <2> QED BY <2>1, <2>2
<1> HIDE DEF at, w
<1>3. at \in 0 .. N - 1 /\ w \in 0 .. N - 1 BY <1>1, <1>2
<1>4. (at - w) % N = IF at - w < 0 THEN at - w + N ELSE at - w
  <2>1. CASE at - w < 0 BY <1>3, <2>1
  <2>2. CASE ~(at - w < 0) BY <1>3, <2>2
  <2> QED BY <2>1, <2>2
<1>5. (IF at - w < 0 THEN at - w + N ELSE at - w) = IF i <= c THEN N - c + i - 1 ELSE i - 1 - c
  <2>1. CASE r + i - 1 < N /\ r + c < N BY <1>1, <1>2, <2>1
  <2>2. CASE r + i - 1 < N /\ ~(r + c < N) BY <1>1, <1>2, <2>2
  <2>3. CASE ~(r + i - 1 < N) /\ r + c < N BY <1>1, <1>2, <2>3
  <2>4. CASE ~(r + i - 1 < N) /\ ~(r + c < N) BY <1>1, <1>2, <2>4
  <2> QED BY <2>1, <2>2, <2>3, <2>4
<1> QED BY <1>4, <1>5 DEF at, w

(* Two places of a ring less than N apart from its start are different.    *)
LEMMA RingDistinct ==
  ASSUME NEW N \in Nat \ {0}, NEW r \in 0 .. N - 1, NEW a \in 0 .. N - 1, NEW b \in 0 .. N - 1,
         (r + a) % N = (r + b) % N
  PROVE  a = b
<1>1. ASSUME NEW c \in 0 .. N - 1
      PROVE  (r + c) % N = IF r + c < N THEN r + c ELSE r + c - N
  <2>1. CASE r + c < N BY <2>1
  <2>2. CASE ~(r + c < N) BY <2>2
  <2> QED BY <2>1, <2>2
<1> QED BY <1>1

(* What the quotient of a division by a positive number is.                *)
LEMMA DivLemma ==
  ASSUME NEW x \in Int, NEW d \in Nat, d > 0
  PROVE  /\ x \div d \in Int
         /\ x - d * (x \div d) = x % d
         /\ d * (x \div d) <= x
         /\ x < d * (x \div d) + d
<1>1. x \div d \in Int OBVIOUS
<1>2. x - d * (x \div d) = x % d OBVIOUS
<1>3. d * (x \div d) <= x OBVIOUS
<1>4. x < d * (x \div d) + d OBVIOUS
<1> QED BY <1>1, <1>2, <1>3, <1>4

(* A multiple of d leaves no remainder.                                    *)
LEMMA MulMod == ASSUME NEW k \in Int, NEW d \in Nat, d > 0 PROVE (k * d) % d = 0
OBVIOUS

(* Sums and differences of multiples of d are multiples of d.              *)
LEMMA AlignedSum ==
  ASSUME NEW x \in Int, NEW y \in Int, NEW d \in Nat, d > 0, x % d = 0, y % d = 0
  PROVE  (x + y) % d = 0 /\ (x - y) % d = 0
<1>1. PICK k \in Int : x = k * d
  <2>1. PICK q \in Int : q = x \div d BY DivLemma
  <2>2. x = q * d BY <2>1, DivLemma
  <2> QED BY <2>2
<1>2. PICK l \in Int : y = l * d
  <2>1. PICK q \in Int : q = y \div d BY DivLemma
  <2>2. y = q * d BY <2>1, DivLemma
  <2> QED BY <2>2
<1>3. PICK m \in Int, n \in Int : m = k + l /\ n = k - l OBVIOUS
<1>4. x + y = m * d /\ x - y = n * d BY <1>1, <1>2, <1>3
<1>5. (m * d) % d = 0 /\ (n * d) % d = 0 BY MulMod
<1> QED BY <1>4, <1>5

(* Rounding up to a multiple of d, as align_up and the page counts do.     *)
LEMMA RoundUp ==
  ASSUME NEW x \in Nat, NEW d \in Nat, d > 0
  PROVE  /\ (x + d - 1) \div d \in Nat
         /\ ((x + d - 1) \div d) * d \in Nat
         /\ ((x + d - 1) \div d) * d >= x
<1>1. PICK q \in Int : q = (x + d - 1) \div d BY DivLemma
<1>3. PICK p \in Int : p = d * q OBVIOUS
<1>3a. x + d - 1 < p + d BY <1>1, <1>3, DivLemma
<1>4. p >= x BY <1>3a
<1>5. q >= 0
  <2> SUFFICES ASSUME q < 0 PROVE FALSE OBVIOUS
  <2>1. d * q < 0 OBVIOUS
  <2> QED BY <1>3, <1>4, <2>1
<1>6. q * d = p BY <1>3
<1> QED BY <1>1, <1>4, <1>5, <1>6

(* Max of two numbers is the larger one.                                   *)
LEMMA MaxOfTwo ==
  ASSUME NEW a \in Nat, NEW b \in Nat
  PROVE  Max({a, b}) \in {a, b} /\ Max({a, b}) >= a /\ Max({a, b}) >= b
<1>1. \E x \in {a, b} : \A y \in {a, b} : x >= y
  <2>1. CASE a >= b BY <2>1
  <2>2. CASE b >= a BY <2>2
  <2> QED BY <2>1, <2>2
<1>2. Max({a, b}) = CHOOSE x \in {a, b} : \A y \in {a, b} : x >= y BY DEF Max
<1> QED BY <1>1, <1>2

(* Two steps forward do not lead back.                                     *)
LEMMA NoRoundTrip ==
  ASSUME NEW p \in Nat, NEW q \in Nat, NEW u \in Nat, NEW v \in Nat, NEW w \in Nat, w > 0,
         p = q + w + u, q = p + w + v
  PROVE  FALSE
OBVIOUS
=============================================================================
