--------------------------- MODULE SparcAlu_proofs ---------------------------
(***************************************************************************)
(* What the arithmetic part of simulateStep returns: words and icc bits,   *)
(* for every opcode and every word width; and what a word has to do with   *)
(* its bits, by induction over their positions.                            *)
(***************************************************************************)
EXTENDS SparcAlu, WellFoundedInduction, TLAPS

\* uint32_t addition and subtraction wrap once
LEMMA AddWValue ==
  ASSUME NEW a \in Word, NEW b \in Word
  PROVE  /\ AddW(a, b) = IF a + b < Modulus THEN a + b ELSE a + b - Modulus
         /\ AddW(a, b) \in Word
  BY HalfRangeAssumption DEF AddW, Word, Modulus

LEMMA SubWValue ==
  ASSUME NEW a \in Word, NEW b \in Word
  PROVE  /\ SubW(a, b) = IF a >= b THEN a - b ELSE a - b + Modulus
         /\ SubW(a, b) \in Word
  BY HalfRangeAssumption DEF SubW, Word, Modulus

\* any integer is cut down to a word
LEMMA LowWordType ==
  ASSUME NEW p \in Int
  PROVE  p % Modulus \in Word /\ LowWord(p) \in Word
  BY HalfRangeAssumption DEF LowWord, Word, Modulus

LEMMA HighWordType ==
  ASSUME NEW p \in Int
  PROVE  HighWord(p) \in Word
<1>1. Modulus \in Nat \ {0}
  BY HalfRangeAssumption DEF Modulus
<1>2. p \div Modulus \in Int
  BY <1>1
<1> QED
  BY <1>2, LowWordType DEF HighWord

LEMMA IccTyped ==
  ASSUME NEW a, NEW b, NEW d
  PROVE  AddIcc(a, b, d) \in IccType /\ SubIcc(a, b, d) \in IccType
  BY DEF AddIcc, SubIcc, IccType, Negative

LEMMA CarryType ==
  ASSUME NEW i \in IccType
  PROVE  Carry(i) \in Word
  BY HalfRangeAssumption DEF Carry, Word, Modulus

LEMMA SignedType ==
  ASSUME NEW a \in Word
  PROVE  Signed(a) \in Int /\ (a # 0 => Signed(a) # 0)
  BY HalfRangeAssumption DEF Signed, Negative, Word, Modulus
-----------------------------------------------------------------------------
(***************************************************************************)
(* Induction over the naturals, for sets, and functions defined step by    *)
(* step.                                                                   *)
(***************************************************************************)
LEMMA NaturalInduction ==
  ASSUME NEW S, 0 \in S, \A n \in Nat : n \in S => n + 1 \in S
  PROVE  Nat \subseteq S
<1> DEFINE T == {n \in Nat : n \notin S}
<1>1. ASSUME T # {} PROVE FALSE
  <2>1. IsWellFoundedOn(OpToRel(<, Nat), Nat)
    BY NatLessThanWellFounded
  <2>2. T \subseteq Nat
    OBVIOUS
  <2>3. PICK m \in T : \A y \in T : ~ (<<y, m>> \in OpToRel(<, Nat))
    BY <1>1, <2>1, <2>2, WFMin
  <2>4. \A y \in T : ~ (y < m)
    BY <2>3 DEF OpToRel
  <2>5. m \in Nat \ {0}
    OBVIOUS
  <2>6. m - 1 \in S
    BY <2>4, <2>5
  <2> QED
    BY <2>5, <2>6
<1> QED
  BY <1>1

\* f is right up to m
Upto(f, a, s, m) == f[0] = a /\ \A k \in 1 .. m : f[k] = s[<<f[k - 1], k - 1>>]

LEMMA UptoUnique ==
  ASSUME NEW f, NEW g, NEW a, NEW s, NEW m \in Nat, NEW n \in Nat, m <= n,
         Upto(f, a, s, m), Upto(g, a, s, n)
  PROVE  f[m] = g[m]
<1> DEFINE S == {k \in Nat : k <= m => f[k] = g[k]}
<1>1. 0 \in S
  BY DEF Upto
<1>2. ASSUME NEW k \in Nat, k \in S PROVE k + 1 \in S
  <2> SUFFICES ASSUME k + 1 <= m PROVE f[k + 1] = g[k + 1]
    OBVIOUS
  <2>1. f[k] = g[k]
    BY <1>2
  <2>2. k + 1 \in 1 .. m /\ k + 1 \in 1 .. n /\ (k + 1) - 1 = k
    OBVIOUS
  <2>3. f[k + 1] = s[<<f[k], k>>] /\ g[k + 1] = s[<<g[k], k>>]
    BY <2>2 DEF Upto
  <2> QED
    BY <2>1, <2>3
<1>3. Nat \subseteq S
  <2> HIDE DEF S
  <2> QED
    BY <1>1, <1>2, NaturalInduction
<1> QED
  BY <1>3

LEMMA UptoExists ==
  ASSUME NEW X, NEW a \in X, NEW s \in [X \X Nat -> X], NEW n \in Nat
  PROVE  \E f \in [Nat -> X] : Upto(f, a, s, n)
<1> DEFINE S == {m \in Nat : \E f \in [Nat -> X] : Upto(f, a, s, m)}
<1>1. 0 \in S
  <2>1. [k \in Nat |-> a] \in [Nat -> X] /\ Upto([k \in Nat |-> a], a, s, 0)
    BY DEF Upto
  <2> QED
    BY <2>1
<1>2. ASSUME NEW m \in Nat, m \in S PROVE m + 1 \in S
  <2>1. PICK f \in [Nat -> X] : Upto(f, a, s, m)
    BY <1>2
  <2> DEFINE g == [f EXCEPT ![m + 1] = s[<<f[m], m>>]]
  <2>2. f[m] \in X /\ <<f[m], m>> \in X \X Nat
    OBVIOUS
  <2>3. g \in [Nat -> X]
    BY <2>2
  <2>4. \A k \in Nat : k # m + 1 => g[k] = f[k]
    OBVIOUS
  <2>5. g[m + 1] = s[<<f[m], m>>]
    OBVIOUS
  <2>6. ASSUME NEW k \in 1 .. m + 1 PROVE g[k] = s[<<g[k - 1], k - 1>>]
    <3> HIDE DEF g
    <3>1. CASE k = m + 1
      <4>1. g[m] = f[m] /\ k - 1 = m
        BY <2>4, <3>1
      <4> QED
        BY <2>5, <3>1, <4>1
    <3>2. CASE k # m + 1
      <4>1. k \in 1 .. m /\ g[k] = f[k] /\ g[k - 1] = f[k - 1]
        BY <2>4, <3>2
      <4> QED
        BY <2>1, <4>1 DEF Upto
    <3> QED
      BY <3>1, <3>2
  <2>7. g[0] = a
    BY <2>1, <2>4 DEF Upto
  <2>8. Upto(g, a, s, m + 1)
    <3> HIDE DEF g
    <3> QED
      BY <2>6, <2>7 DEF Upto
  <2> HIDE DEF g
  <2> QED
    BY <2>3, <2>8
<1>3. Nat \subseteq S
  <2> HIDE DEF S
  <2> QED
    BY <1>1, <1>2, NaturalInduction
<1> QED
  BY <1>3

Iterates(g, a, s) == g[0] = a /\ \A n \in Nat : g[n + 1] = s[<<g[n], n>>]

LEMMA RecursionOnNat ==
  ASSUME NEW X, NEW a \in X, NEW s \in [X \X Nat -> X]
  PROVE  \E g \in [Nat -> X] : Iterates(g, a, s)
<1> DEFINE F(n) == CHOOSE f \in [Nat -> X] : Upto(f, a, s, n)
           g == [n \in Nat |-> F(n)[n]]
<1>1. \A n \in Nat : F(n) \in [Nat -> X] /\ Upto(F(n), a, s, n)
  BY UptoExists
<1> HIDE DEF F
<1>2. g \in [Nat -> X]
  BY <1>1
<1>3. g[0] = a
  BY <1>1 DEF Upto
<1>4. ASSUME NEW n \in Nat PROVE g[n + 1] = s[<<g[n], n>>]
  <2>1. Upto(F(n), a, s, n) /\ Upto(F(n + 1), a, s, n + 1)
    BY <1>1
  <2>2. F(n)[n] = F(n + 1)[n]
    <3>1. n + 1 \in Nat /\ n <= n + 1
      OBVIOUS
    <3>2. \A f, h : Upto(f, a, s, n) /\ Upto(h, a, s, n + 1) => f[n] = h[n]
      BY <3>1, UptoUnique
    <3> QED
      BY <2>1, <3>2
  <2>3. n + 1 \in 1 .. n + 1 /\ (n + 1) - 1 = n
    OBVIOUS
  <2>4. F(n + 1)[n + 1] = s[<<F(n + 1)[n], n>>]
    BY <2>1, <2>3 DEF Upto
  <2> QED
    BY <2>2, <2>4
<1> QED
  BY <1>2, <1>3, <1>4 DEF Iterates
-----------------------------------------------------------------------------
(* Powers of two *)

LEMMA PowersOfTwo ==
  /\ PowerOfTwo[0] = 1
  /\ \A n \in Nat : PowerOfTwo[n] \in Nat \ {0} /\ PowerOfTwo[n + 1] = 2 * PowerOfTwo[n]
<1> DEFINE Doubled(p) == [n \in Nat |-> IF n = 0 THEN 1 ELSE 2 * p[n - 1]]
           s == [x \in Nat \X Nat |-> 2 * x[1]]
<1>1. s \in [Nat \X Nat -> Nat]
  OBVIOUS
<1>2. PICK g \in [Nat -> Nat] : Iterates(g, 1, s)
  <2> HIDE DEF s
  <2> QED
    BY <1>1, RecursionOnNat
<1>3. \A n \in Nat : g[n + 1] = 2 * g[n]
  BY <1>2 DEF Iterates
<1>4. ASSUME NEW n \in Nat PROVE g[n] = IF n = 0 THEN 1 ELSE 2 * g[n - 1]
  <2>1. CASE n = 0
    BY <1>2, <2>1 DEF Iterates
  <2>2. CASE n # 0
    <3>1. n - 1 \in Nat /\ (n - 1) + 1 = n
      BY <2>2
    <3> QED
      BY <1>3, <2>2, <3>1
  <2> QED
    BY <2>1, <2>2
<1>5. g = Doubled(g)
  BY <1>4
<1>6. PowerOfTwo = Doubled(PowerOfTwo)
  <2>1. PowerOfTwo = CHOOSE p : p = Doubled(p)
    BY DEF PowerOfTwo
  <2> HIDE DEF Doubled
  <2> QED
    BY <1>5, <2>1
<1>7. \A n \in Nat : PowerOfTwo[n] = IF n = 0 THEN 1 ELSE 2 * PowerOfTwo[n - 1]
  BY <1>6
<1>8. PowerOfTwo[0] = 1 /\ \A n \in Nat : PowerOfTwo[n + 1] = 2 * PowerOfTwo[n]
  BY <1>7
<1> DEFINE S == {n \in Nat : PowerOfTwo[n] \in Nat \ {0}}
<1>9. 0 \in S /\ \A n \in Nat : n \in S => n + 1 \in S
  BY <1>8
<1>10. Nat \subseteq S
  <2> HIDE DEF S
  <2> QED
    BY <1>9, NaturalInduction
<1> QED
  BY <1>8, <1>10

-----------------------------------------------------------------------------
(* Quotients and remainders *)

LEMMA DivisionParts ==
  ASSUME NEW a \in Int, NEW d \in Nat \ {0}
  PROVE  /\ a \div d \in Int /\ a % d \in 0 .. d - 1
         /\ a = d * (a \div d) + (a % d)
  OBVIOUS

LEMMA DivisionUnique ==
  ASSUME NEW a \in Int, NEW d \in Nat \ {0}, NEW q \in Int, NEW r \in 0 .. d - 1, a = d * q + r
  PROVE  a \div d = q /\ a % d = r
<1>1. PICK k \in Int, m \in 0 .. d - 1 : k = a \div d /\ m = a % d /\ a = d * k + m
  BY DivisionParts
<1>2. d * (k - q) = r - m
  BY <1>1
<1>3. r - m < d /\ r - m > -d
  OBVIOUS
<1>4. ASSUME k - q >= 1 PROVE FALSE
  <2>1. d * (k - q) >= d
    BY <1>4
  <2> QED
    BY <1>2, <1>3, <2>1
<1>5. ASSUME k - q <= -1 PROVE FALSE
  <2>1. d * (k - q) <= -d
    BY <1>5
  <2> QED
    BY <1>2, <1>3, <2>1
<1>6. k = q
  BY <1>4, <1>5
<1> QED
  BY <1>1, <1>2, <1>6

LEMMA DivideTwice ==
  ASSUME NEW a \in Int, NEW d \in Nat \ {0}, NEW e \in Nat \ {0}
  PROVE  d * e \in Nat \ {0} /\ a \div (d * e) = (a \div d) \div e
<1>1. PICK q \in Int, r \in 0 .. d - 1 : q = a \div d /\ a = d * q + r
  BY DivisionParts
<1>2. PICK k \in Int, m \in 0 .. e - 1 : k = q \div e /\ q = e * k + m
  BY DivisionParts
<1>3. d * e \in Nat \ {0}
  OBVIOUS
<1>4. a = (d * e) * k + (d * m + r)
  <2>1. d * q = d * (e * k) + d * m
    BY <1>2
  <2>2. d * (e * k) = (d * e) * k
    OBVIOUS
  <2> QED
    BY <1>1, <2>1, <2>2
<1>5. d * m + r \in 0 .. (d * e) - 1
  <2>1. d * m <= d * (e - 1)
    OBVIOUS
  <2>2. d * (e - 1) = d * e - d
    OBVIOUS
  <2>3. d * m \in Nat
    OBVIOUS
  <2> QED
    BY <2>1, <2>2, <2>3
<1>6. a \div (d * e) = k
  <2> DEFINE x == d * e
             y == d * m + r
  <2>1. x \in Nat \ {0} /\ y \in 0 .. x - 1 /\ a = x * k + y
    BY <1>3, <1>4, <1>5
  <2> HIDE DEF x, y
  <2>2. a \div x = k
    BY <2>1, DivisionUnique
  <2> QED
    BY <2>2 DEF x
<1> QED
  BY <1>1, <1>2, <1>3, <1>6

\* one bit more
LEMMA NextRemainder ==
  ASSUME NEW a \in Int, NEW d \in Nat \ {0}
  PROVE  a % (2 * d) = (a % d) + IF (a \div d) % 2 = 1 THEN d ELSE 0
<1>1. PICK q \in Int, r \in 0 .. d - 1 : q = a \div d /\ r = a % d /\ a = d * q + r
  BY DivisionParts
<1>2. PICK k \in Int, b \in 0 .. 1 : b = q % 2 /\ q = 2 * k + b
  BY DivisionParts
<1> DEFINE x == 2 * d
           y == d * b + r
<1>3. x \in Nat \ {0} /\ a = x * k + y
  <2>1. d * (2 * k + b) = (2 * d) * k + d * b
    OBVIOUS
  <2>2. d * q = (2 * d) * k + d * b
    BY <1>2, <2>1
  <2>3. d * q \in Int /\ (2 * d) * k \in Int /\ d * b \in Int
    OBVIOUS
  <2>4. a = (2 * d) * k + (d * b + r)
    BY <1>1, <2>2, <2>3
  <2> QED
    BY <2>4
<1>4. y = r + IF b = 1 THEN d ELSE 0
  <2>1. b = 0 \/ b = 1
    OBVIOUS
  <2> QED
    BY <2>1
<1>5. y \in 0 .. x - 1
  BY <1>4
<1>6. a % x = y
  <2> HIDE DEF x, y
  <2> QED
    BY <1>3, <1>5, DivisionUnique
<1> QED
  BY <1>1, <1>2, <1>4, <1>6
-----------------------------------------------------------------------------
(* The word of a set of bits *)

Weigh(S, n) == IF n \in S THEN PowerOfTwo[n] ELSE 0
Sums(f, S) == f[0] = 0 /\ \A n \in Nat : f[n + 1] = f[n] + Weigh(S, n)

LEMMA SumOfBits ==
  ASSUME NEW S
  PROVE  \E f \in [Nat -> Nat] : Sums(f, S) /\ FromBits(S) = f[WordBits]
<1> DEFINE Added(f) == [n \in Nat |-> IF n = 0 THEN 0 ELSE f[n - 1] + IF n - 1 \in S THEN PowerOfTwo[n - 1] ELSE 0]
           sum == CHOOSE f : f = Added(f)
           s == [x \in Nat \X Nat |-> x[1] + Weigh(S, x[2])]
<1>1. \A n \in Nat : Weigh(S, n) \in Nat
  BY PowersOfTwo DEF Weigh
<1>2. s \in [Nat \X Nat -> Nat]
  BY <1>1
<1>3. PICK g \in [Nat -> Nat] : Iterates(g, 0, s)
  <2> HIDE DEF s
  <2> QED
    BY <1>2, RecursionOnNat
<1>4. Sums(g, S)
  <2>1. ASSUME NEW n \in Nat PROVE g[n + 1] = g[n] + Weigh(S, n)
    <3>1. g[n + 1] = s[<<g[n], n>>]
      BY <1>3 DEF Iterates
    <3>2. <<g[n], n>> \in Nat \X Nat
      OBVIOUS
    <3> QED
      BY <3>1, <3>2
  <2> QED
    BY <1>3, <2>1 DEF Sums, Iterates
<1>5. ASSUME NEW n \in Nat
      PROVE  g[n] = IF n = 0 THEN 0 ELSE g[n - 1] + IF n - 1 \in S THEN PowerOfTwo[n - 1] ELSE 0
  <2>1. CASE n = 0
    BY <1>4, <2>1 DEF Sums
  <2>2. CASE n # 0
    <3>1. n - 1 \in Nat /\ (n - 1) + 1 = n
      BY <2>2
    <3>2. g[(n - 1) + 1] = g[n - 1] + Weigh(S, n - 1)
      BY <1>4, <3>1 DEF Sums
    <3>3. g[n] = g[n - 1] + Weigh(S, n - 1)
      BY <3>1, <3>2
    <3> QED
      BY <2>2, <3>3 DEF Weigh
  <2> QED
    BY <2>1, <2>2
<1>6. g = Added(g)
  BY <1>5
<1>7. sum = Added(sum)
  <2> HIDE DEF Added
  <2> QED
    BY <1>6
<1> HIDE DEF sum
<1>8. /\ sum[0] = 0
      /\ \A n \in Nat : sum[n + 1] = sum[n] + Weigh(S, n)
  BY <1>7 DEF Weigh
<1> DEFINE T == {n \in Nat : sum[n] = g[n]}
<1>9. 0 \in T /\ \A n \in Nat : n \in T => n + 1 \in T
  BY <1>4, <1>8 DEF Sums
<1>10. Nat \subseteq T
  <2> HIDE DEF T
  <2> QED
    BY <1>9, NaturalInduction
<1>11. FromBits(S) = sum[WordBits]
  BY DEF FromBits, sum
<1> QED
  BY <1>4, <1>10, <1>11, WordBitsAssumption

LEMMA SumBelow ==
  ASSUME NEW S, NEW f \in [Nat -> Nat], Sums(f, S)
  PROVE  \A n \in Nat : f[n] < PowerOfTwo[n]
<1> DEFINE T == {n \in Nat : f[n] < PowerOfTwo[n]}
<1>1. 0 \in T
  BY PowersOfTwo DEF Sums
<1>2. ASSUME NEW n \in Nat, n \in T PROVE n + 1 \in T
  <2>1. f[n + 1] = f[n] + Weigh(S, n)
    BY DEF Sums
  <2>2. PowerOfTwo[n] \in Nat /\ PowerOfTwo[n + 1] = 2 * PowerOfTwo[n] /\ Weigh(S, n) \in 0 .. PowerOfTwo[n]
    BY PowersOfTwo DEF Weigh
  <2> QED
    BY <1>2, <2>1, <2>2
<1>3. Nat \subseteq T
  <2> HIDE DEF T
  <2> QED
    BY <1>1, <1>2, NaturalInduction
<1> QED
  BY <1>3

\* every set of positions makes a word
LEMMA FromBitsType ==
  ASSUME NEW S
  PROVE  FromBits(S) \in Word
<1>1. PICK f \in [Nat -> Nat] : Sums(f, S) /\ FromBits(S) = f[WordBits]
  BY SumOfBits
<1>2. f[WordBits] < PowerOfTwo[WordBits]
  BY <1>1, SumBelow, WordBitsAssumption
<1> QED
  BY <1>1, <1>2, WordBitsAssumption, HalfRangeAssumption DEF Word, Modulus

LEMMA WordPower ==
  /\ Modulus = PowerOfTwo[WordBits] /\ Modulus \in Nat \ {0}
  /\ WordBits \in Nat \ {0}
  /\ BitPositions \subseteq Nat /\ \A n \in Nat : n \in BitPositions <=> n < WordBits
  /\ \A n : n \in BitPositions => n \in Nat
BY WordBitsAssumption, HalfRangeAssumption DEF Modulus, BitPositions

\* a word is the sum of its bits
LEMMA WordOfItsBits ==
  ASSUME NEW a \in Word
  PROVE  FromBits(BitsOf(a)) = a
<1>1. PICK f \in [Nat -> Nat] : Sums(f, BitsOf(a)) /\ FromBits(BitsOf(a)) = f[WordBits]
  BY SumOfBits
<1> DEFINE T == {n \in Nat : n <= WordBits => f[n] = a % PowerOfTwo[n]}
<1>2. a \in Nat
  BY DEF Word
<1>3. 0 \in T
  <2>1. a % 1 = 0
    BY <1>2
  <2> QED
    BY <1>1, <2>1, PowersOfTwo DEF Sums
<1>4. ASSUME NEW n \in Nat, n \in T PROVE n + 1 \in T
  <2> SUFFICES ASSUME n + 1 <= WordBits PROVE f[n + 1] = a % PowerOfTwo[n + 1]
    OBVIOUS
  <2> DEFINE d == PowerOfTwo[n]
  <2>1. d \in Nat \ {0} /\ PowerOfTwo[n + 1] = 2 * d
    BY PowersOfTwo
  <2>2. n \in BitPositions
    BY WordPower
  <2>3. f[n] = a % d
    BY <1>4, WordPower
  <2>4. Weigh(BitsOf(a), n) = IF (a \div d) % 2 = 1 THEN d ELSE 0
    BY <2>2 DEF Weigh, BitsOf
  <2>5. f[n + 1] = f[n] + Weigh(BitsOf(a), n)
    BY <1>1 DEF Sums
  <2> HIDE DEF d
  <2>6. a % (2 * d) = (a % d) + IF (a \div d) % 2 = 1 THEN d ELSE 0
    <3>1. a \in Int
      BY <1>2
    <3> QED
      BY <2>1, <3>1, NextRemainder
  <2> QED
    BY <2>1, <2>3, <2>4, <2>5, <2>6
<1>5. Nat \subseteq T
  <2> HIDE DEF T
  <2> QED
    BY <1>3, <1>4, NaturalInduction
<1>6. f[WordBits] = a % Modulus
  BY <1>5, WordPower
<1>7. a % Modulus = a
  BY WordPower DEF Word
<1> QED
  BY <1>1, <1>6, <1>7
-----------------------------------------------------------------------------
(* Bits that are moved *)

LEMMA PowerOfSum ==
  ASSUME NEW m \in Nat, NEW n \in Nat
  PROVE  PowerOfTwo[m + n] = PowerOfTwo[m] * PowerOfTwo[n]
<1> DEFINE T == {k \in Nat : PowerOfTwo[m + k] = PowerOfTwo[m] * PowerOfTwo[k]}
<1>1. 0 \in T
  <2>1. PowerOfTwo[m] \in Nat /\ PowerOfTwo[0] = 1 /\ m + 0 = m
    BY PowersOfTwo
  <2> QED
    BY <2>1
<1>2. ASSUME NEW k \in Nat, k \in T PROVE k + 1 \in T
  <2>0. m + k \in Nat
    OBVIOUS
  <2>1. PICK x \in Nat, y \in Nat, z \in Nat :
          x = PowerOfTwo[m] /\ y = PowerOfTwo[k] /\ z = PowerOfTwo[m + k]
    BY <2>0, PowersOfTwo
  <2>2. PowerOfTwo[k + 1] = 2 * y /\ PowerOfTwo[(m + k) + 1] = 2 * z
    BY <2>1, PowersOfTwo
  <2>3. z = x * y
    BY <1>2, <2>1
  <2>4. 2 * z = x * (2 * y)
    BY <2>3
  <2>5. (m + k) + 1 = m + (k + 1)
    OBVIOUS
  <2> QED
    BY <2>1, <2>2, <2>4, <2>5
<1>3. Nat \subseteq T
  <2> HIDE DEF T
  <2> QED
    BY <1>1, <1>2, NaturalInduction
<1> QED
  BY <1>3

\* no bits beyond the width
LEMMA NoBitsBeyond ==
  ASSUME NEW a \in Word, NEW n \in Nat, n >= WordBits
  PROVE  a \div PowerOfTwo[n] = 0
<1>1. PICK x \in Nat \ {0}, y \in Nat \ {0} :
        x = Modulus /\ y = PowerOfTwo[n - WordBits] /\ PowerOfTwo[n] = x * y
  <2>1. n - WordBits \in Nat /\ WordBits + (n - WordBits) = n
    BY WordPower
  <2>2. PowerOfTwo[WordBits + (n - WordBits)] = PowerOfTwo[WordBits] * PowerOfTwo[n - WordBits]
    BY <2>1, WordPower, PowerOfSum
  <2>3. PowerOfTwo[n - WordBits] \in Nat \ {0}
    BY <2>1, PowersOfTwo
  <2> QED
    BY <2>1, <2>2, <2>3, WordPower
<1>2. x * y >= x
  OBVIOUS
<1>3. a \in 0 .. (x * y) - 1
  BY <1>1, <1>2 DEF Word
<1> DEFINE d == x * y
<1>4. d \in Nat \ {0}
  OBVIOUS
<1>5. a = d * 0 + a /\ a \in 0 .. d - 1 /\ a \in Int
  BY <1>3, <1>4
<1>6. a \div d = 0
  <2> HIDE DEF d
  <2> QED
    BY <1>4, <1>5, DivisionUnique
<1> QED
  BY <1>1, <1>6

LEMMA MovedBits ==
  ASSUME NEW a \in Word, NEW n \in Nat
  PROVE  /\ a \div PowerOfTwo[n] \in Word /\ a \div PowerOfTwo[n] <= a
         /\ \A k \in BitPositions : k \in BitsOf(a \div PowerOfTwo[n]) <=> k + n \in BitsOf(a)
<1>1. a \in Nat
  BY DEF Word
<1>2. PICK d \in Nat \ {0} : d = PowerOfTwo[n]
  BY PowersOfTwo
<1>3. a \div d \in 0 .. a
  <2>1. PICK q \in Int, r \in 0 .. d - 1 : q = a \div d /\ a = d * q + r
    <3>1. a \in Int
      BY <1>1
    <3> QED
      BY <3>1, DivisionParts
  <2>2. ASSUME q <= -1 PROVE FALSE
    <3>1. d * q <= -d
      BY <2>2
    <3> QED
      BY <1>1, <2>1, <3>1
  <2>3. q >= 0
    BY <2>2
  <2>4. d * q >= q
    BY <2>3
  <2>5. d * q \in Int
    OBVIOUS
  <2> QED
    BY <1>1, <2>1, <2>3, <2>4, <2>5
<1>4. a \div d \in Word /\ a \div d <= a
  <2>1. \A q \in 0 .. a : q \in Word /\ q <= a
    BY WordPower DEF Word
  <2> QED
    BY <1>3, <2>1
<1>5. ASSUME NEW k \in BitPositions PROVE k \in BitsOf(a \div d) <=> k + n \in BitsOf(a)
  <2>1. k \in Nat /\ k + n \in Nat
    BY WordPower
  <2>2. PICK e \in Nat \ {0} : e = PowerOfTwo[k]
    BY <2>1, PowersOfTwo
  <2>3. PowerOfTwo[k + n] = d * e
    <3>1. PowerOfTwo[n + k] = PowerOfTwo[n] * PowerOfTwo[k] /\ n + k = k + n
      BY <2>1, PowerOfSum
    <3> QED
      BY <1>2, <2>2, <3>1
  <2>4. a \div PowerOfTwo[k + n] = (a \div d) \div e
    <3>1. a \in Int
      BY <1>1
    <3>2. a \div (d * e) = (a \div d) \div e
      BY <1>2, <2>2, <3>1, DivideTwice
    <3> QED
      BY <2>3, <3>2
  <2>5. CASE k + n \in BitPositions
    BY <2>2, <2>4, <2>5 DEF BitsOf
  <2>6. CASE k + n \notin BitPositions
    <3>1. k + n >= WordBits
      BY <2>1, <2>6, WordPower
    <3>2. (a \div d) \div e = 0
      BY <2>1, <2>4, <3>1, NoBitsBeyond
    <3>3. 0 % 2 # 1
      OBVIOUS
    <3> QED
      BY <2>2, <2>6, <3>2, <3>3 DEF BitsOf
  <2> QED
    BY <2>5, <2>6
<1> QED
  BY <1>2, <1>4, <1>5

\* a power below the width divides Modulus, and what is left is even
LEMMA EvenRest ==
  ASSUME NEW k \in BitPositions
  PROVE  \E h \in Nat \ {0} : Modulus = PowerOfTwo[k] * (2 * h)
<1>1. k \in Nat /\ WordBits - k - 1 \in Nat /\ k + ((WordBits - k - 1) + 1) = WordBits
  BY WordPower
<1>2. PICK h \in Nat \ {0} : h = PowerOfTwo[WordBits - k - 1]
  BY <1>1, PowersOfTwo
<1>3. PowerOfTwo[(WordBits - k - 1) + 1] = 2 * h
  BY <1>1, <1>2, PowersOfTwo
<1>4. PowerOfTwo[k + ((WordBits - k - 1) + 1)] = PowerOfTwo[k] * PowerOfTwo[(WordBits - k - 1) + 1]
  <2>1. (WordBits - k - 1) + 1 \in Nat
    BY <1>1
  <2> QED
    BY <1>1, <2>1, PowerOfSum
<1>5. PowerOfTwo[WordBits] = PowerOfTwo[k] * (2 * h)
  BY <1>1, <1>3, <1>4
<1> QED
  BY <1>2, <1>5, WordPower

\* adding a multiple of Modulus changes no bit of a word
LEMMA BitsOfLow ==
  ASSUME NEW x \in Int, NEW k \in BitPositions
  PROVE  k \in BitsOf(x % Modulus) <=> (x \div PowerOfTwo[k]) % 2 = 1
<1>1. PICK h \in Nat \ {0} : Modulus = PowerOfTwo[k] * (2 * h)
  BY EvenRest
<1>2. PICK d \in Nat \ {0} : d = PowerOfTwo[k]
  BY WordPower, PowersOfTwo
<1>3. PICK z \in Int, y \in 0 .. Modulus - 1 : y = x % Modulus /\ x = Modulus * z + y
  <2>1. /\ x \div Modulus \in Int /\ x % Modulus \in 0 .. Modulus - 1
        /\ x = Modulus * (x \div Modulus) + (x % Modulus)
    BY WordPower, DivisionParts
  <2> QED
    BY <2>1
<1>4. PICK q \in Int, r \in 0 .. d - 1 : q = y \div d /\ y = d * q + r
  <2>1. y \in Int
    BY <1>3, WordPower
  <2>2. y \div d \in Int /\ y % d \in 0 .. d - 1 /\ y = d * (y \div d) + (y % d)
    BY <1>2, <2>1, DivisionParts
  <2> QED
    BY <2>2
<1>5. x = d * ((2 * h) * z + q) + r
  <2>1. Modulus * z = d * ((2 * h) * z)
    <3>1. (d * (2 * h)) * z = d * ((2 * h) * z)
      OBVIOUS
    <3> QED
      BY <1>1, <1>2, <3>1
  <2>2. d * ((2 * h) * z + q) = d * ((2 * h) * z) + d * q
    OBVIOUS
  <2>3. d * ((2 * h) * z) \in Int /\ d * q \in Int
    OBVIOUS
  <2> QED
    BY <1>3, <1>4, <2>1, <2>2, <2>3
<1> DEFINE p == (2 * h) * z + q
<1>6. p \in Int
  OBVIOUS
<1>7. x \div d = p
  <2>1. x = d * p + r
    BY <1>5
  <2> HIDE DEF p
  <2> QED
    BY <1>2, <1>4, <1>6, <2>1, DivisionUnique
<1>8. p % 2 = q % 2
  <2> DEFINE w == h * z
  <2>1. w \in Int /\ (2 * h) * z = 2 * w
    OBVIOUS
  <2>2. p = 2 * w + q
    BY <2>1
  <2> HIDE DEF w, p
  <2> QED
    BY <2>1, <2>2
<1>9. k \in BitsOf(y) <=> q % 2 = 1
  BY <1>2, <1>4 DEF BitsOf
<1> HIDE DEF p
<1> QED
  BY <1>2, <1>3, <1>7, <1>8, <1>9

\* shifting left
LEMMA ShiftedLeft ==
  ASSUME NEW a \in Word, NEW n \in Nat, n < WordBits
  PROVE  FromBits({i + n : i \in BitsOf(a)} \cap BitPositions) = (a * PowerOfTwo[n]) % Modulus
<1> DEFINE T == {i + n : i \in BitsOf(a)} \cap BitPositions
<1>1. PICK d \in Nat \ {0} : d = PowerOfTwo[n]
  BY PowersOfTwo
<1> DEFINE x == a * d
<1>2. a \in Nat /\ a \in Int /\ x \in Int
  BY DEF Word
<1>3. ASSUME NEW k \in BitPositions PROVE k \in T <=> (x \div PowerOfTwo[k]) % 2 = 1
  <2>1. k \in Nat
    BY WordPower
  <2>2. CASE k >= n
    <3>1. k - n \in Nat /\ n + (k - n) = k /\ k - n \in BitPositions
      BY <2>1, <2>2, WordPower
    <3>2. PICK e \in Nat \ {0} : e = PowerOfTwo[k - n]
      BY <3>1, PowersOfTwo
    <3>3. PowerOfTwo[n + (k - n)] = d * e
      BY <1>1, <3>1, <3>2, PowerOfSum
    <3>4. x \div (d * e) = (x \div d) \div e
      <4> HIDE DEF x
      <4> QED
        BY <1>1, <1>2, <3>2, DivideTwice
    <3>5. x \div d = a
      <4>1. x = d * a + 0 /\ 0 \in 0 .. d - 1
        BY <1>1, <1>2
      <4> HIDE DEF x
      <4> QED
        BY <1>1, <1>2, <4>1, DivisionUnique
    <3>6. k \in T <=> k - n \in BitsOf(a)
      <4>1. \A i \in BitsOf(a) : i \in Nat /\ (i + n = k <=> i = k - n)
        BY <2>1, WordPower DEF BitsOf
      <4> QED
        BY <3>1, <4>1
    <3>7. k - n \in BitsOf(a) <=> (a \div e) % 2 = 1
      BY <3>1, <3>2 DEF BitsOf
    <3> HIDE DEF x, T
    <3>8. x \div PowerOfTwo[k] = a \div e
      BY <3>1, <3>3, <3>4, <3>5
    <3> QED
      BY <3>6, <3>7, <3>8
  <2>3. CASE k < n
    <3>1. n - k - 1 \in Nat /\ k + ((n - k - 1) + 1) = n /\ (n - k - 1) + 1 \in Nat
      BY <2>1, <2>3
    <3>2. PICK e \in Nat \ {0}, f \in Nat \ {0} : e = PowerOfTwo[k] /\ f = PowerOfTwo[n - k - 1]
      BY <2>1, <3>1, PowersOfTwo
    <3>3. PowerOfTwo[(n - k - 1) + 1] = 2 * f
      BY <3>1, <3>2, PowersOfTwo
    <3>4. PowerOfTwo[k + ((n - k - 1) + 1)] = PowerOfTwo[k] * PowerOfTwo[(n - k - 1) + 1]
      BY <2>1, <3>1, PowerOfSum
    <3>5. d = e * (2 * f)
      BY <1>1, <3>1, <3>2, <3>3, <3>4
    <3> DEFINE w == f * a
    <3>6. w \in Int
      BY <1>2
    <3>7. x = e * (2 * w) + 0
      <4>1. a * (e * (2 * f)) = e * (2 * (f * a))
        BY <1>2
      <4>2. a * d = e * (2 * (f * a))
        BY <3>5, <4>1
      <4>3. e * (2 * (f * a)) \in Int
        BY <3>2, <1>2
      <4> QED
        BY <4>2, <4>3
    <3>8. 0 \in 0 .. e - 1
      BY <3>2
    <3> HIDE DEF w, x
    <3>9. x \div e = 2 * w
      <4>1. 2 * w \in Int
        BY <3>6
      <4> QED
        BY <1>2, <3>2, <3>7, <3>8, <4>1, DivisionUnique
    <3>10. (2 * w) % 2 # 1
      BY <3>6
    <3>11. k \notin T
      <4>1. \A i \in BitsOf(a) : i \in Nat /\ i + n # k
        BY <2>1, <2>3, WordPower DEF BitsOf
      <4> QED
        BY <4>1
    <3> HIDE DEF T
    <3> QED
      BY <3>2, <3>9, <3>10, <3>11
  <2> QED
    BY <2>1, <2>2, <2>3
<1>4. T = BitsOf(x % Modulus)
  <2>1. \A k \in BitPositions : k \in T <=> k \in BitsOf(x % Modulus)
    <3> HIDE DEF T, x
    <3> QED
      BY <1>2, <1>3, BitsOfLow
  <2>2. T \subseteq BitPositions /\ BitsOf(x % Modulus) \subseteq BitPositions
    BY DEF BitsOf
  <2> HIDE DEF T, x
  <2> QED
    BY <2>1, <2>2
<1>5. x % Modulus \in Word
  <2> HIDE DEF x
  <2>1. x % Modulus \in 0 .. Modulus - 1
    BY <1>2, WordPower
  <2> QED
    BY <2>1 DEF Word
<1> HIDE DEF T, x
<1>6. FromBits(T) = x % Modulus
  BY <1>4, <1>5, WordOfItsBits
<1> QED
  BY <1>1, <1>6 DEF T, x

\* shifting right
LEMMA ShiftedRight ==
  ASSUME NEW a \in Word, NEW n \in Nat
  PROVE  FromBits({i - n : i \in BitsOf(a)} \cap BitPositions) = a \div PowerOfTwo[n]
<1> DEFINE T == {i - n : i \in BitsOf(a)} \cap BitPositions
           q == a \div PowerOfTwo[n]
<1>1. q \in Word /\ \A k \in BitPositions : k \in BitsOf(q) <=> k + n \in BitsOf(a)
  BY MovedBits
<1>2. ASSUME NEW k \in BitPositions PROVE k \in T <=> k + n \in BitsOf(a)
  <2>1. k \in Nat /\ \A i \in BitsOf(a) : i \in Nat /\ (i - n = k <=> i = k + n)
    BY WordPower DEF BitsOf
  <2> QED
    BY <2>1
<1>3. T = BitsOf(q)
  <2>1. T \subseteq BitPositions /\ BitsOf(q) \subseteq BitPositions
    BY DEF BitsOf
  <2> HIDE DEF T, q
  <2> QED
    BY <1>1, <1>2, <2>1
<1> HIDE DEF T, q
<1>4. FromBits(T) = q
  BY <1>1, <1>3, WordOfItsBits
<1> QED
  BY <1>4 DEF T, q

\* the other bits of a word make its complement
LEMMA Complement ==
  ASSUME NEW a \in Word
  PROVE  /\ Modulus - 1 - a \in Word
         /\ \A k \in BitPositions : k \in BitsOf(Modulus - 1 - a) <=> k \notin BitsOf(a)
<1> DEFINE c == Modulus - 1 - a
<1>1. a \in Nat /\ a \in Int /\ c \in Word /\ c \in Int
  BY WordPower DEF Word
<1>2. ASSUME NEW k \in BitPositions PROVE k \in BitsOf(c) <=> k \notin BitsOf(a)
  <2>1. PICK h \in Nat \ {0} : Modulus = PowerOfTwo[k] * (2 * h)
    BY EvenRest
  <2>2. PICK d \in Nat \ {0} : d = PowerOfTwo[k]
    BY WordPower, PowersOfTwo
  <2>3. PICK q \in Int, r \in 0 .. d - 1 : q = a \div d /\ a = d * q + r
    <3>1. a \div d \in Int /\ a % d \in 0 .. d - 1 /\ a = d * (a \div d) + (a % d)
      BY <1>1, <2>2, DivisionParts
    <3> QED
      BY <3>1
  <2> DEFINE p == 2 * h - 1 - q
             s == d - 1 - r
  <2>4. c = d * p + s
    <3>1. d * (2 * h - 1 - q) = d * (2 * h) - d - d * q
      OBVIOUS
    <3>2. d * (2 * h) \in Int /\ d * q \in Int
      OBVIOUS
    <3>3. c = d * (2 * h) - 1 - (d * q + r)
      BY <2>1, <2>2, <2>3
    <3> QED
      BY <3>1, <3>2, <3>3
  <2>5. p \in Int /\ s \in 0 .. d - 1
    OBVIOUS
  <2>6. p % 2 = 1 <=> q % 2 # 1
    OBVIOUS
  <2>7. c \div d = p
    <3> HIDE DEF c, p, s
    <3> QED
      BY <1>1, <2>2, <2>4, <2>5, DivisionUnique
  <2> HIDE DEF c, p
  <2> QED
    BY <2>2, <2>3, <2>6, <2>7 DEF BitsOf
<1> QED
  BY <1>1, <1>2

\* shifting right with the sign
LEMMA SraPositive ==
  ASSUME NEW a \in Word, NEW n \in Nat, ~Negative(a)
  PROVE  FromBits({i \in BitPositions : IF i + n < WordBits THEN i + n \in BitsOf(a) ELSE Negative(a)})
           = a \div PowerOfTwo[n]
<1> DEFINE T == {i \in BitPositions : IF i + n < WordBits THEN i + n \in BitsOf(a) ELSE Negative(a)}
           q == a \div PowerOfTwo[n]
<1>1. q \in Word /\ \A k \in BitPositions : k \in BitsOf(q) <=> k + n \in BitsOf(a)
  BY MovedBits
<1>2. ASSUME NEW k \in BitPositions PROVE k \in T <=> k + n \in BitsOf(a)
  <2>1. k + n \in BitsOf(a) => k + n < WordBits
    BY WordPower DEF BitsOf
  <2> QED
    BY <2>1
<1>3. T = BitsOf(q)
  <2>1. T \subseteq BitPositions /\ BitsOf(q) \subseteq BitPositions
    BY DEF BitsOf
  <2> HIDE DEF T, q
  <2> QED
    BY <1>1, <1>2, <2>1
<1> HIDE DEF T, q
<1>4. FromBits(T) = q
  BY <1>1, <1>3, WordOfItsBits
<1> QED
  BY <1>4 DEF T, q

LEMMA SraNegative ==
  ASSUME NEW a \in Word, NEW n \in Nat, Negative(a)
  PROVE  FromBits({i \in BitPositions : IF i + n < WordBits THEN i + n \in BitsOf(a) ELSE Negative(a)})
           = Modulus - 1 - ((Modulus - 1 - a) \div PowerOfTwo[n])
<1> DEFINE T == {i \in BitPositions : IF i + n < WordBits THEN i + n \in BitsOf(a) ELSE Negative(a)}
           c == Modulus - 1 - a
           q == c \div PowerOfTwo[n]
           r == Modulus - 1 - q
<1>1. c \in Word /\ \A k \in BitPositions : k \in BitsOf(c) <=> k \notin BitsOf(a)
  BY Complement
<1>2. q \in Word /\ \A k \in BitPositions : k \in BitsOf(q) <=> k + n \in BitsOf(c)
  <2> HIDE DEF c
  <2> QED
    BY <1>1, MovedBits
<1>3. r \in Word /\ \A k \in BitPositions : k \in BitsOf(r) <=> k \notin BitsOf(q)
  <2> HIDE DEF q
  <2> QED
    BY <1>2, Complement
<1>4. ASSUME NEW k \in BitPositions PROVE k \in T <=> k \notin BitsOf(q)
  <2>1. k + n \in Nat /\ (k + n < WordBits <=> k + n \in BitPositions)
    BY WordPower
  <2>2. k + n \in BitsOf(c) => k + n \in BitPositions
    BY DEF BitsOf
  <2> HIDE DEF c, q
  <2> QED
    BY <1>1, <1>2, <2>1, <2>2
<1>5. T = BitsOf(r)
  <2>1. T \subseteq BitPositions /\ BitsOf(r) \subseteq BitPositions
    BY DEF BitsOf
  <2> HIDE DEF T, r, q
  <2> QED
    BY <1>3, <1>4, <2>1
<1> HIDE DEF T, r
<1>6. FromBits(T) = r
  BY <1>3, <1>5, WordOfItsBits
<1> QED
  BY <1>6 DEF T, r
-----------------------------------------------------------------------------
\* the bitwise operations and the shifts make words of sets of bits
LEMMA BitwiseType ==
  ASSUME NEW a, NEW b
  PROVE  /\ AndW(a, b) \in Word /\ OrW(a, b) \in Word
         /\ XorW(a, b) \in Word /\ NotW(a) \in Word
BY FromBitsType DEF AndW, OrW, XorW, NotW

LEMMA ShiftType ==
  ASSUME NEW a, NEW n
  PROVE  Sll(a, n) \subseteq Word /\ Srl(a, n) \subseteq Word /\ Sra(a, n) \in Word
BY FromBitsType DEF Sll, Srl, Sra

\* a truncated quotient is an integer
LEMMA TruncatedType ==
  ASSUME NEW p \in Int, NEW q \in Int, q # 0
  PROVE  Truncated(p, q) \in Int
<1>1. Abs(p) \in Nat /\ Abs(q) \in Nat \ {0}
  BY DEF Abs
<1>2. Abs(p) \div Abs(q) \in Int
  BY <1>1
<1> QED
  BY <1>2 DEF Truncated

LEMMA ProductType ==
  ASSUME NEW a \in Word, NEW b \in Word
  PROVE  UProduct(a, b) \in Int /\ SProduct(a, b) \in Int
<1>1. a \in Int /\ b \in Int /\ Signed(b) \in Int
  BY SignedType DEF Word
<1> QED
  BY <1>1 DEF UProduct, SProduct

LEMMA QuotientType ==
  ASSUME NEW y \in Word, NEW a \in Word, NEW b \in Word, b # 0
  PROVE  UQuotient(y, a, b) \in Int /\ SQuotient(y, a, b) \in Int
<1>1. Modulus \in Int /\ y \in Int /\ a \in Int /\ b \in Nat \ {0}
  BY HalfRangeAssumption DEF Modulus, Word
<1>2. y * Modulus + a \in Int
  BY <1>1
<1>3. UQuotient(y, a, b) \in Int
  BY <1>1, <1>2 DEF UQuotient
<1>4. Signed(y) \in Int /\ Signed(b) \in Int /\ Signed(b) # 0
  BY SignedType
<1>5. Signed(y) * Modulus + a \in Int
  BY <1>1, <1>4
<1> QED
  BY <1>3, <1>4, <1>5, TruncatedType DEF SQuotient
-----------------------------------------------------------------------------
(***************************************************************************)
(* Whatever the opcode, the destination receives a word.                   *)
(***************************************************************************)
LEMMA AluValuesType ==
  ASSUME NEW op \in AluOps, NEW a \in Word, NEW b \in Word,
         NEW icc \in IccType, NEW y \in Word, op \in DivOps => b # 0
  PROVE  AluValues(op, a, b, icc, y) \subseteq Word
<1> USE DEF AddOps, SubOps, AddxOps, SubxOps, UmulOps, SmulOps, UdivOps, SdivOps
<1>1. CASE op \in LogicOps
  <2>1. AluValues(op, a, b, icc, y) \in
          {{AndW(a, b)}, {NotW(AndW(a, b))}, {OrW(a, b)}, {NotW(OrW(a, b))},
           {XorW(a, b)}, {NotW(XorW(a, b))}}
    BY <1>1 DEF AluValues, LogicOps
  <2>2. /\ AndW(a, b) \in Word /\ NotW(AndW(a, b)) \in Word
        /\ OrW(a, b) \in Word /\ NotW(OrW(a, b)) \in Word
        /\ XorW(a, b) \in Word /\ NotW(XorW(a, b)) \in Word
    BY BitwiseType
  <2> QED
    BY <2>1, <2>2
<1>2. CASE op \in ShiftOps
  <2>1. AluValues(op, a, b, icc, y) \in {Sll(a, b), Srl(a, b), {Sra(a, b)}}
    BY <1>2 DEF AluValues, ShiftOps
  <2> QED
    BY <2>1, ShiftType
<1>3. CASE op \in AddOps \cup AddxOps
  <2>1. AluValues(op, a, b, icc, y) \in {{AddW(a, b)}, {AddW(AddW(a, b), Carry(icc))}}
    BY <1>3 DEF AluValues
  <2>2. AddW(a, b) \in Word /\ AddW(AddW(a, b), Carry(icc)) \in Word
    BY AddWValue, CarryType
  <2> QED
    BY <2>1, <2>2
<1>4. CASE op \in SubOps \cup SubxOps
  <2>1. AluValues(op, a, b, icc, y) \in {{SubW(a, b)}, {SubW(SubW(a, b), Carry(icc))}}
    BY <1>4 DEF AluValues
  <2>2. SubW(a, b) \in Word /\ SubW(SubW(a, b), Carry(icc)) \in Word
    BY SubWValue, CarryType
  <2> QED
    BY <2>1, <2>2
<1>5. CASE op = "MULSCC"
  <2>1. AluValues(op, a, b, icc, y) = {0}
    BY <1>5 DEF AluValues
  <2>2. 0 \in Word
    BY HalfRangeAssumption DEF Word, Modulus
  <2> QED
    BY <2>1, <2>2
<1>6. CASE op \in UmulOps \cup SmulOps
  <2>1. AluValues(op, a, b, icc, y) \in {{LowWord(UProduct(a, b))}, {LowWord(SProduct(a, b))}}
    BY <1>6 DEF AluValues
  <2>2. LowWord(UProduct(a, b)) \in Word /\ LowWord(SProduct(a, b)) \in Word
    BY ProductType, LowWordType
  <2> QED
    BY <2>1, <2>2
<1>7. CASE op \in DivOps
  <2>1. AluValues(op, a, b, icc, y) \in
          {{LowWord(UQuotient(y, a, b))}, {LowWord(SQuotient(y, a, b))}, Word}
    BY <1>7 DEF AluValues, DivOps
  <2>2. LowWord(UQuotient(y, a, b)) \in Word /\ LowWord(SQuotient(y, a, b)) \in Word
    BY <1>7, QuotientType, LowWordType
  <2> QED
    BY <2>1, <2>2
<1> QED
  BY <1>1, <1>2, <1>3, <1>4, <1>5, <1>6, <1>7 DEF AluOps, DivOps

LEMMA AluYType ==
  ASSUME NEW op, NEW a \in Word, NEW b \in Word, NEW y \in Word
  PROVE  AluY(op, a, b, y) \in Word
<1>1. HighWord(UProduct(a, b)) \in Word /\ HighWord(SProduct(a, b)) \in Word
  BY ProductType, HighWordType
<1> QED
  BY <1>1 DEF AluY

LEMMA AluIccType ==
  ASSUME NEW op, NEW a, NEW b, NEW d, NEW icc \in IccType, NEW y
  PROVE  AluIcc(op, a, b, d, icc, y) \in IccType
<1>1. LogicIcc(d) \in IccType
  BY DEF LogicIcc, IccType, Negative
<1>2. \A v \in BOOLEAN : [LogicIcc(d) EXCEPT !.v = v] \in IccType
  BY <1>1 DEF IccType
<1>3. [LogicIcc(d) EXCEPT !.v = SQuotient(y, a, b) \notin Word] \in IccType
  BY <1>2
<1> QED
  BY <1>1, <1>3, IccTyped DEF AluIcc

(***************************************************************************)
(* The outcome of every opcode that is not a division by zero is a word    *)
(* for the destination, a word for y and icc bits.                         *)
(***************************************************************************)
LEMMA AluOutcomesType ==
  ASSUME NEW op \in AluOps, NEW a \in Word, NEW b \in Word,
         NEW icc \in IccType, NEW y \in Word, op \in DivOps => b # 0,
         NEW r \in AluOutcomes(op, a, b, icc, y)
  PROVE  r.value \in Word /\ r.y \in Word /\ r.icc \in IccType
<1>1. PICK v \in AluValues(op, a, b, icc, y) :
        r = [value |-> v, y |-> AluY(op, a, b, y), icc |-> AluIcc(op, a, b, v, icc, y)]
  BY DEF AluOutcomes
<1>2. v \in Word
  BY AluValuesType
<1> QED
  BY <1>1, <1>2, AluYType, AluIccType
=============================================================================
