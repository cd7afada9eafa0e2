---------------------------- MODULE AddressProofs ----------------------------
(***************************************************************************)
(* Proofs about ClientRow and RouteOption, for addresses of any width from *)
(* four bits, 32 among them, and octets of any width that divides it.      *)
(*                                                                         *)
(* The code computes with masks and shifts; what it should do is said with *)
(* blocks and octets.  Both meet in division by powers of two.  Induction  *)
(* goes through a least counterexample (LeastNat of ParsingProofs).        *)
(***************************************************************************)
EXTENDS ParsingProofs, ClientRow, RouteOption, FiniteSets, FiniteSetTheorems

(***************************************************************************)
(* Powers of two.  The prover knows them for numbers it sees and no others; *)
(* that they double is the size of the set of all subsets, of which one    *)
(* more element gives one more for each.                                   *)
(***************************************************************************)
LEMMA Doubling ==
  ASSUME NEW n \in Nat
  PROVE  2^(n + 1) = 2^n + 2^n /\ 2^n \in Nat
  <1> DEFINE S == 1..n
             T == 1 .. n + 1
             A == SUBSET S
             C == {X \cup {n + 1} : X \in A}
  <1>1. IsFiniteSet(S) /\ Cardinality(S) = n /\ IsFiniteSet(T) /\ Cardinality(T) = n + 1
    BY FS_Interval
  <1>2. IsFiniteSet(A) /\ Cardinality(A) = 2^n /\ Cardinality(SUBSET T) = 2^(n + 1)
    BY <1>1, FS_SUBSET
  <1>3. T = S \cup {n + 1} /\ n + 1 \notin S
    OBVIOUS
  <1> HIDE DEF S, T
  <1>4. SUBSET T = A \cup C /\ A \cap C = {}
    <2>1. ASSUME NEW X \in SUBSET T PROVE X \in A \cup C
      <3>1. CASE n + 1 \in X
        <4>1. X \ {n + 1} \in A /\ X = (X \ {n + 1}) \cup {n + 1}
          BY <1>3, <3>1
        <4> QED  BY <4>1
      <3>2. CASE n + 1 \notin X
        BY <1>3, <3>2
      <3> QED  BY <3>1, <3>2
    <2>2. ASSUME NEW X \in A \cup C PROVE X \in SUBSET T
      BY <1>3
    <2>3. \A X \in A : n + 1 \notin X
      BY <1>3
    <2>4. \A X \in C : n + 1 \in X
      OBVIOUS
    <2>5. SUBSET T \subseteq A \cup C /\ A \cup C \subseteq SUBSET T
      BY <2>1, <2>2
    <2> HIDE DEF A, C
    <2> QED  BY <2>3, <2>4, <2>5
  <1> DEFINE f == [X \in A |-> X \cup {n + 1}]
  <1>5. f \in Bijection(A, C)
    <2>1. f \in [A -> C] /\ \A Y \in C : \E X \in A : f[X] = Y
      OBVIOUS
    <2>2. ASSUME NEW X \in A, NEW Y \in A, f[X] = f[Y] PROVE X = Y
      <3>1. n + 1 \notin X /\ n + 1 \notin Y /\ X \cup {n + 1} = Y \cup {n + 1}
        BY <1>3, <2>2
      <3> QED  BY <3>1
    <2> QED  BY <2>1, <2>2 DEF Bijection, Injection, Surjection, IsInjective
  <1> HIDE DEF f
  <1>6. IsFiniteSet(C) /\ Cardinality(C) = Cardinality(A)
    BY <1>2, <1>5, FS_Bijection DEF ExistsBijection
  <1>7. Cardinality(A \cup C) = Cardinality(A) + Cardinality(C) /\ Cardinality(A) \in Nat
    <2>1. Cardinality(A \cap C) = 0
      BY <1>4, FS_EmptySet
    <2> HIDE DEF A, C
    <2>2. Cardinality(A \cup C) = Cardinality(A) + Cardinality(C) - Cardinality(A \cap C)
      BY <1>2, <1>6, FS_Union
    <2>3. Cardinality(A) \in Nat /\ Cardinality(C) \in Nat
      BY <1>2, <1>6, FS_CardinalityType
    <2> QED  BY <2>1, <2>2, <2>3
  <1> QED  BY <1>2, <1>4, <1>6, <1>7

LEMMA PowerPositive ==
  ASSUME NEW n \in Nat
  PROVE  2^n \in Nat /\ 2^n > 0
  <1> DEFINE B == {m \in Nat : ~(2^m > 0)}
  <1>0. B \in SUBSET Nat
    OBVIOUS
  <1>1. SUFFICES ASSUME B # {} PROVE FALSE
    BY Doubling DEF B
  <1> HIDE DEF B
  <1>2. PICK m \in B : \A k \in B : m <= k
    BY <1>0, <1>1, LeastNat
  <1>3. m \in Nat /\ ~(2^m > 0)
    BY <1>2 DEF B
  <1>4. 2^0 = 1
    OBVIOUS
  <1>5. m # 0
    <2> SUFFICES ASSUME m = 0 PROVE FALSE
      OBVIOUS
    <2>1. 2^m = 1
      BY <1>4, Zenon
    <2> QED  BY <1>3, <2>1
  <1>6. m - 1 \in Nat /\ m - 1 \notin B /\ (m - 1) + 1 = m
    BY <1>0, <1>2, <1>3, <1>5
  <1>7. 2^(m - 1) > 0
    BY <1>6 DEF B
  <1>8. 2^m = 2^(m - 1) + 2^(m - 1) /\ 2^(m - 1) \in Nat
    BY <1>6, Doubling
  <1> QED  BY <1>3, <1>7, <1>8

LEMMA PowerSum ==
  ASSUME NEW a \in Nat, NEW b \in Nat
  PROVE  2^(a + b) = 2^a * 2^b
  <1> DEFINE B == {m \in Nat : 2^(a + m) # 2^a * 2^m}
  <1>0. B \in SUBSET Nat
    OBVIOUS
  <1>1. SUFFICES ASSUME B # {} PROVE FALSE
    BY DEF B
  <1> HIDE DEF B
  <1>2. PICK m \in B : \A k \in B : m <= k
    BY <1>0, <1>1, LeastNat
  <1>3. m \in Nat /\ 2^(a + m) # 2^a * 2^m
    BY <1>2 DEF B
  <1>4. 2^0 = 1 /\ a + 0 = a /\ 2^a \in Nat
    BY PowerPositive
  <1>5. m # 0
    <2> SUFFICES ASSUME m = 0 PROVE FALSE
      OBVIOUS
    <2>1. 2^(a + m) = 2^a /\ 2^m = 1
      BY <1>4, Zenon
    <2>2. 2^a * 2^m = 2^a
      BY <1>4, <2>1
    <2> QED  BY <1>3, <2>1, <2>2
  <1> DEFINE k == m - 1
  <1>6. k \in Nat /\ k \notin B /\ k + 1 = m /\ a + k \in Nat /\ (a + k) + 1 = a + m
    BY <1>0, <1>2, <1>3, <1>5
  <1> HIDE DEF k
  <1>7. 2^(a + k) = 2^a * 2^k
    BY <1>6 DEF B
  <1>8. 2^m = 2^k + 2^k /\ 2^(a + m) = 2^(a + k) + 2^(a + k)
    BY <1>6, Doubling
  <1>9. 2^a \in Nat /\ 2^k \in Nat
    BY <1>6, PowerPositive
  <1>10. 2^a * (2^k + 2^k) = 2^a * 2^k + 2^a * 2^k
    <2> DEFINE p == 2^a
               q == 2^k
    <2>1. p \in Nat /\ q \in Nat
      BY <1>9
    <2> HIDE DEF p, q
    <2>2. p * (q + q) = p * q + p * q
      BY <2>1
    <2> QED  BY <2>2 DEF p, q
  <1> QED  BY <1>3, <1>7, <1>8, <1>10

LEMMA DivisionIs ==
  ASSUME NEW m \in Nat, m > 0, NEW q \in Nat, NEW r \in 0 .. m - 1
  PROVE  (m * q + r) \div m = q /\ (m * q + r) % m = r
  OBVIOUS

LEMMA Division ==
  ASSUME NEW x \in Nat, NEW m \in Nat, m > 0
  PROVE  /\ x \div m \in Nat /\ x % m \in 0 .. m - 1
         /\ x = m * (x \div m) + (x % m)
  OBVIOUS

LEMMA PowerGrows ==
  ASSUME NEW i \in Nat, NEW k \in Nat, k <= i
  PROVE  2^k <= 2^i
  <1>1. i - k \in Nat /\ k + (i - k) = i
    OBVIOUS
  <1>2. 2^i = 2^k * 2^(i - k) /\ 2^(i - k) > 0 /\ 2^(i - k) \in Nat /\ 2^k \in Nat
    BY <1>1, PowerSum, PowerPositive
  <1> DEFINE a == 2^k
             b == 2^(i - k)
  <1>3. a \in Nat /\ b \in Nat /\ b > 0
    BY <1>2
  <1> HIDE DEF a, b
  <1>4. a <= a * b
    BY <1>3
  <1>5. 2^i = a * b
    BY <1>2 DEF a, b
  <1>6. a <= 2^i
    BY <1>4, <1>5
  <1> QED  BY <1>6 DEF a

\* Bit n, of a word that is split behind it.
LEMMA BitIs ==
  ASSUME NEW n \in Nat, NEW q \in Nat, NEW r \in 0 .. 2^n - 1
  PROVE  Bit(2^n * q + r, n) = q % 2
  <1> DEFINE m == 2^n
  <1>1. m \in Nat /\ m > 0 /\ r \in 0 .. m - 1
    BY PowerPositive
  <1> HIDE DEF m
  <1>2. (m * q + r) \div m = q
    BY <1>1, DivisionIs
  <1> QED  BY <1>2 DEF Bit, m

LEMMA BitType ==
  ASSUME NEW x \in Nat, NEW n \in Nat
  PROVE  Bit(x, n) \in 0..1
  <1>1. 2^n \in Nat /\ 2^n > 0
    BY PowerPositive
  <1>2. x \div 2^n \in Nat
    BY <1>1, Division
  <1> DEFINE q == x \div 2^n
  <1>3. q \in Nat
    BY <1>2
  <1> HIDE DEF q
  <1>4. q % 2 \in 0..1
    BY <1>3
  <1> QED  BY <1>4 DEF Bit, q

\* The lowest bits, and the next one.
LEMMA NextBit ==
  ASSUME NEW x \in Nat, NEW n \in Nat
  PROVE  x % 2^(n + 1) = (x % 2^n) + 2^n * Bit(x, n)
  <1> DEFINE m == 2^n
             q == x \div m
             r == x % m
             p == q \div 2
             b == q % 2
  <1>1. m \in Nat /\ m > 0 /\ 2^(n + 1) = m + m
    BY PowerPositive, Doubling
  <1>2. b = Bit(x, n)
    BY DEF Bit
  <1> HIDE DEF m
  <1>3. q \in Nat /\ r \in 0 .. m - 1 /\ x = m * q + r
    BY <1>1, Division
  <1> HIDE DEF q, r
  <1>4. p \in Nat /\ b \in 0..1 /\ q = 2 * p + b
    BY <1>3
  <1> HIDE DEF p, b
  <1>5. x = (m + m) * p + (m * b + r)
    <2>1. x = m * (2 * p + b) + r
      BY <1>3, <1>4
    <2> QED  BY <1>1, <1>3, <1>4, <2>1
  <1>6. m * b + r \in 0 .. (m + m) - 1
    <2>1. b = 0 \/ b = 1
      BY <1>4
    <2>2. m * b = 0 \/ m * b = m
      BY <1>1, <2>1
    <2>3. m * b \in Nat
      BY <1>1, <1>4
    <2> QED  BY <1>1, <1>3, <2>2, <2>3
  <1>7. x % (m + m) = m * b + r
    <2> DEFINE d == m + m
               t == m * b + r
    <2>1. d \in Nat /\ d > 0 /\ t \in 0 .. d - 1 /\ x = d * p + t /\ p \in Nat
      BY <1>1, <1>4, <1>5, <1>6
    <2> HIDE DEF d, t
    <2>2. x % d = t
      BY <2>1, DivisionIs
    <2> QED  BY <2>2 DEF d, t
  <1>8. m * b \in Nat /\ r \in Nat
    BY <1>1, <1>3, <1>4
  <1>9. x % (m + m) = r + m * b
    BY <1>7, <1>8
  <1> QED  BY <1>1, <1>2, <1>9 DEF m, r

\* The bits of the masks.
LEMMA LowerMaskBit ==
  ASSUME NEW k \in Nat, NEW i \in Nat
  PROVE  Bit(2^k - 1, i) = IF i < k THEN 1 ELSE 0
  <1>1. CASE i < k
    <2>1. k - i \in Nat /\ k - i - 1 \in Nat /\ i + (k - i) = k /\ (k - i - 1) + 1 = k - i
      BY <1>1
    <2> DEFINE m == 2^i
               p == 2^(k - i - 1)
    <2>2. m \in Nat /\ p \in Nat /\ m > 0 /\ p > 0 /\ 2^(k - i) = p + p /\ 2^k = m * 2^(k - i)
      BY <2>1, PowerPositive, Doubling, PowerSum
    <2>3. 2^k = m * (p + p)
      BY <2>2
    <2> HIDE DEF p, m
    <2>4. 2^k - 1 = m * (2 * (p - 1) + 1) + (m - 1)
      BY <2>2, <2>3
    <2> DEFINE q == 2 * (p - 1) + 1
    <2>5. q \in Nat /\ q % 2 = 1
      BY <2>2
    <2> HIDE DEF q
    <2>6. m - 1 \in 0 .. m - 1
      BY <2>2
    <2>7. Bit(m * q + (m - 1), i) = q % 2
      BY <2>5, <2>6, BitIs DEF m
    <2>8. 2^k - 1 = m * q + (m - 1)
      BY <2>4 DEF q
    <2> QED  BY <1>1, <2>5, <2>7, <2>8
  <1>2. CASE ~(i < k)
    <2>1. 2^k - 1 \in 0 .. 2^i - 1
      <3>1. 2^k <= 2^i
        BY <1>2, PowerGrows
      <3>2. 2^k \in Nat /\ 2^i \in Nat /\ 2^k > 0
        BY PowerPositive
      <3> QED  BY <3>1, <3>2
    <2> DEFINE r == 2^k - 1
    <2>2. r \in 0 .. 2^i - 1 /\ 2^i \in Nat /\ r \in Nat
      BY <2>1, PowerPositive
    <2> HIDE DEF r
    <2>3. Bit(2^i * 0 + r, i) = 0 % 2
      BY <2>2, BitIs
    <2>4. 2^i * 0 + r = r /\ 0 % 2 = 0
      BY <2>2
    <2> QED  BY <1>2, <2>3, <2>4 DEF r
  <1> QED  BY <1>1, <1>2

LEMMA UpperMaskBit ==
  ASSUME NEW w \in Nat, NEW k \in 0..w, NEW i \in 0 .. w - 1
  PROVE  Bit(2^w - 2^k, i) = IF i < k THEN 0 ELSE 1
  <1>1. /\ i \in Nat /\ k \in Nat /\ w - i \in Nat /\ w - i - 1 \in Nat
        /\ i + (w - i) = w /\ (w - i - 1) + 1 = w - i
    OBVIOUS
  <1> DEFINE m == 2^i
             p == 2^(w - i - 1)
  <1>2. m \in Nat /\ p \in Nat /\ m > 0 /\ p > 0 /\ 2^(w - i) = p + p /\ 2^w = m * 2^(w - i)
    <2>1. m \in Nat /\ p \in Nat /\ m > 0 /\ p > 0
      BY <1>1, PowerPositive
    <2>2. 2^(w - i) = p + p
      BY <1>1, Doubling
    <2>3. 2^w = m * 2^(w - i)
      BY <1>1, PowerSum
    <2> QED  BY <2>1, <2>2, <2>3
  <1>3. 2^w = m * (p + p)
    BY <1>2
  <1>4. CASE i < k
    <2>1. k - i \in Nat /\ k - i - 1 \in Nat /\ i + (k - i) = k /\ (k - i - 1) + 1 = k - i
          /\ k - i - 1 <= w - i - 1
      BY <1>1, <1>4
    <2> DEFINE s == 2^(k - i - 1)
    <2>2. s \in Nat /\ s <= p /\ 2^(k - i) = s + s /\ 2^k = m * 2^(k - i)
      BY <1>1, <2>1, PowerPositive, Doubling, PowerSum, PowerGrows
    <2>3. 2^k = m * (s + s)
      BY <2>2
    <2> HIDE DEF p, m, s
    <2> DEFINE q == 2 * (p - s)
    <2>4. 2^w - 2^k = m * q + 0
      BY <1>2, <1>3, <2>2, <2>3
    <2>5. q \in Nat /\ q % 2 = 0
      BY <1>2, <2>2
    <2> HIDE DEF q
    <2>6. 0 \in 0 .. m - 1
      BY <1>2
    <2>7. Bit(m * q + 0, i) = q % 2
      BY <1>1, <2>5, <2>6, BitIs DEF m
    <2> QED  BY <1>4, <2>4, <2>5, <2>7
  <1>5. CASE ~(i < k)
    <2>1. 2^k \in Nat /\ 2^k > 0 /\ 2^k <= m
      BY <1>1, <1>5, PowerPositive, PowerGrows
    <2> DEFINE s == 2^k
    <2>2. s \in Nat /\ s > 0 /\ s <= m
      BY <2>1
    <2> HIDE DEF p, m, s
    <2> DEFINE q == 2 * (p - 1) + 1
               r == m - s
    <2>3. 2^w - s = m * q + r
      BY <1>2, <1>3, <2>2
    <2>4. q \in Nat /\ q % 2 = 1 /\ r \in 0 .. m - 1
      BY <1>2, <2>2
    <2> HIDE DEF q, r
    <2>5. Bit(m * q + r, i) = q % 2
      BY <1>1, <2>4, BitIs DEF m
    <2>6. Bit(2^w - s, i) = 1
      BY <2>3, <2>4, <2>5
    <2> QED  BY <1>5, <2>6 DEF s
  <1> QED  BY <1>4, <1>5

(***************************************************************************)
(* And, bit by bit, is what remains of a division.                         *)
(***************************************************************************)
\* The function And is read from: one step of it, and the whole.
LowStep(x, y, L, n) ==
  IF n = 0 THEN 0 ELSE L[n - 1] + 2^(n - 1) * (Bit(x, n - 1) * Bit(y, n - 1))
IsLow(x, y, L, m) == L = [n \in 0..m |-> LowStep(x, y, L, n)]

LEMMA AndIs ==
  ASSUME NEW x, NEW y
  PROVE  And(x, y) = (CHOOSE L : IsLow(x, y, L, Width))[Width]
  BY DEF And, IsLow, LowStep

LEMMA LowExists ==
  ASSUME NEW x, NEW y, NEW m \in Nat
  PROVE  \E L : IsLow(x, y, L, m)
  <1> DEFINE B == {n \in Nat : ~ \E L : IsLow(x, y, L, n)}
  <1>0. B \in SUBSET Nat
    OBVIOUS
  <1>1. SUFFICES ASSUME B # {} PROVE FALSE
    BY DEF B
  <1> HIDE DEF B
  <1>2. PICK n \in B : \A k \in B : n <= k
    BY <1>0, <1>1, LeastNat
  <1>3. n \in Nat /\ ~ \E L : IsLow(x, y, L, n)
    BY <1>2 DEF B
  <1>4. \E G : \A k \in 0 .. n - 1 : G[k] = LowStep(x, y, G, k)
    <2>1. CASE n = 0
      BY <2>1
    <2>2. CASE n # 0
      <3>0. n - 1 \in Nat /\ n - 1 \notin B
        BY <1>0, <1>2, <1>3, <2>2
      <3>1. PICK G : IsLow(x, y, G, n - 1)
        BY <3>0 DEF B
      <3> QED  BY <3>1 DEF IsLow
    <2> QED  BY <2>1, <2>2
  <1>5. PICK G : \A k \in 0 .. n - 1 : G[k] = LowStep(x, y, G, k)
    BY <1>4
  <1> DEFINE L == [k \in 0..n |-> LowStep(x, y, G, k)]
  <1>6. \A k \in 0 .. n - 1 : L[k] = G[k]
    BY <1>3, <1>5
  <1>7. \A k \in 0..n : LowStep(x, y, L, k) = LowStep(x, y, G, k)
    <2> HIDE DEF L
    <2> TAKE k \in 0..n
    <2>1. k = 0 \/ k - 1 \in 0 .. n - 1
      BY <1>3
    <2> QED  BY <1>6, <2>1 DEF LowStep
  <1>8. IsLow(x, y, L, n)
    BY <1>7 DEF IsLow
  <1> QED  BY <1>3, <1>8

\* What grows with every bit in common is And in the end.
LEMMA AndByBits ==
  ASSUME NEW x, NEW y, NEW V, Width \in Nat, V[0] = 0,
         \A n \in 0 .. Width - 1 : V[n + 1] = V[n] + 2^n * (Bit(x, n) * Bit(y, n))
  PROVE  And(x, y) = V[Width]
  <1>1. PICK L : L = (CHOOSE G : IsLow(x, y, G, Width)) /\ IsLow(x, y, L, Width)
    BY LowExists
  <1>2. \A n \in 0..Width : L[n] = LowStep(x, y, L, n)
    BY <1>1 DEF IsLow
  <1>3. And(x, y) = L[Width]
    BY <1>1, AndIs
  <1> DEFINE B == {n \in 0..Width : L[n] # V[n]}
  <1>4. B \in SUBSET Nat
    OBVIOUS
  <1>5. B = {}
    <2> SUFFICES ASSUME B # {} PROVE FALSE
      OBVIOUS
    <2> HIDE DEF B
    <2>1. PICK n \in B : \A k \in B : n <= k
      BY <1>4, LeastNat
    <2>2. n \in 0..Width /\ L[n] # V[n]
      BY <2>1 DEF B
    <2>3. n # 0
      BY <1>2, <2>2 DEF LowStep
    <2> DEFINE k == n - 1
    <2>4. k \in 0 .. Width - 1 /\ k \in 0..Width /\ k + 1 = n /\ k \notin B
      BY <1>4, <2>1, <2>2, <2>3
    <2>5. L[n] = L[k] + 2^k * (Bit(x, k) * Bit(y, k))
      BY <1>2, <2>2, <2>3 DEF LowStep
    <2> HIDE DEF k
    <2>6. L[k] = V[k]
      BY <2>4 DEF B
    <2>7. V[n] = V[k] + 2^k * (Bit(x, k) * Bit(y, k))
      BY <2>4
    <2> QED  BY <2>2, <2>5, <2>6, <2>7, Zenon
  <1>6. Width \in 0..Width
    OBVIOUS
  <1> QED  BY <1>3, <1>5, <1>6

LEMMA AndUpper ==
  ASSUME NEW x \in Address, NEW k \in 0..Width, Width \in Nat
  PROVE  And(x, 2^Width - 2^k) = x - (x % 2^k)
  <1> DEFINE y == 2^Width - 2^k
             V == [n \in 0..Width |-> IF n <= k THEN 0 ELSE (x % 2^n) - (x % 2^k)]
  <1>1. x \in Nat /\ k \in Nat /\ 2^Width \in Nat /\ x < 2^Width
    BY PowerPositive DEF Address
  <1>2. \A n \in Nat : x % 2^n \in Nat
    BY <1>1, PowerPositive, Division
  <1>3. V[0] = 0
    BY <1>1
  <1>4. ASSUME NEW n \in 0 .. Width - 1
        PROVE  V[n + 1] = V[n] + 2^n * (Bit(x, n) * Bit(y, n))
    <2>0. n \in Nat /\ n \in 0..Width /\ n + 1 \in 0..Width
      OBVIOUS
    <2> DEFINE a == Bit(x, n)
               m == 2^n
               c == x % 2^n
               d == x % 2^k
    <2>1. a \in 0..1 /\ m \in Nat /\ x % 2^(n + 1) = c + m * a /\ c \in Nat /\ d \in Nat
      BY <1>1, <1>2, <2>0, BitType, PowerPositive, NextBit
    <2>2. Bit(y, n) = IF n < k THEN 0 ELSE 1
      BY UpperMaskBit
    <2>3. /\ V[n] = IF n <= k THEN 0 ELSE c - d
          /\ V[n + 1] = IF n + 1 <= k THEN 0 ELSE (x % 2^(n + 1)) - d
      BY <2>0
    <2> HIDE DEF V, y
    <2>4. CASE n < k
      <3>1. V[n] = 0 /\ V[n + 1] = 0
        BY <1>1, <2>0, <2>3, <2>4
      <3> HIDE DEF a, m
      <3>2. m * (a * 0) = 0
        BY <2>1
      <3>3. m * (a * Bit(y, n)) = 0
        BY <2>2, <2>4, <3>2
      <3>4. V[n + 1] = V[n] + m * (a * Bit(y, n))
        BY <3>1, <3>3
      <3> QED  BY <3>4 DEF a, m
    <2>5. CASE ~(n < k)
      <3>1. V[n] = c - d /\ V[n + 1] = (x % 2^(n + 1)) - d
        <4>1. V[n + 1] = (x % 2^(n + 1)) - d
          BY <1>1, <2>0, <2>3, <2>5
        <4>2. V[n] = c - d
          <5>1. CASE n = k
            <6>1. c = d
              BY <5>1
            <6>2. V[n] = 0
              BY <1>1, <2>3, <5>1
            <6> HIDE DEF c, d
            <6> QED  BY <2>1, <6>1, <6>2
          <5>2. CASE n # k
            BY <1>1, <2>0, <2>3, <2>5, <5>2
          <5> QED  BY <5>1, <5>2
        <4> QED  BY <4>1, <4>2
      <3> HIDE DEF a, m, c, d
      <3>2. V[n + 1] = (c + m * a) - d
        BY <2>1, <3>1
      <3>3. m * (a * Bit(y, n)) = m * a /\ m * a \in Nat
        <4>1. Bit(y, n) = 1
          BY <2>2, <2>5
        <4>2. a * 1 = a /\ m * a \in Nat
          BY <2>1
        <4> QED  BY <4>1, <4>2
      <3>4. V[n + 1] = V[n] + m * (a * Bit(y, n))
        BY <2>1, <3>1, <3>2, <3>3
      <3> QED  BY <3>4 DEF a, m
    <2> QED  BY <2>4, <2>5
  <1>5. V[Width] = x - (x % 2^k)
    <2>1. x % 2^Width = x
      BY <1>1
    <2>2. CASE k = Width
      <3>1. V[Width] = 0
        BY <2>2
      <3>2. x - (x % 2^k) = 0
        BY <1>1, <2>1, <2>2
      <3> QED  BY <3>1, <3>2
    <2>3. CASE k # Width
      BY <2>1, <2>3
    <2> QED  BY <2>2, <2>3
  <1> HIDE DEF V
  <1>6. And(x, y) = V[Width]
    BY <1>3, <1>4, AndByBits
  <1> QED  BY <1>5, <1>6

LEMMA AndLower ==
  ASSUME NEW x \in Address, NEW k \in 0..Width, Width \in Nat
  PROVE  And(x, 2^k - 1) = x % 2^k
  <1> DEFINE y == 2^k - 1
             V == [n \in 0..Width |-> IF n <= k THEN x % 2^n ELSE x % 2^k]
  <1>1. x \in Nat /\ k \in Nat
    BY DEF Address
  <1>2. V[0] = 0
    <2>1. V[0] = x % 2^0 /\ 2^0 = 1
      BY <1>1
    <2> HIDE DEF V
    <2>2. x % 1 = 0
      BY <1>1
    <2> QED  BY <2>1, <2>2, Zenon
  <1>3. ASSUME NEW n \in 0 .. Width - 1
        PROVE  V[n + 1] = V[n] + 2^n * (Bit(x, n) * Bit(y, n))
    <2>0. n \in Nat /\ n \in 0..Width /\ n + 1 \in 0..Width
      OBVIOUS
    <2> DEFINE a == Bit(x, n)
               m == 2^n
               c == x % 2^n
               d == x % 2^k
    <2>1. a \in 0..1 /\ m \in Nat /\ x % 2^(n + 1) = c + m * a
      BY <1>1, <2>0, BitType, PowerPositive, NextBit
    <2>2. c \in Nat /\ d \in Nat
      BY <1>1, <2>0, PowerPositive, Division
    <2>3. Bit(y, n) = IF n < k THEN 1 ELSE 0
      BY <1>1, <2>0, LowerMaskBit
    <2>4. /\ V[n] = IF n <= k THEN c ELSE d
          /\ V[n + 1] = IF n + 1 <= k THEN x % 2^(n + 1) ELSE d
      BY <2>0
    <2> HIDE DEF V, y
    <2>5. CASE n < k
      <3>1. V[n] = c /\ V[n + 1] = x % 2^(n + 1)
        BY <1>1, <2>0, <2>4, <2>5
      <3> HIDE DEF a, m, c
      <3>2. a * 1 = a
        BY <2>1
      <3>3. m * (a * Bit(y, n)) = m * a
        BY <2>3, <2>5, <3>2
      <3>4. V[n + 1] = V[n] + m * (a * Bit(y, n))
        BY <2>1, <3>1, <3>3
      <3> QED  BY <3>4 DEF a, m
    <2>6. CASE ~(n < k)
      <3>1. V[n] = d /\ V[n + 1] = d
        <4>1. V[n + 1] = d
          BY <1>1, <2>0, <2>4, <2>6
        <4>2. n = k => c = d
          OBVIOUS
        <4>3. V[n] = d
          BY <1>1, <2>0, <2>4, <2>6, <4>2
        <4> QED  BY <4>1, <4>3
      <3> HIDE DEF a, m, d
      <3>2. Bit(y, n) = 0
        BY <2>3, <2>6
      <3>3. m * (a * 0) = 0
        BY <2>1
      <3>4. V[n + 1] = V[n] + m * (a * Bit(y, n))
        BY <2>2, <3>1, <3>2, <3>3
      <3> QED  BY <3>4 DEF a, m
    <2> QED  BY <2>5, <2>6
  <1>4. V[Width] = x % 2^k
    <2>1. CASE k = Width
      BY <2>1
    <2>2. CASE k # Width
      BY <2>2
    <2> QED  BY <2>1, <2>2
  <1> HIDE DEF V
  <1>5. And(x, y) = V[Width]
    BY <1>2, <1>3, AndByBits
  <1> QED  BY <1>4, <1>5

\* The mask of a prefix, and what it does to an address.
LEMMA MaskIs ==
  ASSUME Width \in Nat, NEW p \in 0..Width
  PROVE  /\ prefix_mask(p) = 2^Width - 2^(Width - p)
         /\ Complement(prefix_mask(p)) = 2^(Width - p) - 1
  <1> DEFINE w == 2^Width
             m == 2^(Width - p)
  <1>1. Width - p \in Nat /\ Width - p <= Width
    OBVIOUS
  <1>2. w \in Nat /\ m \in Nat /\ m > 0 /\ m <= w
    BY <1>1, PowerPositive, PowerGrows
  <1>3. prefix_mask(p) = w - m
    <2>1. CASE p = 0
      <3>1. m = w
        BY <2>1
      <3>2. prefix_mask(p) = 0
        BY <2>1 DEF prefix_mask
      <3> HIDE DEF w, m
      <3> QED  BY <1>2, <3>1, <3>2
    <2>2. CASE p # 0
      <3>1. prefix_mask(p) = ((w - 1) * m) % w
        BY <2>2 DEF prefix_mask, AllOnes
      <3> HIDE DEF w, m
      <3> DEFINE r == w - m
                 q == m - 1
      <3>2. (w - 1) * m = w * q + r
        BY <1>2
      <3>3. r \in 0 .. w - 1 /\ q \in Nat /\ w > 0
        BY <1>2
      <3> HIDE DEF r, q
      <3>4. (w * q + r) % w = r
        BY <1>2, <3>3, DivisionIs
      <3> QED  BY <3>1, <3>2, <3>4 DEF r
    <2> QED  BY <2>1, <2>2
  <1>4. Complement(prefix_mask(p)) = (w - 1) - (w - m)
    BY <1>3 DEF Complement, AllOnes
  <1>5. (w - 1) - (w - m) = m - 1
    <2> HIDE DEF w, m
    <2> QED  BY <1>2
  <1> QED  BY <1>3, <1>4, <1>5

\* What a mask keeps of an address is the beginning of its block, and what its
\* complement adds the rest of it.
LEMMA MaskedIs ==
  ASSUME Width \in Nat, NEW x \in Address, NEW p \in 0..Width
  PROVE  LET m == 2^(Width - p)
             first == x - (x % m)
         IN /\ And(x, prefix_mask(p)) = first
            /\ first \in Address /\ m \in Nat /\ m > 0
            /\ first = m * (x \div m) /\ x \div m \in Nat
            /\ And(x, Complement(prefix_mask(p))) = x % m
            /\ Or(first, Complement(prefix_mask(p))) = first + (m - 1)
  <1> DEFINE k == Width - p
             m == 2^k
             first == x - (x % m)
  <1>1. k \in 0..Width /\ k \in Nat /\ m \in Nat /\ m > 0 /\ x \in Nat
    BY PowerPositive DEF Address
  <1>2. And(x, prefix_mask(p)) = first
    BY <1>1, MaskIs, AndUpper
  <1>3. And(x, Complement(prefix_mask(p))) = x % m
    BY <1>1, MaskIs, AndLower
  <1>4. first = m * (x \div m) /\ x \div m \in Nat /\ first \in 0..x
    <2> HIDE DEF m
    <2>1. x \div m \in Nat /\ x % m \in 0 .. m - 1 /\ x = m * (x \div m) + (x % m)
      BY <1>1, Division
    <2> DEFINE q == x \div m
               r == x % m
    <2>2. q \in Nat /\ r \in Nat /\ x = m * q + r
      BY <2>1
    <2> HIDE DEF q, r
    <2>3. x - r = m * q /\ m * q \in Nat /\ x - r \in 0..x
      BY <1>1, <2>2
    <2> QED  BY <2>2, <2>3 DEF q, r
  <1>5. first \in Address
    BY <1>1, <1>4 DEF Address
  <1>6. first % m = 0
    <2> HIDE DEF m
    <2> DEFINE q == x \div m
    <2>1. first = m * q + 0 /\ q \in Nat
      BY <1>1, <1>4
    <2> HIDE DEF q, first
    <2>2. 0 \in 0 .. m - 1
      BY <1>1
    <2> QED  BY <1>1, <2>1, <2>2, DivisionIs
  <1>7. Or(first, Complement(prefix_mask(p))) = first + (m - 1)
    <2> DEFINE c == m - 1
    <2>1. Complement(prefix_mask(p)) = c
      BY MaskIs
    <2>2. And(first, c) = first % m
      BY <1>1, <1>5, AndLower
    <2>3. c \in Nat /\ first \in Nat
      BY <1>1, <1>4
    <2> HIDE DEF first, c, m
    <2>4. Or(first, c) = (first + c) - 0
      BY <1>6, <2>2 DEF Or
    <2>5. (first + c) - 0 = first + c
      BY <2>3
    <2> QED  BY <2>1, <2>4, <2>5 DEF c
  <1> QED  BY <1>1, <1>2, <1>3, <1>4, <1>5, <1>7

-----------------------------------------------------------------------------
(***************************************************************************)
(* ClientRow.                                                              *)
(***************************************************************************)
LEMMA UnicastIs ==
  ASSUME NEW x \in Address
  PROVE  is_unicast(x) <=> x \in 1 .. Multicast - 1
  <1> DEFINE t == 2^(Width - 4)
  <1>1. Width - 4 \in Nat /\ 4 \in Nat /\ 4 + (Width - 4) = Width
    BY SubnetAssumption
  <1>2. t \in Nat /\ t > 0 /\ 2^Width = 2^4 * t
    BY <1>1, PowerPositive, PowerSum
  <1>3. 2^4 = 16
    OBVIOUS
  <1>4. Multicast = 14 * t /\ ClassE = 15 * t
    BY DEF Multicast, ClassE
  <1> HIDE DEF t
  <1>5. 2^Width = 16 * t
    BY <1>2, <1>3
  <1>6. x \in Nat
    BY <1>1, PowerPositive, SubnetAssumption DEF Address
  <1>7. AllOnes = 16 * t - 1
    BY <1>5 DEF AllOnes
  <1> QED  BY <1>2, <1>4, <1>6, <1>7 DEF is_unicast

\* The place of an address in its block.
LEMMA BlockOf ==
  ASSUME row \in Row, row.prefix \in 1 .. Width - 1, NEW x \in Address
  PROVE  /\ Length \in Nat /\ Length >= 2 /\ (Length = 2 <=> row.prefix = Width - 1)
         /\ x \in Nat /\ Place(x) \in 0 .. Length - 1 /\ x \div Length \in Nat
         /\ x = Length * (x \div Length) + Place(x)
         /\ And(x, prefix_mask(row.prefix)) = Length * (x \div Length)
         /\ Or(And(x, prefix_mask(row.prefix)), Complement(prefix_mask(row.prefix)))
              = Length * (x \div Length) + (Length - 1)
  <1> DEFINE p == row.prefix
             k == Width - p
  <1>1. /\ Width \in Nat /\ p \in 0..Width /\ p \in 1 .. Width - 1 /\ k \in Nat /\ k >= 1
        /\ (k = 1 <=> p = Width - 1)
    BY SubnetAssumption
  <1>2. x \in Nat
    BY <1>1, PowerPositive DEF Address
  <1>3. Length = 2^k
    BY DEF Length
  <1> HIDE DEF k
  <1>4. Length \in Nat /\ Length >= 2 /\ (Length = 2 <=> k = 1)
    <2>1. 2^1 = 2 /\ 2^2 = 4
      OBVIOUS
    <2>2. 2^1 <= 2^k /\ 2^k \in Nat
      BY <1>1, PowerGrows, PowerPositive
    <2>3. ASSUME k # 1 PROVE 2^2 <= 2^k
      <3>1. 2 \in Nat /\ 2 <= k
        BY <1>1, <2>3
      <3> QED  BY <1>1, <3>1, PowerGrows
    <2>4. k = 1 => 2^k = 2
      BY <2>1
    <2> QED  BY <1>3, <2>1, <2>2, <2>3, <2>4
  <1>5. /\ And(x, prefix_mask(p)) = Length * (x \div Length)
        /\ Or(And(x, prefix_mask(p)), Complement(prefix_mask(p)))
             = And(x, prefix_mask(p)) + (Length - 1)
    <2>1. LET m == 2^(Width - p)
              first == x - (x % m)
          IN /\ And(x, prefix_mask(p)) = first
             /\ first = m * (x \div m)
             /\ Or(first, Complement(prefix_mask(p))) = first + (m - 1)
      BY <1>1, MaskedIs
    <2> DEFINE m == 2^(Width - p)
               first == x - (x % m)
    <2>2. /\ And(x, prefix_mask(p)) = first
          /\ first = m * (x \div m)
          /\ Or(first, Complement(prefix_mask(p))) = first + (m - 1)
      BY <2>1
    <2>3. m = Length
      BY <1>3 DEF k
    <2> HIDE DEF first, m
    <2> QED  BY <2>2, <2>3
  <1>6. Place(x) \in 0 .. Length - 1 /\ x \div Length \in Nat
        /\ x = Length * (x \div Length) + Place(x)
    <2> DEFINE m == Length
    <2>1. m \in Nat /\ m > 0
      BY <1>4
    <2> HIDE DEF m
    <2>2. x \div m \in Nat /\ x % m \in 0 .. m - 1 /\ x = m * (x \div m) + (x % m)
      BY <1>2, <2>1, Division
    <2> QED  BY <2>2 DEF m, Place
  <1> QED  BY <1>1, <1>2, <1>4, <1>5, <1>6

LEMMA BlocksDiffer ==
  ASSUME NEW m \in Nat, m > 0, NEW a \in Nat, NEW b \in Nat
  PROVE  m * a = m * b <=> a = b
  <1>1. 0 \in 0 .. m - 1 /\ m * a + 0 = m * a /\ m * b + 0 = m * b
    OBVIOUS
  <1>2. (m * a + 0) \div m = a /\ (m * b + 0) \div m = b
    BY <1>1, DivisionIs
  <1> QED  BY <1>1, <1>2

\* The rules of parse_client are those of the reference.
LEMMA HostsOnly ==
  ASSUME row \in Row, row.prefix \in 1 .. Width - 1
  PROVE  (/\ is_unicast(row.ip) /\ is_unicast(row.gateway)
          /\ And(row.gateway, prefix_mask(row.prefix)) = network
          /\ Usable(row.ip) /\ Usable(row.gateway))
         <=> IsHost(row.ip) /\ IsHost(row.gateway) /\ SameBlock(row.ip, row.gateway)
  <1> DEFINE L == Length
             a == row.ip \div L
             b == row.gateway \div L
  <1>1. row.ip \in Address /\ row.gateway \in Address
    BY DEF Row
  <1>2. /\ L \in Nat /\ L >= 2 /\ (L = 2 <=> row.prefix = Width - 1)
        /\ a \in Nat /\ row.ip = L * a + Place(row.ip) /\ Place(row.ip) \in 0 .. L - 1
        /\ network = L * a /\ broadcast = L * a + (L - 1)
    BY <1>1, BlockOf DEF network, broadcast
  <1>3. /\ b \in Nat /\ row.gateway = L * b + Place(row.gateway)
        /\ Place(row.gateway) \in 0 .. L - 1
        /\ And(row.gateway, prefix_mask(row.prefix)) = L * b
    BY <1>1, BlockOf
  <1>4. SameBlock(row.ip, row.gateway) <=> a = b
    BY DEF SameBlock
  <1>5. \A x : IsHost(x) <=> x \in 1 .. Multicast - 1 /\ (L = 2 \/ Place(x) \in 1 .. L - 2)
    BY DEF IsHost
  <1>6. \A x : Usable(x) <=> (L # 2 => x # network /\ x # broadcast)
    <2>1. L # 2 <=> row.prefix < Width - 1
      BY <1>2, SubnetAssumption
    <2> QED  BY <2>1 DEF Usable
  <1>7. /\ is_unicast(row.ip) <=> row.ip \in 1 .. Multicast - 1
        /\ is_unicast(row.gateway) <=> row.gateway \in 1 .. Multicast - 1
    BY <1>1, UnicastIs
  <1> HIDE DEF L, a, b
  <1>8. L * b = L * a <=> a = b
    BY <1>2, <1>3, BlocksDiffer
  <1>9. ASSUME NEW x, NEW r \in 0 .. L - 1, x = L * a + r
        PROVE  (x # network /\ x # broadcast) <=> r \in 1 .. L - 2
    <2> DEFINE n == L * a
    <2>1. n \in Nat /\ x = n + r /\ network = n /\ broadcast = n + (L - 1)
      BY <1>2, <1>9
    <2> HIDE DEF n
    <2> QED  BY <1>2, <2>1
  <1>10. Usable(row.ip) <=> (L = 2 \/ Place(row.ip) \in 1 .. L - 2)
    BY <1>2, <1>6, <1>9
  <1>11. a = b => (Usable(row.gateway) <=> (L = 2 \/ Place(row.gateway) \in 1 .. L - 2))
    BY <1>2, <1>3, <1>6, <1>9
  <1>12. And(row.gateway, prefix_mask(row.prefix)) = network <=> a = b
    BY <1>2, <1>3, <1>8
  <1> QED  BY <1>4, <1>5, <1>7, <1>10, <1>11, <1>12, Zenon

\* What ClientsAreHosts says of a row.
Reference ==
  /\ row.sound
  /\ row.prefix \in 1 .. Width - 1
  /\ IsHost(row.ip) /\ IsHost(row.gateway)
  /\ SameBlock(row.ip, row.gateway) /\ row.ip # row.gateway

LEMMA ClientIsHost == ASSUME row \in Row PROVE IsClient <=> Reference
  <1>1. CASE row.prefix \in 1 .. Width - 1
    BY <1>1, HostsOnly, Zenon DEF IsClient, Reference
  <1>2. CASE row.prefix \notin 1 .. Width - 1
    BY <1>2, Zenon DEF IsClient, Reference
  <1> QED  BY <1>1, <1>2

\* What was judged follows the rules, and option 1 has the mask they were judged with.
RowInv ==
  /\ row \in Row
  /\ judged \in {"read", "refused", "client"}
  /\ judged = "refused" => ~IsClient
  /\ judged = "client" => IsClient /\ mask = prefix_mask(row.prefix)

\* The mask that reply makes is the one that parse_client and validate use.
LEMMA MaskAgain ==
  ASSUME NEW p \in 1 .. Width - 1
  PROVE  ShiftedMask(p) = prefix_mask(p)
  <1>1. Width - p < Width /\ p # 0
    BY SubnetAssumption
  <1> QED  BY <1>1 DEF ShiftedMask, prefix_mask

LEMMA RowInvInit == RowInit => RowInv
  BY DEF RowInit, RowInv

LEMMA RowInvStep == RowInv /\ [RowNext]_rowVars => RowInv'
  <1> SUFFICES ASSUME RowInv, [RowNext]_rowVars PROVE RowInv'
    OBVIOUS
  <1>1. row' = row
    BY DEF RowNext, Refuse, Keep, rowVars
  <1>2. IsClient' <=> IsClient
    BY <1>1 DEF IsClient, Usable, network, broadcast
  <1>3. CASE Refuse
    BY <1>1, <1>2, <1>3 DEF Refuse, RowInv
  <1>4. CASE Keep
    <2>1. row.prefix \in 1 .. Width - 1
      BY <1>4 DEF Keep, IsClient
    <2> QED  BY <1>1, <1>2, <1>4, <2>1, MaskAgain DEF Keep, RowInv
  <1>5. CASE UNCHANGED rowVars
    BY <1>1, <1>2, <1>5 DEF rowVars, RowInv
  <1> QED  BY <1>3, <1>4, <1>5 DEF RowNext

\* The verdict on a row is IsClient's, and the mask of its option 1 is prefix_mask's.
THEOREM RowInvariant == RowSpec => []RowInv
  BY RowInvInit, RowInvStep, PTL DEF RowSpec

\* parse_client takes a row exactly if its two addresses are different hosts of one
\* block that a client may have, in blocks of any size and words of any width: what it
\* computes with masks is what division says.
THEOREM RowsAreHosts == RowSpec => []ClientsAreHosts
  <1>1. RowInv => ClientsAreHosts
    <2> SUFFICES ASSUME RowInv, judged # "read" PROVE judged = "client" <=> Reference
      BY DEF ClientsAreHosts, Reference
    <2>1. judged = "client" <=> IsClient
      BY DEF RowInv
    <2>2. row \in Row
      BY DEF RowInv
    <2> QED  BY <2>1, <2>2, ClientIsHost
  <1> QED  BY <1>1, RowInvariant, PTL

\* The mask of option 1 cuts out the block of the prefix, of every width; a client finds
\* its gateway there, and neither is the network or the broadcast address of that link.
THEOREM GatewaysOnLink == RowSpec => []GatewayOnLink
  <1>1. RowInv => GatewayOnLink
    <2> SUFFICES ASSUME RowInv, judged = "client" PROVE GatewayOnLink
      BY DEF GatewayOnLink
    <2>1. IsClient /\ mask = prefix_mask(row.prefix) /\ row \in Row
      BY DEF RowInv
    <2>2. row.prefix \in 1 .. Width - 1
      BY <2>1 DEF IsClient
    <2>3. And(row.ip, mask) = network /\ And(row.gateway, mask) = network
      BY <2>1 DEF IsClient, network
    <2>4. Or(And(row.ip, mask), Complement(mask)) = broadcast
      BY <2>1 DEF broadcast, network
    <2>5. ASSUME Complement(mask) # 1 PROVE row.prefix < Width - 1
      <3> SUFFICES ASSUME row.prefix = Width - 1 PROVE FALSE
        BY <2>2, SubnetAssumption
      <3> DEFINE p == Width - 1
      <3>0. p \in 0..Width /\ Width \in Nat /\ mask = prefix_mask(p)
        BY <2>1, SubnetAssumption
      <3> HIDE DEF p
      <3>1. Complement(mask) = 2^(Width - p) - 1
        BY <3>0, MaskIs
      <3>2. Width - p = 1
        BY SubnetAssumption DEF p
      <3>3. Complement(mask) = 2^1 - 1
        BY <3>1, <3>2
      <3>4. 2^1 - 1 = 1
        OBVIOUS
      <3> QED  BY <2>5, <3>3, <3>4
    <2>6. Usable(row.ip) /\ Usable(row.gateway)
      BY <2>1 DEF IsClient
    <2>7. ASSUME NEW x \in Address PROVE And(x, mask) = And(row.ip, mask) <=> SameBlock(x, row.ip)
      <3> DEFINE m == 2^(Width - row.prefix)
                 y == row.ip
      <3>1. row.prefix \in 0..Width /\ y \in Address /\ Width \in Nat
        BY <2>1, <2>2, SubnetAssumption DEF Row
      <3>2. /\ And(x, mask) = m * (x \div m) /\ x \div m \in Nat
            /\ And(y, mask) = m * (y \div m) /\ y \div m \in Nat
            /\ m \in Nat /\ m > 0
        <4> DEFINE p == row.prefix
        <4>1. p \in 0..Width /\ mask = prefix_mask(p) /\ x \in Address /\ y \in Address
          BY <2>1, <3>1
        <4> HIDE DEF p, y
        <4>2. /\ And(x, prefix_mask(p)) = 2^(Width - p) * (x \div 2^(Width - p))
              /\ x \div 2^(Width - p) \in Nat /\ 2^(Width - p) \in Nat /\ 2^(Width - p) > 0
          BY <3>1, <4>1, MaskedIs
        <4>3. /\ And(y, prefix_mask(p)) = 2^(Width - p) * (y \div 2^(Width - p))
              /\ y \div 2^(Width - p) \in Nat
          BY <3>1, <4>1, MaskedIs
        <4> QED  BY <4>1, <4>2, <4>3 DEF p
      <3>3. SameBlock(x, y) <=> x \div m = y \div m
        BY DEF SameBlock, Length
      <3> DEFINE q == x \div m
                 r == y \div m
      <3>4. q \in Nat /\ r \in Nat
        BY <3>2
      <3> HIDE DEF m, q, r
      <3>5. ASSUME m * q = m * r PROVE q = r
        <4>1. m * q + 0 = m * r + 0 /\ 0 \in 0 .. m - 1 /\ m \in Nat /\ m > 0
          BY <3>2, <3>4, <3>5
        <4>2. (m * q + 0) \div m = q /\ (m * r + 0) \div m = r
          BY <3>4, <4>1, DivisionIs
        <4> QED  BY <4>1, <4>2
      <3> QED  BY <3>2, <3>3, <3>5 DEF q, r
    <2> QED  BY <2>3, <2>4, <2>5, <2>6, <2>7 DEF GatewayOnLink, Usable
  <1> QED  BY <1>1, RowInvariant, PTL

-----------------------------------------------------------------------------
(***************************************************************************)
(* The octets of addresses, in RouteOption.                                *)
(***************************************************************************)
\* The function FromOctets is read from.
FromOctetsStep(s, L, i) == IF i = 0 THEN 0 ELSE L[i - 1] * 2^OctetBits + s[i]
IsFromOctets(s, L, m) == L = [i \in 0..m |-> FromOctetsStep(s, L, i)]

LEMMA FromOctetsIs ==
  ASSUME NEW s
  PROVE  FromOctets(s) = (CHOOSE L : IsFromOctets(s, L, Len(s)))[Len(s)]
  BY DEF FromOctets, IsFromOctets, FromOctetsStep

LEMMA FromOctetsExists ==
  ASSUME NEW s, NEW m \in Nat
  PROVE  \E L : IsFromOctets(s, L, m)
  <1> DEFINE B == {n \in Nat : ~ \E L : IsFromOctets(s, L, n)}
  <1>0. B \in SUBSET Nat
    OBVIOUS
  <1>1. SUFFICES ASSUME B # {} PROVE FALSE
    BY DEF B
  <1> HIDE DEF B
  <1>2. PICK n \in B : \A k \in B : n <= k
    BY <1>0, <1>1, LeastNat
  <1>3. n \in Nat /\ ~ \E L : IsFromOctets(s, L, n)
    BY <1>2 DEF B
  <1>4. \E G : \A k \in 0 .. n - 1 : G[k] = FromOctetsStep(s, G, k)
    <2>1. CASE n = 0
      BY <2>1
    <2>2. CASE n # 0
      <3>0. n - 1 \in Nat /\ n - 1 \notin B
        BY <1>0, <1>2, <1>3, <2>2
      <3>1. PICK G : IsFromOctets(s, G, n - 1)
        BY <3>0 DEF B
      <3> QED  BY <3>1 DEF IsFromOctets
    <2> QED  BY <2>1, <2>2
  <1>5. PICK G : \A k \in 0 .. n - 1 : G[k] = FromOctetsStep(s, G, k)
    BY <1>4
  <1> DEFINE L == [k \in 0..n |-> FromOctetsStep(s, G, k)]
  <1>6. \A k \in 0 .. n - 1 : L[k] = G[k]
    BY <1>3, <1>5
  <1>7. \A k \in 0..n : FromOctetsStep(s, L, k) = FromOctetsStep(s, G, k)
    <2> HIDE DEF L
    <2> TAKE k \in 0..n
    <2>1. k = 0 \/ k - 1 \in 0 .. n - 1
      BY <1>3
    <2> QED  BY <1>6, <2>1 DEF FromOctetsStep
  <1>8. IsFromOctets(s, L, n)
    BY <1>7 DEF IsFromOctets
  <1> QED  BY <1>3, <1>8

\* What begins with nothing and takes up one octet after the other is the address.
LEMMA FromOctetsAre ==
  ASSUME NEW s, NEW n \in Nat, Len(s) = n, NEW V, V[0] = 0,
         \A i \in 1..n : V[i] = V[i - 1] * 2^OctetBits + s[i]
  PROVE  FromOctets(s) = V[n]
  <1>1. PICK L : L = (CHOOSE G : IsFromOctets(s, G, n)) /\ IsFromOctets(s, L, n)
    BY FromOctetsExists
  <1>2. \A i \in 0..n : L[i] = FromOctetsStep(s, L, i)
    BY <1>1 DEF IsFromOctets
  <1>3. FromOctets(s) = L[n]
    BY <1>1, FromOctetsIs
  <1> DEFINE B == {i \in 0..n : L[i] # V[i]}
  <1>4. B \in SUBSET Nat
    OBVIOUS
  <1>5. B = {}
    <2> SUFFICES ASSUME B # {} PROVE FALSE
      OBVIOUS
    <2> HIDE DEF B
    <2>1. PICK i \in B : \A j \in B : i <= j
      BY <1>4, LeastNat
    <2>2. i \in 0..n /\ L[i] # V[i]
      BY <2>1 DEF B
    <2>3. i # 0
      BY <1>2, <2>2 DEF FromOctetsStep
    <2>4. i \in 1..n /\ i - 1 \in 0..n /\ i - 1 \notin B
      BY <1>4, <2>1, <2>2, <2>3
    <2>5. L[i] = L[i - 1] * 2^OctetBits + s[i]
      BY <1>2, <2>2, <2>3 DEF FromOctetsStep
    <2>6. L[i - 1] = V[i - 1]
      BY <2>4 DEF B
    <2> QED  BY <2>2, <2>4, <2>5, <2>6, Zenon
  <1>6. n \in 0..n
    OBVIOUS
  <1> QED  BY <1>3, <1>5, <1>6

\* Division by a product, in two steps.
LEMMA DivideTwice ==
  ASSUME NEW x \in Nat, NEW m \in Nat, m > 0, NEW b \in Nat, b > 0
  PROVE  x \div (m * b) = (x \div m) \div b
  <1> DEFINE q == x \div m
             r == x % m
             p == q \div b
             c == q % b
  <1>1. q \in Nat /\ r \in 0 .. m - 1 /\ x = m * q + r
    BY Division
  <1> HIDE DEF q, r
  <1>2. p \in Nat /\ c \in 0 .. b - 1 /\ q = b * p + c
    BY <1>1, Division
  <1> HIDE DEF p, c
  <1>3. x = (m * b) * p + (m * c + r)
    <2>1. x = m * (b * p + c) + r
      BY <1>1, <1>2
    <2>2. m * (b * p + c) = (m * b) * p + m * c
      BY <1>2
    <2>3. (m * b) * p \in Nat /\ m * c \in Nat /\ r \in Nat
      BY <1>1, <1>2
    <2> QED  BY <2>1, <2>2, <2>3
  <1>4. m * b \in Nat /\ m * b > 0
    OBVIOUS
  <1>5. m * c + r \in 0 .. m * b - 1
    <2>1. m * c <= m * (b - 1)
      BY <1>2
    <2>2. m * (b - 1) = m * b - m
      OBVIOUS
    <2>3. m * c \in Nat
      BY <1>2
    <2> QED  BY <1>1, <1>4, <2>1, <2>2, <2>3
  <1> DEFINE d == m * b
             t == m * c + r
  <1>6. d \in Nat /\ d > 0 /\ t \in 0 .. d - 1 /\ x = d * p + t
    BY <1>3, <1>4, <1>5
  <1> HIDE DEF d, t
  <1>7. x \div d = p
    BY <1>2, <1>6, DivisionIs
  <1> QED  BY <1>7 DEF d, p, q

LEMMA OctetsFit ==
  /\ Width \in Nat /\ OctetBits \in Nat /\ OctetBits > 0
  /\ Octets \in Nat /\ Octets > 0 /\ Width = Octets * OctetBits
  /\ 2^OctetBits \in Nat /\ 2^OctetBits > Width
  /\ \A i \in 0..Octets : i * OctetBits \in 0..Width /\ Width - i * OctetBits \in Nat
  <1>1. Width \in Nat /\ Width >= 4 /\ OctetBits \in 1..Width /\ Width % OctetBits = 0
        /\ 2^OctetBits > Width
    BY SubnetAssumption, RouteOptionAssumption
  <1>2. OctetBits \in Nat /\ OctetBits > 0 /\ 2^OctetBits \in Nat
    BY <1>1, PowerPositive
  <1>3. Octets \in Nat /\ Width = OctetBits * Octets
    BY <1>1, <1>2, Division DEF Octets
  <1>4. Octets > 0
    BY <1>1, <1>2, <1>3
  <1>5. ASSUME NEW i \in 0..Octets PROVE i * OctetBits \in 0..Width /\ Width - i * OctetBits \in Nat
    <2> HIDE DEF Octets
    <2>1. i * OctetBits \in Nat /\ i * OctetBits <= Octets * OctetBits
      BY <1>2, <1>3
    <2> QED  BY <1>1, <1>2, <1>3, <2>1
  <1>6. Width = Octets * OctetBits
    BY <1>2, <1>3
  <1> QED  BY <1>1, <1>2, <1>3, <1>4, <1>5, <1>6

\* The octets of an address up to the i-th, as a number.
Upper(ip, i) == ip \div 2^(Width - i * OctetBits)

LEMMA NextOctet ==
  ASSUME NEW ip \in Address, NEW i \in 1..Octets
  PROVE  /\ octets(ip)[i] \in RouteOctet
         /\ Upper(ip, i - 1) \in Nat
         /\ Upper(ip, i) = Upper(ip, i - 1) * 2^OctetBits + octets(ip)[i]
  <1> DEFINE k == Width - i * OctetBits
             b == 2^OctetBits
             m == 2^k
             q == ip \div m
  <1>1. /\ i \in Nat /\ k \in Nat /\ OctetBits \in Nat
        /\ Width - (i - 1) * OctetBits = k + OctetBits
    <2>1. i \in 0..Octets /\ i \in Nat /\ OctetBits \in Nat /\ Width \in Nat
      BY OctetsFit
    <2>2. k \in Nat
      BY <2>1, OctetsFit
    <2>3. (i - 1) * OctetBits = i * OctetBits - OctetBits /\ i * OctetBits \in Nat
      BY <2>1
    <2> QED  BY <2>1, <2>2, <2>3
  <1>2. ip \in Nat /\ b \in Nat /\ b > 0 /\ m \in Nat /\ m > 0
    BY <1>1, PowerPositive, OctetsFit DEF Address
  <1>3. octets(ip)[i] = q % b
    BY DEF octets
  <1>4. Upper(ip, i) = q
    BY DEF Upper
  <1>5. Upper(ip, i - 1) = q \div b
    <2>1. 2^(k + OctetBits) = m * b
      BY <1>1, PowerSum
    <2>2. Upper(ip, i - 1) = ip \div 2^(k + OctetBits)
      BY <1>1 DEF Upper
    <2> HIDE DEF k, m, b
    <2>3. ip \div (m * b) = (ip \div m) \div b
      BY <1>2, DivideTwice
    <2> QED  BY <2>1, <2>2, <2>3
  <1> HIDE DEF m, b
  <1>6. q \in Nat
    BY <1>2, Division
  <1> HIDE DEF q
  <1>7. q \div b \in Nat /\ q % b \in 0 .. b - 1 /\ q = b * (q \div b) + (q % b)
    BY <1>2, <1>6, Division
  <1> DEFINE p == q \div b
             c == q % b
  <1>8. p \in Nat /\ c \in 0 .. b - 1 /\ q = b * p + c
    BY <1>7
  <1> HIDE DEF p, c
  <1>9. q = p * b + c
    BY <1>2, <1>8
  <1>10. octets(ip)[i] \in RouteOctet
    BY <1>3, <1>8 DEF c, b, RouteOctet, MaxChunk
  <1> QED  BY <1>3, <1>4, <1>5, <1>8, <1>9, <1>10 DEF p, c, b

LEMMA OctetsType ==
  ASSUME NEW ip \in Address
  PROVE  octets(ip) \in Seq(RouteOctet) /\ Len(octets(ip)) = Octets
  <1>1. octets(ip) \in [1..Octets -> RouteOctet]
    <2>1. \A i \in 1..Octets : octets(ip)[i] \in RouteOctet
      BY NextOctet
    <2> QED  BY <2>1 DEF octets
  <1> QED  BY <1>1, OctetsFit

\* The octets of an address are read as the address.
LEMMA OctetsReadBack ==
  ASSUME NEW ip \in Address
  PROVE  FromOctets(octets(ip)) = ip
  <1> DEFINE V == [i \in 0..Octets |-> Upper(ip, i)]
             s == octets(ip)
  <1>1. ip \in Nat /\ ip < 2^Width /\ 2^Width \in Nat
    BY OctetsFit, PowerPositive DEF Address
  <1>2. V[0] = 0
    <2>1. V[0] = Upper(ip, 0)
      BY OctetsFit
    <2>2. Width - 0 * OctetBits = Width
      BY OctetsFit
    <2>3. Upper(ip, 0) = ip \div 2^Width
      BY <2>2 DEF Upper
    <2> DEFINE w == 2^Width
    <2>4. w \in Nat /\ ip < w
      BY <1>1
    <2> HIDE DEF w
    <2>5. ip \div w = 0
      BY <1>1, <2>4
    <2> QED  BY <2>1, <2>3, <2>5 DEF w
  <1>3. V[Octets] = ip
    <2>1. V[Octets] = Upper(ip, Octets)
      BY OctetsFit
    <2>2. Width - Octets * OctetBits = 0
      BY OctetsFit
    <2>3. Upper(ip, Octets) = ip \div 2^0
      BY <2>2, Zenon DEF Upper
    <2>5. 2^0 = 1
      OBVIOUS
    <2>4. ip \div 1 = ip
      BY <1>1
    <2> QED  BY <2>1, <2>3, <2>4, <2>5, Zenon
  <1>4. \A i \in 1..Octets : V[i] = V[i - 1] * 2^OctetBits + s[i]
    <2> TAKE i \in 1..Octets
    <2>1. i \in 0..Octets /\ i - 1 \in 0..Octets
      BY OctetsFit
    <2>2. V[i] = Upper(ip, i) /\ V[i - 1] = Upper(ip, i - 1)
      BY <2>1
    <2>3. Upper(ip, i) = Upper(ip, i - 1) * 2^OctetBits + octets(ip)[i]
      BY NextOctet
    <2> QED  BY <2>2, <2>3
  <1>5. Octets \in Nat /\ Len(s) = Octets
    BY OctetsFit, OctetsType
  <1> HIDE DEF V, s
  <1>6. FromOctets(s) = V[Octets]
    BY <1>2, <1>4, <1>5, FromOctetsAre
  <1> QED  BY <1>3, <1>6 DEF s

LEMMA SignificantIs ==
  ASSUME NEW p \in 0..Width
  PROVE  /\ Significant(p) \in 0..Octets
         /\ p <= Significant(p) * OctetBits
  <1> DEFINE O == OctetBits
             n == Octets
             x == p + (O - 1)
             q == x \div O
             r == x % O
  <1>1. O \in Nat /\ O > 0 /\ n \in Nat /\ p \in Nat /\ p <= n * O /\ x \in Nat
    BY OctetsFit
  <1>2. Significant(p) = q
    BY <1>1 DEF Significant
  <1> HIDE DEF O, n, x
  <1>3. q \in Nat /\ r \in 0 .. O - 1 /\ x = O * q + r
    <2>1. x \div O \in Nat /\ x % O \in 0 .. O - 1 /\ x = O * (x \div O) + (x % O)
      BY <1>1, Division
    <2> QED  BY <2>1
  <1> HIDE DEF q, r
  <1>4. p <= q * O
    <2>1. p + (O - 1) = O * q + r
      BY <1>3 DEF x
    <2>2. O * q = q * O /\ O * q \in Nat
      BY <1>1, <1>3
    <2> QED  BY <1>1, <1>3, <2>1, <2>2
  <1>5. q <= n
    <2> SUFFICES ASSUME q >= n + 1 PROVE FALSE
      BY <1>1, <1>3
    <2>1. O * q >= O * (n + 1)
      BY <1>1, <1>3
    <2>2. O * (n + 1) = n * O + O
      BY <1>1
    <2>3. p + (O - 1) = O * q + r
      BY <1>3 DEF x
    <2>4. O * q \in Nat /\ n * O \in Nat
      BY <1>1, <1>3
    <2> QED  BY <1>1, <1>3, <2>1, <2>2, <2>3, <2>4
  <1> QED  BY <1>1, <1>2, <1>3, <1>4, <1>5 DEF n, O

\* An octet behind the prefix of a network is zero.
LEMMA HostOctetIsZero ==
  ASSUME NEW ip \in Address, NEW p \in 0..Width, ip % 2^(Width - p) = 0,
         NEW i \in 1..Octets, i > Significant(p)
  PROVE  octets(ip)[i] = 0
  <1> DEFINE k == Width - i * OctetBits
             b == 2^OctetBits
             e == (i - 1) * OctetBits - p
             m == 2^k
             h == 2^e
             q == ip \div 2^(Width - p)
  <1>1. /\ i \in Nat /\ k \in Nat /\ OctetBits \in Nat /\ e \in Nat
        /\ Width - p = k + (OctetBits + e)
    <2>1. i \in 0..Octets /\ i \in Nat /\ OctetBits \in Nat /\ Width \in Nat /\ p \in Nat
      BY OctetsFit
    <2>2. k \in Nat
      BY <2>1, OctetsFit
    <2>3. (i - 1) * OctetBits = i * OctetBits - OctetBits /\ i * OctetBits \in Nat
      BY <2>1
    <2>4. Significant(p) \in Nat /\ p <= Significant(p) * OctetBits /\ Significant(p) <= i - 1
      BY <2>1, SignificantIs, OctetsFit
    <2>5. Significant(p) * OctetBits <= (i - 1) * OctetBits
      BY <2>1, <2>4
    <2>6. Significant(p) * OctetBits \in Nat
      BY <2>1, <2>4
    <2>7. e \in Nat
      BY <2>1, <2>3, <2>4, <2>5, <2>6
    <2> QED  BY <2>1, <2>2, <2>3, <2>7
  <1>2. ip \in Nat /\ b \in Nat /\ b > 0 /\ m \in Nat /\ m > 0 /\ h \in Nat /\ h > 0
    BY <1>1, PowerPositive, OctetsFit DEF Address
  <1>3. 2^(Width - p) = m * (b * h)
    <2>1. OctetBits + e \in Nat
      BY <1>1
    <2>2. 2^(k + (OctetBits + e)) = 2^k * 2^(OctetBits + e) /\ 2^(OctetBits + e) = 2^OctetBits * 2^e
      BY <1>1, <2>1, PowerSum
    <2>3. 2^(Width - p) = 2^(k + (OctetBits + e))
      BY <1>1
    <2> QED  BY <2>2, <2>3
  <1> HIDE DEF m, b, h, e, k
  <1>4. q \in Nat /\ ip = m * (b * h * q)
    <2> DEFINE d == 2^(Width - p)
    <2>1. d = m * (b * h) /\ d \in Nat /\ d > 0
      <3>1. m * (b * h) \in Nat /\ m * (b * h) > 0
        BY <1>2
      <3> QED  BY <1>3, <3>1
    <2>2. ip % d = 0
      OBVIOUS
    <2> HIDE DEF d
    <2>3. ip \div d \in Nat /\ ip = d * (ip \div d) + (ip % d)
      BY <1>2, <2>1, Division
    <2> DEFINE g == ip \div d
    <2>4. g \in Nat /\ ip = d * g + 0
      BY <2>2, <2>3
    <2>5. q = g
      BY DEF d
    <2> HIDE DEF g
    <2>6. ip = (m * (b * h)) * g
      BY <2>1, <2>4
    <2>7. (m * (b * h)) * g = m * (b * h * g)
      BY <1>2, <2>4
    <2> QED  BY <2>4, <2>5, <2>6, <2>7
  <1> HIDE DEF q
  <1>5. octets(ip)[i] = (ip \div m) % b
    BY DEF octets, m, b, k
  <1> DEFINE t == b * h * q
  <1>6. t \in Nat /\ t = b * (h * q) + 0 /\ h * q \in Nat
    BY <1>2, <1>4
  <1>7. ip = m * t + 0
    BY <1>2, <1>4, <1>6
  <1> HIDE DEF t
  <1>8. 0 \in 0 .. m - 1 /\ 0 \in 0 .. b - 1
    BY <1>2
  <1>9. ip \div m = t
    BY <1>2, <1>6, <1>7, <1>8, DivisionIs
  <1> DEFINE u == h * q
  <1>10. u \in Nat /\ t = b * u + 0
    BY <1>6
  <1> HIDE DEF u
  <1>11. t % b = 0
    BY <1>2, <1>8, <1>10, DivisionIs
  <1> QED  BY <1>5, <1>9, <1>11

\* The octets that a route leaves out are the zeros that the reader puts there.
LEMMA NetworkOctets ==
  ASSUME NEW r \in Route, parse_route(r)
  PROVE  LET S == Significant(r.prefix)
             t == SubSeq(octets(r.network), 1, S)
         IN /\ S \in 0..Octets /\ t \in Seq(RouteOctet) /\ Len(t) = S
            /\ t \o [i \in 1 .. Octets - S |-> 0] = octets(r.network)
  <1> DEFINE ip == r.network
             p == r.prefix
             S == Significant(p)
             s == octets(ip)
             t == SubSeq(s, 1, S)
             z == [i \in 1 .. Octets - S |-> 0]
  <1>1. ip \in Address /\ p \in 0..Width /\ Width \in Nat /\ Octets \in Nat
    BY OctetsFit DEF Route
  <1>2. ip % 2^(Width - p) = 0
    <2>1. And(ip, Complement(prefix_mask(p))) = 0
      BY DEF parse_route
    <2>2. And(ip, Complement(prefix_mask(p))) = ip % 2^(Width - p)
      BY <1>1, MaskedIs
    <2> QED  BY <2>1, <2>2
  <1>3. S \in 0..Octets
    BY <1>1, SignificantIs
  <1>4. s \in Seq(RouteOctet) /\ Len(s) = Octets
    BY <1>1, OctetsType
  <1>5. \A i \in 1..Octets : i > S => s[i] = 0
    BY <1>1, <1>2, HostOctetIsZero
  <1> HIDE DEF s, S
  <1>6. t \in Seq(RouteOctet) /\ Len(t) = S /\ \A i \in 1..S : t[i] = s[i]
    BY <1>1, <1>3, <1>4
  <1>7. z \in Seq({0}) /\ Len(z) = Octets - S /\ \A i \in 1 .. Octets - S : z[i] = 0
    BY <1>1, <1>3
  <1> HIDE DEF t, z
  <1>8. t \o z = s
    <2>1. Len(t \o z) = Len(s) /\ t \o z \in Seq(RouteOctet \cup {0})
      BY <1>1, <1>3, <1>4, <1>6, <1>7
    <2>2. ASSUME NEW i \in 1..Len(s) PROVE (t \o z)[i] = s[i]
      BY <1>1, <1>3, <1>4, <1>5, <1>6, <1>7
    <2>3. s \in Seq(RouteOctet \cup {0})
      BY <1>4
    <2> QED  BY <2>1, <2>2, <2>3, SeqEqual
  <1> QED  BY <1>3, <1>6, <1>8 DEF S, s, t, z

-----------------------------------------------------------------------------
(***************************************************************************)
(* RouteOption: where a value is cut, and that it is whole when joined.    *)
(***************************************************************************)
LEMMA OneMore ==
  ASSUME NEW G, NEW k \in Nat
  PROVE  Append([i \in 1..k |-> G[i]], G[k + 1]) = [i \in 1 .. k + 1 |-> G[i]]
  <1> DEFINE T == {G[i] : i \in 1 .. k + 1}
             f == [i \in 1..k |-> G[i]]
             h == [i \in 1 .. k + 1 |-> G[i]]
             x == G[k + 1]
  <1>1. f \in Seq(T) /\ h \in Seq(T) /\ x \in T /\ Len(f) = k /\ Len(h) = k + 1
    OBVIOUS
  <1>2. \A i \in 1..k : f[i] = h[i]
    OBVIOUS
  <1>3. h[k + 1] = x
    OBVIOUS
  <1> HIDE DEF f, h, x, T
  <1>4. Append(f, x) \in Seq(T) /\ Len(Append(f, x)) = k + 1
    BY <1>1
  <1>5. ASSUME NEW i \in 1 .. k + 1 PROVE Append(f, x)[i] = h[i]
    <2>1. CASE i = k + 1
      BY <1>1, <1>3, <2>1
    <2>2. CASE i # k + 1
      <3>1. i \in 1..k
        BY <2>2
      <3>2. Append(f, x)[i] = f[i]
        BY <1>1, <3>1
      <3> QED  BY <1>2, <3>1, <3>2
    <2> QED  BY <2>1, <2>2
  <1>6. Append(f, x) = h
    BY <1>1, <1>4, <1>5, SeqEqual
  <1> QED  BY <1>6 DEF f, h, x

\* A list of sequences in its order, split before and behind one of them.
LEMMA FlatSplit ==
  ASSUME NEW S, NEW ss \in Seq(Seq(S)), NEW k \in Nat, k < Len(ss)
  PROVE  LET before == FlattenSeq(SubSeq(ss, 1, k))
             behind == FlattenSeq(SubSeq(ss, k + 2, Len(ss)))
         IN /\ before \in Seq(S) /\ behind \in Seq(S) /\ ss[k + 1] \in Seq(S)
            /\ FlattenSeq(SubSeq(ss, 1, k + 1)) = before \o ss[k + 1]
            /\ FlattenSeq(ss) = (before \o ss[k + 1]) \o behind
  <1> DEFINE Q == Seq(S)
             n == Len(ss)
             a == SubSeq(ss, 1, k)
             b == SubSeq(ss, k + 2, n)
             c == SubSeq(ss, 1, k + 1)
             x == ss[k + 1]
  <1>1. n \in Nat /\ k + 1 \in 1..n /\ ss \in Seq(Q)
    OBVIOUS
  <1> HIDE DEF Q
  <1>2. a \in Seq(Q) /\ b \in Seq(Q) /\ c \in Seq(Q) /\ x \in Q
    BY <1>1
  <1>3. c = Append(a, x)
    <2>1. Append(a, x) \in Seq(Q) /\ Len(Append(a, x)) = k + 1 /\ Len(c) = k + 1
      BY <1>1, <1>2
    <2>2. ASSUME NEW i \in 1 .. k + 1 PROVE c[i] = Append(a, x)[i]
      <3>1. c[i] = ss[i]
        BY <1>1
      <3>2. Append(a, x)[i] = ss[i]
        <4>1. CASE i = k + 1
          BY <1>1, <1>2, <4>1
        <4>2. CASE i # k + 1
          <5>1. i \in 1..k /\ Len(a) = k
            BY <1>1, <4>2
          <5>2. Append(a, x)[i] = a[i] /\ a[i] = ss[i]
            BY <1>1, <1>2, <5>1
          <5> QED  BY <5>2
        <4> QED  BY <4>1, <4>2
      <3> QED  BY <3>1, <3>2
    <2> HIDE DEF a, x, c
    <2> QED  BY <1>2, <2>1, <2>2, SeqEqual
  <1>4. ss = c \o b
    <2>0. /\ Len(c) = k + 1 /\ \A i \in 1 .. k + 1 : c[i] = ss[i]
          /\ Len(b) = n - (k + 1) /\ \A i \in 1 .. n - (k + 1) : b[i] = ss[k + 1 + i]
      BY <1>1
    <2> HIDE DEF b, c, n
    <2>1. c \o b \in Seq(Q) /\ Len(c \o b) = n
      <3>1. c \in Seq(Q) /\ b \in Seq(Q)
        BY <1>2
      <3>2. c \o b \in Seq(Q) /\ Len(c \o b) = Len(c) + Len(b)
        BY <3>1
      <3>3. Len(c) + Len(b) = n
        BY <1>1, <2>0
      <3> QED  BY <3>2, <3>3
    <2>2. ASSUME NEW i \in 1..n PROVE ss[i] = (c \o b)[i]
      <3>1. CASE i <= k + 1
        BY <1>1, <1>2, <2>0, <3>1
      <3>2. CASE ~(i <= k + 1)
        <4>1. i - (k + 1) \in 1 .. n - (k + 1) /\ k + 1 + (i - (k + 1)) = i
          BY <1>1, <3>2
        <4>2. (c \o b)[i] = b[i - (k + 1)]
          <5>1. c \in Seq(Q) /\ b \in Seq(Q) /\ Len(c) = k + 1 /\ Len(b) = n - (k + 1)
            BY <1>2, <2>0
          <5> QED  BY <1>1, <3>2, <5>1
        <4> QED  BY <2>0, <4>1, <4>2
      <3> QED  BY <3>1, <3>2
    <2>3. Len(ss) = n
      BY DEF n
    <2> QED  BY <1>1, <2>1, <2>2, <2>3, SeqEqual
  <1> HIDE DEF a, b, c, x
  <1>5. FlattenSeq(c) = FlattenSeq(a) \o x
    BY <1>2, <1>3, FlatAppend DEF Q
  <1>6. FlattenSeq(ss) = FlattenSeq(c) \o FlattenSeq(b)
    BY <1>2, <1>4, FlatConcat DEF Q
  <1>7. FlattenSeq(a) \in Seq(S) /\ FlattenSeq(b) \in Seq(S) /\ x \in Seq(S)
    BY <1>2, FlatSeq DEF Q
  <1> QED  BY <1>5, <1>6, <1>7 DEF a, b, c, x, n

LEMMA SubSeqJoin ==
  ASSUME NEW S, NEW s \in Seq(S), NEW a \in Nat, NEW b \in Nat, a <= b, b <= Len(s)
  PROVE  /\ SubSeq(s, 1, a) \o SubSeq(s, a + 1, b) = SubSeq(s, 1, b)
         /\ SubSeq(s, a + 1, b) \in Seq(S) /\ Len(SubSeq(s, a + 1, b)) = b - a
  <1>1. 1 \in 1 .. Len(s) + 1 /\ a \in 0 .. Len(s) /\ b \in a .. Len(s)
    OBVIOUS
  <1>2. SubSeq(s, 1, a) \o SubSeq(s, a + 1, b) = SubSeq(s, 1, b)
    BY <1>1, ConcatAdjacentSubSeq
  <1> QED  BY <1>2

LEMMA MaxChunkIs == MaxChunk \in Nat /\ MaxChunk > 0
  BY OctetsFit DEF MaxChunk

\* Where the k-th chunk of n octets ends, and how many chunks there are.
EndOf(n, k) == IF k * MaxChunk <= n THEN k * MaxChunk ELSE n
ChunkCountOf(n) == (n + MaxChunk - 1) \div MaxChunk

LEMMA ChunkEnds ==
  ASSUME NEW n \in Nat
  PROVE  /\ ChunkCountOf(n) \in Nat
         /\ EndOf(n, 0) = 0 /\ EndOf(n, ChunkCountOf(n)) = n
         /\ \A k \in 1 .. ChunkCountOf(n) :
              /\ EndOf(n, k - 1) = (k - 1) * MaxChunk /\ EndOf(n, k - 1) \in Nat
              /\ EndOf(n, k) \in Nat /\ EndOf(n, k) <= n
              /\ EndOf(n, k) - EndOf(n, k - 1) \in 1 .. MaxChunk
  <1> DEFINE c == MaxChunk
             h == ChunkCountOf(n)
             x == n + c - 1
             r == x % c
  <1>1. c \in Nat /\ c > 0 /\ x \in Nat
    BY MaxChunkIs
  <1>2. h \in Nat /\ r \in 0 .. c - 1 /\ x = c * h + r
    <2>1. h = x \div c
      BY DEF ChunkCountOf
    <2> HIDE DEF h, x, c
    <2> QED  BY <1>1, <2>1, Division
  <1>3. n = c * h + r - (c - 1)
    BY <1>1, <1>2
  <1> HIDE DEF c, h, x, r
  <1>4. c * h \in Nat /\ c * h = h * c /\ n <= h * c /\ h * c < n + c
    BY <1>1, <1>2, <1>3
  <1>5. EndOf(n, 0) = 0
    BY <1>1 DEF EndOf, c
  <1>6. EndOf(n, h) = n
    BY <1>4 DEF EndOf, c
  <1>7. ASSUME NEW k \in 1..h
        PROVE  /\ EndOf(n, k - 1) = (k - 1) * MaxChunk /\ EndOf(n, k - 1) \in Nat
               /\ EndOf(n, k) \in Nat /\ EndOf(n, k) <= n
               /\ EndOf(n, k) - EndOf(n, k - 1) \in 1 .. MaxChunk
    <2>1. k \in Nat /\ k - 1 \in Nat /\ k <= h
      BY <1>2
    <2>2. k * c \in Nat /\ (k - 1) * c \in Nat /\ k * c = (k - 1) * c + c
      BY <1>1, <2>1
    <2>3. k * c <= h * c
      <3>1. h - k \in Nat /\ (h - k) * c \in Nat
        BY <1>1, <1>2, <2>1
      <3>2. h * c = k * c + (h - k) * c
        BY <1>1, <1>2, <2>1
      <3> QED  BY <1>4, <2>2, <3>1, <3>2
    <2>4. (k - 1) * c < n
      BY <1>1, <1>4, <2>2, <2>3
    <2>5. EndOf(n, k - 1) = (k - 1) * c
      BY <2>2, <2>4 DEF EndOf, c
    <2>6. EndOf(n, k) = IF k * c <= n THEN k * c ELSE n
      BY DEF EndOf, c
    <2>7. EndOf(n, k) - EndOf(n, k - 1) \in 1..c
      BY <1>1, <2>2, <2>4, <2>5, <2>6
    <2> QED  BY <1>1, <2>2, <2>5, <2>6, <2>7 DEF c
  <1> QED  BY <1>2, <1>5, <1>6, <1>7 DEF h

LEMMA ChunkIs ==
  ASSUME NEW s \in Seq(RouteOctet)
  PROVE  /\ Chunks(s) \in Seq(Seq(RouteOctet)) /\ Len(Chunks(s)) = ChunkCountOf(Len(s))
         /\ \A k \in 1 .. ChunkCountOf(Len(s)) :
              /\ Chunks(s)[k] = SubSeq(s, EndOf(Len(s), k - 1) + 1, EndOf(Len(s), k))
              /\ Len(Chunks(s)[k]) \in 1 .. MaxChunk
  <1> DEFINE n == Len(s)
             h == ChunkCountOf(n)
             Q == Seq(RouteOctet)
             f == Chunks(s)
  <1>1. n \in Nat /\ h \in Nat
    BY ChunkEnds
  <1>2. ASSUME NEW k \in 1..h
        PROVE  /\ f[k] = SubSeq(s, EndOf(n, k - 1) + 1, EndOf(n, k))
               /\ f[k] \in Q /\ Len(f[k]) \in 1 .. MaxChunk
    <2> DEFINE a == EndOf(n, k - 1)
               b == EndOf(n, k)
    <2>1. /\ a = (k - 1) * MaxChunk /\ a \in Nat /\ b \in Nat /\ b <= n
          /\ b - a \in 1 .. MaxChunk
      BY <1>1, ChunkEnds
    <2>2. f[k] = SubSeq(s, a + 1, b)
      <3>1. k \in 1 .. (Len(s) + MaxChunk - 1) \div MaxChunk
        BY DEF ChunkCountOf
      <3>2. f[k] = SubSeq(s, (k - 1) * MaxChunk + 1,
                          IF k * MaxChunk <= Len(s) THEN k * MaxChunk ELSE Len(s))
        BY <3>1, Zenon DEF Chunks
      <3>3. b = IF k * MaxChunk <= Len(s) THEN k * MaxChunk ELSE Len(s)
        BY DEF EndOf
      <3> HIDE DEF f, b
      <3> QED  BY <2>1, <3>2, <3>3
    <2> HIDE DEF a, b, f
    <2>3. a <= b
      BY <2>1, MaxChunkIs
    <2>4. SubSeq(s, a + 1, b) \in Seq(RouteOctet) /\ Len(SubSeq(s, a + 1, b)) = b - a
      BY <2>1, <2>3, SubSeqJoin
    <2> QED  BY <2>1, <2>2, <2>4 DEF a, b
  <1>3. f \in [1..h -> Q]
    <2>1. f = [k \in 1..h |-> f[k]]
      BY DEF Chunks, ChunkCountOf
    <2> HIDE DEF f, Q, h
    <2> QED  BY <1>2, <2>1
  <1> HIDE DEF f, Q, h
  <1>4. f \in Seq(Q) /\ Len(f) = h
    BY <1>1, <1>3
  <1> QED  BY <1>2, <1>4 DEF f, Q, h

LEMMA ChunksJoin ==
  ASSUME NEW s \in Seq(RouteOctet)
  PROVE  FlattenSeq(Chunks(s)) = s
  <1> DEFINE n == Len(s)
             f == Chunks(s)
             h == Len(f)
             FirstJoined(k) == FlattenSeq(SubSeq(f, 1, k)) = SubSeq(s, 1, EndOf(n, k))
             B == {k \in 0..h : ~FirstJoined(k)}
  <1>1. /\ n \in Nat /\ h \in Nat /\ h = ChunkCountOf(n) /\ f \in Seq(Seq(RouteOctet))
        /\ EndOf(n, 0) = 0 /\ EndOf(n, h) = n
        /\ \A k \in 1..h : /\ EndOf(n, k - 1) \in Nat /\ EndOf(n, k) \in Nat
                           /\ EndOf(n, k) <= n /\ EndOf(n, k - 1) <= EndOf(n, k)
                           /\ f[k] = SubSeq(s, EndOf(n, k - 1) + 1, EndOf(n, k))
    <2>1. n \in Nat
      OBVIOUS
    <2>2. h = ChunkCountOf(n) /\ f \in Seq(Seq(RouteOctet))
      BY ChunkIs
    <2>3. \A k \in 1..h : f[k] = SubSeq(s, EndOf(n, k - 1) + 1, EndOf(n, k))
      BY <2>2, ChunkIs
    <2> HIDE DEF n, h, f
    <2>4. /\ ChunkCountOf(n) \in Nat
          /\ EndOf(n, 0) = 0 /\ EndOf(n, ChunkCountOf(n)) = n
          /\ \A k \in 1 .. ChunkCountOf(n) :
               /\ EndOf(n, k - 1) \in Nat /\ EndOf(n, k) \in Nat /\ EndOf(n, k) <= n
               /\ EndOf(n, k) - EndOf(n, k - 1) \in 1 .. MaxChunk
      BY <2>1, ChunkEnds, Zenon
    <2>5. \A k \in 1..h : EndOf(n, k - 1) <= EndOf(n, k)
      BY <2>2, <2>4, MaxChunkIs
    <2> QED  BY <2>1, <2>2, <2>3, <2>4, <2>5
  <1>2. B = {}
    <2>0. B \in SUBSET Nat
      BY <1>1
    <2> SUFFICES ASSUME B # {} PROVE FALSE
      OBVIOUS
    <2> HIDE DEF B
    <2>1. PICK k \in B : \A j \in B : k <= j
      BY <2>0, LeastNat
    <2>2. k \in 0..h /\ ~FirstJoined(k)
      BY <2>1 DEF B
    <2>3. k # 0
      <3>1. SubSeq(f, 1, 0) = <<>> /\ SubSeq(s, 1, 0) = <<>>
        BY SubSeqEmpty
      <3>2. FirstJoined(0)
        BY <1>1, <3>1, FlatEmpty, Zenon
      <3> QED  BY <2>2, <3>2
    <2> DEFINE j == k - 1
    <2>4. j \in Nat /\ j < h /\ j + 1 = k /\ k \in 1..h
      BY <1>1, <2>2, <2>3
    <2>5. FirstJoined(j)
      <3>1. j \notin B
        BY <2>1, <2>4, <2>0
      <3> QED  BY <1>1, <2>4, <3>1 DEF B
    <2> HIDE DEF j, f, h, n
    <2>6. FlattenSeq(SubSeq(f, 1, j + 1)) = FlattenSeq(SubSeq(f, 1, j)) \o f[j + 1]
      BY <1>1, <2>4, FlatSplit DEF h
    <2>7. k - 1 = j
      BY <2>4
    <2>8. SubSeq(s, 1, EndOf(n, j)) \o f[k] = SubSeq(s, 1, EndOf(n, k))
      <3> DEFINE a == EndOf(n, j)
                 b == EndOf(n, k)
      <3>1. a \in Nat /\ b \in Nat /\ a <= b /\ b <= n /\ f[k] = SubSeq(s, a + 1, b)
        BY <1>1, <2>4, <2>7
      <3>2. b <= Len(s)
        BY <3>1 DEF n
      <3> HIDE DEF a, b
      <3>3. SubSeq(s, 1, a) \o SubSeq(s, a + 1, b) = SubSeq(s, 1, b)
        BY <3>1, <3>2, SubSeqJoin
      <3> QED  BY <3>1, <3>3 DEF a, b
    <2> QED  BY <2>2, <2>4, <2>5, <2>6, <2>8
  <1>3. FirstJoined(h)
    BY <1>1, <1>2
  <1>4. SubSeq(f, 1, h) = f /\ SubSeq(s, 1, n) = s
    <2> HIDE DEF f
    <2> QED  BY <1>1
  <1> HIDE DEF h, n, f
  <1>5. FlattenSeq(f) = s
    BY <1>1, <1>3, <1>4
  <1> QED  BY <1>5 DEF f

-----------------------------------------------------------------------------
(***************************************************************************)
(* RouteOption: the reader stays inside the option.                        *)
(***************************************************************************)
\* What is validated, what an option is made of, and where its reader stands.
RouteOptionInv ==
  /\ routes \in Seq({r \in Route : parse_route(r)})
  /\ chunks \in Seq(Seq(RouteOctet)) /\ \A i \in DOMAIN chunks : Len(chunks[i]) \in 1 .. MaxChunk
  /\ value \in Seq(RouteOctet)
  /\ position \in 0 .. Len(value)
  /\ stage \in {"config", "refused", "sent", "dump", "printable", "dumped"}
  /\ stage \in {"config", "sent"} => position = 0 /\ shown = <<>>
  /\ stage = "dumped" => position = Len(value)

LEMMA RouteOptionInvInit == RouteInit => RouteOptionInv
  <1> SUFFICES ASSUME RouteInit PROVE RouteOptionInv
    OBVIOUS
  <1>1. value \in Seq(RouteOctet)
    <2>1. CASE value = <<>>
      BY <2>1
    <2>2. ASSUME NEW n \in 0..MaxForeign, value \in [1..n -> RouteOctet]
          PROVE  value \in Seq(RouteOctet)
      <3>1. n \in Nat
        BY RouteOptionAssumption, OctetsFit
      <3> QED  BY <2>2, <3>1
    <2> QED  BY <2>1, <2>2 DEF RouteInit
  <1>2. Len(value) \in Nat
    BY <1>1
  <1> QED  BY <1>1, <1>2 DEF RouteInit, RouteOptionInv

LEMMA EncodedType ==
  ASSUME NEW r \in Route, parse_route(r), NEW gateway \in Address
  PROVE  /\ Encoded(r, gateway) \in Seq(RouteOctet)
         /\ Len(Encoded(r, gateway)) = 1 + Significant(r.prefix) + Octets
         /\ Significant(r.prefix) \in 0..Octets
  <1> DEFINE S == Significant(r.prefix)
             t == SubSeq(octets(r.network), 1, S)
             g == octets(gateway)
             p == r.prefix
  <1>1. S \in 0..Octets /\ t \in Seq(RouteOctet) /\ Len(t) = S
    BY NetworkOctets
  <1>2. g \in Seq(RouteOctet) /\ Len(g) = Octets
    BY OctetsType
  <1>3. p \in RouteOctet /\ Octets \in Nat
    BY OctetsFit DEF Route, RouteOctet, MaxChunk
  <1>4. Encoded(r, gateway) = (<<p>> \o t) \o g
    BY DEF Encoded
  <1> HIDE DEF p, t, g, S
  <1>5. (<<p>> \o t) \o g \in Seq(RouteOctet) /\ Len((<<p>> \o t) \o g) = 1 + S + Octets
    BY <1>1, <1>2, <1>3
  <1> QED  BY <1>1, <1>4, <1>5 DEF S

\* The routes of the configuration as WriteOption writes them.
AllEncoded(gateway) == [i \in DOMAIN routes |-> Encoded(routes[i], gateway)]

LEMMA AllEncodedType ==
  ASSUME RouteOptionInv, NEW gateway \in Gateway
  PROVE  /\ AllEncoded(gateway) \in Seq(Seq(RouteOctet))
         /\ Len(AllEncoded(gateway)) = Len(routes)
  <1>1. gateway \in Address
    BY RouteOptionAssumption
  <1>2. /\ Len(routes) \in Nat /\ DOMAIN routes = 1..Len(routes)
        /\ \A i \in DOMAIN routes : routes[i] \in Route /\ parse_route(routes[i])
    BY DEF RouteOptionInv
  <1>3. \A i \in 1..Len(routes) : Encoded(routes[i], gateway) \in Seq(RouteOctet)
    BY <1>1, <1>2, EncodedType
  <1> DEFINE Q == Seq(RouteOctet)
             f == [i \in 1..Len(routes) |-> Encoded(routes[i], gateway)]
  <1>4. f \in [1..Len(routes) -> Q] /\ f = AllEncoded(gateway)
    BY <1>2, <1>3 DEF AllEncoded
  <1> HIDE DEF f, Q
  <1>5. f \in Seq(Q) /\ Len(f) = Len(routes)
    BY <1>2, <1>4
  <1> QED  BY <1>4, <1>5 DEF Q

\* What the checks of classless_routes leave ends inside the array and inside the value.
LEMMA ReadsInside ==
  ASSUME RouteOptionInv, position < Len(value)
  PROVE  /\ Prefix \in RouteOctet /\ NetworkLen \in Nat
         /\ Valid => Prefix \in 0..Width /\ NetworkLen \in 0..Octets /\ InArray(NetworkLen)
         /\ Enough => InValue(NetworkLen + Octets)
  <1>1. /\ position + 1 \in 1..Len(value) /\ value \in Seq(RouteOctet)
        /\ position \in Nat /\ Len(value) \in Nat
    BY DEF RouteOptionInv
  <1>2. Prefix \in RouteOctet
    BY <1>1 DEF Prefix
  <1>3. Prefix \in Nat
    BY <1>2, MaxChunkIs DEF RouteOctet
  <1>4. Valid => Prefix \in 0..Width /\ NetworkLen \in 0..Octets /\ InArray(NetworkLen)
    BY <1>3, SignificantIs, OctetsFit DEF NetworkLen, Valid, InArray
  <1>5. NetworkLen \in Nat
    <2> DEFINE O == OctetBits
               x == Prefix + (O - 1)
    <2>1. O \in Nat /\ O > 0 /\ x \in Nat
      BY <1>3, OctetsFit
    <2>2. NetworkLen = x \div O
      BY <1>3, OctetsFit DEF NetworkLen, Significant
    <2> HIDE DEF x, O
    <2> QED  BY <2>1, <2>2, Division
  <1>6. Enough => InValue(NetworkLen + Octets)
    <2> HIDE DEF NetworkLen
    <2> QED  BY <1>1, <1>5, OctetsFit DEF Enough, Left, InValue
  <1> QED  BY <1>2, <1>4, <1>5, <1>6

LEMMA RouteOptionInvStep == RouteOptionInv /\ [RouteNext]_routeVars => RouteOptionInv'
  <1> SUFFICES ASSUME RouteOptionInv, [RouteNext]_routeVars PROVE RouteOptionInv'
    OBVIOUS
  <1> DEFINE V == {r \in Route : parse_route(r)}
  <1>1. ASSUME NEW r \in Route, Validate(r) PROVE RouteOptionInv'
    <2>1. CASE parse_route(r)
      <3>1. r \in V /\ routes \in Seq(V) /\ routes' = Append(routes, r)
        BY <1>1, <2>1 DEF Validate, RouteOptionInv
      <3> HIDE DEF V
      <3>2. routes' \in Seq(V)
        BY <3>1
      <3> QED  BY <1>1, <2>1, <3>2 DEF Validate, RouteOptionInv, V
    <2>2. CASE ~parse_route(r)
      BY <1>1, <2>2 DEF Validate, RouteOptionInv
    <2> QED  BY <2>1, <2>2
  <1>2. ASSUME NEW gateway \in Gateway, WriteOption(gateway) PROVE RouteOptionInv'
    <2> DEFINE s == FlattenSeq(AllEncoded(gateway))
    <2>1. /\ chunks' = Chunks(s) /\ stage' = "sent" /\ position = 0 /\ shown = <<>>
          /\ UNCHANGED <<routes, value, position, shown>>
      BY <1>2 DEF WriteOption, RouteOptionInv, AllEncoded
    <2>2. s \in Seq(RouteOctet)
      BY AllEncodedType, FlatSeq
    <2> HIDE DEF s
    <2>3. /\ Chunks(s) \in Seq(Seq(RouteOctet))
          /\ \A i \in DOMAIN Chunks(s) : Len(Chunks(s)[i]) \in 1 .. MaxChunk
      <3>1. Chunks(s) \in Seq(Seq(RouteOctet)) /\ Len(Chunks(s)) = ChunkCountOf(Len(s))
            /\ \A k \in 1 .. ChunkCountOf(Len(s)) : Len(Chunks(s)[k]) \in 1 .. MaxChunk
        BY <2>2, ChunkIs
      <3> DEFINE f == Chunks(s)
      <3> HIDE DEF f
      <3>2. DOMAIN f = 1 .. Len(f)
        BY <3>1 DEF f
      <3> QED  BY <3>1, <3>2 DEF f
    <2> QED  BY <2>1, <2>3 DEF RouteOptionInv
  <1>3. CASE JoinChunks
    <2>1. value' \in Seq(RouteOctet)
      BY <1>3, FlatSeq DEF JoinChunks, RouteOptionInv
    <2>2. Len(value') \in Nat
      BY <2>1
    <2> QED  BY <1>3, <2>1, <2>2 DEF JoinChunks, RouteOptionInv
  <1>4. CASE DumpChunk
    <2> DEFINE Q == Seq(RouteOctet)
    <2>1. PICK i \in DOMAIN chunks : value' = chunks[i]
      BY <1>4 DEF DumpChunk
    <2>2. chunks \in Seq(Q)
      BY DEF RouteOptionInv
    <2> HIDE DEF Q
    <2>3. value' \in Q
      BY <2>1, <2>2
    <2>4. Len(value') \in Nat
      BY <2>3 DEF Q
    <2> QED  BY <1>4, <2>3, <2>4 DEF DumpChunk, RouteOptionInv, Q
  <1>5. CASE Overlong
    BY <1>5 DEF Overlong, MayRead, RouteOptionInv
  <1>6. CASE ReadRoute
    <2>1. /\ position < Len(value) /\ Valid /\ Enough /\ stage = "dump"
          /\ UNCHANGED <<routes, chunks, value>>
      BY <1>6 DEF ReadRoute, MayRead
    <2>2. InArray(NetworkLen) /\ InValue(NetworkLen + Octets) /\ NetworkLen \in Nat
      BY <2>1, ReadsInside
    <2>3. position' = position + 1 + NetworkLen + Octets /\ UNCHANGED stage
      BY <1>6, <2>2 DEF ReadRoute
    <2>4. position' \in 0..Len(value)
      <3>1. position \in Nat /\ Len(value) \in Nat
        BY DEF RouteOptionInv
      <3> QED  BY <2>2, <2>3, <3>1, OctetsFit DEF InValue
    <2> QED  BY <2>1, <2>3, <2>4 DEF RouteOptionInv
  <1>7. CASE Dumped
    BY <1>7 DEF Dumped, RouteOptionInv
  <1>8. CASE UNCHANGED routeVars
    BY <1>8 DEF routeVars, RouteOptionInv
  <1> QED  BY <1>1, <1>2, <1>3, <1>4, <1>5, <1>6, <1>7, <1>8 DEF RouteNext

\* The routes in use were accepted by parse_route, and no read leaves the option.
THEOREM RouteOptionInvariant == RouteSpec => []RouteOptionInv
  BY RouteOptionInvInit, RouteOptionInvStep, PTL DEF RouteSpec

-----------------------------------------------------------------------------
(***************************************************************************)
(* RouteOption: what is shown is what is there.                            *)
(***************************************************************************)
\* Any octets of an address are those of the address that is read from them.
LEMMA OctetsWrittenBack ==
  ASSUME NEW s \in Seq(RouteOctet), Len(s) = Octets
  PROVE  FromOctets(s) \in Address /\ octets(FromOctets(s)) = s
  <1> DEFINE n == Octets
             O == OctetBits
             b == 2^O
             x == FromOctets(s)
  <1>1. /\ n \in Nat /\ O \in Nat /\ b \in Nat /\ b > 0 /\ Width = n * O /\ Width \in Nat
        /\ \A i \in 1..n : s[i] \in 0 .. b - 1
    <2>1. \A i \in 1..n : s[i] \in RouteOctet
      BY OctetsFit
    <2> QED  BY <2>1, OctetsFit, PowerPositive DEF RouteOctet, MaxChunk
  <1>2. PICK L : L = (CHOOSE G : IsFromOctets(s, G, n)) /\ IsFromOctets(s, L, n)
    BY <1>1, FromOctetsExists
  <1>3. x = L[n]
    BY <1>1, <1>2, FromOctetsIs
  <1>4. L[0] = 0 /\ \A i \in 1..n : L[i] = L[i - 1] * b + s[i]
    <2>1. \A i \in 0..n : L[i] = FromOctetsStep(s, L, i)
      BY <1>2 DEF IsFromOctets
    <2>2. 0 \in 0..n
      BY <1>1
    <2>3. L[0] = 0
      BY <2>1, <2>2 DEF FromOctetsStep
    <2>4. ASSUME NEW i \in 1..n PROVE L[i] = L[i - 1] * b + s[i]
      <3>1. i \in 0..n /\ i # 0
        BY <1>1
      <3> QED  BY <2>1, <3>1 DEF FromOctetsStep
    <2> QED  BY <2>3, <2>4
  <1>5. \A k \in 0 .. n - 1 : /\ k * O \in Nat /\ 2^((k + 1) * O) = 2^(k * O) * b
                              /\ 2^(k * O) \in Nat /\ 2^(k * O) > 0
    <2> TAKE k \in 0 .. n - 1
    <2>1. k * O \in Nat /\ (k + 1) * O = k * O + O
      BY <1>1
    <2> QED  BY <1>1, <2>1, PowerSum, PowerPositive
  <1> HIDE DEF n, O, b, x
  <1>6. \A i \in 0..n : L[i] \in Nat /\ L[i] < 2^(i * O)
    <2> DEFINE B == {i \in 0..n : ~(L[i] \in Nat /\ L[i] < 2^(i * O))}
    <2>0. B \in SUBSET Nat
      OBVIOUS
    <2> SUFFICES ASSUME B # {} PROVE FALSE
      OBVIOUS
    <2> HIDE DEF B
    <2>1. PICK i \in B : \A j \in B : i <= j
      BY <2>0, LeastNat
    <2>2. i \in 0..n /\ ~(L[i] \in Nat /\ L[i] < 2^(i * O))
      BY <2>1 DEF B
    <2>3. i # 0
      <3>1. 0 * O = 0 /\ 2^0 = 1
        BY <1>1
      <3>2. 2^(0 * O) = 1
        BY <3>1, Zenon
      <3> QED  BY <1>4, <2>2, <3>2
    <2> DEFINE k == i - 1
    <2>4. k \in 0 .. n - 1 /\ k + 1 = i /\ i \in 1..n
      BY <1>1, <2>2, <2>3
    <2>5. k \notin B
      BY <2>0, <2>1, <2>4
    <2>6. L[i] = L[k] * b + s[i]
      BY <1>4, <2>4
    <2> HIDE DEF k
    <2>7. L[k] \in Nat /\ L[k] < 2^(k * O)
      BY <1>1, <2>4, <2>5 DEF B
    <2> DEFINE P == 2^(k * O)
               u == L[k]
    <2>8. P \in Nat /\ P > 0 /\ 2^(i * O) = P * b /\ u \in Nat /\ u <= P - 1
      BY <1>5, <2>4, <2>7
    <2> HIDE DEF P, u
    <2>9. u * b <= (P - 1) * b /\ (P - 1) * b = P * b - b /\ u * b \in Nat
      BY <1>1, <2>8
    <2>10. L[i] = u * b + s[i] /\ s[i] \in 0 .. b - 1
      BY <1>1, <2>4, <2>6 DEF u
    <2> DEFINE v == u * b
               w == P * b
    <2>12. v <= w - b /\ v \in Nat /\ w \in Nat /\ L[i] = v + s[i]
      BY <1>1, <2>8, <2>9, <2>10
    <2> HIDE DEF v, w
    <2>11. L[i] \in Nat /\ L[i] < w
      BY <1>1, <2>10, <2>12
    <2> QED  BY <2>2, <2>8, <2>11 DEF w
  <1>7. x \in Address
    <2>1. n \in 0..n
      BY <1>1
    <2>2. x \in Nat /\ x < 2^Width
      BY <1>1, <1>3, <1>6, <2>1
    <2>3. 2^Width \in Nat
      BY <1>1, PowerPositive
    <2> QED  BY <2>2, <2>3 DEF Address
  \* What is left of the address without its last octets is what was read before them.
  <1>8. \A j \in 0..n : x \div 2^(j * O) = L[n - j]
    <2> DEFINE B == {j \in 0..n : x \div 2^(j * O) # L[n - j]}
    <2>0. B \in SUBSET Nat
      OBVIOUS
    <2> SUFFICES ASSUME B # {} PROVE FALSE
      OBVIOUS
    <2> HIDE DEF B
    <2>1. PICK j \in B : \A k \in B : j <= k
      BY <2>0, LeastNat
    <2>2. j \in 0..n /\ x \div 2^(j * O) # L[n - j]
      BY <2>1 DEF B
    <2>3. x \in Nat
      BY <1>7, OctetsFit DEF Address
    <2>4. j # 0
      <3>1. 0 * O = 0 /\ 2^0 = 1 /\ n - 0 = n
        BY <1>1
      <3>2. 2^(0 * O) = 1
        BY <3>1, Zenon
      <3>3. x \div 1 = x
        BY <2>3
      <3>4. x \div 2^(0 * O) = L[n - 0]
        BY <1>3, <3>1, <3>2, <3>3, Zenon
      <3> QED  BY <2>2, <3>4
    <2> DEFINE k == j - 1
               i == n - k
    <2>5. /\ k \in 0 .. n - 1 /\ k \in 0..n /\ k + 1 = j /\ i \in 1..n /\ i - 1 \in 0..n
          /\ i - 1 = n - j
      BY <1>1, <2>2, <2>4
    <2>6. k \notin B
      BY <2>0, <2>1, <2>5
    <2>7. x \div 2^(k * O) = L[n - k]
      BY <2>5, <2>6 DEF B
    <2> HIDE DEF k
    <2>8. L[i] = L[i - 1] * b + s[i] /\ s[i] \in 0 .. b - 1 /\ L[i - 1] \in Nat
      BY <1>1, <1>4, <1>6, <2>5
    <2>9. x \div 2^(k * O) = L[i]
      BY <2>7
    <2> HIDE DEF i
    <2> DEFINE P == 2^(k * O)
               u == L[i - 1]
    <2>10. P \in Nat /\ P > 0 /\ 2^(j * O) = P * b
      BY <1>5, <2>5
    <2> HIDE DEF P
    <2>11. x \div (P * b) = (x \div P) \div b
      BY <1>1, <2>3, <2>10, DivideTwice
    <2>12. L[i] = b * u + s[i] /\ u \in Nat
      BY <1>1, <2>8
    <2> HIDE DEF u
    <2>13. (b * u + s[i]) \div b = u
      BY <1>1, <2>8, <2>12, DivisionIs
    <2>14. x \div 2^(j * O) = u
      BY <2>9, <2>10, <2>11, <2>12, <2>13 DEF P
    <2> QED  BY <2>2, <2>5, <2>14 DEF u
  <1>9. ASSUME NEW i \in 1..n PROVE octets(x)[i] = s[i]
    <2>1. i - 1 \in 0..n /\ n - i \in 0..n /\ n - (n - i) = i /\ i \in Nat
      BY <1>1
    <2>2. Width - i * O = (n - i) * O
      BY <1>1, <2>1
    <2>3. octets(x)[i] = (x \div 2^(Width - i * O)) % b
      BY DEF octets, n, O, b
    <2>4. x \div 2^(Width - i * O) = L[i]
      BY <1>8, <2>1, <2>2
    <2>5. L[i] = L[i - 1] * b + s[i] /\ s[i] \in 0 .. b - 1 /\ L[i - 1] \in Nat
      BY <1>1, <1>4, <1>6, <2>1
    <2> DEFINE u == L[i - 1]
    <2>6. L[i] = b * u + s[i] /\ u \in Nat
      BY <1>1, <2>5
    <2> HIDE DEF u
    <2>7. (b * u + s[i]) % b = s[i]
      BY <1>1, <2>5, <2>6, DivisionIs
    <2> QED  BY <2>3, <2>4, <2>6, <2>7
  <1>10. octets(x) = s
    <2>1. octets(x) \in Seq(RouteOctet) /\ Len(octets(x)) = Len(s)
      BY <1>7, OctetsType
    <2>2. \A i \in 1 .. Len(s) : octets(x)[i] = s[i]
      BY <1>9 DEF n
    <2> QED  BY <2>1, <2>2, SeqEqual
  <1> QED  BY <1>7, <1>10 DEF x

ShownRoute == [network : Address, prefix : 0 .. Width, gateway : Address]

\* The octets of an option up to where its reader stands are those of what it has shown.
ShownEncoded == [i \in DOMAIN shown |-> Encoded(shown[i], shown[i].gateway)]
ShownInv ==
  /\ shown \in Seq(ShownRoute)
  /\ ShownEncoded \in Seq(Seq(RouteOctet))
  /\ stage \in {"dump", "dumped"} => FlattenSeq(ShownEncoded) = SubSeq(value, 1, position)

\* The route that is read next, and where it ends.
NextShown ==
  LET from == position + 2
      net == SubSeq(value, from, from + NetworkLen - 1) \o [i \in 1 .. Octets - NetworkLen |-> 0]
      gateway == SubSeq(value, from + NetworkLen, from + NetworkLen + Octets - 1)
  IN [network |-> FromOctets(net), prefix |-> Prefix, gateway |-> FromOctets(gateway)]
NextEnd == position + 1 + NetworkLen + Octets

\* What is read next is, written down, the octets it is read from.
LEMMA NextIsThere ==
  ASSUME RouteOptionInv, position < Len(value), Valid, Enough
  PROVE  /\ NextShown \in ShownRoute
         /\ NextEnd \in position + 1 .. Len(value)
         /\ Encoded(NextShown, NextShown.gateway) = SubSeq(value, position + 1, NextEnd)
  <1> DEFINE N == NetworkLen
             from == position + 2
             t == SubSeq(value, from, from + N - 1)
             z == [i \in 1 .. Octets - N |-> 0]
             g == SubSeq(value, from + N, from + N + Octets - 1)
             p == Prefix
             a == t \o z
  <1>1. /\ value \in Seq(RouteOctet) /\ position \in Nat /\ Len(value) \in Nat /\ Octets \in Nat
        /\ p \in RouteOctet /\ p \in 0..Width /\ N \in 0..Octets
        /\ position + 1 + N + Octets <= Len(value)
    BY ReadsInside, OctetsFit DEF RouteOptionInv, InValue
  <1>2. p = value[position + 1] /\ N = Significant(p)
    BY DEF Prefix, NetworkLen
  <1>3. NextShown = [network |-> FromOctets(a), prefix |-> p, gateway |-> FromOctets(g)]
    BY DEF NextShown
  <1>4. NextEnd = position + 1 + N + Octets
    BY DEF NextEnd
  <1> HIDE DEF p, N
  <1>5. t \in Seq(RouteOctet) /\ Len(t) = N
    <2>1. \A i \in from .. from + N - 1 : value[i] \in RouteOctet
      BY <1>1
    <2> DEFINE e == from + N - 1
    <2>2. from \in Int /\ e \in Int /\ (IF from <= e THEN e - from + 1 ELSE 0) = N
      BY <1>1
    <2> HIDE DEF from, e
    <2>3. SubSeq(value, from, e) \in Seq(RouteOctet) /\ Len(SubSeq(value, from, e)) = N
      BY <2>1, <2>2, SubSeqProperties DEF e
    <2> QED  BY <2>3 DEF e
  <1>6. g \in Seq(RouteOctet) /\ Len(g) = Octets
    <2> DEFINE m == from + N
               e == from + N + Octets - 1
    <2>1. \A i \in m .. e : value[i] \in RouteOctet
      BY <1>1
    <2>2. m \in Int /\ e \in Int /\ (IF m <= e THEN e - m + 1 ELSE 0) = Octets
      BY <1>1
    <2> HIDE DEF m, e
    <2>3. SubSeq(value, m, e) \in Seq(RouteOctet) /\ Len(SubSeq(value, m, e)) = Octets
      BY <2>1, <2>2, SubSeqProperties
    <2> QED  BY <2>3 DEF m, e
  <1>7. z \in Seq(RouteOctet) /\ Len(z) = Octets - N
    <2>1. 0 \in RouteOctet
      BY MaxChunkIs DEF RouteOctet
    <2> QED  BY <1>1, <2>1
  <1>8. p = value[position + 1] /\ <<p>> = SubSeq(value, position + 1, position + 1)
    <2>1. position + 1 \in 1 .. Len(value)
      BY <1>1
    <2> QED  BY <1>1, <1>2, <2>1
  <1>9. <<p>> \o t = SubSeq(value, position + 1, position + 1 + N)
    <2>1. /\ position + 1 \in 1 .. Len(value) + 1 /\ position + 1 \in (position + 1) - 1 .. Len(value)
          /\ position + 1 + N \in position + 1 .. Len(value)
          /\ (position + 1) + 1 = from /\ from + N - 1 = position + 1 + N
      BY <1>1
    <2>2. SubSeq(value, position + 1, position + 1) \o SubSeq(value, (position + 1) + 1, position + 1 + N)
            = SubSeq(value, position + 1, position + 1 + N)
      BY <1>1, <2>1, ConcatAdjacentSubSeq
    <2> QED  BY <1>8, <2>1, <2>2
  <1>10. (<<p>> \o t) \o g = SubSeq(value, position + 1, NextEnd)
    <2> DEFINE k == position + 1 + N
               e == position + 1 + N + Octets
    <2>1. /\ position + 1 \in 1 .. Len(value) + 1 /\ k \in (position + 1) - 1 .. Len(value)
          /\ e \in k .. Len(value)
          /\ k + 1 = from + N /\ e = from + N + Octets - 1
      BY <1>1
    <2> HIDE DEF k, e
    <2>2. SubSeq(value, position + 1, k) \o SubSeq(value, k + 1, e) = SubSeq(value, position + 1, e)
      BY <1>1, <2>1, ConcatAdjacentSubSeq
    <2> QED  BY <1>4, <1>9, <2>1, <2>2 DEF k, e
  <1> HIDE DEF t, z, g, from
  <1>11. a \in Seq(RouteOctet) /\ Len(a) = Octets
    BY <1>1, <1>5, <1>7
  <1>12. SubSeq(a, 1, N) = t
    <2>1. \A i \in 1..N : a[i] = t[i]
      BY <1>1, <1>5, <1>7
    <2> HIDE DEF a
    <2>2. SubSeq(a, 1, N) \in Seq(RouteOctet) /\ Len(SubSeq(a, 1, N)) = N
          /\ \A i \in 1..N : SubSeq(a, 1, N)[i] = a[i]
      BY <1>1, <1>11
    <2> QED  BY <1>5, <2>1, <2>2, SeqEqual
  <1> HIDE DEF a
  <1>13. /\ FromOctets(a) \in Address /\ octets(FromOctets(a)) = a
         /\ FromOctets(g) \in Address /\ octets(FromOctets(g)) = g
    BY <1>6, <1>11, OctetsWrittenBack
  <1>14. NextShown \in ShownRoute
    BY <1>1, <1>3, <1>13 DEF ShownRoute
  <1>15. Encoded(NextShown, NextShown.gateway) = (<<p>> \o t) \o g
    BY <1>2, <1>3, <1>12, <1>13 DEF Encoded
  <1>16. NextEnd \in position + 1 .. Len(value)
    BY <1>1, <1>4
  <1> QED  BY <1>10, <1>14, <1>15, <1>16

LEMMA ShownInvInit == RouteInit => ShownInv
  <1> SUFFICES ASSUME RouteInit PROVE ShownInv
    OBVIOUS
  <1>1. shown = <<>> /\ position = 0
    BY DEF RouteInit
  <1>2. ShownEncoded = <<>>
    BY <1>1 DEF ShownEncoded
  <1>3. SubSeq(value, 1, 0) = <<>>
    BY SubSeqEmpty
  <1>4. FlattenSeq(<<>>) = <<>>
    BY FlatEmpty
  <1>5. FlattenSeq(ShownEncoded) = SubSeq(value, 1, position)
    BY <1>1, <1>2, <1>3, <1>4, Zenon
  <1> QED  BY <1>1, <1>2, <1>5 DEF ShownInv

LEMMA ShownInvStep == RouteOptionInv /\ ShownInv /\ [RouteNext]_routeVars => ShownInv'
  <1> SUFFICES ASSUME RouteOptionInv, ShownInv, [RouteNext]_routeVars PROVE ShownInv'
    OBVIOUS
  <1>1. ASSUME UNCHANGED shown PROVE ShownEncoded' = ShownEncoded
    BY <1>1 DEF ShownEncoded
  <1>2. ASSUME NEW r \in Route, Validate(r) PROVE ShownInv'
    <2>1. UNCHANGED <<shown, value, position>> /\ stage' \in {"config", "refused"}
      BY <1>2 DEF Validate
    <2> QED  BY <1>1, <2>1 DEF ShownInv
  <1>3. ASSUME NEW gateway \in Gateway, WriteOption(gateway) PROVE ShownInv'
    BY <1>1, <1>3 DEF WriteOption, ShownInv
  <1>4. CASE JoinChunks \/ DumpChunk
    <2>1. stage = "sent" /\ UNCHANGED <<position, shown>>
      BY <1>4 DEF JoinChunks, DumpChunk
    <2>2. position = 0 /\ shown = <<>>
      BY <2>1 DEF RouteOptionInv
    <2>3. ShownEncoded = <<>> /\ ShownEncoded' = <<>>
      BY <1>1, <2>1, <2>2 DEF ShownEncoded
    <2>4. SubSeq(value', 1, 0) = <<>>
      BY SubSeqEmpty
    <2>5. FlattenSeq(<<>>) = <<>>
      BY FlatEmpty
    <2>6. FlattenSeq(ShownEncoded') = SubSeq(value', 1, position')
      <3>1. position' = 0
        BY <2>1, <2>2
      <3> QED  BY <2>3, <2>4, <2>5, <3>1, Zenon
    <2> QED  BY <2>1, <2>2, <2>3, <2>6 DEF ShownInv
  <1>5. CASE Overlong
    <2>1. shown' = <<>> /\ stage' = "printable"
      BY <1>5 DEF Overlong
    <2>2. ShownEncoded' = <<>>
      BY <2>1 DEF ShownEncoded
    <2> QED  BY <2>1, <2>2 DEF ShownInv
  <1>6. CASE ReadRoute
    <2> DEFINE e == NextShown
               x == Encoded(e, e.gateway)
    <2>1. /\ position < Len(value) /\ Valid /\ Enough /\ stage = "dump"
          /\ UNCHANGED <<routes, chunks, value>>
      BY <1>6 DEF ReadRoute, MayRead
    <2>2. InArray(NetworkLen) /\ InValue(NetworkLen + Octets) /\ NetworkLen \in Nat
      BY <2>1, ReadsInside
    <2>3. /\ shown' = Append(shown, e) /\ position' = NextEnd /\ UNCHANGED stage
      BY <1>6, <2>2 DEF ReadRoute, NextShown, NextEnd
    <2>4. /\ e \in ShownRoute /\ NextEnd \in position + 1 .. Len(value)
          /\ x = SubSeq(value, position + 1, NextEnd)
      BY <2>1, NextIsThere
    <2>5. /\ value \in Seq(RouteOctet) /\ position \in Nat /\ Len(value) \in Nat
          /\ shown \in Seq(ShownRoute) /\ ShownEncoded \in Seq(Seq(RouteOctet))
          /\ FlattenSeq(ShownEncoded) = SubSeq(value, 1, position)
      BY <2>1 DEF RouteOptionInv, ShownInv
    <2> HIDE DEF e, x
    <2>6. x \in Seq(RouteOctet)
      <3> DEFINE m == NextEnd
      <3>1. m \in Nat /\ position <= m /\ m <= Len(value)
        BY <2>4, <2>5
      <3>2. x = SubSeq(value, position + 1, m)
        BY <2>4
      <3> HIDE DEF m
      <3> QED  BY <2>5, <3>1, <3>2, SubSeqJoin
    <2>7. FlattenSeq(ShownEncoded) \o x = SubSeq(value, 1, NextEnd)
      <3> DEFINE m == NextEnd
      <3>1. m \in Nat /\ position <= m /\ m <= Len(value) /\ x = SubSeq(value, position + 1, m)
        BY <2>4, <2>5
      <3> HIDE DEF m
      <3>2. SubSeq(value, 1, position) \o SubSeq(value, position + 1, m) = SubSeq(value, 1, m)
        BY <2>5, <3>1, SubSeqJoin
      <3> QED  BY <2>5, <3>1, <3>2 DEF m
    <2>8. shown' \in Seq(ShownRoute)
      BY <2>3, <2>4, <2>5
    <2>9. ShownEncoded' = Append(ShownEncoded, x)
      <3> DEFINE n == Len(shown)
                 G == [i \in 1 .. n + 1 |-> Encoded(shown'[i], shown'[i].gateway)]
      <3>1. n \in Nat /\ DOMAIN shown = 1..n /\ DOMAIN shown' = 1 .. n + 1
        BY <2>3, <2>4, <2>5
      <3>2. shown'[n + 1] = e /\ \A i \in 1..n : shown'[i] = shown[i]
        BY <2>3, <2>4, <2>5
      <3>3. ShownEncoded' = [i \in 1 .. n + 1 |-> G[i]]
        BY <3>1 DEF ShownEncoded
      <3>4. ShownEncoded = [i \in 1..n |-> G[i]]
        BY <3>1, <3>2 DEF ShownEncoded
      <3>5. G[n + 1] = x
        BY <3>1, <3>2 DEF x
      <3> HIDE DEF G, n
      <3>6. Append([i \in 1..n |-> G[i]], G[n + 1]) = [i \in 1 .. n + 1 |-> G[i]]
        BY <3>1, OneMore
      <3> QED  BY <3>3, <3>4, <3>5, <3>6
    <2>10. ShownEncoded' \in Seq(Seq(RouteOctet))
      <3> DEFINE Q == Seq(RouteOctet)
      <3>1. ShownEncoded \in Seq(Q) /\ x \in Q
        BY <2>5, <2>6
      <3> HIDE DEF Q
      <3>2. Append(ShownEncoded, x) \in Seq(Q)
        BY <3>1
      <3> QED  BY <2>9, <3>2 DEF Q
    <2>11. FlattenSeq(ShownEncoded') = SubSeq(value, 1, NextEnd)
      <3>1. FlattenSeq(Append(ShownEncoded, x)) = FlattenSeq(ShownEncoded) \o x
        BY <2>5, <2>6, FlatAppend
      <3> QED  BY <2>7, <2>9, <3>1
    <2> QED  BY <2>1, <2>3, <2>8, <2>10, <2>11 DEF ShownInv
  <1>7. CASE Dumped
    BY <1>1, <1>7 DEF Dumped, ShownInv
  <1>8. CASE UNCHANGED routeVars
    BY <1>1, <1>8 DEF routeVars, ShownInv
  <1> QED  BY <1>2, <1>3, <1>4, <1>5, <1>6, <1>7, <1>8 DEF RouteNext

\* Whatever octets another host has put into option 121, classless_routes ends no slice
\* behind the option or behind the four octets of an address, and the routes it shows
\* are, written down again, all of these octets and no others.
THEOREM ShowsWhatIsThere == RouteSpec => []ShownAsSent
  <1>1. RouteOptionInv /\ ShownInv => ShownAsSent
    <2> SUFFICES ASSUME RouteOptionInv, ShownInv, stage = "dumped"
                 PROVE  FlattenSeq(ShownEncoded) = value
      BY DEF ShownAsSent, RouteOptionInv, ShownEncoded
    <2>1. value \in Seq(RouteOctet) /\ position = Len(value)
      BY DEF RouteOptionInv
    <2>2. SubSeq(value, 1, Len(value)) = value
      BY <2>1
    <2> QED  BY <2>1, <2>2 DEF ShownInv
  <1>2. RouteSpec => []ShownInv
    BY RouteOptionInvariant, ShownInvInit, ShownInvStep, PTL DEF RouteSpec
  <1> QED  BY <1>1, <1>2, RouteOptionInvariant, PTL

-----------------------------------------------------------------------------
(***************************************************************************)
(* RouteOption: the server's own routes are read as they were meant.       *)
(***************************************************************************)
\* Sequences whose laws are only used where they are named.
IsList(S, s) == s \in Seq(S)

LEMMA ListConcat ==
  ASSUME NEW S, NEW a, NEW b, IsList(S, a), IsList(S, b)
  PROVE  /\ IsList(S, a \o b) /\ Len(a \o b) = Len(a) + Len(b)
         /\ Len(a) \in Nat /\ Len(b) \in Nat
  BY DEF IsList

LEMMA ListRegroup ==
  ASSUME NEW S, NEW a, NEW b, NEW c, IsList(S, a), IsList(S, b), IsList(S, c)
  PROVE  (a \o b) \o c = a \o (b \o c)
  BY DEF IsList

LEMMA ListHead ==
  ASSUME NEW S, NEW a, NEW p \in S, NEW c, IsList(S, a), IsList(S, c)
  PROVE  ((a \o <<p>>) \o c)[Len(a) + 1] = p
  <1> DEFINE e == a \o <<p>>
  <1>1. e \in Seq(S) /\ Len(e) = Len(a) + 1 /\ e[Len(a) + 1] = p /\ Len(a) \in Nat
    BY DEF IsList
  <1> HIDE DEF e
  <1>2. (e \o c)[Len(a) + 1] = e[Len(a) + 1]
    BY <1>1 DEF IsList
  <1> QED  BY <1>1, <1>2 DEF e

LEMMA ListMiddle ==
  ASSUME NEW S, NEW a, NEW b, NEW c, IsList(S, a), IsList(S, b), IsList(S, c)
  PROVE  SubSeq((a \o b) \o c, Len(a) + 1, Len(a) + Len(b)) = b
  <1> DEFINE s == (a \o b) \o c
             m == Len(a)
             n == Len(b)
             t == SubSeq(s, m + 1, m + n)
  <1>1. s \in Seq(S) /\ Len(s) = m + n + Len(c) /\ m \in Nat /\ n \in Nat /\ Len(c) \in Nat
    BY DEF IsList
  <1>2. \A i \in 1..n : s[m + i] = b[i]
    BY DEF IsList
  <1> HIDE DEF s, m, n
  <1>3. t \in Seq(S) /\ Len(t) = n /\ \A i \in 1..n : t[i] = s[m + i]
    BY <1>1
  <1> HIDE DEF t
  <1>4. t = b
    BY <1>2, <1>3, SeqEqual DEF n, IsList
  <1> QED  BY <1>4 DEF s, m, n, t

\* The four parts of a sequence are found where they stand.
LEMMA Pieces ==
  ASSUME NEW S, NEW a, NEW p \in S, NEW t, NEW g, NEW c,
         IsList(S, a), IsList(S, t), IsList(S, g), IsList(S, c)
  PROVE  LET s == (a \o ((<<p>> \o t) \o g)) \o c
         IN /\ s[Len(a) + 1] = p
            /\ SubSeq(s, Len(a) + 2, Len(a) + 1 + Len(t)) = t
            /\ SubSeq(s, Len(a) + 2 + Len(t), Len(a) + 1 + Len(t) + Len(g)) = g
            /\ Len(s) = Len(a) + 1 + Len(t) + Len(g) + Len(c)
  <1> DEFINE e == <<p>>
             s == (a \o ((e \o t) \o g)) \o c
             h == a \o e
             u == h \o t
             v == g \o c
             w == t \o v
  <1>1. IsList(S, e)
    BY DEF IsList
  <1>14. Len(e) = 1
    OBVIOUS
  <1> HIDE DEF e
  <1>2. IsList(S, h) /\ IsList(S, v)
    BY <1>1, ListConcat
  <1>15. /\ Len(h) = Len(a) + Len(e)
         /\ Len(a) \in Nat /\ Len(t) \in Nat /\ Len(g) \in Nat /\ Len(c) \in Nat
    BY <1>1, ListConcat
  <1>3. IsList(S, u)
    <2> HIDE DEF h
    <2> QED  BY <1>2, ListConcat
  <1>16. Len(u) = Len(h) + Len(t)
    <2> HIDE DEF h
    <2> QED  BY <1>2, ListConcat
  <1>4. IsList(S, w)
    <2> HIDE DEF v
    <2> QED  BY <1>2, ListConcat
  <1>5. s = (u \o g) \o c
    <2>1. IsList(S, e \o t)
      BY <1>1, ListConcat
    <2>2. a \o ((e \o t) \o g) = (a \o (e \o t)) \o g
      <3> DEFINE x == e \o t
      <3>1. IsList(S, x)
        BY <2>1
      <3> HIDE DEF x
      <3>2. (a \o x) \o g = a \o (x \o g)
        BY <3>1, ListRegroup
      <3> QED  BY <3>2 DEF x
    <2>3. (a \o e) \o t = a \o (e \o t)
      BY <1>1, ListRegroup
    <2>4. a \o ((e \o t) \o g) = u \o g
      BY <2>2, <2>3
    <2> QED  BY <2>4
  <1> HIDE DEF s
  <1>6. s = u \o v
    <2> HIDE DEF u
    <2>1. (u \o g) \o c = u \o (g \o c)
      BY <1>3, ListRegroup
    <2> QED  BY <1>5, <2>1
  <1>7. s = h \o w
    <2> HIDE DEF h, v
    <2>1. (h \o t) \o v = h \o (t \o v)
      BY <1>2, ListRegroup
    <2> QED  BY <1>6, <2>1
  <1>8. s[Len(a) + 1] = p
    <2> HIDE DEF w
    <2>1. ((a \o <<p>>) \o w)[Len(a) + 1] = p
      BY <1>4, ListHead
    <2> QED  BY <1>7, <2>1 DEF e
  <1>9. SubSeq(s, Len(h) + 1, Len(h) + Len(t)) = t
    <2> HIDE DEF h, v
    <2>1. SubSeq((h \o t) \o v, Len(h) + 1, Len(h) + Len(t)) = t
      BY <1>2, ListMiddle
    <2> QED  BY <1>6, <2>1
  <1> HIDE DEF h, u, v, w
  <1>10. SubSeq(s, Len(u) + 1, Len(u) + Len(g)) = g
    <2>1. SubSeq((u \o g) \o c, Len(u) + 1, Len(u) + Len(g)) = g
      BY <1>3, ListMiddle
    <2> QED  BY <1>5, <2>1
  <1>11. Len(s) = Len(u) + Len(g) + Len(c)
    <2> DEFINE x == u \o g
    <2>1. IsList(S, x) /\ Len(x) = Len(u) + Len(g)
      BY <1>3, ListConcat
    <2> HIDE DEF x
    <2>2. Len(x \o c) = Len(x) + Len(c)
      BY <2>1, ListConcat
    <2> QED  BY <1>5, <2>1, <2>2 DEF x
  <1>12. /\ Len(h) + 1 = Len(a) + 2 /\ Len(h) + Len(t) = Len(a) + 1 + Len(t)
         /\ Len(u) + 1 = Len(a) + 2 + Len(t)
         /\ Len(u) + Len(g) = Len(a) + 1 + Len(t) + Len(g)
         /\ Len(u) + Len(g) + Len(c) = Len(a) + 1 + Len(t) + Len(g) + Len(c)
    BY <1>14, <1>15, <1>16
  <1>13. /\ SubSeq(s, Len(a) + 2, Len(a) + 1 + Len(t)) = t
         /\ SubSeq(s, Len(a) + 2 + Len(t), Len(a) + 1 + Len(t) + Len(g)) = g
         /\ Len(s) = Len(a) + 1 + Len(t) + Len(g) + Len(c)
    BY <1>9, <1>10, <1>11, <1>12
  <1> QED  BY <1>8, <1>13 DEF s, e

\* What classless_routes reads of route r to gateway at s[n + 1], and what is left then.
ReadsBack(s, n, r, gateway, left) ==
  LET from == n + 2
      S == Significant(r.prefix)
  IN /\ s[n + 1] = r.prefix
     /\ SubSeq(s, from, from + S - 1) \o [i \in 1 .. Octets - S |-> 0] = octets(r.network)
     /\ SubSeq(s, from + S, from + S + Octets - 1) = octets(gateway)
     /\ Len(s) = n + 1 + S + Octets + left

\* A route that stands behind others in an option is read from there as it was written.
LEMMA RouteReadBack ==
  ASSUME NEW r \in Route, parse_route(r), NEW gateway \in Address,
         NEW a, NEW c, IsList(RouteOctet, a), IsList(RouteOctet, c),
         NEW s, s = (a \o Encoded(r, gateway)) \o c
  PROVE  ReadsBack(s, Len(a), r, gateway, Len(c))
  <1> DEFINE S == Significant(r.prefix)
             t == SubSeq(octets(r.network), 1, S)
             g == octets(gateway)
             p == r.prefix
             z == [i \in 1 .. Octets - S |-> 0]
  <1>1. S \in 0..Octets /\ IsList(RouteOctet, t) /\ Len(t) = S /\ t \o z = octets(r.network)
    BY NetworkOctets DEF IsList
  <1>2. IsList(RouteOctet, g) /\ Len(g) = Octets
    BY OctetsType DEF IsList
  <1>3. p \in RouteOctet /\ Octets \in Nat
    BY OctetsFit DEF Route, RouteOctet, MaxChunk
  <1>4. s = (a \o ((<<p>> \o t) \o g)) \o c
    BY DEF Encoded
  <1> HIDE DEF p, t, g, S, z
  <1>5. /\ s[Len(a) + 1] = p
        /\ SubSeq(s, Len(a) + 2, Len(a) + 1 + Len(t)) = t
        /\ SubSeq(s, Len(a) + 2 + Len(t), Len(a) + 1 + Len(t) + Len(g)) = g
        /\ Len(s) = Len(a) + 1 + Len(t) + Len(g) + Len(c)
    <2> DEFINE v == (a \o ((<<p>> \o t) \o g)) \o c
    <2>1. /\ v[Len(a) + 1] = p
          /\ SubSeq(v, Len(a) + 2, Len(a) + 1 + Len(t)) = t
          /\ SubSeq(v, Len(a) + 2 + Len(t), Len(a) + 1 + Len(t) + Len(g)) = g
          /\ Len(v) = Len(a) + 1 + Len(t) + Len(g) + Len(c)
      <3>1. p \in RouteOctet /\ IsList(RouteOctet, t) /\ IsList(RouteOctet, g)
        BY <1>1, <1>2, <1>3
      <3> QED  BY <3>1, Pieces, SMTT(30)
    <2>2. s = v
      BY <1>4
    <2> HIDE DEF v
    <2> QED  BY <2>1, <2>2
  <1> DEFINE from == Len(a) + 2
  <1>6. /\ from + S - 1 = Len(a) + 1 + Len(t)
        /\ from + S + Octets - 1 = Len(a) + 1 + Len(t) + Len(g)
    <2>1. Len(a) \in Nat
      BY ListConcat
    <2> QED  BY <1>1, <1>2, <1>3, <2>1
  <1>7. SubSeq(s, from, from + S - 1) = t /\ SubSeq(s, from + S, from + S + Octets - 1) = g
    BY <1>1, <1>5, <1>6
  <1>8. /\ s[Len(a) + 1] = p
        /\ SubSeq(s, from, from + S - 1) \o z = octets(r.network)
        /\ SubSeq(s, from + S, from + S + Octets - 1) = octets(gateway)
        /\ Len(s) = Len(a) + 1 + S + Octets + Len(c)
    <2>1. SubSeq(s, from + S, from + S + Octets - 1) = octets(gateway)
      BY <1>7 DEF g
    <2> HIDE DEF from
    <2> QED  BY <1>1, <1>2, <1>5, <1>7, <2>1
  <1> QED  BY <1>8, Zenon DEF p, S, z, ReadsBack

\* The first k routes as the reader shows them, and the option up to behind them.
ShownOf(gateway) == [i \in DOMAIN routes |-> [network |-> routes[i].network,
                       prefix |-> routes[i].prefix, gateway |-> gateway]]
FirstShown(gateway, k) == [i \in 1..k |-> ShownOf(gateway)[i]]
UpTo(gateway, k) == FlattenSeq(SubSeq(AllEncoded(gateway), 1, k))

\* The reader stands behind the k-th route.
ReadTo(gateway, k) ==
  /\ gateway \in Gateway /\ k \in 0 .. Len(routes)
  /\ value = FlattenSeq(AllEncoded(gateway))
  /\ position = Len(UpTo(gateway, k))
  /\ shown = FirstShown(gateway, k)

\* The server's own options hold its routes, and what is read of them once they are
\* joined has been read up to behind one of these.
OwnOption ==
  /\ stage = "sent" /\ routes # <<>> =>
       \E gateway \in Gateway : FlattenSeq(chunks) = FlattenSeq(AllEncoded(gateway))
  /\ stage \in {"dump", "printable", "dumped"} /\ routes # <<>> /\ value = FlattenSeq(chunks) =>
       stage # "printable" /\ \E gateway, k : ReadTo(gateway, k)

\* What the option is made of, before and behind the next route.
LEMMA NextRoute ==
  ASSUME RouteOptionInv, NEW gateway, NEW k, ReadTo(gateway, k), k # Len(routes)
  PROVE  LET r == routes[k + 1]
             behind == FlattenSeq(SubSeq(AllEncoded(gateway), k + 2, Len(AllEncoded(gateway))))
         IN /\ r \in Route /\ parse_route(r) /\ k \in Nat /\ k + 1 \in DOMAIN routes
            /\ IsList(RouteOctet, UpTo(gateway, k)) /\ IsList(RouteOctet, behind)
            /\ value = (UpTo(gateway, k) \o Encoded(r, gateway)) \o behind
            /\ UpTo(gateway, k + 1) = UpTo(gateway, k) \o Encoded(r, gateway)
  <1> DEFINE ss == AllEncoded(gateway)
             r == routes[k + 1]
  <1>1. gateway \in Gateway /\ k \in 0 .. Len(routes) /\ value = FlattenSeq(ss)
    BY DEF ReadTo
  <1>2. ss \in Seq(Seq(RouteOctet)) /\ Len(ss) = Len(routes)
    BY <1>1, AllEncodedType
  <1>3. /\ Len(routes) \in Nat /\ DOMAIN routes = 1..Len(routes)
        /\ \A i \in DOMAIN routes : routes[i] \in Route /\ parse_route(routes[i])
    BY DEF RouteOptionInv
  <1>4. k \in Nat /\ k < Len(ss) /\ k + 1 \in DOMAIN routes
    BY <1>1, <1>2, <1>3
  <1>5. r \in Route /\ parse_route(r) /\ ss[k + 1] = Encoded(r, gateway)
    BY <1>3, <1>4 DEF AllEncoded
  <1> HIDE DEF ss, r
  <1>6. LET before == FlattenSeq(SubSeq(ss, 1, k))
            behind == FlattenSeq(SubSeq(ss, k + 2, Len(ss)))
        IN /\ before \in Seq(RouteOctet) /\ behind \in Seq(RouteOctet)
           /\ FlattenSeq(SubSeq(ss, 1, k + 1)) = before \o ss[k + 1]
           /\ FlattenSeq(ss) = (before \o ss[k + 1]) \o behind
    BY <1>2, <1>4, FlatSplit
  <1>7. UpTo(gateway, k) = FlattenSeq(SubSeq(ss, 1, k))
        /\ UpTo(gateway, k + 1) = FlattenSeq(SubSeq(ss, 1, k + 1))
    BY DEF UpTo, ss
  <1> QED  BY <1>1, <1>4, <1>5, <1>6, <1>7, Zenon DEF ss, r, IsList

\* Behind the last route there is nothing, and only there.
LEMMA AtTheEnd ==
  ASSUME RouteOptionInv, NEW gateway, NEW k, ReadTo(gateway, k)
  PROVE  position = Len(value) <=> k = Len(routes)
  <1>1. CASE k = Len(routes)
    <2>1. AllEncoded(gateway) \in Seq(Seq(RouteOctet)) /\ Len(AllEncoded(gateway)) = k
      BY <1>1, AllEncodedType DEF ReadTo
    <2> DEFINE ss == AllEncoded(gateway)
               Q == Seq(RouteOctet)
    <2>2. ss \in Seq(Q) /\ Len(ss) = k
      BY <2>1
    <2> HIDE DEF ss, Q
    <2>3. SubSeq(ss, 1, k) = ss
      BY <2>2
    <2>4. /\ UpTo(gateway, k) = FlattenSeq(ss) /\ value = FlattenSeq(ss)
          /\ position = Len(UpTo(gateway, k))
      BY <2>3 DEF UpTo, ReadTo, ss
    <2> QED  BY <1>1, <2>4
  <1>2. CASE k # Len(routes)
    <2> DEFINE r == routes[k + 1]
               a == UpTo(gateway, k)
               b == Encoded(r, gateway)
               c == FlattenSeq(SubSeq(AllEncoded(gateway), k + 2, Len(AllEncoded(gateway))))
    <2>1. /\ r \in Route /\ parse_route(r) /\ k + 1 \in DOMAIN routes
          /\ IsList(RouteOctet, a) /\ IsList(RouteOctet, c) /\ value = (a \o b) \o c
      BY <1>2, NextRoute
    <2>2. position = Len(a) /\ gateway \in Address
      BY RouteOptionAssumption DEF ReadTo
    <2>6. ReadsBack(value, Len(a), r, gateway, Len(c))
      <3> HIDE DEF a, c, r
      <3>1. /\ r \in Route /\ parse_route(r) /\ gateway \in Address
            /\ IsList(RouteOctet, a) /\ IsList(RouteOctet, c)
            /\ value = (a \o Encoded(r, gateway)) \o c
        BY <2>1, <2>2
      <3> QED  BY <3>1, RouteReadBack
    <2>3. Len(value) = Len(a) + 1 + Significant(r.prefix) + Octets + Len(c)
      BY <2>6 DEF ReadsBack
    <2>4. Significant(r.prefix) \in 0..Octets
      BY <2>1, <2>2, EncodedType
    <2>5. Len(a) \in Nat /\ Len(c) \in Nat /\ Octets \in Nat
      BY <2>1, OctetsFit DEF IsList
    <2> HIDE DEF a, c, r
    <2> QED  BY <1>2, <2>2, <2>3, <2>4, <2>5
  <1> QED  BY <1>1, <1>2

\* The next route is never refused, and reading it leads behind it.
LEMMA NextIsRead ==
  ASSUME RouteOptionInv, NEW gateway, NEW k, ReadTo(gateway, k), stage = "dump",
         position < Len(value)
  PROVE  /\ Valid /\ Enough
         /\ ReadRoute => ReadTo(gateway, k + 1)'
  <1> DEFINE r == routes[k + 1]
             S == Significant(r.prefix)
             a == UpTo(gateway, k)
             c == FlattenSeq(SubSeq(AllEncoded(gateway), k + 2, Len(AllEncoded(gateway))))
             from == position + 2
  <1>1. k # Len(routes)
    <2>1. position # Len(value)
      BY DEF RouteOptionInv
    <2> QED  BY <2>1, AtTheEnd
  <1>2. /\ r \in Route /\ parse_route(r) /\ k \in Nat /\ k + 1 \in DOMAIN routes
        /\ IsList(RouteOctet, a) /\ IsList(RouteOctet, c)
        /\ value = (a \o Encoded(r, gateway)) \o c
        /\ UpTo(gateway, k + 1) = a \o Encoded(r, gateway)
    BY <1>1, NextRoute
  <1>3. gateway \in Address /\ position = Len(a) /\ position \in Nat /\ gateway \in Gateway
    <2>1. position \in Nat
      BY DEF RouteOptionInv
    <2> QED  BY <2>1, RouteOptionAssumption DEF ReadTo
  <1>0. ReadsBack(value, Len(a), r, gateway, Len(c))
    <2> HIDE DEF a, c, r
    <2>1. /\ r \in Route /\ parse_route(r) /\ gateway \in Address
          /\ IsList(RouteOctet, a) /\ IsList(RouteOctet, c)
          /\ value = (a \o Encoded(r, gateway)) \o c
      BY <1>2, <1>3
    <2> QED  BY <2>1, RouteReadBack
  <1>4. /\ value[Len(a) + 1] = r.prefix
        /\ SubSeq(value, Len(a) + 2, Len(a) + 2 + S - 1) \o [i \in 1 .. Octets - S |-> 0]
             = octets(r.network)
        /\ SubSeq(value, Len(a) + 2 + S, Len(a) + 2 + S + Octets - 1) = octets(gateway)
        /\ Len(value) = Len(a) + 1 + S + Octets + Len(c)
    BY <1>0, Zenon DEF ReadsBack
  <1>5. S \in 0..Octets /\ Octets \in Nat /\ Len(c) \in Nat
    BY <1>2, <1>3, EncodedType, OctetsFit DEF IsList
  <1> HIDE DEF a, c, r, S
  <1>6. Prefix = r.prefix /\ NetworkLen = S
    BY <1>3, <1>4 DEF Prefix, NetworkLen, S
  <1>7. Valid
    BY <1>2, <1>6 DEF Route, Valid
  <1>8. Enough /\ InArray(NetworkLen) /\ InValue(NetworkLen + Octets)
    BY <1>3, <1>4, <1>5, <1>6 DEF Enough, Left, InArray, InValue
  <1>9. ASSUME ReadRoute PROVE ReadTo(gateway, k + 1)'
    <2>1. /\ SubSeq(value, from, from + NetworkLen - 1) \o [i \in 1 .. Octets - NetworkLen |-> 0]
               = octets(r.network)
          /\ SubSeq(value, from + NetworkLen, from + NetworkLen + Octets - 1) = octets(gateway)
      BY <1>3, <1>4, <1>6
    <2>2. /\ shown' = Append(shown, [network |-> FromOctets(octets(r.network)), prefix |-> Prefix,
                                     gateway |-> FromOctets(octets(gateway))])
          /\ position' = position + 1 + NetworkLen + Octets
          /\ UNCHANGED <<routes, value>>
      BY <1>8, <1>9, <2>1 DEF ReadRoute
    <2>3. FromOctets(octets(r.network)) = r.network /\ FromOctets(octets(gateway)) = gateway
      BY <1>2, <1>3, OctetsReadBack DEF Route
    <2>4. ShownOf(gateway)[k + 1]
            = [network |-> r.network, prefix |-> r.prefix, gateway |-> gateway]
      BY <1>2 DEF ShownOf, r
    <2>5. shown' = FirstShown(gateway, k + 1)
      <3>1. shown = FirstShown(gateway, k)
        BY DEF ReadTo
      <3>2. shown' = Append(shown, ShownOf(gateway)[k + 1])
        BY <1>6, <2>2, <2>3, <2>4
      <3> QED  BY <1>2, <3>1, <3>2, OneMore DEF FirstShown
    <2>6. position' = Len(UpTo(gateway, k + 1))
      <3> DEFINE b == Encoded(r, gateway)
      <3>1. IsList(RouteOctet, b) /\ Len(b) = 1 + S + Octets
        BY <1>2, <1>3, EncodedType DEF S, IsList
      <3> HIDE DEF b
      <3>2. Len(a \o b) = Len(a) + Len(b)
        BY <1>2, <3>1, ListConcat
      <3>3. UpTo(gateway, k + 1) = a \o b
        BY <1>2 DEF b
      <3> QED  BY <1>3, <1>5, <1>6, <2>2, <3>1, <3>2, <3>3
    <2>7. k + 1 \in 0 .. Len(routes)
      BY <1>2 DEF RouteOptionInv
    <2>8. value = FlattenSeq(AllEncoded(gateway))
      BY DEF ReadTo
    <2> QED  BY <1>3, <2>2, <2>5, <2>6, <2>7, <2>8
             DEF ReadTo, UpTo, AllEncoded, FirstShown, ShownOf
  <1> QED  BY <1>7, <1>8, <1>9

LEMMA OwnOptionInit == RouteInit => OwnOption
  BY DEF RouteInit, OwnOption

\* What is joined is read from its beginning, whichever way it came to be read.
LEMMA JoinedIsRead ==
  ASSUME RouteOptionInv, OwnOption, stage = "sent", routes # <<>>,
         value' = FlattenSeq(chunks), UNCHANGED <<routes, position, shown>>
  PROVE  \E gateway, k : ReadTo(gateway, k)'
  <1>1. PICK gateway \in Gateway : FlattenSeq(chunks) = FlattenSeq(AllEncoded(gateway))
    BY DEF OwnOption
  <1>2. FirstShown(gateway, 0) = <<>> /\ Len(UpTo(gateway, 0)) = 0
    <2>1. FirstShown(gateway, 0) = <<>>
      BY DEF FirstShown
    <2>2. SubSeq(AllEncoded(gateway), 1, 0) = <<>>
      BY AllEncodedType
    <2>3. UpTo(gateway, 0) = <<>>
      BY <2>2, FlatEmpty, Zenon DEF UpTo
    <2> QED  BY <2>1, <2>3
  <1>3. 0 \in 0 .. Len(routes) /\ position = 0 /\ shown = <<>>
    BY DEF RouteOptionInv
  <1>4. ReadTo(gateway, 0)'
    BY <1>1, <1>2, <1>3 DEF ReadTo, UpTo, AllEncoded, FirstShown, ShownOf
  <1> QED  BY <1>4

LEMMA OwnOptionStep == RouteOptionInv /\ OwnOption /\ [RouteNext]_routeVars => OwnOption'
  <1> SUFFICES ASSUME RouteOptionInv, OwnOption, [RouteNext]_routeVars PROVE OwnOption'
    OBVIOUS
  <1> DEFINE Own == routes # <<>> /\ value = FlattenSeq(chunks)
  <1>1. ASSUME NEW r \in Route, Validate(r) PROVE OwnOption'
    BY <1>1 DEF Validate, OwnOption
  <1>2. ASSUME NEW gateway \in Gateway, WriteOption(gateway) PROVE OwnOption'
    <2> DEFINE s == FlattenSeq(AllEncoded(gateway))
    <2>1. chunks' = Chunks(s) /\ stage' = "sent" /\ UNCHANGED routes
      BY <1>2 DEF WriteOption, AllEncoded
    <2>2. s \in Seq(RouteOctet)
      BY AllEncodedType, FlatSeq
    <2>3. AllEncoded(gateway)' = AllEncoded(gateway)
      BY <2>1 DEF AllEncoded
    <2>4. FlattenSeq(AllEncoded(gateway)') = s
      BY <2>3
    <2> HIDE DEF s
    <2>5. FlattenSeq(chunks') = s
      BY <2>1, <2>2, ChunksJoin
    <2> QED  BY <2>1, <2>4, <2>5 DEF OwnOption
  <1>3. CASE JoinChunks \/ DumpChunk
    <2>1. stage = "sent" /\ stage' = "dump" /\ UNCHANGED <<routes, chunks, position, shown>>
      BY <1>3 DEF JoinChunks, DumpChunk
    <2>2. ASSUME routes' # <<>>, value' = FlattenSeq(chunks') PROVE \E gateway, k : ReadTo(gateway, k)'
      BY <2>1, <2>2, JoinedIsRead
    <2> QED  BY <2>1, <2>2 DEF OwnOption
  <1>4. CASE Overlong
    <2>1. /\ stage = "dump" /\ position < Len(value) /\ (~Valid \/ ~Enough)
          /\ stage' = "printable" /\ UNCHANGED <<routes, chunks, value>>
      BY <1>4 DEF Overlong, MayRead
    <2>2. ~Own
      <3> SUFFICES ASSUME Own PROVE FALSE
        OBVIOUS
      <3>1. PICK gateway, k : ReadTo(gateway, k)
        BY <2>1 DEF OwnOption
      <3>2. Valid /\ Enough
        BY <2>1, <3>1, NextIsRead
      <3> QED  BY <2>1, <3>2
    <2> QED  BY <2>1, <2>2 DEF OwnOption
  <1>5. CASE ReadRoute
    <2>1. /\ stage = "dump" /\ position < Len(value) /\ Valid /\ Enough
          /\ UNCHANGED <<routes, chunks, value>>
      BY <1>5 DEF ReadRoute, MayRead
    <2>2. UNCHANGED stage
      <3>1. InArray(NetworkLen) /\ InValue(NetworkLen + Octets)
        BY <2>1, ReadsInside
      <3> QED  BY <1>5, <3>1 DEF ReadRoute
    <2>3. CASE ~Own
      BY <2>1, <2>2, <2>3 DEF OwnOption
    <2>4. CASE Own
      <3>1. PICK gateway, k : ReadTo(gateway, k)
        BY <2>1, <2>4 DEF OwnOption
      <3>2. ReadTo(gateway, k + 1)'
        BY <1>5, <2>1, <3>1, NextIsRead
      <3> QED  BY <2>1, <2>2, <3>2 DEF OwnOption
    <2> QED  BY <2>3, <2>4
  <1>6. CASE Dumped
    <2>1. /\ stage = "dump" /\ stage' = "dumped"
          /\ UNCHANGED <<routes, chunks, value, position, shown>>
      BY <1>6 DEF Dumped
    <2>2. CASE ~Own
      BY <2>1, <2>2 DEF OwnOption
    <2>3. CASE Own
      <3>1. PICK gateway, k : ReadTo(gateway, k)
        BY <2>1, <2>3 DEF OwnOption
      <3>2. ReadTo(gateway, k)'
        BY <2>1, <3>1 DEF ReadTo, UpTo, AllEncoded, FirstShown, ShownOf
      <3> QED  BY <2>1, <3>2 DEF OwnOption
    <2> QED  BY <2>2, <2>3
  <1>7. CASE UNCHANGED routeVars
    <2>1. UNCHANGED <<routes, chunks, value, stage, position, shown>>
      BY <1>7 DEF routeVars
    <2>2. ASSUME NEW gateway, NEW k, ReadTo(gateway, k) PROVE ReadTo(gateway, k)'
      BY <2>1, <2>2 DEF ReadTo, UpTo, AllEncoded, FirstShown, ShownOf
    <2>3. ASSUME NEW gateway \in Gateway PROVE AllEncoded(gateway)' = AllEncoded(gateway)
      BY <2>1 DEF AllEncoded
    <2> QED  BY <2>1, <2>2, <2>3 DEF OwnOption
  <1> QED  BY <1>1, <1>2, <1>3, <1>4, <1>5, <1>6, <1>7 DEF RouteNext

\* Any number of routes that parse_route accepts, written into options 121 without the
\* octets behind their prefixes, reach a client that joins these as they were configured,
\* in their order, wherever the options were cut, and each option is one it can count.
THEOREM RoutesReach == RouteSpec => []RoutesArrive
  <1>1. RouteOptionInv /\ OwnOption => RoutesArrive
    <2> SUFFICES ASSUME RouteOptionInv, OwnOption, stage \in {"dumped", "printable"},
                        routes # <<>>, value = FlattenSeq(chunks)
                 PROVE  stage = "dumped" /\ \E gateway \in Gateway : shown = ShownOf(gateway)
      BY DEF RoutesArrive, ShownOf, RouteOptionInv
    <2>1. PICK gateway, k : ReadTo(gateway, k)
      BY DEF OwnOption
    <2>2. stage = "dumped"
      BY DEF OwnOption
    <2>3. k = Len(routes)
      BY <2>1, <2>2, AtTheEnd DEF RouteOptionInv
    <2>4. shown = FirstShown(gateway, k) /\ gateway \in Gateway
      BY <2>1 DEF ReadTo
    <2>5. DOMAIN routes = 1..k
      BY <2>3 DEF RouteOptionInv
    <2>6. FirstShown(gateway, k) = ShownOf(gateway)
      BY <2>5 DEF FirstShown, ShownOf
    <2> QED  BY <2>2, <2>4, <2>6
  <1>2. RouteSpec => []OwnOption
    <2>1. RouteSpec => [](RouteOptionInv)
      BY RouteOptionInvariant
    <2> QED  BY <2>1, OwnOptionInit, OwnOptionStep, PTL DEF RouteSpec
  <1> QED  BY <1>1, <1>2, RouteOptionInvariant, PTL
=============================================================================
