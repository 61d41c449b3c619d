------------------------- MODULE ReplayWindowProofs -------------------------
(***************************************************************************)
(* Proofs about the replay window, for bytes of any number of bits and     *)
(* windows of any number of bytes: what the shifts do to single bits, that *)
(* the bitmap remembers exactly the numbers passed within the window, and  *)
(* that the window implements AntiReplay.                                  *)
(***************************************************************************)
EXTENDS ReplayWindow, FiniteSets, FiniteSetTheorems, FunctionTheorems, TLAPS

-----------------------------------------------------------------------------
(* Powers of two, as numbers of subsets.                                   *)

LEMMA PowSubset ==
    ASSUME NEW n \in Nat
    PROVE  2^n = Cardinality(SUBSET (1..n)) /\ 2^n \in Nat
<1>1. IsFiniteSet(1..n) /\ Cardinality(1..n) = n
  BY FS_Interval
<1>2. IsFiniteSet(SUBSET (1..n)) /\ Cardinality(SUBSET (1..n)) = 2^n
  BY <1>1, FS_SUBSET
<1> QED
  BY <1>2, FS_CardinalityType

LEMMA PowSmall == 2^0 = 1 /\ 2^1 = 2
<1> DEFINE one == {{}}
<1>1. 1..0 = {} /\ 1..1 = {1}
  OBVIOUS
<1>2. SUBSET (1..0) = one /\ SUBSET (1..1) = one \cup {{1}}
  BY <1>1
<1>3. IsFiniteSet(one) /\ Cardinality(one) = 1 /\ {1} \notin one
  BY FS_Singleton
<1>4. Cardinality(one \cup {{1}}) = 2
  <2> HIDE DEF one
  <2>1. Cardinality(one \cup {{1}}) = Cardinality(one) + 1
    BY <1>3, FS_AddElement
  <2> QED
    BY <1>3, <2>1
<1> QED
  BY <1>2, <1>3, <1>4, PowSubset

\* A subset of 1..(a + b) is one of 1..a with one of the rest.
LEMMA PowSum ==
    ASSUME NEW a \in Nat, NEW b \in Nat
    PROVE  2^(a + b) = 2^a * 2^b
<1> DEFINE A == 1..a
           B == (a + 1)..(a + b)
           S == SUBSET A
           T == SUBSET B
           U == SUBSET (1..(a + b))
           f == [x \in S \X T |-> x[1] \cup x[2]]
<1>1. IsFiniteSet(A) /\ Cardinality(A) = a /\ IsFiniteSet(B) /\ Cardinality(B) = b
  <2>1. Cardinality(B) = IF a + 1 > a + b THEN 0 ELSE (a + b) - (a + 1) + 1
    BY FS_Interval
  <2> QED
    BY <2>1, FS_Interval
<1>2. IsFiniteSet(S) /\ Cardinality(S) = 2^a /\ IsFiniteSet(T) /\ Cardinality(T) = 2^b
  BY <1>1, FS_SUBSET
<1>3. A \cup B = 1..(a + b) /\ A \cap B = {}
  OBVIOUS
<1>4. f \in Bijection(S \X T, U)
  <2>1. f \in [S \X T -> U]
    BY <1>3
  <2>2. ASSUME NEW x \in S \X T, NEW y \in S \X T, f[x] = f[y]
        PROVE  x = y
    <3>1. x[1] \cup x[2] = y[1] \cup y[2]
      BY <2>2
    <3>2. /\ x[1] = (x[1] \cup x[2]) \cap A /\ x[2] = (x[1] \cup x[2]) \cap B
          /\ y[1] = (y[1] \cup y[2]) \cap A /\ y[2] = (y[1] \cup y[2]) \cap B
      <4> HIDE DEF A, B
      <4> QED
        BY <1>3
    <3>3. x[1] = y[1] /\ x[2] = y[2]
      BY <3>1, <3>2
    <3> QED
      BY <3>3
  <2>3. ASSUME NEW u \in U
        PROVE  \E x \in S \X T : f[x] = u
    <3>1. <<u \cap A, u \cap B>> \in S \X T /\ u = (u \cap A) \cup (u \cap B)
      BY <1>3
    <3>2. f[<<u \cap A, u \cap B>>] = u
      BY <3>1
    <3> QED
      BY <3>1, <3>2
  <2> QED
    BY <2>1, <2>2, <2>3 DEF Bijection, Injection, Surjection, IsInjective
<1>5. IsFiniteSet(S \X T) /\ Cardinality(S \X T) = 2^a * 2^b
  BY <1>2, FS_Product
<1>6. ExistsBijection(S \X T, U)
  BY <1>4 DEF ExistsBijection
<1>7. Cardinality(U) = Cardinality(S \X T)
  BY <1>5, <1>6, FS_Bijection
<1> QED
  BY <1>5, <1>7, PowSubset

LEMMA PowPositive ==
    ASSUME NEW n \in Nat
    PROVE  2^n \in Nat /\ 2^n > 0
<1>1. IsFiniteSet(1..n)
  BY FS_Interval
<1>2. IsFiniteSet(SUBSET (1..n)) /\ SUBSET (1..n) # {}
  BY <1>1, FS_SUBSET
<1>3. Cardinality(SUBSET (1..n)) # 0
  BY <1>2, FS_EmptySet
<1> QED
  BY <1>3, PowSubset

LEMMA PowNext ==
    ASSUME NEW n \in Nat
    PROVE  2^(n + 1) = 2 * 2^n
<1>1. 2^(n + 1) = 2^n * 2^1
  BY PowSum
<1> QED
  BY <1>1, PowSmall, PowPositive

-----------------------------------------------------------------------------
(* Division.                                                               *)

LEMMA DivMod ==
    ASSUME NEW n \in Int, NEW d \in Nat, d > 0
    PROVE  n \div d \in Int /\ n % d \in 0..(d - 1) /\ n = d * (n \div d) + (n % d)
  OBVIOUS

LEMMA DivUnique ==
    ASSUME NEW n \in Int, NEW d \in Nat, d > 0,
           NEW q \in Int, NEW r \in 0..(d - 1), n = d * q + r
    PROVE  n \div d = q /\ n % d = r
  OBVIOUS

LEMMA DivNat ==
    ASSUME NEW n \in Nat, NEW d \in Nat, d > 0
    PROVE  n \div d \in Nat
  OBVIOUS

LEMMA DivDiv ==
    ASSUME NEW n \in Nat, NEW a \in Nat, a > 0, NEW b \in Nat, b > 0
    PROVE  n \div (a * b) = (n \div a) \div b
<1> DEFINE q == n \div a
           r == n % a
           s == q \div b
           t == q % b
<1>1. q \in Int /\ r \in 0..(a - 1) /\ n = a * q + r
  BY DivMod
<1>2. s \in Int /\ t \in 0..(b - 1) /\ q = b * s + t
  BY <1>1, DivMod
<1> HIDE DEF q, r, s, t
<1>3. n = (a * b) * s + (a * t + r)
  BY <1>1, <1>2
<1>4. a * t + r \in 0..(a * b - 1)
  <2>1. a * t <= a * (b - 1)
    BY <1>2
  <2>2. a * t >= 0
    BY <1>2
  <2> QED
    BY <1>1, <1>2, <2>1, <2>2
<1>5. a * b \in Nat /\ a * b > 0
  OBVIOUS
<1> QED
  BY <1>2, <1>3, <1>4, <1>5, DivUnique DEF s, q

\* Adding a multiple of the divisor.
LEMMA DivShift ==
    ASSUME NEW n \in Nat, NEW d \in Nat, d > 0, NEW m \in Nat
    PROVE  (d * m + n) \div d = m + (n \div d)
<1> DEFINE q == n \div d
           r == n % d
<1>1. q \in Int /\ r \in 0..(d - 1) /\ n = d * q + r
  BY DivMod
<1> HIDE DEF q, r
<1>2. d * m + n = d * (m + q) + r /\ m + q \in Int /\ d * m + n \in Int
  BY <1>1
<1> QED
  BY <1>1, <1>2, DivUnique DEF q

\* The remainder by a multiple of 2d has the same bit d.
LEMMA ModBit ==
    ASSUME NEW n \in Nat, NEW d \in Nat, d > 0, NEW k \in Nat, k > 0
    PROVE  ((n % (d * (2 * k))) \div d) % 2 = (n \div d) % 2
<1> DEFINE w == d * (2 * k)
           q == n \div w
           r == n % w
<1>1. w \in Nat /\ w > 0
  OBVIOUS
<1>2. q \in Int /\ r \in 0..(w - 1) /\ n = w * q + r
  BY <1>1, DivMod
<1>3. q \in Nat
  BY <1>1, DivNat
<1>4. w * q = d * (2 * (k * q)) /\ k * q \in Nat
  BY <1>1, <1>3
<1> HIDE DEF w, q, r
<1>5. r \in Nat
  BY <1>1, <1>2
<1>6. n \div d = 2 * (k * q) + (r \div d)
  <2>1. 2 * (k * q) \in Nat /\ n = d * (2 * (k * q)) + r
    BY <1>2, <1>4
  <2> QED
    BY <1>5, <2>1, DivShift
<1>7. r \div d \in Nat
  BY <1>5, DivNat
<1>8. (r \div d) % 2 = (n \div d) % 2
  <2> DEFINE x == r \div d
             y == k * q
  <2>1. x \in Nat /\ y \in Nat /\ n \div d = 2 * y + x
    BY <1>4, <1>6, <1>7
  <2> HIDE DEF x, y
  <2>2. (2 * y + x) % 2 = x % 2
    BY <2>1
  <2> QED
    BY <2>1, <2>2 DEF x
<1> QED
  BY <1>8 DEF r, w

-----------------------------------------------------------------------------
(* Single bits of a byte.                                                  *)

\* Bit j of a number
Bit(x, j) == (x \div 2^j) % 2

\* v is the byte m of B bits shifted by s, with the upper s bits of the byte
\* before it carried in
IsShifted(v, m, prev, s, B) ==
    /\ B \in Nat /\ s \in 0..(B - 1)
    /\ m \in Nat /\ prev \in Nat /\ prev < 2^B
    /\ v = ((m * 2^s) % 2^B) + (prev \div 2^(B - s))

\* Its bits from s are those of m, the lower ones those carried.
LEMMA ShiftedByte ==
    ASSUME NEW v, NEW m, NEW prev, NEW s, NEW B, IsShifted(v, m, prev, s, B)
    PROVE  /\ v \in 0..(2^B - 1)
           /\ \A j \in s..(B - 1) : Bit(v, j) = Bit(m, j - s)
           /\ \A j \in 0..(s - 1) : Bit(v, j) = Bit(prev, B - s + j)
<1> DEFINE P == 2^s
           R == 2^(B - s)
           q == m \div R
           r == m % R
           c == prev \div R
<1>0. B \in Nat /\ s \in 0..(B - 1) /\ m \in Nat /\ prev \in Nat /\ prev < 2^B
  BY DEF IsShifted
<1>1. /\ P \in Nat /\ P > 0 /\ R \in Nat /\ R > 0 /\ 2^B = P * R
      /\ P * R \in Nat /\ P * R > 0
  <2>1. s \in Nat /\ B - s \in Nat /\ s + (B - s) = B
    BY <1>0
  <2>2. 2^(s + (B - s)) = P * R
    BY <1>0, <2>1, PowSum
  <2>3. P \in Nat /\ P > 0 /\ R \in Nat /\ R > 0
    BY <1>0, <2>1, PowPositive
  <2> HIDE DEF P, R
  <2>4. P * R \in Nat /\ P * R > 0
    BY <1>0, <2>3
  <2> QED
    BY <1>0, <2>1, <2>2, <2>3, <2>4
<1>2. q \in Int /\ r \in 0..(R - 1) /\ m = R * q + r
  <2> HIDE DEF P, R
  <2> QED
    BY <1>0, <1>1, DivMod
<1>3. c \in Nat /\ c < P
  <2> DEFINE t == prev % R
  <2> HIDE DEF P, R
  <2>1. c \in Int /\ t \in 0..(R - 1) /\ prev = R * c + t
    BY <1>0, <1>1, DivMod
  <2>2. c \in Nat
    BY <1>0, <1>1, DivNat
  <2> HIDE DEF c, t
  <2>3. R * c < P * R
    BY <1>0, <1>1, <2>1, <2>2
  <2> QED
    BY <1>0, <1>1, <2>2, <2>3
<1>4. v = P * r + c
  <2> DEFINE n == m * P
  <2> HIDE DEF P, R, q, r, c
  <2>1. n = (P * R) * q + P * r
    BY <1>0, <1>1, <1>2
  <2>2. P * r \in 0..(P * R - 1)
    <3>1. P * r <= P * (R - 1)
      BY <1>0, <1>1, <1>2
    <3>2. P * r \in Nat
      BY <1>0, <1>1, <1>2
    <3> QED
      BY <1>0, <1>1, <3>1, <3>2
  <2>3. n \in Int
    BY <1>0, <1>1
  <2>4. n % (P * R) = P * r
    <3> DEFINE w == P * R
               z == P * r
    <3>1. w \in Nat /\ w > 0 /\ z \in 0..(w - 1) /\ n = w * q + z /\ q \in Int
      BY <1>0, <1>1, <1>2, <2>1, <2>2
    <3> HIDE DEF w, z, n
    <3>2. n % w = z
      BY <1>0, <2>3, <3>1, DivUnique
    <3> QED
      BY <3>2 DEF w, z
  <2> QED
    BY <1>0, <1>1, <2>4 DEF P, R, c, IsShifted
<1> HIDE DEF P, R, q, r, c
<1>5. r \in Nat /\ P * r \in Nat /\ v \in Nat
  BY <1>0, <1>1, <1>2, <1>3, <1>4
<1>6. v \in 0..(2^B - 1)
  <2>1. P * r <= P * (R - 1)
    BY <1>0, <1>1, <1>2
  <2>2. P * (R - 1) = P * R - P
    BY <1>0, <1>1
  <2> QED
    BY <1>0, <1>1, <1>3, <1>4, <1>5, <2>1, <2>2
<1>7. ASSUME NEW j \in s..(B - 1)
      PROVE  Bit(v, j) = Bit(m, j - s)
  <2> DEFINE D == 2^(j - s)
             K == 2^(B - j - 1)
  <2>1. j - s \in Nat /\ B - j - 1 \in Nat /\ s \in Nat /\ j - s + 1 \in Nat
        /\ s + (j - s) = j /\ (j - s + 1) + (B - j - 1) = B - s
    BY <1>0
  <2>2. D \in Nat /\ D > 0 /\ K \in Nat /\ K > 0
    BY <1>0, <2>1, PowPositive
  <2>3. 2^j = P * D
    BY <1>0, <2>1, PowSum DEF P
  <2>4. R = D * (2 * K)
    <3>1. R = 2^(j - s + 1) * K
      BY <1>0, <2>1, PowSum DEF R
    <3>2. 2^(j - s + 1) = 2 * D
      BY <1>0, <2>1, PowNext
    <3> HIDE DEF D, K
    <3> QED
      BY <1>0, <2>2, <3>1, <3>2
  <2> HIDE DEF D, K
  <2>5. v \div P = r
    <3>1. c \in 0..(P - 1) /\ r \in Int /\ v \in Int
      BY <1>0, <1>1, <1>3, <1>5
    <3> QED
      BY <1>0, <1>1, <1>4, <3>1, DivUnique
  <2>6. v \div 2^j = r \div D
    BY <1>0, <1>1, <1>5, <2>2, <2>3, <2>5, DivDiv
  <2>7. (r \div D) % 2 = (m \div D) % 2
    BY <1>0, <2>2, <2>4, ModBit DEF r
  <2> QED
    BY <1>0, <2>6, <2>7 DEF Bit, D
<1>8. ASSUME NEW j \in 0..(s - 1)
      PROVE  Bit(v, j) = Bit(prev, B - s + j)
  <2> DEFINE E == 2^j
             K == 2^(s - j - 1)
             x == K * r
  <2>1. j \in Nat /\ s - j - 1 \in Nat /\ B - s \in Nat /\ j + 1 \in Nat /\ (j + 1) + (s - j - 1) = s
    BY <1>0
  <2>2. E \in Nat /\ E > 0 /\ K \in Nat /\ K > 0
    BY <1>0, <2>1, PowPositive
  <2>3. P = E * (2 * K)
    <3>1. P = 2^(j + 1) * K
      BY <1>0, <2>1, PowSum DEF P
    <3>2. 2^(j + 1) = 2 * E
      BY <1>0, <2>1, PowNext
    <3> HIDE DEF E, K
    <3> QED
      BY <1>0, <2>2, <3>1, <3>2
  <2>4. 2^(B - s + j) = R * E
    BY <1>0, <2>1, PowSum DEF R
  <2> HIDE DEF E, K
  <2>5. x \in Nat /\ v = E * (2 * x) + c
    <3>1. x \in Nat /\ P * r = E * (2 * x)
      BY <1>5, <2>2, <2>3
    <3> QED
      BY <1>4, <3>1
  <2> HIDE DEF x
  <2>6. v \div E = 2 * x + (c \div E)
    BY <1>3, <2>2, <2>5, DivShift
  <2>7. c \div E = prev \div (R * E)
    BY <1>0, <1>1, <2>2, DivDiv DEF c
  <2>8. c \div E \in Nat
    BY <1>3, <2>2, DivNat
  <2>9. (2 * x + (c \div E)) % 2 = (c \div E) % 2
    <3> DEFINE y == c \div E
    <3>1. y \in Nat /\ x \in Nat
      BY <1>0, <2>5, <2>8
    <3> HIDE DEF y
    <3>2. (2 * x + y) % 2 = y % 2
      BY <3>1
    <3> QED
      BY <3>2 DEF y
  <2> QED
    BY <1>0, <2>4, <2>6, <2>7, <2>9 DEF Bit, E
<1> QED
  BY <1>6, <1>7, <1>8

\* Adding 2^j to a byte whose bit j is clear sets that bit and no other.
LEMMA RaisedByte ==
    ASSUME NEW B \in Nat, NEW j \in 0..(B - 1), NEW x \in 0..(2^B - 1), Bit(x, j) # 1
    PROVE  /\ x + 2^j \in 0..(2^B - 1)
           /\ \A i \in 0..(B - 1) : Bit(x + 2^j, i) = IF i = j THEN 1 ELSE Bit(x, i)
<1> DEFINE E == 2^j
           K == 2^(B - j - 1)
           q == x \div E
           r == x % E
           h == q \div 2
           y == x + E
<1>1. j \in Nat /\ B - j - 1 \in Nat /\ j + 1 \in Nat /\ (j + 1) + (B - j - 1) = B
  OBVIOUS
<1>2. E \in Nat /\ E > 0 /\ K \in Nat /\ K > 0 /\ 2^(j + 1) = 2 * E
  BY <1>1, PowPositive, PowNext
<1>3. 2^B = (2 * E) * K
  BY <1>1, <1>2, PowSum
<1> HIDE DEF E, K
<1>4. x \in Nat /\ x < (2 * E) * K
  <2>1. 2^B \in Nat
    BY PowPositive
  <2> QED
    BY <1>3, <2>1
<1>5. q \in Nat /\ r \in 0..(E - 1) /\ x = E * q + r
  BY <1>2, <1>4, DivMod, DivNat
<1>6. q = 2 * h /\ h \in Nat
  <2>1. q % 2 # 1
    BY DEF Bit, E
  <2> HIDE DEF q
  <2> QED
    BY <1>5, <2>1
<1> HIDE DEF q, r, h, y
<1>7. x = (2 * E) * h + r /\ y = (2 * E) * h + (E + r) /\ y \in Nat /\ r \in Nat
  BY <1>2, <1>4, <1>5, <1>6 DEF y
<1>8. x \div (2 * E) = h /\ y \div (2 * E) = h
  <2>1. r \in 0..(2 * E - 1) /\ E + r \in 0..(2 * E - 1) /\ 2 * E \in Nat /\ 2 * E > 0
    BY <1>2, <1>5
  <2>2. h \in Int /\ x \in Int /\ y \in Int
    BY <1>4, <1>6, <1>7
  <2> DEFINE w == 2 * E
             z == E + r
  <2>3. /\ w \in Nat /\ w > 0 /\ r \in 0..(w - 1) /\ z \in 0..(w - 1)
        /\ x = w * h + r /\ y = w * h + z
    BY <1>7, <2>1
  <2> HIDE DEF w, z
  <2>4. x \div w = h /\ y \div w = h
    BY <2>2, <2>3, DivUnique
  <2> QED
    BY <2>4 DEF w
<1>9. y \in 0..(2^B - 1)
  <2>1. h < K
    <3>1. (2 * E) * h < (2 * E) * K
      BY <1>2, <1>4, <1>5, <1>6, <1>7
    <3> QED
      BY <1>2, <1>6, <3>1
  <2>2. (2 * E) * h <= (2 * E) * (K - 1)
    BY <1>2, <1>6, <2>1
  <2>3. (2 * E) * (K - 1) = (2 * E) * K - 2 * E /\ (2 * E) * K \in Nat
    BY <1>2
  <2>4. E + r < 2 * E
    BY <1>2, <1>5
  <2> QED
    BY <1>2, <1>3, <1>5, <1>6, <1>7, <2>2, <2>3, <2>4
<1>10. Bit(y, j) = 1
  <2>1. y = E * (q + 1) + r /\ q + 1 \in Int /\ y \in Int
    BY <1>2, <1>5, <1>7 DEF y
  <2>2. y \div E = q + 1
    BY <1>2, <1>5, <2>1, DivUnique
  <2>3. (q + 1) % 2 = 1
    BY <1>6
  <2> QED
    BY <2>2, <2>3 DEF Bit, E
<1>11. ASSUME NEW i \in (j + 1)..(B - 1)
       PROVE  Bit(y, i) = Bit(x, i)
  <2> DEFINE F == 2^(i - j - 1)
  <2>1. i - j - 1 \in Nat /\ (j + 1) + (i - j - 1) = i
    OBVIOUS
  <2>2. F \in Nat /\ F > 0 /\ 2^i = (2 * E) * F
    <3>1. 2^((j + 1) + (i - j - 1)) = 2^(j + 1) * F
      BY <1>1, <2>1, PowSum
    <3>2. F \in Nat /\ F > 0
      BY <2>1, PowPositive
    <3> QED
      BY <1>2, <2>1, <3>1, <3>2
  <2> HIDE DEF F
  <2>3. 2 * E \in Nat /\ 2 * E > 0
    BY <1>2
  <2>4. x \div 2^i = h \div F /\ y \div 2^i = h \div F
    BY <1>4, <1>7, <1>8, <2>2, <2>3, DivDiv
  <2> QED
    BY <2>4 DEF Bit
<1>12. ASSUME NEW i \in 0..(j - 1)
       PROVE  Bit(y, i) = Bit(x, i)
  <2> DEFINE G == 2^i
             F == 2^(j - i - 1)
             d == x \div G
  <2>1. i \in Nat /\ j - i - 1 \in Nat /\ i + 1 \in Nat /\ (i + 1) + (j - i - 1) = j
    OBVIOUS
  <2>2. G \in Nat /\ G > 0 /\ F \in Nat /\ F > 0 /\ 2^(i + 1) = 2 * G
    BY <2>1, PowPositive, PowNext
  <2>3. E = (2 * G) * F
    BY <1>1, <2>1, <2>2, PowSum DEF E
  <2> HIDE DEF G, F
  <2>4. y = G * (2 * F) + x /\ 2 * F \in Nat
    BY <1>4, <2>2, <2>3 DEF y
  <2>5. y \div G = 2 * F + d
    BY <1>4, <2>2, <2>4, DivShift
  <2>6. d \in Nat
    BY <1>4, <2>2, DivNat
  <2> HIDE DEF d
  <2>7. (2 * F + d) % 2 = d % 2
    BY <2>2, <2>6
  <2> QED
    BY <2>5, <2>7 DEF Bit, G, d
<1>13. x + 2^j = y
  BY DEF y, E
<1>14. \A i \in 0..(B - 1) : i = j \/ i \in (j + 1)..(B - 1) \/ i \in 0..(j - 1)
  OBVIOUS
<1> QED
  BY <1>9, <1>10, <1>11, <1>12, <1>13, <1>14

-----------------------------------------------------------------------------
(* Bits of the bitmap.                                                     *)

Bitmaps == [Index -> Byte]
Places  == 0..(Window - 1)

LEMMA Sizes ==
    /\ Bits \in Nat /\ Bits > 0 /\ Bytes \in Nat /\ Bytes > 0
    /\ Window \in Nat /\ Window > 0 /\ 2^Bits \in Nat /\ 2^Bits > 0
<1>1. Bits \in Nat /\ Bits > 0 /\ Bytes \in Nat /\ Bytes > 0
  BY WindowAssumption
<1>2. Window \in Nat /\ Window > 0
  BY <1>1 DEF Window
<1> QED
  BY <1>1, <1>2, PowPositive

LEMMA Place ==
    ASSUME NEW i \in Places
    PROVE  /\ i \div Bits \in Index /\ i % Bits \in 0..(Bits - 1)
           /\ i = Bits * (i \div Bits) + (i % Bits)
<1> DEFINE b == i \div Bits
           j == i % Bits
<1>1. i \in Nat /\ i < Bytes * Bits
  BY Sizes DEF Places, Window
<1>2. b \in Int /\ j \in 0..(Bits - 1) /\ i = Bits * b + j /\ b \in Nat
  BY <1>1, Sizes, DivMod, DivNat
<1> HIDE DEF b, j
<1>3. b < Bytes
  BY <1>1, <1>2, Sizes
<1> QED
  BY <1>2, <1>3, Sizes DEF b, j, Index

LEMMA TestBit ==
    ASSUME NEW bm, NEW i
    PROVE  test_bit(bm, i) <=> Bit(bm[i \div Bits], i % Bits) = 1
  BY DEF test_bit, Bit

LEMMA BitType ==
    ASSUME NEW x \in Nat, NEW j \in Nat
    PROVE  Bit(x, j) \in {0, 1}
<1>1. 2^j \in Nat /\ 2^j > 0
  BY PowPositive
<1> DEFINE d == 2^j
           y == x \div d
<1>2. y \in Nat
  <2> HIDE DEF d
  <2> QED
    BY <1>1, DivNat DEF d
<1> HIDE DEF y
<1>3. y % 2 \in {0, 1}
  BY <1>2
<1> QED
  BY <1>3 DEF Bit, y

LEMMA ZeroClear ==
    /\ Zero \in Bitmaps
    /\ \A i \in Places : ~test_bit(Zero, i)
<1>1. Zero \in Bitmaps /\ \A b \in Index : Zero[b] = 0
  BY Sizes DEF Zero, Bitmaps, Byte
<1>2. ASSUME NEW i \in Places
      PROVE  ~test_bit(Zero, i)
  <2> DEFINE d == 2^(i % Bits)
  <2>1. i % Bits \in Nat /\ Zero[i \div Bits] = 0
    BY <1>1, Place, Sizes
  <2>2. d \in Nat /\ d > 0
    BY <2>1, PowPositive
  <2> HIDE DEF d
  <2>3. 0 \div d = 0
    BY <2>2
  <2> QED
    BY <2>1, <2>3 DEF test_bit, d
<1> QED
  BY <1>1, <1>2

LEMMA SetBit ==
    ASSUME NEW bm \in Bitmaps, NEW idx \in Places
    PROVE  /\ set_bit(bm, idx) \in Bitmaps
           /\ \A i \in Places : test_bit(set_bit(bm, idx), i) <=> (i = idx \/ test_bit(bm, i))
<1>1. CASE test_bit(bm, idx)
  BY <1>1 DEF set_bit
<1>2. CASE ~test_bit(bm, idx)
  <2> DEFINE b == idx \div Bits
             j == idx % Bits
             x == bm[b]
             y == x + 2^j
             nm == [bm EXCEPT ![b] = y]
  <2>1. b \in Index /\ j \in 0..(Bits - 1) /\ idx = Bits * b + j
    BY Place
  <2>2. set_bit(bm, idx) = nm
    BY <1>2, <2>1 DEF set_bit, Bitmaps
  <2>3. Bit(x, j) # 1 /\ x \in 0..(2^Bits - 1)
    BY <1>2, <2>1, TestBit DEF Bitmaps, Byte
  <2>4. /\ y \in 0..(2^Bits - 1)
        /\ \A k \in 0..(Bits - 1) : Bit(y, k) = IF k = j THEN 1 ELSE Bit(x, k)
    <3> HIDE DEF x, j
    <3> QED
      BY <2>1, <2>3, Sizes, RaisedByte
  <2> HIDE DEF b, j, x, y
  <2>5. nm \in Bitmaps /\ nm[b] = y /\ \A k \in Index : k # b => nm[k] = bm[k]
    BY <2>1, <2>4 DEF Bitmaps, Byte
  <2>6. ASSUME NEW i \in Places
        PROVE  test_bit(nm, i) <=> (i = idx \/ test_bit(bm, i))
    <3> DEFINE c == i \div Bits
               k == i % Bits
    <3>1. c \in Index /\ k \in 0..(Bits - 1) /\ i = Bits * c + k
      BY Place
    <3>2. /\ test_bit(nm, i) <=> Bit(nm[c], k) = 1
          /\ test_bit(bm, i) <=> Bit(bm[c], k) = 1
      BY TestBit
    <3> HIDE DEF c, k, nm
    <3>3. CASE c # b
      <4>1. i # idx
        BY <3>3 DEF b, c
      <4> QED
        BY <2>5, <3>1, <3>2, <3>3, <4>1
    <3>4. CASE c = b
      <4>1. i = idx <=> k = j
        BY <2>1, <3>1, <3>4 DEF j, k
      <4>2. Bit(nm[c], k) = IF k = j THEN 1 ELSE Bit(bm[c], k)
        BY <2>4, <2>5, <3>1, <3>4 DEF x
      <4> QED
        BY <3>2, <4>1, <4>2
    <3> QED
      BY <3>3, <3>4
  <2> QED
    BY <2>2, <2>5, <2>6
<1> QED
  BY <1>1, <1>2

\* shift_right moves every bit `shift' places up and clears the places below.
LEMMA ShiftRight ==
    ASSUME NEW bm \in Bitmaps, NEW shift \in Nat
    PROVE  /\ shift_right(bm, shift) \in Bitmaps
           /\ \A i \in Places :
                 test_bit(shift_right(bm, shift), i) <=> (i >= shift /\ test_bit(bm, i - shift))
<1>1. CASE shift >= Window
  <2>1. shift_right(bm, shift) = Zero
    BY <1>1 DEF shift_right
  <2>2. \A i \in Places : ~(i >= shift)
    BY <1>1, Sizes DEF Places
  <2> QED
    BY <2>1, <2>2, ZeroClear
<1>2. CASE ~(shift >= Window)
  <2> DEFINE bs == shift \div Bits
             s  == shift % Bits
             moved == [i \in Index |-> IF i >= bs THEN bm[i - bs] ELSE 0]
             carry(i) == IF i = 0 THEN 0 ELSE moved[i - 1] \div 2^(Bits - s)
             nm == [i \in Index |-> ((moved[i] * 2^s) % 2^Bits) + carry(i)]
  <2>1. shift_right(bm, shift) = nm
    BY <1>2 DEF shift_right
  <2>2. bs \in Nat /\ s \in 0..(Bits - 1) /\ shift = Bits * bs + s
    BY Sizes, DivMod, DivNat
  <2> HIDE DEF bs, s
  <2>3. moved \in Bitmaps
    BY <2>2, Sizes DEF Bitmaps, Byte, Index
  <2>4. \A i \in Index : moved[i] = IF i >= bs THEN bm[i - bs] ELSE 0
    OBVIOUS
  <2>5. \A i \in Index : nm[i] = ((moved[i] * 2^s) % 2^Bits) + carry(i)
    OBVIOUS
  <2> HIDE DEF moved, nm
  <2> DEFINE before(i) == IF i = 0 THEN 0 ELSE moved[i - 1]
  <2>6. ASSUME NEW i \in Index
        PROVE  /\ nm[i] = ((moved[i] * 2^s) % 2^Bits) + (before(i) \div 2^(Bits - s))
               /\ moved[i] \in Nat /\ before(i) \in Nat /\ before(i) < 2^Bits
    <3>1. moved[i] \in Nat /\ before(i) \in 0..(2^Bits - 1)
      BY <2>3, Sizes DEF Bitmaps, Byte, Index
    <3>2. carry(i) = before(i) \div 2^(Bits - s)
      <4> DEFINE d == 2^(Bits - s)
      <4>1. d \in Nat /\ d > 0
        BY <2>2, Sizes, PowPositive
      <4> HIDE DEF d
      <4>2. 0 \div d = 0
        BY <4>1
      <4> QED
        BY <4>2 DEF d
    <3> HIDE DEF carry, before
    <3>3. before(i) < 2^Bits /\ before(i) \in Nat
      BY <3>1, Sizes
    <3> QED
      BY <2>5, <3>1, <3>2, <3>3
  <2> HIDE DEF before, carry
  <2>7. ASSUME NEW i \in Index
        PROVE  /\ nm[i] \in Byte
               /\ \A j \in s..(Bits - 1) : Bit(nm[i], j) = Bit(moved[i], j - s)
               /\ \A j \in 0..(s - 1) : Bit(nm[i], j) = Bit(before(i), Bits - s + j)
    <3> DEFINE m == moved[i]
               p == before(i)
               v == nm[i]
    <3>1. IsShifted(v, m, p, s, Bits)
      BY <2>2, <2>6, Sizes DEF IsShifted
    <3> HIDE DEF m, p, v
    <3>2. /\ v \in 0..(2^Bits - 1)
          /\ \A j \in s..(Bits - 1) : Bit(v, j) = Bit(m, j - s)
          /\ \A j \in 0..(s - 1) : Bit(v, j) = Bit(p, Bits - s + j)
      BY <3>1, ShiftedByte
    <3> QED
      BY <3>2 DEF m, p, v, Byte
  <2>8. nm \in Bitmaps
    BY <2>7 DEF nm, Bitmaps
  <2>9. ASSUME NEW i \in Places
        PROVE  test_bit(nm, i) <=> (i >= shift /\ test_bit(bm, i - shift))
    <3> DEFINE b == i \div Bits
               j == i % Bits
    <3>1. b \in Index /\ j \in 0..(Bits - 1) /\ i = Bits * b + j
      BY Place
    <3>2. test_bit(nm, i) <=> Bit(nm[b], j) = 1
      BY TestBit
    <3> HIDE DEF b, j
    <3>3. b \in Nat /\ j \in Nat /\ s \in Nat /\ bs \in Nat /\ Bits \in Nat /\ i \in Nat
      BY <2>2, <3>1, Sizes DEF Index, Places
    <3>4. ASSUME NEW k \in Nat
          PROVE  Bit(0, k) # 1
      <4> DEFINE d == 2^k
      <4>1. d \in Nat /\ d > 0
        BY PowPositive
      <4> HIDE DEF d
      <4>2. 0 \div d = 0
        BY <4>1
      <4>3. Bit(0, k) = (0 \div d) % 2
        BY DEF Bit, d
      <4> QED
        BY <4>2, <4>3
    <3>5. ASSUME NEW c \in Int, NEW k \in 0..(Bits - 1), i - shift = Bits * c + k
          PROVE  /\ i >= shift <=> c >= 0
                 /\ i >= shift => (test_bit(bm, i - shift) <=> Bit(bm[c], k) = 1)
      <4>1. i >= shift <=> c >= 0
        <5>1. CASE c >= 0
          <6>1. Bits * c >= 0
            BY <5>1, Sizes
          <6> QED
            BY <3>3, <3>5, <5>1, <6>1
        <5>2. CASE c < 0
          <6>1. Bits * c <= 0 - Bits
            BY <5>2, Sizes
          <6> QED
            BY <3>3, <3>5, <5>2, <6>1, Sizes
        <5> QED
          BY <5>1, <5>2
      <4>2. i - shift \in Int /\ (i - shift) \div Bits = c /\ (i - shift) % Bits = k
        <5> DEFINE n == i - shift
        <5>1. n \in Int /\ n = Bits * c + k
          BY <3>3, <3>5
        <5> HIDE DEF n
        <5>2. n \div Bits = c /\ n % Bits = k
          BY <5>1, Sizes, DivUnique
        <5> QED
          BY <5>1, <5>2 DEF n
      <4> QED
        BY <4>1, <4>2, TestBit
    <3>6. CASE j >= s
      <4>1. j \in s..(Bits - 1) /\ j - s \in 0..(Bits - 1) /\ b - bs \in Int
        BY <2>2, <3>1, <3>3, <3>6
      <4>2. i - shift = Bits * (b - bs) + (j - s)
        BY <2>2, <3>1, <3>3
      <4>3. Bit(nm[b], j) = Bit(moved[b], j - s)
        BY <2>7, <3>1, <4>1
      <4>4. moved[b] = IF b - bs >= 0 THEN bm[b - bs] ELSE 0
        BY <2>4, <3>1, <3>3
      <4>5. /\ i >= shift <=> b - bs >= 0
            /\ i >= shift => (test_bit(bm, i - shift) <=> Bit(bm[b - bs], j - s) = 1)
        BY <3>5, <4>1, <4>2
      <4>6. Bit(0, j - s) # 1
        BY <3>4, <4>1
      <4> QED
        BY <3>2, <4>3, <4>4, <4>5, <4>6
    <3>7. CASE j < s
      <4> DEFINE c == b - 1 - bs
                 k == Bits - s + j
      <4>1. j \in 0..(s - 1) /\ k \in 0..(Bits - 1) /\ c \in Int
        BY <2>2, <3>1, <3>3, <3>7
      <4>2. i - shift = Bits * c + k
        <5>1. Bits * c = Bits * b - Bits - Bits * bs
          BY <3>3
        <5>2. Bits * b \in Nat /\ Bits * bs \in Nat
          BY <3>3
        <5> QED
          BY <2>2, <3>1, <3>3, <5>1, <5>2
      <4>3. Bit(nm[b], j) = Bit(before(b), k)
        BY <2>7, <3>1, <4>1
      <4>4. before(b) = IF c >= 0 THEN bm[c] ELSE 0
        <5>1. CASE b = 0
          BY <3>3, <5>1 DEF before
        <5>2. CASE b # 0
          <6>1. b - 1 \in Index /\ before(b) = moved[b - 1]
            BY <3>1, <5>2, Sizes DEF before, Index
          <6> QED
            BY <2>4, <3>3, <6>1
        <5> QED
          BY <5>1, <5>2
      <4>5. /\ i >= shift <=> c >= 0
            /\ i >= shift => (test_bit(bm, i - shift) <=> Bit(bm[c], k) = 1)
        <5> HIDE DEF c, k
        <5> QED
          BY <3>5, <4>1, <4>2
      <4>6. Bit(0, k) # 1
        BY <3>4, <4>1
      <4> QED
        BY <3>2, <4>3, <4>4, <4>5, <4>6
    <3> QED
      BY <2>2, <3>3, <3>6, <3>7
  <2> QED
    BY <2>1, <2>8, <2>9
<1> QED
  BY <1>1, <1>2

-----------------------------------------------------------------------------
(* The window.                                                             *)

TypeOK ==
    /\ max_seq \in Nat /\ bitmap \in Bitmaps /\ valid \in BOOLEAN
    /\ passed \in SUBSET Seq64

\* The bitmap is the history: bit d stands for the number d below the newest,
\* which is the greatest that passed.
Remembers ==
    /\ max_seq \in passed /\ \A t \in passed : t <= max_seq
    /\ \A d \in Places : test_bit(bitmap, d) <=> (max_seq - d) \in passed

WindowInv ==
    /\ TypeOK
    /\ ~valid => bitmap = Zero /\ passed = {}
    /\ valid => Remembers

\* Differences of sequence numbers survive the conversion to usize.
LEMMA UsizeExact ==
    ASSUME NEW a \in Seq64, NEW b \in Seq64, a <= b
    PROVE  Usize(b - a) = b - a
<1> DEFINE w == 2^UsizeWidth
           n == b - a
<1>1. w \in Nat /\ w > 0 /\ n \in Nat /\ n < w
  BY WindowAssumption, PowPositive DEF Seq64
<1> HIDE DEF w, n
<1>2. n % w = n
  BY <1>1
<1> QED
  BY <1>2 DEF Usize, w, n

\* Whether a late number is in the window and was not passed, as the code
\* decides it, in terms of the history.
LEMMA LateExact ==
    ASSUME WindowInv, valid, NEW s \in Seq64, s <= max_seq
    PROVE  LET d == Usize(max_seq - s)
           IN  /\ d = max_seq - s /\ d \in Nat
               /\ (d < Window /\ ~test_bit(bitmap, d))
                     <=> (s \notin passed /\ \A t \in passed : t - s < Window)
<1> DEFINE d == max_seq - s
<1>1. max_seq \in Seq64 /\ max_seq \in Nat /\ s \in Nat /\ d \in Nat
      /\ \A t \in passed : t \in Nat
  BY WindowAssumption DEF WindowInv, TypeOK, Remembers, Seq64
<1>2. Usize(d) = d
  BY <1>1, UsizeExact
<1>3. Remembers
  BY DEF WindowInv
<1>4. (\A t \in passed : t - s < Window) <=> d < Window
  BY <1>1, <1>3, Sizes DEF Remembers
<1>5. d < Window => (test_bit(bitmap, d) <=> s \in passed)
  <2>1. max_seq - d = s
    BY <1>1
  <2>2. d < Window => d \in Places
    BY <1>1, Sizes DEF Places
  <2> QED
    BY <1>3, <2>1, <2>2 DEF Remembers
<1> QED
  BY <1>1, <1>2, <1>4, <1>5

\* The newest number passes and the others move down by the difference.
LEMMA NewerRemembers ==
    ASSUME WindowInv, valid, NEW s \in Seq64, s > max_seq,
           bitmap' = set_bit(shift_right(bitmap, Usize(s - max_seq)), 0),
           max_seq' = s, passed' = passed \cup {s}
    PROVE  Remembers' /\ bitmap' \in Bitmaps
<1> DEFINE n  == s - max_seq
           sh == shift_right(bitmap, n)
<1>1. max_seq \in Seq64 /\ max_seq \in Nat /\ s \in Nat /\ n \in Nat /\ n > 0
      /\ bitmap \in Bitmaps /\ passed \subseteq Nat
  BY WindowAssumption DEF WindowInv, TypeOK, Remembers, Seq64
<1>2. Usize(s - max_seq) = n
  BY <1>1, UsizeExact
<1>3. 0 \in Places
  BY Sizes DEF Places
<1>4. bitmap' = set_bit(sh, 0)
  BY <1>2
<1> HIDE DEF n
<1>5. /\ sh \in Bitmaps
      /\ \A i \in Places : test_bit(sh, i) <=> (i >= n /\ test_bit(bitmap, i - n))
  BY <1>1, ShiftRight
<1> HIDE DEF sh
<1>6. /\ bitmap' \in Bitmaps
      /\ \A i \in Places : test_bit(bitmap', i) <=> (i = 0 \/ test_bit(sh, i))
  BY <1>3, <1>4, <1>5, SetBit
<1>7. Remembers
  BY DEF WindowInv
<1>8. max_seq' \in passed' /\ \A t \in passed' : t <= max_seq'
  BY <1>1, <1>7 DEF Remembers
<1>9. ASSUME NEW i \in Places
      PROVE  test_bit(bitmap', i) <=> (max_seq' - i) \in passed'
  <2>1. i \in Nat
    BY Sizes DEF Places
  <2>2. CASE i = 0
    BY <1>1, <1>6, <2>2
  <2>3. CASE i # 0 /\ i < n
    <3>1. s - i # s /\ s - i > max_seq /\ s - i \notin passed
      BY <1>1, <1>7, <2>1, <2>3 DEF Remembers, n
    <3> QED
      BY <1>1, <1>5, <1>6, <2>1, <2>3, <3>1
  <2>4. CASE i # 0 /\ i >= n
    <3>1. i - n \in Places /\ max_seq - (i - n) = s - i /\ s - i # s
      BY <1>1, <2>1, <2>4, Sizes DEF Places, n
    <3>2. test_bit(bitmap, i - n) <=> (s - i) \in passed
      BY <1>7, <3>1 DEF Remembers
    <3> QED
      BY <1>5, <1>6, <2>4, <3>1, <3>2
  <2> QED
    BY <1>1, <2>1, <2>2, <2>3, <2>4
<1> QED
  BY <1>6, <1>8, <1>9 DEF Remembers

LEMMA WindowInit == Init => WindowInv
<1>1. 0 \in Nat
  OBVIOUS
<1> QED
  BY <1>1, ZeroClear DEF Init, WindowInv, TypeOK

LEMMA AcceptFirstStep == ASSUME WindowInv, NEW s \in Seq64, AcceptFirst(s) PROVE WindowInv'
<1>1. /\ ~valid /\ valid' = TRUE /\ max_seq' = s /\ bitmap' = set_bit(Zero, 0) /\ passed' = {s}
      /\ passed = {}
  BY DEF AcceptFirst, WindowInv
<1>2. 0 \in Places /\ s \in Nat /\ s - 0 = s
  BY Sizes, WindowAssumption DEF Places, Seq64
<1>3. bitmap' \in Bitmaps /\ \A i \in Places : test_bit(bitmap', i) <=> i = 0
  BY <1>1, <1>2, ZeroClear, SetBit
<1>4. \A i \in Places : i = 0 <=> (s - i) \in {s}
  BY <1>2, Sizes DEF Places
<1>5. Remembers'
  BY <1>1, <1>2, <1>3, <1>4 DEF Remembers
<1>6. TypeOK'
  BY <1>1, <1>2, <1>3 DEF TypeOK, WindowInv
<1> QED
  BY <1>1, <1>5, <1>6 DEF WindowInv

LEMMA AcceptNewerStep == ASSUME WindowInv, NEW s \in Seq64, AcceptNewer(s) PROVE WindowInv'
<1>1. /\ valid /\ s > max_seq /\ valid' = valid /\ max_seq' = s /\ passed' = passed \cup {s}
      /\ bitmap' = set_bit(shift_right(bitmap, Usize(s - max_seq)), 0)
  BY DEF AcceptNewer
<1>2. Remembers' /\ bitmap' \in Bitmaps
  BY <1>1, NewerRemembers
<1>3. s \in Nat
  BY WindowAssumption DEF Seq64
<1> QED
  BY <1>1, <1>2, <1>3 DEF WindowInv, TypeOK

LEMMA AcceptOlderStep == ASSUME WindowInv, NEW s \in Seq64, AcceptOlder(s) PROVE WindowInv'
<1> DEFINE d  == Usize(max_seq - s)
           ok == d < Window /\ ~test_bit(bitmap, d)
<1>1. /\ valid /\ s <= max_seq /\ UNCHANGED <<max_seq, valid>>
      /\ bitmap' = IF ok THEN set_bit(bitmap, d) ELSE bitmap
      /\ passed' = IF ok THEN passed \cup {s} ELSE passed
  BY DEF AcceptOlder
<1>2. d = max_seq - s /\ d \in Nat
  BY <1>1, LateExact
<1>3. TypeOK /\ Remembers /\ max_seq \in Nat /\ s \in Nat /\ passed \subseteq Nat
  BY <1>1, WindowAssumption DEF WindowInv, TypeOK, Seq64
<1> HIDE DEF d
<1>4. CASE ~ok
  BY <1>1, <1>3, <1>4 DEF WindowInv, TypeOK, Remembers, test_bit
<1>5. CASE ok
  <2>1. d \in Places
    BY <1>2, <1>5, Sizes DEF Places
  <2>2. /\ bitmap' \in Bitmaps
        /\ \A i \in Places : test_bit(bitmap', i) <=> (i = d \/ test_bit(bitmap, i))
    BY <1>1, <1>3, <1>5, <2>1, SetBit DEF TypeOK
  <2>3. ASSUME NEW i \in Places
        PROVE  test_bit(bitmap', i) <=> (max_seq' - i) \in passed'
    <3>1. i \in Nat
      BY Sizes DEF Places
    <3>2. i = d <=> max_seq - i = s
      BY <1>2, <1>3, <3>1
    <3>3. passed' = passed \cup {s} /\ max_seq' = max_seq
      BY <1>1, <1>5
    <3> QED
      BY <1>3, <2>2, <3>2, <3>3 DEF Remembers
  <2>4. max_seq' \in passed' /\ \A t \in passed' : t <= max_seq'
    BY <1>1, <1>3, <1>5 DEF Remembers
  <2>5. Remembers'
    BY <2>3, <2>4 DEF Remembers
  <2>6. TypeOK'
    BY <1>1, <1>3, <1>5, <2>2 DEF TypeOK
  <2> QED
    BY <1>1, <2>5, <2>6 DEF WindowInv
<1> QED
  BY <1>4, <1>5

LEMMA ClearStep == ASSUME WindowInv, clear PROVE WindowInv'
BY ZeroClear DEF clear, WindowInv, TypeOK

LEMMA WindowStep == ASSUME WindowInv, [Next]_vars PROVE WindowInv'
<1>1. CASE Next
  BY <1>1, AcceptFirstStep, AcceptNewerStep, AcceptOlderStep, ClearStep DEF Next
<1>2. CASE UNCHANGED vars
  BY <1>2 DEF vars, WindowInv, TypeOK, Remembers, test_bit
<1> QED
  BY <1>1, <1>2

\* The bitmap always holds exactly the numbers passed since the last clear that
\* lie in the window below the newest, whatever jumps there were.
THEOREM WindowCorrect == Spec => []WindowInv
  BY WindowInit, WindowStep, PTL DEF Spec

\* can_accept, which precheck_replay asks before a packet is authenticated, says
\* yes to exactly the numbers that were not passed and are not too old.
THEOREM CanAcceptIsExact == Spec => []CanAcceptExact
<1>1. ASSUME WindowInv PROVE CanAcceptExact
  <2> SUFFICES ASSUME NEW s \in Seq64
               PROVE  can_accept(s) <=> s \notin passed /\ \A t \in passed : t - s < Window
    BY DEF CanAcceptExact
  <2>1. CASE ~valid
    BY <1>1, <2>1 DEF can_accept, WindowInv
  <2>2. CASE valid /\ s > max_seq
    <3>1. s \notin passed /\ \A t \in passed : t - s < Window
      BY <1>1, <2>2, Sizes, WindowAssumption DEF WindowInv, TypeOK, Remembers, Seq64
    <3> QED
      BY <2>2, <3>1 DEF can_accept
  <2>3. CASE valid /\ ~(s > max_seq)
    <3>1. s <= max_seq
      BY <1>1, <2>3, WindowAssumption DEF WindowInv, TypeOK, Seq64
    <3> QED
      BY <1>1, <2>3, <3>1, LateExact DEF can_accept
  <2> QED
    BY <2>1, <2>2, <2>3
<1> QED
  BY <1>1, WindowCorrect, PTL

\* An accept, in whichever of its three branches, offers its number to the
\* abstract window.
LEMMA AcceptIsOffer ==
    ASSUME WindowInv, NEW s \in Seq64, AcceptFirst(s) \/ AcceptNewer(s) \/ AcceptOlder(s)
    PROVE  Abstract!Offer(s)
<1> DEFINE ok == s \notin passed /\ \A t \in passed : t - s < Window
<1>1. CASE AcceptFirst(s)
  <2>1. ok /\ passed' = passed \cup {s} /\ last' = [seq |-> s, ok |-> TRUE]
    BY <1>1 DEF AcceptFirst, WindowInv
  <2> QED
    BY <2>1 DEF Abstract!Offer, Abstract!InReach
<1>2. CASE AcceptNewer(s)
  <2>1. ok
    BY <1>2, Sizes, WindowAssumption DEF AcceptNewer, WindowInv, TypeOK, Remembers, Seq64
  <2>2. passed' = passed \cup {s} /\ last' = [seq |-> s, ok |-> TRUE]
    BY <1>2 DEF AcceptNewer
  <2> QED
    BY <2>1, <2>2 DEF Abstract!Offer, Abstract!InReach
<1>3. CASE AcceptOlder(s)
  <2> DEFINE d    == Usize(max_seq - s)
             late == d < Window /\ ~test_bit(bitmap, d)
  <2>1. valid /\ s <= max_seq
    BY <1>3 DEF AcceptOlder
  <2>2. late <=> ok
    BY <2>1, LateExact
  <2>3. /\ passed' = IF late THEN passed \cup {s} ELSE passed
        /\ last' = [seq |-> s, ok |-> late]
    BY <1>3 DEF AcceptOlder
  <2> HIDE DEF late, d
  <2>4. late \in BOOLEAN /\ ok \in BOOLEAN
    BY DEF late
  <2>5. late = ok
    BY <2>2, <2>4
  <2> QED
    BY <2>3, <2>5 DEF Abstract!Offer, Abstract!InReach
<1> QED
  BY <1>1, <1>2, <1>3

\* The 256-bit window of the code implements the abstract one: no number passes
\* twice, none newer than all is refused, and below that exactly the passed and
\* the too old ones are.
THEOREM WindowImplements == Spec => Implements
<1>1. Init => Abstract!Init
  BY DEF Init, Abstract!Init
<1>2. ASSUME WindowInv, [Next]_vars
      PROVE  [Abstract!Next]_<<passed, last>>
  <2>1. CASE clear
    BY <2>1 DEF clear, Abstract!Next, Abstract!Clear
  <2>2. ASSUME NEW s \in Seq64, AcceptFirst(s) \/ AcceptNewer(s) \/ AcceptOlder(s)
        PROVE  Abstract!Next
    <3>1. Abstract!Offer(s)
      BY <1>2, <2>2, AcceptIsOffer
    <3>2. s \in Abstract!Seq64
      BY DEF Seq64, Abstract!Seq64
    <3> QED
      BY <3>1, <3>2 DEF Abstract!Next
  <2>3. CASE UNCHANGED vars
    BY <2>3 DEF vars
  <2> QED
    BY <1>2, <2>1, <2>2, <2>3 DEF Next
<1> QED
  BY <1>1, <1>2, WindowCorrect, PTL DEF Spec, Implements, Abstract!Spec
=============================================================================
