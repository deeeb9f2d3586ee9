--------------------------- MODULE WrapArithmetic ---------------------------
(***************************************************************************)
(* Facts about indices that wrap: subtraction modulo the index range, and  *)
(* the masking of an index to a slot of a power-of-two ring.  The queue    *)
(* proofs rest on them and on no other property of % and \div.  Then       *)
(* induction, over the naturals and over finite sets, for a property given *)
(* as a set, and what it says of sums.  Last, runs of consecutive units of *)
(* a byte stream: joined, cut, and read off as whole records.              *)
(***************************************************************************)
EXTENDS Integers, Sequences, FiniteSetTheorems, SequenceTheorems, TLAPS

\* Division with remainder, as the provers know it.
LEMMA DivMod ==
    ASSUME NEW C \in Nat \ {0}, NEW x \in Int
    PROVE  /\ x \div C \in Int
           /\ x % C \in 0..(C - 1)
           /\ x = C * (x \div C) + (x % C)
OBVIOUS

LEMMA MulGe ==
    ASSUME NEW C \in Nat \ {0}, NEW k \in Int, k >= 1
    PROVE  C * k >= C
OBVIOUS

LEMMA MulDiff ==
    ASSUME NEW C \in Int, NEW a \in Int, NEW b \in Int
    PROVE  C * a \in Int /\ C * b \in Int /\ C * a - C * b = C * (a - b)
OBVIOUS

\* Quotient and remainder are unique.
LEMMA DivUnique ==
    ASSUME NEW C \in Nat \ {0}, NEW p \in Int, NEW q \in Int,
           NEW r \in 0..(C - 1), NEW s \in 0..(C - 1),
           C * p + r = C * q + s
    PROVE  r = s /\ p = q
<1>1. C * (p - q) = s - r
  BY MulDiff
<1>2. C * (q - p) = r - s
  BY MulDiff
<1>3. ~ (p - q >= 1)
  BY <1>1, MulGe
<1>4. ~ (q - p >= 1)
  BY <1>2, MulGe
<1>5. p = q
  BY <1>3, <1>4
<1>6. QED
  BY <1>5

\* Fewer than C consecutive integers have distinct remainders modulo C: the
\* slots of a ring that holds at most C elements do not collide.
LEMMA ModInjective ==
    ASSUME NEW C \in Nat \ {0}, NEW x \in Int, NEW y \in Int,
           x % C = y % C, x <= y, y < x + C
    PROVE  x = y
<1> DEFINE p == x \div C
           q == y \div C
           r == x % C
<1>1. /\ p \in Int /\ q \in Int /\ r \in 0..(C - 1)
      /\ x = C * p + r /\ y = C * q + r
  BY DivMod
<1> HIDE DEF p, q, r
<1>2. y - x = C * q - C * p
  BY <1>1, MulDiff
<1>3. y - x = C * (q - p) /\ x - y = C * (p - q)
  BY <1>1, <1>2, MulDiff
<1>4. ~ (q - p >= 1)
  BY <1>1, <1>3, MulGe
<1>5. ~ (p - q >= 1)
  BY <1>1, <1>3, MulGe
<1>6. QED
  BY <1>1, <1>4, <1>5

\* Adding a multiple of C does not change the remainder.
LEMMA ModPlusMultiple ==
    ASSUME NEW C \in Nat \ {0}, NEW K \in Int, NEW x \in Int
    PROVE  (x + C * K) % C = x % C
<1> DEFINE q == x \div C
           r == x % C
           z == x + C * K
           zq == z \div C
           zr == z % C
<1>1. q \in Int /\ r \in 0..(C - 1) /\ x = C * q + r
  BY DivMod
<1>2. z \in Int
  OBVIOUS
<1>3. zq \in Int /\ zr \in 0..(C - 1) /\ z = C * zq + zr
  BY <1>2, DivMod
<1> HIDE DEF q, r, zq, zr
<1>4. z = C * (q + K) + r
  BY <1>1
<1> HIDE DEF z
<1>5. zr = r
  <2>1. q + K \in Int
    BY <1>1
  <2>2. C * (q + K) + r = C * zq + zr
    BY <1>3, <1>4
  <2>3. QED
    BY <1>1, <1>3, <2>1, <2>2, DivUnique
<1>6. QED
  BY <1>5 DEF z, zr, r

\* Products of integers, as the leaves below need them.
LEMMA Mul3 ==
    ASSUME NEW x \in Int, NEW y \in Int, NEW z \in Int
    PROVE  /\ x * y \in Int /\ (x * y) * z = x * (y * z) /\ (x * y) * z = (x * z) * y /\ x * y = y * x
           /\ (x + y) * z = x * z + y * z /\ (x - y) * z = x * z - y * z /\ z * (x + y) = z * x + z * y
           /\ z * (x - y) = z * x - z * y /\ (-x) * z = -(x * z)
OBVIOUS

\* A positive factor cancels.
LEMMA Cancel ==
    ASSUME NEW c \in Nat \ {0}, NEW x \in Int, NEW y \in Int, c * x = c * y
    PROVE  x = y
<1>1. c * (x - y) = 0
    BY MulDiff
<1>2. c * (y - x) = 0
    BY MulDiff
<1>3. ~(x - y >= 1)
    BY <1>1, MulGe
<1>4. ~(y - x >= 1)
    BY <1>2, MulGe
<1> QED
    BY <1>3, <1>4

-----------------------------------------------------------------------------
(* Induction.                                                              *)

\* Induction over the naturals, for a property given as a set.
LEMMA SetInduction ==
    ASSUME NEW S, 0 \in S, \A n \in Nat : n \in S => n + 1 \in S
    PROVE  Nat \subseteq S
<1> DEFINE T == {n \in Nat : n \notin S}
           R == OpToRel(<, Nat)
<1>1. IsWellFoundedOn(R, Nat)
    BY NatLessThanWellFounded DEF OpToRel
<1>2. SUFFICES ASSUME T # {} PROVE FALSE
    OBVIOUS
<1>3. T \subseteq Nat
    OBVIOUS
<1>4. \A x, y \in Nat : x < y => <<x, y>> \in R
    BY DEF OpToRel
<1> HIDE DEF R, T
<1>5. PICK x \in T : \A y \in T : ~(<<y, x>> \in R)
    BY <1>1, <1>2, <1>3, WFMin
<1> USE DEF T
<1>6. x \in Nat /\ x # 0
    OBVIOUS
<1>7. x - 1 \in Nat /\ x - 1 < x /\ (x - 1) + 1 = x
    BY <1>6
<1>8. x - 1 \in T
    BY <1>7
<1> QED
    BY <1>4, <1>5, <1>6, <1>7, <1>8

\* Induction over the subsets of a finite set.
LEMMA FiniteInduction ==
    ASSUME NEW S, IsFiniteSet(S), NEW P, {} \in P,
           \A T \in SUBSET S : \A x \in S : T \in P /\ x \notin T => T \cup {x} \in P
    PROVE  \A T \in SUBSET S : T \in P
<1> DEFINE Q == {n \in Nat : \A T \in SUBSET S : Cardinality(T) = n => T \in P}
<1>0. \A T \in SUBSET S : IsFiniteSet(T) /\ Cardinality(T) \in Nat
    BY FS_Subset, FS_CardinalityType
<1>1. 0 \in Q
    BY <1>0, FS_EmptySet
<1>2. ASSUME NEW n \in Nat, n \in Q PROVE n + 1 \in Q
  <2> SUFFICES ASSUME NEW T \in SUBSET S, Cardinality(T) = n + 1 PROVE T \in P
      OBVIOUS
  <2>0. Cardinality({}) = 0 /\ n + 1 # 0
      BY FS_EmptySet
  <2>1. T # {}
      BY <2>0
  <2>2. PICK x \in T : TRUE
      BY <2>1
  <2>a. IsFiniteSet(T) /\ T \ {x} \in SUBSET S
      BY <1>0
  <2>b. Cardinality(T \ {x}) = Cardinality(T) - 1
      BY <2>a, FS_RemoveElement
  <2>3. Cardinality(T \ {x}) = n /\ T \ {x} \in SUBSET S
      BY <2>a, <2>b
  <2>4. T \ {x} \in P
      BY <1>2, <2>3
  <2>5. (T \ {x}) \cup {x} = T
      OBVIOUS
  <2> QED
      BY <2>3, <2>4, <2>5
<1> HIDE DEF Q
<1>3. Nat \subseteq Q
    BY <1>1, <1>2, SetInduction
<1> QED
    BY <1>0, <1>3 DEF Q

\* F gives the sum of v over every subset of S.
Sums(F, v, S) ==
    /\ F \in [SUBSET S -> Int] /\ F[{}] = 0
    /\ \A T \in SUBSET S : \A x \in T : F[T] = F[T \ {x}] + v[x]

\* A finite set has its sums.
LEMMA SumsExist ==
    ASSUME NEW S, IsFiniteSet(S), NEW v, \A x \in S : v[x] \in Int
    PROVE  \E F : Sums(F, v, S)
<1> DEFINE P == {T \in SUBSET S : \E F : Sums(F, v, T)}
<1>1. {} \in P
  <2> DEFINE F == [T \in SUBSET {} |-> 0]
  <2>1. Sums(F, v, {})
      BY DEF Sums
  <2> QED
      BY <2>1
<1>2. ASSUME NEW T \in SUBSET S, NEW a \in S, T \in P, a \notin T PROVE T \cup {a} \in P
  <2>1. PICK F : Sums(F, v, T)
      BY <1>2
  <2> DEFINE G == [U \in SUBSET (T \cup {a}) |-> IF a \in U THEN F[U \ {a}] + v[a] ELSE F[U]]
  <2>2. \A U \in SUBSET (T \cup {a}) : U \ {a} \in SUBSET T /\ (a \notin U => U \in SUBSET T)
      OBVIOUS
  <2>3. \A U \in SUBSET T : F[U] \in Int
      BY <2>1 DEF Sums
  <2>4. v[a] \in Int /\ \A x \in T : v[x] \in Int
      OBVIOUS
  <2>5. G \in [SUBSET (T \cup {a}) -> Int]
      BY <2>2, <2>3, <2>4
  <2>6. G[{}] = 0
      BY <2>1 DEF Sums
  <2>7. ASSUME NEW U \in SUBSET (T \cup {a}), NEW x \in U PROVE G[U] = G[U \ {x}] + v[x]
    <3>0. U \ {x} \in SUBSET (T \cup {a})
        OBVIOUS
    <3>1. CASE x = a
      <4>1. G[U] = F[U \ {a}] + v[a]
          BY <3>1
      <4>2. G[U \ {x}] = F[U \ {a}]
          BY <3>0, <3>1
      <4> QED
          BY <3>1, <4>1, <4>2
    <3>2. CASE x # a /\ a \notin U
      <4>1. G[U] = F[U] /\ G[U \ {x}] = F[U \ {x}] /\ U \in SUBSET T
          BY <2>2, <3>0, <3>2
      <4> QED
          BY <2>1, <4>1 DEF Sums
    <3>3. CASE x # a /\ a \in U
      <4>1. G[U] = F[U \ {a}] + v[a] /\ G[U \ {x}] = F[(U \ {x}) \ {a}] + v[a]
          BY <3>0, <3>3
      <4>2. (U \ {x}) \ {a} = (U \ {a}) \ {x} /\ U \ {a} \in SUBSET T /\ x \in U \ {a} /\ (U \ {a}) \ {x} \in SUBSET T
          BY <2>2, <3>3
      <4>3. F[U \ {a}] = F[(U \ {a}) \ {x}] + v[x]
          BY <2>1, <4>2 DEF Sums
      <4>4. F[(U \ {a}) \ {x}] \in Int /\ v[x] \in Int
          BY <2>3, <2>4, <3>3, <4>2
      <4>5. PICK p \in Int, q \in Int, r \in Int : p = F[(U \ {a}) \ {x}] /\ q = v[x] /\ r = v[a]
          BY <2>4, <4>4
      <4>6. G[U] = (p + q) + r /\ G[U \ {x}] = p + r
          BY <4>1, <4>2, <4>3, <4>5
      <4> QED
          BY <4>5, <4>6
    <3> QED
        BY <3>1, <3>2, <3>3
  <2> HIDE DEF G
  <2>8. Sums(G, v, T \cup {a})
      BY <2>5, <2>6, <2>7 DEF Sums
  <2> QED
      BY <2>8
<1> HIDE DEF P
<1>3. \A T \in SUBSET S : T \in P
    BY <1>1, <1>2, FiniteInduction
<1> QED
    BY <1>3 DEF P

\* G takes the elements of a set off in some order.
TakesOff(G, v, S) ==
    /\ G[{}] = 0
    /\ \A T \in SUBSET S : T # {} => \E x \in T : G[T \ {x}] \in Int => G[T] = G[T \ {x}] + v[x]

\* A function that does computes the sum.
LEMMA SumsUnique ==
    ASSUME NEW S, IsFiniteSet(S), NEW v, NEW F, Sums(F, v, S), NEW G, TakesOff(G, v, S)
    PROVE  G[S] = F[S]
<1> DEFINE Q == {n \in Nat : \A T \in SUBSET S : Cardinality(T) = n => G[T] = F[T]}
<1>0. \A T \in SUBSET S : IsFiniteSet(T) /\ Cardinality(T) \in Nat
    BY FS_Subset, FS_CardinalityType
<1>1. 0 \in Q
    BY <1>0, FS_EmptySet DEF Sums, TakesOff
<1>2. ASSUME NEW n \in Nat, n \in Q PROVE n + 1 \in Q
  <2> SUFFICES ASSUME NEW T \in SUBSET S, Cardinality(T) = n + 1 PROVE G[T] = F[T]
      OBVIOUS
  <2>0. Cardinality({}) = 0 /\ n + 1 # 0
      BY FS_EmptySet
  <2>1. T # {}
      BY <2>0
  <2>2. PICK x \in T : G[T \ {x}] \in Int => G[T] = G[T \ {x}] + v[x]
      BY <2>1 DEF TakesOff
  <2>a. IsFiniteSet(T) /\ T \ {x} \in SUBSET S
      BY <1>0
  <2>b. Cardinality(T \ {x}) = Cardinality(T) - 1
      BY <2>a, FS_RemoveElement
  <2>3. Cardinality(T \ {x}) = n /\ T \ {x} \in SUBSET S
      BY <2>a, <2>b
  <2>4. G[T \ {x}] = F[T \ {x}]
      BY <1>2, <2>3
  <2> QED
      BY <2>2, <2>4 DEF Sums
<1> HIDE DEF Q
<1>3. Nat \subseteq Q
    BY <1>1, <1>2, SetInduction
<1> QED
    BY <1>0, <1>3 DEF Q

\* A non-empty set of naturals has a least element.
LEMMA LeastNat ==
    ASSUME NEW T, T \subseteq Nat, T # {}
    PROVE  \E x \in T : \A y \in T : x <= y
<1> DEFINE S == {n \in Nat : \A m \in 0..n : m \in T => \E x \in T : \A y \in T : x <= y}
<1>1. 0 \in S
    OBVIOUS
<1>2. ASSUME NEW n \in Nat, n \in S PROVE n + 1 \in S
  <2> SUFFICES ASSUME NEW m \in 0..(n + 1), m \in T PROVE \E x \in T : \A y \in T : x <= y
      OBVIOUS
  <2>1. CASE \E k \in T : k < m
      BY <1>2, <2>1
  <2>2. CASE \A k \in T : ~(k < m)
      BY <2>2
  <2> QED
      BY <2>1, <2>2
<1> HIDE DEF S
<1>3. Nat \subseteq S
    BY <1>1, <1>2, SetInduction
<1>4. PICK t \in T : TRUE
    OBVIOUS
<1> QED
    BY <1>3, <1>4 DEF S
-----------------------------------------------------------------------------
(* Runs of consecutive units, and the records and frames they are cut into. *)

\* A unit of ciphertext or of plaintext, by its number.
Cells == {"ct", "pt"} \X Int

\* The n units behind unit a.
UnitsFrom(kind, a, n) == [i \in 1..n |-> <<kind, a + i>>]

\* A run is a sequence of units, and its i-th is unit a + i.
LEMMA UnitsTyped ==
    ASSUME NEW kind \in {"ct", "pt"}, NEW a \in Int, NEW n \in Nat
    PROVE  /\ UnitsFrom(kind, a, n) \in Seq(Cells) /\ Len(UnitsFrom(kind, a, n)) = n
           /\ \A i \in 1..n : UnitsFrom(kind, a, n)[i] = <<kind, a + i>>
BY DEF UnitsFrom, Cells

\* A sequence that holds the units is the run.
LEMMA IsRun ==
    ASSUME NEW kind \in {"ct", "pt"}, NEW a \in Int, NEW n \in Nat, NEW s \in Seq(Cells), Len(s) = n,
           \A i \in 1..n : s[i] = <<kind, a + i>>
    PROVE  s = UnitsFrom(kind, a, n)
<1>1. DOMAIN s = 1..n /\ s = [i \in 1..n |-> s[i]]
    BY LenProperties
<1> QED
    BY <1>1 DEF UnitsFrom

\* The empty run.
LEMMA NoUnits ==
    ASSUME NEW kind, NEW a
    PROVE  << >> = UnitsFrom(kind, a, 0) /\ << >> \in Seq(Cells) /\ Len(<< >>) = 0
BY DEF UnitsFrom

\* Two runs that adjoin are one.
LEMMA RunsJoin ==
    ASSUME NEW kind \in {"ct", "pt"}, NEW a \in Int, NEW n \in Nat, NEW m \in Nat
    PROVE  UnitsFrom(kind, a, n) \o UnitsFrom(kind, a + n, m) = UnitsFrom(kind, a, n + m)
<1>1. PICK s, t, u : s = UnitsFrom(kind, a, n) /\ t = UnitsFrom(kind, a + n, m) /\ u = s \o t
    OBVIOUS
<1>2. /\ s \in Seq(Cells) /\ Len(s) = n /\ \A i \in 1..n : s[i] = <<kind, a + i>>
      /\ t \in Seq(Cells) /\ Len(t) = m /\ \A i \in 1..m : t[i] = <<kind, (a + n) + i>>
  <2>1. a + n \in Int
      OBVIOUS
  <2> QED
      BY <1>1, <2>1, UnitsTyped
<1>3. /\ u \in Seq(Cells) /\ Len(u) = n + m
      /\ \A i \in 1..(n + m) : u[i] = IF i <= n THEN s[i] ELSE t[i - n]
    BY <1>1, <1>2, ConcatProperties
<1>4. ASSUME NEW i \in 1..(n + m) PROVE u[i] = <<kind, a + i>>
  <2>1. CASE i <= n
      BY <1>2, <1>3, <2>1
  <2>2. CASE i > n
    <3>1. i - n \in 1..m /\ (a + n) + (i - n) = a + i
        BY <2>2
    <3> QED
        BY <1>2, <1>3, <2>2, <3>1
  <2> QED
      BY <2>1, <2>2
<1>5. u = UnitsFrom(kind, a, n + m)
  <2>1. n + m \in Nat
      OBVIOUS
  <2> QED
      BY <1>3, <1>4, <2>1, IsRun
<1> QED
    BY <1>1, <1>5

\* What is left of a sequence.
LEMMA TailOf ==
    ASSUME NEW S, NEW b \in Seq(S), NEW n \in Nat, Len(b) = n, NEW c \in Nat, c <= n
    PROVE  /\ SubSeq(b, c + 1, n) \in Seq(S) /\ Len(SubSeq(b, c + 1, n)) = n - c
           /\ \A i \in 1..(n - c) : SubSeq(b, c + 1, n)[i] = b[c + i]
<1>2. \A i \in (c + 1)..n : b[i] \in S
    BY ElementOfSeq
<1>3. /\ SubSeq(b, c + 1, n) \in Seq(S) /\ Len(SubSeq(b, c + 1, n)) = IF c + 1 <= n THEN n - (c + 1) + 1 ELSE 0
      /\ \A i \in 1..(n - (c + 1) + 1) : SubSeq(b, c + 1, n)[i] = b[(c + 1) + i - 1]
    BY <1>2, SubSeqProperties
<1>4. Len(SubSeq(b, c + 1, n)) = n - c
    BY <1>3
<1>5. ASSUME NEW i \in 1..(n - c) PROVE SubSeq(b, c + 1, n)[i] = b[c + i]
  <2>1. i \in 1..(n - (c + 1) + 1) /\ (c + 1) + i - 1 = c + i
      OBVIOUS
  <2> QED
      BY <1>3, <2>1
<1> QED
    BY <1>3, <1>4, <1>5

\* What is left of a run is a run.
LEMMA TailOfRun ==
    ASSUME NEW kind \in {"ct", "pt"}, NEW a \in Int, NEW n \in Nat, NEW c \in 0..n, NEW b, b = UnitsFrom(kind, a, n)
    PROVE  SubSeq(b, c + 1, n) = UnitsFrom(kind, a + c, n - c)
<1>1. b \in Seq(Cells) /\ Len(b) = n /\ \A i \in 1..n : b[i] = <<kind, a + i>>
    BY UnitsTyped
<1>2. PICK s : s = SubSeq(b, c + 1, n)
    OBVIOUS
<1>3. s \in Seq(Cells) /\ Len(s) = n - c /\ \A i \in 1..(n - c) : s[i] = b[c + i]
    BY <1>1, <1>2, TailOf
<1>4. ASSUME NEW i \in 1..(n - c) PROVE s[i] = <<kind, (a + c) + i>>
  <2>1. c + i \in 1..n /\ a + (c + i) = (a + c) + i
      OBVIOUS
  <2> QED
      BY <1>1, <1>3, <2>1
<1>5. n - c \in Nat /\ a + c \in Int
    OBVIOUS
<1> QED
    BY <1>2, <1>3, <1>4, <1>5, IsRun

\* Quotient and rest of a length.
LEMMA WholeParts ==
    ASSUME NEW L \in Nat \ {0}, NEW x \in Nat
    PROVE  x \div L \in Nat /\ (x \div L) * L \in Nat /\ (x \div L) * L <= x /\ x < (x \div L) * L + L
<1>1. PICK q \in Int, r \in 0..(L - 1) : q = x \div L /\ x = L * q + r
    BY DivMod
<1>2. ~(q < 0)
  <2> SUFFICES ASSUME q < 0 PROVE FALSE
      OBVIOUS
  <2>1. L * (-q) >= L
      BY MulGe
  <2>2. L * (-q) = -(L * q) /\ L * q \in Int
      BY Mul3
  <2> QED
      BY <1>1, <2>1, <2>2
<1>3. q * L = L * q /\ L * q \in Int
    BY Mul3
<1>4. x - r = q * L /\ q \in Nat /\ q * L \in Nat
  <2>1. L * q >= 0
      BY <1>2, MulGe, <1>3
  <2> QED
      BY <1>1, <1>2, <1>3, <2>1
<1> QED
    BY <1>1, <1>3, <1>4

\* A product of naturals grows with its factor.
LEMMA MulGrows ==
    ASSUME NEW L \in Nat \ {0}, NEW p \in Nat, NEW q \in Nat
    PROVE  /\ p * L \in Nat /\ (p < q => p * L + L <= q * L) /\ (p <= q => p * L <= q * L)
           /\ (p * L < q * L => p < q) /\ (p + q) * L = p * L + q * L
<1>1. p * L \in Int /\ q * L \in Int /\ p * L = L * p /\ q * L = L * q /\ (p + q) * L = p * L + q * L
      /\ (q - p) * L = q * L - p * L /\ (p - q) * L = p * L - q * L
      /\ L * (q - p) = (q - p) * L /\ L * (p - q) = (p - q) * L
    BY Mul3
<1>2. p >= 1 => L * p >= L
    BY MulGe
<1>3. p < q => L * (q - p) >= L
    BY MulGe
<1>4. p > q => L * (p - q) >= L
    BY MulGe
<1>5. p = 0 => p * L = 0
    OBVIOUS
<1>6. p = q => p * L = q * L
    OBVIOUS
<1> QED
    BY <1>1, <1>2, <1>3, <1>4, <1>5, <1>6

\* The L units of b behind the first p are the record behind base.
RecordAt(b, p, L, base) == SubSeq(SubSeq(b, p + 1, Len(b)), 1, L) = [i \in 1..L |-> <<"ct", base + i>>]

\* The units of one record, by their places in b.
LEMMA OneRecord ==
    ASSUME NEW L \in Nat \ {0}, NEW b \in Seq(Cells), NEW base \in Int, NEW p \in Nat,
           p + L <= Len(b), RecordAt(b, p, L, base)
    PROVE  \A i \in 1..L : b[p + i] = <<"ct", base + i>>
<1> TAKE i \in 1..L
<1>3. PICK w \in Nat : Len(b) = w /\ p + L <= w
    BY LenProperties
<1>4. PICK s : s = SubSeq(b, p + 1, w)
    OBVIOUS
<1>5. s \in Seq(Cells) /\ Len(s) = w - p /\ \A y \in 1..(w - p) : s[y] = b[p + y]
  <2>1. p <= w /\ Len(b) = w
      BY <1>3
  <2>2. /\ SubSeq(b, p + 1, w) \in Seq(Cells) /\ Len(SubSeq(b, p + 1, w)) = w - p
        /\ \A y \in 1..(w - p) : SubSeq(b, p + 1, w)[y] = b[p + y]
      BY <2>1, TailOf
  <2> QED
      BY <1>4, <2>2
<1>6. \A y \in 1..L : s[y] \in Cells
  <2>1. \A y \in 1..L : y \in 1..Len(s)
      BY <1>3, <1>5
  <2> QED
      BY <1>5, <2>1, ElementOfSeq
<1>7. \A y \in 1..(L - 1 + 1) : SubSeq(s, 1, L)[y] = s[1 + y - 1]
    BY <1>6, SubSeqProperties
<1>8. i \in 1..(L - 1 + 1) /\ 1 + i - 1 = i /\ i \in 1..(w - p)
    BY <1>3
<1>9. SubSeq(s, 1, L)[i] = s[i]
    BY <1>7, <1>8
<1>10. s[i] = b[p + i]
    BY <1>5, <1>8
<1>11. SubSeq(s, 1, L)[i] = <<"ct", base + i>>
    BY <1>3, <1>4 DEF RecordAt
<1> QED
    BY <1>9, <1>10, <1>11

\* n records at the head of b, each the next of the units behind base.
LEMMA RecordUnits ==
    ASSUME NEW L \in Nat \ {0}, NEW b \in Seq(Cells), NEW base \in Int, NEW n \in Nat, n * L <= Len(b),
           \A k \in 0..(n - 1) : RecordAt(b, k * L, L, base + k * L)
    PROVE  \A j \in 1..(n * L) : b[j] = <<"ct", base + j>>
<1> SUFFICES ASSUME NEW j \in 1..(n * L) PROVE b[j] = <<"ct", base + j>>
    OBVIOUS
<1>0. n * L \in Nat
    BY MulGrows
<1>1. PICK k \in Nat, x \in Nat : x = j - 1 /\ k = x \div L /\ k * L \in Nat /\ k * L <= x /\ x < k * L + L
  <2>1. j - 1 \in Nat
      BY <1>0
  <2> QED
      BY <2>1, WholeParts
<1>2. k < n
    BY <1>0, <1>1, MulGrows
<1>3. PICK w \in Nat, p \in Nat, i \in 1..L : w = Len(b) /\ p = k * L /\ j = p + i /\ p + L <= w
  <2>1. k * L + L <= n * L
      BY <1>2, MulGrows
  <2>2. Len(b) \in Nat
      BY LenProperties
  <2> QED
      BY <1>0, <1>1, <2>1, <2>2
<1>a. PICK c \in Int : c = base + p
    OBVIOUS
<1>4. RecordAt(b, p, L, c)
  <2>1. k \in 0..(n - 1)
      BY <1>2
  <2> QED
      BY <1>3, <1>a, <2>1
<1>5. c + i = base + j /\ p + i = j /\ p + L <= Len(b)
    BY <1>3, <1>a
<1>6. \A y \in 1..L : b[p + y] = <<"ct", c + y>>
    BY <1>4, <1>5, OneRecord
<1> QED
    BY <1>5, <1>6

\* Numbers that go on where others end.
CountsTo(s, n) == s \in Seq(Int) /\ Len(s) = n /\ s = [i \in 1..n |-> i]

\* What follows 1..n with n + 1..n + m is 1..n + m.
LEMMA CountsOn ==
    ASSUME NEW n \in Nat, NEW s, CountsTo(s, n), NEW m \in Nat, NEW t, t = [i \in 1..m |-> n + i]
    PROVE  CountsTo(s \o t, n + m)
<1>1. PICK u : u = s \o t
    OBVIOUS
<1>2. s \in Seq(Int) /\ t \in Seq(Int) /\ Len(s) = n /\ Len(t) = m /\ (\A i \in 1..n : s[i] = i) /\ (\A i \in 1..m : t[i] = n + i)
    BY DEF CountsTo
<1>a. s \in Seq(Int) /\ t \in Seq(Int)
    BY <1>2
<1>b. /\ s \o t \in Seq(Int) /\ Len(s \o t) = Len(s) + Len(t)
      /\ \A i \in 1..(Len(s) + Len(t)) : (s \o t)[i] = IF i <= Len(s) THEN s[i] ELSE t[i - Len(s)]
    BY <1>a, ConcatProperties
<1>3. u \in Seq(Int) /\ Len(u) = n + m /\ \A i \in 1..(n + m) : u[i] = IF i <= n THEN s[i] ELSE t[i - n]
    BY <1>1, <1>2, <1>b
<1>4. ASSUME NEW i \in 1..(n + m) PROVE u[i] = i
  <2>1. CASE i <= n
      BY <1>2, <1>3, <2>1
  <2>2. CASE i > n
    <3>1. i - n \in 1..m /\ n + (i - n) = i
        BY <2>2
    <3> QED
        BY <1>2, <1>3, <2>2, <3>1
  <2> QED
      BY <2>1, <2>2
<1>5. DOMAIN u = 1..(n + m) /\ u = [i \in 1..(n + m) |-> u[i]]
    BY <1>3, LenProperties
<1>6. u = [i \in 1..(n + m) |-> i]
    BY <1>4, <1>5
<1>7. CountsTo(u, n + m)
    BY <1>3, <1>6 DEF CountsTo
<1> QED
    BY <1>1, <1>7

\* A sequence made of two.
IsJoin(buf, s, t) == buf = s \o t

\* Plaintext, of whatever units.
AllPt(s) == s \in Seq(Cells) /\ \A i \in 1..Len(s) : s[i][1] = "pt"

\* Plaintext behind plaintext.
LEMMA PtJoins ==
    ASSUME NEW s, AllPt(s), NEW t, AllPt(t)
    PROVE  AllPt(s \o t) /\ Len(s \o t) = Len(s) + Len(t)
<1>1. PICK u : u = s \o t
    OBVIOUS
<1>a. PICK n \in Nat, m \in Nat : n = Len(s) /\ m = Len(t)
    BY LenProperties DEF AllPt
<1>2. u \in Seq(Cells) /\ Len(u) = n + m /\ \A i \in 1..(n + m) : u[i] = IF i <= n THEN s[i] ELSE t[i - n]
    BY <1>1, <1>a, ConcatProperties DEF AllPt
<1>3. (\A i \in 1..n : s[i][1] = "pt") /\ (\A i \in 1..m : t[i][1] = "pt")
    BY <1>a DEF AllPt
<1>4. ASSUME NEW i \in 1..(n + m) PROVE u[i][1] = "pt"
  <2>1. CASE i <= n
      BY <1>2, <1>3, <2>1
  <2>2. CASE i > n
    <3>1. i - n \in 1..m
        BY <2>2
    <3> QED
        BY <1>2, <1>3, <2>2, <3>1
  <2> QED
      BY <2>1, <2>2
<1> QED
    BY <1>1, <1>a, <1>2, <1>4 DEF AllPt

\* What opening the records at the head of b returns, the next unit being base + 1.
OpensTo(b, base, L, r) ==
    /\ r.n \in Nat /\ r.n * L \in Nat
    /\ r.pt \in Seq(Cells) /\ Len(r.pt) = r.n * L /\ \A i \in 1..Len(r.pt) : r.pt[i][1] = "pt"
    /\ r.rest \in Seq(Cells) /\ Len(r.rest) <= Len(b)
    /\ r.ok => r.pt = UnitsFrom("pt", base, r.n * L)
    /\ Len(b) >= L /\ b[1][1] = "pt" => ~r.ok

\* Every whole record is opened, in its turn or not at all.
LEMMA OpensRecords ==
    ASSUME NEW L \in Nat \ {0}, NEW b \in Seq(Cells), NEW base \in Int, NEW r, NEW n, n = Len(b) \div L,
           r.n = n, r.pt = [i \in 1..(n * L) |-> <<"pt", b[i][2]>>], r.rest = SubSeq(b, n * L + 1, Len(b)),
           r.ok <=> \A k \in 0..(n - 1) : RecordAt(b, k * L, L, base + k * L)
    PROVE  OpensTo(b, base, L, r)
<1>1. PICK w \in Nat, t \in Nat : w = Len(b) /\ n \in Nat /\ t = n * L /\ t <= w /\ w < t + L
    BY LenProperties, WholeParts
<1>2. r.pt = [i \in 1..t |-> <<"pt", b[i][2]>>] /\ r.rest = SubSeq(b, t + 1, w)
    BY <1>1
<1>3. \A i \in 1..w : b[i] \in Cells /\ b[i][2] \in Int
    BY <1>1, ElementOfSeq DEF Cells
<1>4. r.pt \in Seq(Cells) /\ Len(r.pt) = t /\ \A i \in 1..t : r.pt[i] = <<"pt", b[i][2]>>
  <2>1. \A i \in 1..t : <<"pt", b[i][2]>> \in Cells
      BY <1>1, <1>3 DEF Cells
  <2>2. PICK p : p = [i \in 1..t |-> <<"pt", b[i][2]>>]
      OBVIOUS
  <2>3. p \in [1..t -> Cells] /\ \A i \in 1..t : p[i] = <<"pt", b[i][2]>>
      BY <2>1, <2>2
  <2>4. p \in Seq(Cells) /\ Len(p) = t
      BY <2>3
  <2> QED
      BY <1>2, <2>2, <2>3, <2>4
<1>5. r.rest \in Seq(Cells) /\ Len(r.rest) = w - t
  <2>1. SubSeq(b, t + 1, w) \in Seq(Cells) /\ Len(SubSeq(b, t + 1, w)) = w - t
      BY <1>1, TailOf
  <2> QED
      BY <1>2, <2>1
<1>6. ASSUME r.ok PROVE \A j \in 1..t : b[j] = <<"ct", base + j>>
  <2>1. n * L <= Len(b) /\ n \in Nat
      BY <1>1
  <2>2. \A k \in 0..(n - 1) : RecordAt(b, k * L, L, base + k * L)
      BY <1>6
  <2>3. \A j \in 1..(n * L) : b[j] = <<"ct", base + j>>
      BY <2>1, <2>2, RecordUnits
  <2> QED
      BY <1>1, <2>3
<1>7. ASSUME r.ok PROVE r.pt = UnitsFrom("pt", base, t)
  <2>1. ASSUME NEW j \in 1..t PROVE r.pt[j] = <<"pt", base + j>>
    <3>1. b[j] = <<"ct", base + j>>
        BY <1>6, <1>7
    <3>2. b[j][2] = base + j
        BY <3>1
    <3> QED
        BY <1>4, <3>2
  <2> QED
      BY <1>4, <2>1, IsRun
<1>8. ASSUME w >= L, b[1][1] = "pt" PROVE ~r.ok
  <2> SUFFICES ASSUME r.ok PROVE FALSE
      OBVIOUS
  <2>1. n >= 1
    <3> SUFFICES ASSUME n = 0 PROVE FALSE
        BY <1>1
    <3>1. n * L = 0
        OBVIOUS
    <3> QED
        BY <1>1, <1>8, <3>1
  <2>2. t >= 1
    <3>1. n * L >= L
        BY <1>1, <2>1, MulGe, Mul3
    <3> QED
        BY <1>1, <3>1
  <2>3. b[1] = <<"ct", base + 1>>
      BY <1>6, <2>2
  <2> QED
      BY <1>8, <2>3
<1>9. ASSUME NEW i \in 1..Len(r.pt) PROVE r.pt[i][1] = "pt"
  <2>1. r.pt[i] = <<"pt", b[i][2]>>
      BY <1>4
  <2>2. \A x : <<"pt", x>>[1] = "pt"
      OBVIOUS
  <2> QED
      BY <2>1, <2>2
<1> QED
    BY <1>1, <1>4, <1>5, <1>7, <1>8, <1>9 DEF OpensTo
=============================================================================
