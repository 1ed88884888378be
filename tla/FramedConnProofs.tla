--------------------------- MODULE FramedConnProofs ---------------------------
(***************************************************************************)
(* Theorems of Frames and FramedConn, for any byte base, length width and  *)
(* size limit: what Unmarshal makes of a marshalled packet, and what       *)
(* arrives on a connection that may break anywhere.                        *)
(***************************************************************************)
EXTENDS FramedConn, WellFoundedInduction, TLAPS

-----------------------------------------------------------------------------
\* Induction, stated with a set of numbers.

LEMMA Least ==
  ASSUME NEW T \in SUBSET Nat, T # {}
  PROVE  \E x \in T : \A y \in T : x <= y
<1> DEFINE R == OpToRel(<, Nat)
<1>1. IsWellFoundedOn(R, Nat)
  BY NatLessThanWellFounded
<1>2. \A x, y \in Nat : x < y => <<x, y>> \in R
  BY DEF OpToRel
<1> HIDE DEF R
<1>3. PICK x \in T : \A y \in T : ~(<<y, x>> \in R)
  BY <1>1, WFMin
<1>4. \A y \in T : ~(y < x)
  BY <1>2, <1>3
<1> QED BY <1>3, <1>4

LEMMA Induction ==
  ASSUME NEW T \in SUBSET Nat, 0 \in T, \A n \in T : n + 1 \in T
  PROVE  T = Nat
<1> SUFFICES ASSUME Nat \ T # {} PROVE FALSE
  OBVIOUS
<1>1. PICK x \in Nat \ T : \A y \in Nat \ T : x <= y
  BY Least
<1>2. x - 1 \in Nat /\ x - 1 \in T
  BY <1>1
<1> QED BY <1>1, <1>2

-----------------------------------------------------------------------------
\* Big-endian numbers.

\* f[i] is a number of i digits c, after the value a.
Sums(B, a, c, n, f) ==
    /\ f \in [0 .. n -> Nat]
    /\ f[0] = a
    /\ \A i \in 1 .. n : f[i] = B * f[i - 1] + c[i]

\* The functions that Power and Uint define exist.
LEMMA SumsExist ==
  ASSUME NEW B \in Nat, NEW N \in Nat, NEW a \in Nat, NEW c, \A i \in 1 .. N : c[i] \in Nat
  PROVE  \E f : Sums(B, a, c, N, f)
<1> DEFINE T == {n \in Nat : n <= N => \E f : Sums(B, a, c, n, f)}
<1>1. 0 \in T
  <2>1. Sums(B, a, c, 0, [i \in 0 .. 0 |-> a])
    BY DEF Sums
  <2> QED BY <2>1
<1>2. ASSUME NEW n \in Nat, n + 1 <= N, NEW f, Sums(B, a, c, n, f)
      PROVE  \E g : Sums(B, a, c, n + 1, g)
  <2> DEFINE g == [i \in 0 .. n + 1 |-> IF i = n + 1 THEN B * f[n] + c[n + 1] ELSE f[i]]
  <2>1. f \in [0 .. n -> Nat] /\ f[0] = a /\ \A i \in 1 .. n : f[i] = B * f[i - 1] + c[i]
    BY <1>2 DEF Sums
  <2>2. f[n] \in Nat /\ c[n + 1] \in Nat
    BY <1>2, <2>1
  <2>3. B * f[n] \in Nat
    BY <2>2
  <2>4. g \in [0 .. n + 1 -> Nat]
    <3> HIDE DEF g
    <3>1. \A i \in 0 .. n + 1 : g[i] \in Nat
      <4> SUFFICES ASSUME NEW i \in 0 .. n + 1 PROVE g[i] \in Nat
        OBVIOUS
      <4>1. i # n + 1 => i \in 0 .. n
        OBVIOUS
      <4> QED BY <2>1, <2>2, <2>3, <4>1 DEF g
    <3> QED BY <3>1 DEF g
  <2>5. g[0] = a
    BY <2>1
  <2>6. ASSUME NEW i \in 1 .. n + 1 PROVE g[i] = B * g[i - 1] + c[i]
    <3>1. CASE i = n + 1
      BY <3>1
    <3>2. CASE i # n + 1
      <4>1. i \in 1 .. n /\ i - 1 \in 0 .. n /\ i - 1 # n + 1
        BY <3>2
      <4> QED BY <2>1, <4>1
    <3> QED BY <3>1, <3>2
  <2>7. Sums(B, a, c, n + 1, g)
    BY <2>4, <2>5, <2>6 DEF Sums
  <2> QED BY <2>7
<1>3. ASSUME NEW n \in T PROVE n + 1 \in T
  BY <1>2, <1>3
<1>4. N \in T
  <2>1. T \in SUBSET Nat
    OBVIOUS
  <2> HIDE DEF T
  <2> QED BY <1>1, <1>3, <2>1, Induction
<1> QED BY <1>4

\* What the equations of Uint and of Power say.
LEMMA UintUnfolded ==
  ASSUME NEW B, NEW N \in Nat, NEW c, NEW f, NEW h,
         f = [i \in 0 .. N |-> IF i = 0 THEN 0 ELSE B * h[i - 1] + c[i]]
  PROVE  /\ f = [i \in 0 .. N |-> f[i]] /\ f[0] = 0
         /\ \A i \in 1 .. N : f[i] = B * h[i - 1] + c[i]
  OBVIOUS

LEMMA PowerUnfolded ==
  ASSUME NEW B, NEW N \in Nat, NEW f, NEW h,
         f = [i \in 0 .. N |-> IF i = 0 THEN 1 ELSE B * h[i - 1]]
  PROVE  /\ f = [i \in 0 .. N |-> f[i]] /\ f[0] = 1
         /\ \A i \in 1 .. N : f[i] = B * h[i - 1]
  OBVIOUS

LEMMA SumsOnly ==
  ASSUME NEW B \in Nat, NEW N \in Nat, NEW a \in Nat, NEW c, \A i \in 1 .. N : c[i] \in Nat,
         NEW f, f = [i \in 0 .. N |-> f[i]], f[0] = a,
         \A i \in 1 .. N : f[i] = B * f[i - 1] + c[i]
  PROVE  Sums(B, a, c, N, f)
<1> DEFINE T == {n \in Nat : n <= N => f[n] \in Nat}
<1>1. ASSUME NEW n \in Nat, n + 1 <= N, f[n] \in Nat PROVE f[n + 1] \in Nat
  <2>1. n + 1 \in 1 .. N /\ (n + 1) - 1 = n
    BY <1>1
  <2>2. f[n + 1] = B * f[n] + c[n + 1] /\ c[n + 1] \in Nat
    BY <2>1
  <2>3. B * f[n] \in Nat
    BY <1>1
  <2> QED BY <2>2, <2>3
<1>2. T = Nat
  <2>1. 0 \in T /\ T \in SUBSET Nat
    OBVIOUS
  <2>2. ASSUME NEW n \in T PROVE n + 1 \in T
    <3>1. n \in Nat /\ n + 1 \in Nat /\ (n + 1 <= N => n <= N)
      OBVIOUS
    <3>2. n + 1 <= N => f[n + 1] \in Nat
      BY <1>1, <3>1
    <3> QED BY <3>1, <3>2
  <2> HIDE DEF T
  <2> QED BY <2>1, <2>2, Induction
<1>3. ASSUME NEW i \in 0 .. N PROVE f[i] \in Nat
  <2>1. i \in T
    BY <1>2
  <2> QED BY <2>1
<1>4. f \in [0 .. N -> Nat]
  BY <1>3
<1> QED BY <1>4 DEF Sums

LEMMA PowerFacts ==
  /\ Power \in [0 .. LengthWidth -> Nat \ {0}]
  /\ Power[0] = 1
  /\ \A k \in 1 .. LengthWidth : Power[k] = ByteBase * Power[k - 1]
<1> DEFINE N == LengthWidth
           B == ByteBase
           c == [i \in 1 .. N |-> 0]
           Def(f) == f = [k \in 0 .. N |-> IF k = 0 THEN 1 ELSE B * f[k - 1]]
<1>0. N \in Nat /\ B \in Nat /\ B > 0 /\ \A i \in 1 .. N : c[i] \in Nat
  BY FramesAssumption
<1>1. \E f : Def(f)
  <2>1. PICK f : Sums(B, 1, c, N, f)
    BY <1>0, SumsExist
  <2>2. /\ f \in [0 .. N -> Nat] /\ f[0] = 1
        /\ \A i \in 1 .. N : f[i] = B * f[i - 1] + c[i]
    BY <2>1 DEF Sums
  <2>3. ASSUME NEW i \in 0 .. N PROVE f[i] = IF i = 0 THEN 1 ELSE B * f[i - 1]
    <3>1. CASE i = 0
      BY <2>2, <3>1
    <3>2. CASE i # 0
      <4>1. i \in 1 .. N /\ i - 1 \in 0 .. N
        BY <1>0, <3>2
      <4>2. f[i - 1] \in Nat /\ f[i] = B * f[i - 1] + 0
        BY <2>2, <4>1
      <4> QED BY <1>0, <3>2, <4>2
    <3> QED BY <3>1, <3>2
  <2>4. Def(f)
    BY <2>2, <2>3
  <2> QED BY <2>4
<1>2. Def(Power)
  BY <1>1 DEF Power
<1>3. /\ Power = [k \in 0 .. N |-> Power[k]] /\ Power[0] = 1
      /\ \A k \in 1 .. N : Power[k] = B * Power[k - 1]
  <2>1. N \in Nat
    BY <1>0
  <2> HIDE DEF N, B
  <2>2. PICK h : h = Power /\ Power = [k \in 0 .. N |-> IF k = 0 THEN 1 ELSE B * h[k - 1]]
    BY <1>2, Zenon
  <2>3. /\ Power = [k \in 0 .. N |-> Power[k]] /\ Power[0] = 1
        /\ \A k \in 1 .. N : Power[k] = B * h[k - 1]
    BY <2>1, <2>2, PowerUnfolded
  <2> QED BY <2>2, <2>3
<1> HIDE DEF N, B
<1> DEFINE T == {n \in Nat : n <= N => Power[n] \in Nat /\ Power[n] > 0}
<1>4. ASSUME NEW n \in T PROVE n + 1 \in T
  <2> SUFFICES ASSUME n + 1 <= N PROVE Power[n + 1] \in Nat /\ Power[n + 1] > 0
    BY <1>4
  <2>1. n + 1 \in 1 .. N /\ n + 1 - 1 = n /\ Power[n] \in Nat /\ Power[n] > 0
    BY <1>0, <1>4
  <2>2. Power[n + 1] = B * Power[n]
    <3>1. \A k \in 1 .. N : Power[k] = B * Power[k - 1]
      BY <1>3
    <3>2. Power[n + 1] = B * Power[n + 1 - 1]
      BY <2>1, <3>1
    <3> QED BY <2>1, <3>2
  <2> QED BY <1>0, <2>1, <2>2
<1>5. T = Nat
  <2>1. 0 \in T /\ T \in SUBSET Nat
    BY <1>3
  <2> HIDE DEF T
  <2> QED BY <1>4, <2>1, Induction
<1>6. \A n \in 0 .. N : Power[n] \in Nat /\ Power[n] > 0
  BY <1>0, <1>5
<1>7. Power \in [0 .. N -> Nat \ {0}]
  <2>1. \A n \in 0 .. N : Power[n] \in Nat \ {0}
    BY <1>6
  <2> QED BY <1>3, <2>1
<1> QED BY <1>3, <1>7 DEF N, B

LEMMA UintEquation ==
  ASSUME NEW B \in Nat, NEW N \in Nat, NEW c, \A i \in 1 .. N : c[i] \in Nat, NEW f, NEW h
  PROVE  /\ f = h
         /\ f = [i \in 0 .. N |-> IF i = 0 THEN 0 ELSE B * h[i - 1] + c[i]]
         => Sums(B, 0, c, N, f)
<1>1. ASSUME f = [i \in 0 .. N |-> IF i = 0 THEN 0 ELSE B * h[i - 1] + c[i]]
      PROVE  /\ f = [i \in 0 .. N |-> f[i]] /\ f[0] = 0
             /\ \A i \in 1 .. N : f[i] = B * h[i - 1] + c[i]
  BY <1>1, UintUnfolded
<1>2. ASSUME f = h, f = [i \in 0 .. N |-> f[i]], f[0] = 0,
             \A i \in 1 .. N : f[i] = B * h[i - 1] + c[i]
      PROVE  Sums(B, 0, c, N, f)
  <2>1. \A i \in 1 .. N : f[i] = B * f[i - 1] + c[i]
    BY <1>2
  <2> QED BY <1>2, <2>1, SumsOnly
<1> QED BY <1>1, <1>2, Zenon

LEMMA UintSums ==
  ASSUME NEW b \in Seq(Nat)
  PROVE  \E v : Sums(ByteBase, 0, b, Len(b), v) /\ Uint(b) = v[Len(b)]
<1> DEFINE Def(f) == f = [i \in 0 .. Len(b) |-> IF i = 0 THEN 0 ELSE ByteBase * f[i - 1] + b[i]]
<1>0. ByteBase \in Nat /\ Len(b) \in Nat /\ \A i \in 1 .. Len(b) : b[i] \in Nat
  BY FramesAssumption
<1>1. PICK f : Sums(ByteBase, 0, b, Len(b), f)
  BY <1>0, SumsExist
<1>2. Def(f)
  BY <1>0, <1>1 DEF Sums
<1>3. PICK v : Def(v) /\ Uint(b) = v[Len(b)]
  BY <1>2, Zenon DEF Uint
<1>4. \A g, h : /\ g = h
                /\ g = [i \in 0 .. Len(b) |-> IF i = 0 THEN 0 ELSE ByteBase * h[i - 1] + b[i]]
                => Sums(ByteBase, 0, b, Len(b), g)
  BY <1>0, UintEquation
<1> QED BY <1>3, <1>4, Zenon
LEMMA WidthFacts ==
  /\ ByteBase \in Nat /\ ByteBase > 0 /\ LengthWidth \in Nat /\ LengthWidth > 0
  /\ SizeLimit \in Nat /\ SizeLimit > 0 /\ CurrentVersion \in Nat /\ CurrentVersion < ByteBase
  /\ MinHeaderSize \in Nat /\ MinHeaderSize = 3 + LengthWidth
  BY FramesAssumption DEF MinHeaderSize

LEMMA DivMod ==
  ASSUME NEW n \in Nat, NEW d \in Nat, 0 < d
  PROVE  n = d * (n \div d) + (n % d) /\ n % d < d /\ n \div d \in Nat /\ n % d \in Nat
  BY SMT

LEMMA DivUnique ==
  ASSUME NEW n \in Nat, NEW q \in Nat, NEW r \in Nat, NEW d \in Nat, r < d, n = d * q + r
  PROVE  n \div d = q
  BY SMT

\* Dividing by a base once more drops one digit.
LEMMA DivDigit ==
  ASSUME NEW n \in Nat, NEW B \in Nat, B > 0, NEW P \in Nat, P > 0
  PROVE  n \div P = B * (n \div (B * P)) + ((n \div P) % B)
<1>1. PICK q, r \in Nat : q = n \div P /\ n = P * q + r /\ r < P
  BY DivMod
<1>2. PICK t, u \in Nat : u = q % B /\ q = B * t + u /\ u < B
  BY DivMod
<1>3. B * P \in Nat /\ P * u + r \in Nat
  BY <1>1, <1>2
<1>4. P * u + P <= P * B
  <2>1. u + 1 <= B
    BY <1>2
  <2>2. P * (u + 1) <= P * B
    BY <1>2, <2>1
  <2> QED BY <1>2, <2>2
<1>5. P * u + r < B * P
  BY <1>1, <1>2, <1>3, <1>4
<1>6. n = (B * P) * t + (P * u + r)
  BY <1>1, <1>2
<1>7. n \div (B * P) = t
  BY <1>2, <1>3, <1>5, <1>6, DivUnique
<1> QED BY <1>1, <1>2, <1>7, Zenon

LEMMA DigitBelow ==
  ASSUME NEW B \in Nat, NEW x \in Nat, NEW y \in Nat, x < y, NEW d \in 0 .. B - 1
  PROVE  B * x + d < B * y
<1>1. PICK z \in Nat : y = x + 1 + z
  <2>1. y - x - 1 \in Nat /\ y = x + 1 + (y - x - 1)
    OBVIOUS
  <2> QED BY <2>1
<1>2. B * y = B * x + B + B * z /\ B * z \in Nat /\ B * x \in Nat
  BY <1>1
<1> QED BY <1>2

LEMMA PutUintBytes ==
  ASSUME NEW n \in Nat
  PROVE  PutUint(n) \in Seq(Bytes) /\ Len(PutUint(n)) = LengthWidth
<1> SUFFICES ASSUME NEW i \in 1 .. LengthWidth
             PROVE  (n \div Power[LengthWidth - i]) % ByteBase \in Bytes
  BY WidthFacts DEF PutUint
<1>1. LengthWidth - i \in 0 .. LengthWidth
  BY WidthFacts
<1>2. Power[LengthWidth - i] \in Nat /\ Power[LengthWidth - i] > 0
  BY <1>1, PowerFacts
<1>3. n \div Power[LengthWidth - i] \in Nat
  BY <1>2, DivMod
<1> QED BY <1>3, WidthFacts, DivMod DEF Bytes

\* A length that was read is a number of that many bytes.
LEMMA UintBound ==
  ASSUME NEW b \in Seq(Bytes), Len(b) = LengthWidth
  PROVE  Uint(b) \in 0 .. Power[LengthWidth] - 1
<1> DEFINE B == ByteBase
           N == LengthWidth
<1>0. N \in Nat /\ B \in Nat /\ B > 0 /\ b \in Seq(Nat) /\ \A i \in 1 .. N : b[i] \in 0 .. B - 1
  <2>1. \A i \in 1 .. Len(b) : b[i] \in Bytes
    OBVIOUS
  <2> QED BY <2>1, WidthFacts DEF Bytes
<1>1. PICK v : Sums(B, 0, b, N, v) /\ Uint(b) = v[N]
  BY <1>0, UintSums
<1>2. v \in [0 .. N -> Nat] /\ v[0] = 0 /\ \A i \in 1 .. N : v[i] = B * v[i - 1] + b[i]
  BY <1>1 DEF Sums
<1>3. /\ Power \in [0 .. N -> Nat \ {0}] /\ Power[0] = 1
      /\ \A k \in 1 .. N : Power[k] = B * Power[k - 1]
  BY PowerFacts
<1> HIDE DEF B, N
<1> DEFINE T == {n \in Nat : n <= N => v[n] < Power[n]}
<1>4. ASSUME NEW n \in Nat, n + 1 <= N, v[n] < Power[n] PROVE v[n + 1] < Power[n + 1]
  <2>1. n + 1 \in 1 .. N /\ n \in 0 .. N /\ n + 1 - 1 = n
    BY <1>0, <1>4
  <2>2. v[n] \in Nat /\ Power[n] \in Nat /\ b[n + 1] \in 0 .. B - 1
    BY <1>0, <1>2, <1>3, <2>1
  <2>3. v[n + 1] = B * v[n + 1 - 1] + b[n + 1] /\ Power[n + 1] = B * Power[n + 1 - 1]
    BY <1>2, <1>3, <2>1
  <2>4. v[n + 1] = B * v[n] + b[n + 1] /\ Power[n + 1] = B * Power[n]
    BY <2>1, <2>3
  <2>5. B * v[n] + b[n + 1] < B * Power[n]
    BY <1>0, <1>4, <2>2, DigitBelow
  <2> QED BY <2>4, <2>5
<1>5. T = Nat
  <2>1. 0 \in T /\ T \in SUBSET Nat
    BY <1>2, <1>3
  <2>2. ASSUME NEW n \in T PROVE n + 1 \in T
    <3>1. n \in Nat /\ n + 1 \in Nat /\ (n + 1 <= N => n <= N)
      BY <1>0
    <3>2. n + 1 <= N => v[n + 1] < Power[n + 1]
      BY <1>4, <3>1
    <3> QED BY <3>1, <3>2
  <2> HIDE DEF T
  <2> QED BY <2>1, <2>2, Induction
<1>6. v[N] < Power[N]
  <2>1. N \in T
    BY <1>0, <1>5
  <2> QED BY <1>0, <2>1
<1>7. v[N] \in Nat /\ Power[N] \in Nat
  BY <1>0, <1>2, <1>3
<1> QED BY <1>1, <1>6, <1>7 DEF N

\* Uint32 reads what PutUint32 has written.
THEOREM UintOfPutUint ==
  ASSUME NEW n \in Nat, n < Power[LengthWidth]
  PROVE  Uint(PutUint(n)) = n
<1> DEFINE B == ByteBase
           N == LengthWidth
           b == PutUint(n)
<1>0. N \in Nat /\ B \in Nat /\ B > 0 /\ b \in Seq(Nat) /\ Len(b) = N
  <2>1. Bytes \subseteq Nat
    BY WidthFacts DEF Bytes
  <2>2. b \in Seq(Bytes) /\ Len(b) = N
    BY PutUintBytes
  <2> HIDE DEF b
  <2>3. Len(b) \in Nat /\ b = [i \in 1 .. Len(b) |-> b[i]] /\ \A i \in 1 .. Len(b) : b[i] \in Nat
    BY <2>1, <2>2
  <2>4. b \in Seq(Nat)
    BY <2>3
  <2> QED BY <2>2, <2>4, WidthFacts
<1>1. PICK v : Sums(B, 0, b, N, v) /\ Uint(b) = v[N]
  BY <1>0, UintSums
<1>2. v \in [0 .. N -> Nat] /\ v[0] = 0 /\ \A i \in 1 .. N : v[i] = B * v[i - 1] + b[i]
  BY <1>1 DEF Sums
<1>3. /\ Power \in [0 .. N -> Nat \ {0}] /\ Power[0] = 1
      /\ \A k \in 1 .. N : Power[k] = B * Power[k - 1]
  BY PowerFacts
<1>4. \A i \in 1 .. N : b[i] = (n \div Power[N - i]) % B
  BY DEF PutUint
<1>5. n < Power[N]
  OBVIOUS
<1> HIDE DEF B, N, b
<1> DEFINE T == {k \in Nat : k <= N => v[k] = n \div Power[N - k]}
<1>6. 0 \in T
  <2>1. Power[N] \in Nat /\ Power[N] * 0 + n = n /\ N - 0 = N
    BY <1>0, <1>3
  <2>2. n \div Power[N] = 0
    BY <1>5, <2>1, DivUnique
  <2> QED BY <1>2, <2>1, <2>2
<1>7. ASSUME NEW k \in Nat, k + 1 <= N, v[k] = n \div Power[N - k]
      PROVE  v[k + 1] = n \div Power[N - (k + 1)]
  <2>0. PICK P : P = Power[N - (k + 1)]
    OBVIOUS
  <2>1. /\ k + 1 \in 1 .. N /\ k + 1 - 1 = k
        /\ N - k \in 1 .. N /\ N - (k + 1) \in 0 .. N /\ N - k - 1 = N - (k + 1)
    BY <1>0, <1>7
  <2>2. P \in Nat /\ P > 0 /\ Power[N - k] = B * Power[N - k - 1]
    BY <1>3, <2>0, <2>1
  <2>3. v[k + 1] = B * v[k + 1 - 1] + b[k + 1] /\ b[k + 1] = (n \div P) % B
    BY <1>2, <1>4, <2>0, <2>1
  <2>4. Power[N - k] = B * P
    BY <2>0, <2>1, <2>2
  <2>5. v[k + 1] = B * (n \div (B * P)) + ((n \div P) % B)
    <3>1. v[k] = n \div (B * P)
      BY <1>7, <2>4
    <3>2. v[k + 1 - 1] = v[k]
      BY <2>1
    <3> QED BY <2>3, <3>1, <3>2, Zenon
  <2>6. v[k + 1] = n \div P
    BY <1>0, <2>2, <2>5, DivDigit
  <2> QED BY <2>0, <2>6
<1>8. T = Nat
  <2>1. T \in SUBSET Nat
    OBVIOUS
  <2>2. ASSUME NEW k \in T PROVE k + 1 \in T
    <3>1. k \in Nat /\ k + 1 \in Nat /\ (k + 1 <= N => k <= N)
      BY <1>0
    <3>2. k + 1 <= N => v[k + 1] = n \div Power[N - (k + 1)]
      BY <1>7, <3>1
    <3> QED BY <3>1, <3>2
  <2> HIDE DEF T
  <2> QED BY <1>6, <2>1, <2>2, Induction
<1>9. v[N] = n \div Power[N - N]
  <2>1. N \in T
    BY <1>0, <1>8
  <2> QED BY <1>0, <2>1
<1>10. N - N = 0 /\ n \div 1 = n
  BY <1>0
<1> QED BY <1>1, <1>3, <1>9, <1>10 DEF b
LEMMA SameSeq ==
  ASSUME NEW S, NEW s \in Seq(S), NEW t \in Seq(S), Len(s) = Len(t),
         \A i \in 1 .. Len(s) : s[i] = t[i]
  PROVE  s = t
  OBVIOUS

LEMMA ModUnique ==
  ASSUME NEW q \in Nat, NEW r \in Nat, NEW d \in Nat, r < d
  PROVE  (d * q + r) % d = r
<1>1. PICK n \in Nat : n = d * q + r
  <2>1. d * q \in Nat
    OBVIOUS
  <2> QED BY <2>1
<1>2. n \div d = q /\ n = d * (n \div d) + (n % d) /\ n % d \in Nat
  BY <1>1, DivUnique, DivMod
<1>3. d * q + r = d * q + (n % d)
  BY <1>1, <1>2
<1>4. d * q \in Nat
  OBVIOUS
<1>5. r = n % d
  BY <1>2, <1>3, <1>4
<1> QED BY <1>1, <1>5

\* PutUint32 writes back what Uint32 has read.
THEOREM PutUintOfUint ==
  ASSUME NEW b \in Seq(Bytes), Len(b) = LengthWidth
  PROVE  PutUint(Uint(b)) = b
<1> DEFINE B == ByteBase
           N == LengthWidth
<1>0. N \in Nat /\ B \in Nat /\ B > 0 /\ b \in Seq(Nat) /\ \A i \in 1 .. N : b[i] \in 0 .. B - 1
  <2>1. \A i \in 1 .. Len(b) : b[i] \in Bytes
    OBVIOUS
  <2> QED BY <2>1, WidthFacts DEF Bytes
<1>1. PICK v : Sums(B, 0, b, N, v) /\ Uint(b) = v[N]
  BY <1>0, UintSums
<1>2. v \in [0 .. N -> Nat] /\ v[0] = 0 /\ \A i \in 1 .. N : v[i] = B * v[i - 1] + b[i]
  BY <1>1 DEF Sums
<1>3. /\ Power \in [0 .. N -> Nat \ {0}] /\ Power[0] = 1
      /\ \A k \in 1 .. N : Power[k] = B * Power[k - 1]
  BY PowerFacts
<1>4. PICK n \in Nat : n = v[N]
  BY <1>0, <1>2
<1> HIDE DEF B, N
<1> DEFINE T == {k \in Nat : k <= N => v[N - k] = n \div Power[k]}
<1>5. 0 \in T
  <2>1. N - 0 = N /\ n \div 1 = n
    BY <1>0
  <2> QED BY <1>3, <1>4, <2>1
<1>6. ASSUME NEW k \in Nat, k + 1 <= N, v[N - k] = n \div Power[k]
      PROVE  v[N - (k + 1)] = n \div Power[k + 1]
  <2>0. PICK P, i : P = Power[k] /\ i = N - k
    OBVIOUS
  <2>1. /\ k + 1 \in 1 .. N /\ k \in 0 .. N /\ k + 1 - 1 = k
        /\ i \in 1 .. N /\ i - 1 \in 0 .. N /\ i - 1 = N - (k + 1)
    BY <1>0, <1>6, <2>0
  <2>2. Power[k + 1] = B * Power[k + 1 - 1] /\ P \in Nat /\ P > 0
    BY <1>3, <2>0, <2>1
  <2>3. Power[k + 1] = B * P
    BY <2>0, <2>1, <2>2
  <2>4. PICK q, d : q = n \div P /\ d = n \div (B * P)
    OBVIOUS
  <2>5. q = B * d + (q % B) /\ q \in Nat /\ d \in Nat
    <3>1. B * P \in Nat /\ B * P > 0
      BY <1>0, <2>2
    <3>2. q \in Nat /\ d \in Nat
      BY <2>2, <2>4, <3>1, DivMod
    <3> QED BY <1>0, <2>2, <2>4, <3>2, DivDigit
  <2>6. q \div B = d
    <3>1. q % B \in Nat /\ q % B < B
      BY <1>0, <2>5, DivMod
    <3> QED BY <1>0, <2>5, <3>1, DivUnique
  <2>7. q = v[i] /\ v[i] = B * v[i - 1] + b[i] /\ v[i - 1] \in Nat /\ b[i] \in Nat /\ b[i] < B
    <3>1. q = v[i]
      BY <1>6, <2>0, <2>4
    <3>2. v[i] = B * v[i - 1] + b[i] /\ v[i - 1] \in Nat
      BY <1>2, <2>1
    <3>3. b[i] \in Nat /\ b[i] < B
      BY <1>0, <2>1
    <3> QED BY <3>1, <3>2, <3>3
  <2>8. q \div B = v[i - 1]
    <3>1. PICK y \in Nat, z \in Nat : y = v[i - 1] /\ z = b[i]
      BY <2>7
    <3>2. q = B * y + z /\ z < B /\ q \in Nat
      BY <2>5, <2>7, <3>1
    <3>3. B \in Nat
      BY <1>0
    <3>4. q \div B = y
      BY <3>2, <3>3, DivUnique
    <3> QED BY <3>1, <3>4, Zenon
  <2> QED BY <2>1, <2>3, <2>4, <2>6, <2>8
<1>7. T = Nat
  <2>1. T \in SUBSET Nat
    OBVIOUS
  <2>2. ASSUME NEW k \in T PROVE k + 1 \in T
    <3>1. k \in Nat /\ k + 1 \in Nat /\ (k + 1 <= N => k <= N)
      BY <1>0
    <3>2. k + 1 <= N => v[N - (k + 1)] = n \div Power[k + 1]
      BY <1>6, <3>1
    <3> QED BY <3>1, <3>2
  <2> HIDE DEF T
  <2> QED BY <1>5, <2>1, <2>2, Induction
<1>8. ASSUME NEW i \in 1 .. N PROVE (n \div Power[N - i]) % B = b[i]
  <2>1. N - i \in T /\ N - i \in Nat /\ N - i <= N /\ N - (N - i) = i
    BY <1>0, <1>7
  <2>2. n \div Power[N - i] = v[i]
    BY <2>1
  <2>3. v[i] = B * v[i - 1] + b[i] /\ i - 1 \in 0 .. N
    BY <1>0, <1>2
  <2>4. v[i - 1] \in Nat /\ b[i] \in Nat /\ b[i] < B
    BY <1>0, <1>2, <2>3
  <2>5. (B * v[i - 1] + b[i]) % B = b[i]
    BY <1>0, <2>4, ModUnique
  <2> QED BY <2>2, <2>3, <2>5
<1>9. PICK t : t = PutUint(n)
  OBVIOUS
<1>10. t \in Seq(Bytes) /\ Len(t) = N
  BY <1>9, PutUintBytes DEF N
<1>11. \A i \in 1 .. N : t[i] = (n \div Power[N - i]) % B
  BY <1>9 DEF PutUint, N, B
<1>12. \A i \in 1 .. Len(t) : t[i] = b[i]
  BY <1>8, <1>10, <1>11
<1>13. Len(t) = Len(b)
  BY <1>10 DEF N
<1>14. t = b
  BY <1>10, <1>12, <1>13, SameSeq
<1> QED BY <1>1, <1>4, <1>9, <1>14 DEF N

-----------------------------------------------------------------------------
\* Packets and frames.

LEMMA SeqFacts ==
  ASSUME NEW S, NEW s \in Seq(S)
  PROVE  /\ Len(s) \in Nat /\ DOMAIN s = 1 .. Len(s)
         /\ \A i \in 1 .. Len(s) : s[i] \in S
  OBVIOUS

LEMMA ConcatFacts ==
  ASSUME NEW S, NEW s \in Seq(S), NEW t \in Seq(S)
  PROVE  /\ s \o t \in Seq(S) /\ Len(s \o t) = Len(s) + Len(t)
         /\ \A i \in 1 .. Len(s) : (s \o t)[i] = s[i]
         /\ \A i \in 1 .. Len(t) : (s \o t)[Len(s) + i] = t[i]
  OBVIOUS

LEMMA PartFacts ==
  ASSUME NEW S, NEW s \in Seq(S), NEW a \in Nat, NEW n \in Nat, a + n <= Len(s)
  PROVE  /\ SubSeq(s, a + 1, a + n) \in Seq(S) /\ Len(SubSeq(s, a + 1, a + n)) = n
         /\ \A i \in 1 .. n : SubSeq(s, a + 1, a + n)[i] = s[a + i]
  OBVIOUS

LEMMA PacketFacts ==
  ASSUME NEW p \in Packets
  PROVE  /\ p.version \in Bytes /\ p.version \in Nat /\ p.version <= CurrentVersion
         /\ p.fields \in Bytes /\ p.signature \in Bytes
         /\ p.payload \in Seq(Bytes) /\ Len(p.payload) \in Nat
         /\ p = [version |-> p.version, fields |-> p.fields, payload |-> p.payload,
                 signature |-> p.signature]
  BY WidthFacts DEF Packets, Bytes

LEMMA MarshalFacts ==
  ASSUME NEW p \in Packets
  PROVE  /\ Marshal(p) \in Seq(Bytes) /\ Len(Marshal(p)) = MinHeaderSize + Len(p.payload)
         /\ Len(Marshal(p)) \in Nat
         /\ Marshal(p)[1] = p.version /\ Marshal(p)[2] = p.fields
         /\ \A i \in 1 .. LengthWidth : Marshal(p)[2 + i] = PutUint(Len(p.payload))[i]
         /\ \A i \in 1 .. Len(p.payload) : Marshal(p)[2 + LengthWidth + i] = p.payload[i]
         /\ Marshal(p)[3 + LengthWidth + Len(p.payload)] = p.signature
<1> DEFINE a == <<p.version, p.fields>>
           b == PutUint(Len(p.payload))
           c == p.payload
           d == <<p.signature>>
           W == LengthWidth
<1>1. /\ a \in Seq(Bytes) /\ Len(a) = 2 /\ a[1] = p.version /\ a[2] = p.fields
      /\ b \in Seq(Bytes) /\ Len(b) = W
      /\ c \in Seq(Bytes) /\ Len(c) \in Nat
      /\ d \in Seq(Bytes) /\ Len(d) = 1 /\ d[1] = p.signature
  BY PacketFacts, PutUintBytes
<1>2. Marshal(p) = ((a \o b) \o c) \o d
  BY DEF Marshal
<1>3. W \in Nat /\ MinHeaderSize = 3 + W
  BY WidthFacts
<1> HIDE DEF a, b, c, d, W
<1>4. /\ a \o b \in Seq(Bytes) /\ Len(a \o b) = 2 + W
      /\ (a \o b)[1] = p.version /\ (a \o b)[2] = p.fields
      /\ \A i \in 1 .. W : (a \o b)[2 + i] = b[i]
  <2>1. /\ a \o b \in Seq(Bytes) /\ Len(a \o b) = Len(a) + Len(b)
        /\ \A i \in 1 .. Len(a) : (a \o b)[i] = a[i]
        /\ \A i \in 1 .. Len(b) : (a \o b)[Len(a) + i] = b[i]
    <3>1. a \in Seq(Bytes) /\ b \in Seq(Bytes)
      BY <1>1
    <3> QED BY <3>1, ConcatFacts
  <2> QED BY <1>1, <2>1
<1>5. PICK e : e = a \o b
  OBVIOUS
<1>6. /\ e \o c \in Seq(Bytes) /\ Len(e \o c) = 2 + W + Len(c)
      /\ \A i \in 1 .. 2 + W : (e \o c)[i] = e[i]
      /\ \A i \in 1 .. Len(c) : (e \o c)[2 + W + i] = c[i]
  <2>1. /\ e \o c \in Seq(Bytes) /\ Len(e \o c) = Len(e) + Len(c)
        /\ \A i \in 1 .. Len(e) : (e \o c)[i] = e[i]
        /\ \A i \in 1 .. Len(c) : (e \o c)[Len(e) + i] = c[i]
    BY <1>1, <1>4, <1>5, ConcatFacts
  <2> QED BY <1>4, <1>5, <2>1
<1>7. PICK f : f = e \o c
  OBVIOUS
<1>8. /\ f \o d \in Seq(Bytes) /\ Len(f \o d) = 3 + W + Len(c)
      /\ \A i \in 1 .. 2 + W + Len(c) : (f \o d)[i] = f[i]
      /\ (f \o d)[3 + W + Len(c)] = p.signature
  <2>1. /\ f \o d \in Seq(Bytes) /\ Len(f \o d) = Len(f) + Len(d)
        /\ \A i \in 1 .. Len(f) : (f \o d)[i] = f[i]
        /\ \A i \in 1 .. Len(d) : (f \o d)[Len(f) + i] = d[i]
    <3>1. f \in Seq(Bytes) /\ d \in Seq(Bytes)
      BY <1>1, <1>6, <1>7
    <3> QED BY <3>1, ConcatFacts
  <2>2. 1 \in 1 .. Len(d) /\ Len(f) + 1 = 3 + W + Len(c) /\ Len(f) + Len(d) = 3 + W + Len(c)
    <3>1. Len(f) = 2 + W + Len(c)
      BY <1>6, <1>7
    <3>2. Len(d) = 1 /\ Len(c) \in Nat /\ W \in Nat
      BY <1>1, <1>3
    <3> QED BY <3>1, <3>2
  <2>3. (f \o d)[Len(f) + 1] = d[1]
    BY <2>1, <2>2
  <2> QED BY <1>1, <1>6, <1>7, <2>1, <2>2, <2>3
<1>9. Marshal(p) = f \o d
  BY <1>2, <1>5, <1>7
<1>10. ASSUME NEW i \in 1 .. 2 + W PROVE Marshal(p)[i] = e[i]
  <2>1. i \in 1 .. 2 + W + Len(c)
    BY <1>1, <1>3
  <2> QED BY <1>6, <1>7, <1>8, <1>9, <2>1
<1>11. ASSUME NEW i \in 1 .. Len(c) PROVE Marshal(p)[2 + W + i] = c[i]
  <2>1. 2 + W + i \in 1 .. 2 + W + Len(c)
    BY <1>1, <1>3
  <2> QED BY <1>6, <1>7, <1>8, <1>9, <2>1
<1>12. Marshal(p)[1] = p.version /\ Marshal(p)[2] = p.fields
  <2>1. 1 \in 1 .. 2 + W /\ 2 \in 1 .. 2 + W
    BY <1>3
  <2> QED BY <1>4, <1>5, <1>10, <2>1
<1>13. ASSUME NEW i \in 1 .. W PROVE Marshal(p)[2 + i] = b[i]
  <2>1. 2 + i \in 1 .. 2 + W
    BY <1>3
  <2> QED BY <1>4, <1>5, <1>10, <2>1
<1>14. /\ Marshal(p) \in Seq(Bytes) /\ Len(Marshal(p)) = 3 + W + Len(c)
       /\ Marshal(p)[3 + W + Len(c)] = p.signature
  BY <1>8, <1>9
<1>15. Len(c) \in Nat /\ 3 + W + Len(c) \in Nat
  BY <1>1, <1>3
<1> QED BY <1>3, <1>11, <1>12, <1>13, <1>14, <1>15 DEF b, c, W

\* The limits leave room for the length of every packet that is sent.
LEMMA LengthFits ==
  ASSUME NEW n \in 0 .. SizeLimit
  PROVE  n \in Nat /\ n < Power[LengthWidth] /\ Uint(PutUint(n)) = n
<1>1. Power[LengthWidth] \in Nat
  BY WidthFacts, PowerFacts
<1>2. n \in Nat /\ n < Power[LengthWidth]
  BY <1>1, WidthFacts, FramesAssumption
<1> QED BY <1>2, UintOfPutUint

\* Unmarshal makes of what Marshal wrote the packet it was given, down to the empty
\* payload and up to the size limit.
THEOREM UnmarshalOfMarshal ==
  ASSUME NEW p \in Packets, Len(p.payload) <= SizeLimit
  PROVE  Unmarshal(Marshal(p)) = p
<1> DEFINE W == LengthWidth
           n == Len(p.payload)
           b == Marshal(p)
           u == PutUint(n)
<1>1. /\ n \in Nat /\ n \in 0 .. SizeLimit /\ W \in Nat /\ W > 0 /\ MinHeaderSize = 3 + W
      /\ CurrentVersion \in Nat
  BY PacketFacts, WidthFacts
<1>2. /\ b \in Seq(Bytes) /\ Len(b) = 3 + W + n /\ b[1] = p.version /\ b[2] = p.fields
      /\ \A i \in 1 .. W : b[2 + i] = u[i]
      /\ \A i \in 1 .. n : b[2 + W + i] = p.payload[i]
      /\ b[3 + W + n] = p.signature
  BY <1>1, MarshalFacts
<1>3. u \in Seq(Bytes) /\ Len(u) = W /\ Uint(u) = n
  BY <1>1, PutUintBytes, LengthFits
<1>4. p.payload \in Seq(Bytes) /\ p.version \in Nat /\ p.version <= CurrentVersion
  BY PacketFacts
<1> HIDE DEF W, n, b, u
<1>5. LengthField(b) = u
  <2>1. /\ SubSeq(b, 2 + 1, 2 + W) \in Seq(Bytes) /\ Len(SubSeq(b, 2 + 1, 2 + W)) = W
        /\ \A i \in 1 .. W : SubSeq(b, 2 + 1, 2 + W)[i] = b[2 + i]
    <3>1. 2 \in Nat /\ 2 + W <= Len(b)
      BY <1>1, <1>2
    <3> QED BY <1>1, <1>2, <3>1, PartFacts
  <2>2. SubSeq(b, 2 + 1, 2 + W) = u
    BY <1>2, <1>3, <2>1, SameSeq
  <2>3. LengthField(b) = SubSeq(b, 2 + 1, 2 + W)
    BY DEF LengthField, W
  <2> QED BY <2>2, <2>3
<1>6. SubSeq(b, 3 + W, 2 + W + n) = p.payload
  <2>1. /\ SubSeq(b, 2 + W + 1, 2 + W + n) \in Seq(Bytes)
        /\ Len(SubSeq(b, 2 + W + 1, 2 + W + n)) = n
        /\ \A i \in 1 .. n : SubSeq(b, 2 + W + 1, 2 + W + n)[i] = b[2 + W + i]
    <3>1. 2 + W \in Nat /\ 2 + W + n <= Len(b)
      BY <1>1, <1>2
    <3> QED BY <1>1, <1>2, <3>1, PartFacts
  <2>2. Len(p.payload) = n
    BY DEF n
  <2>3. SubSeq(b, 2 + W + 1, 2 + W + n) = p.payload
    <3>1. PICK t : t = SubSeq(b, 2 + W + 1, 2 + W + n)
      OBVIOUS
    <3>2. t \in Seq(Bytes) /\ Len(t) = n /\ \A i \in 1 .. n : t[i] = p.payload[i]
      BY <1>2, <2>1, <3>1
    <3>3. t = p.payload
      BY <1>4, <2>2, <3>2, SameSeq
    <3> QED BY <3>1, <3>3
  <2>4. 2 + W + 1 = 3 + W
    BY <1>1
  <2> QED BY <2>3, <2>4
<1>7. ~(\/ Len(b) < MinHeaderSize \/ b[1] > CurrentVersion
        \/ Len(b) # MinHeaderSize + Uint(LengthField(b)))
  BY <1>1, <1>2, <1>3, <1>4, <1>5
<1>8. Unmarshal(b) = [version |-> b[1], fields |-> b[2],
                      payload |-> SubSeq(b, 3 + W, 2 + W + n), signature |-> b[Len(b)]]
  BY <1>3, <1>5, <1>7 DEF Unmarshal, W
<1>9. Unmarshal(b) = [version |-> p.version, fields |-> p.fields, payload |-> p.payload,
                      signature |-> p.signature]
  BY <1>2, <1>6, <1>8
<1> QED BY <1>9, PacketFacts DEF b
\* What Unmarshal accepts is what Marshal writes for the packet it returns: no two byte
\* strings are read as one packet, and a packet that is passed on keeps its bytes.
THEOREM MarshalOfUnmarshal ==
  ASSUME NEW b \in Seq(Bytes), Unmarshal(b) # Malformed
  PROVE  Unmarshal(b) \in Packets /\ Marshal(Unmarshal(b)) = b
<1> DEFINE W == LengthWidth
           u == LengthField(b)
           n == Uint(LengthField(b))
<1>0. W \in Nat /\ W > 0 /\ MinHeaderSize = 3 + W /\ CurrentVersion \in Nat /\ Len(b) \in Nat
  BY WidthFacts, SeqFacts
<1>1. /\ ~(Len(b) < MinHeaderSize) /\ ~(b[1] > CurrentVersion)
      /\ Len(b) = MinHeaderSize + n
      /\ Unmarshal(b) = [version |-> b[1], fields |-> b[2],
                         payload |-> SubSeq(b, 3 + W, 2 + W + n), signature |-> b[Len(b)]]
  BY DEF Unmarshal
<1>2. /\ SubSeq(b, 2 + 1, 2 + W) \in Seq(Bytes) /\ Len(SubSeq(b, 2 + 1, 2 + W)) = W
      /\ \A i \in 1 .. W : SubSeq(b, 2 + 1, 2 + W)[i] = b[2 + i]
  <2>1. 2 \in Nat /\ 2 + W <= Len(b)
    BY <1>0, <1>1
  <2> QED BY <1>0, <2>1, PartFacts
<1>3. u \in Seq(Bytes) /\ Len(u) = W /\ \A i \in 1 .. W : u[i] = b[2 + i]
  BY <1>2 DEF LengthField
<1>4. n \in Nat /\ PutUint(n) = u
  <2>1. n \in 0 .. Power[LengthWidth] - 1
    BY <1>3, UintBound
  <2>2. PutUint(n) = u
    BY <1>3, PutUintOfUint
  <2>3. Power[LengthWidth] \in Nat
    BY WidthFacts, PowerFacts
  <2> HIDE DEF n, u
  <2> QED BY <2>1, <2>2, <2>3
<1> HIDE DEF W, u, n
<1>5. PICK p : p = Unmarshal(b)
  OBVIOUS
<1>6. Len(b) = 3 + W + n
  BY <1>0, <1>1
<1>7. PICK t : t = SubSeq(b, 3 + W, 2 + W + n)
  OBVIOUS
<1>8. t \in Seq(Bytes) /\ Len(t) = n /\ \A i \in 1 .. n : t[i] = b[2 + W + i]
  <2>1. 2 + W \in Nat /\ 2 + W + n <= Len(b) /\ 2 + W + 1 = 3 + W
    BY <1>0, <1>4, <1>6
  <2>2. /\ SubSeq(b, 2 + W + 1, 2 + W + n) \in Seq(Bytes)
        /\ Len(SubSeq(b, 2 + W + 1, 2 + W + n)) = n
        /\ \A i \in 1 .. n : SubSeq(b, 2 + W + 1, 2 + W + n)[i] = b[2 + W + i]
    BY <1>4, <2>1, PartFacts
  <2> QED BY <1>7, <2>1, <2>2
<1>9. /\ p.version = b[1] /\ p.fields = b[2] /\ p.payload = t /\ p.signature = b[3 + W + n]
      /\ p = [version |-> b[1], fields |-> b[2], payload |-> t, signature |-> b[3 + W + n]]
  <2>1. PICK v, f, g : v = b[1] /\ f = b[2] /\ g = b[3 + W + n]
    OBVIOUS
  <2>2. p = [version |-> v, fields |-> f, payload |-> t, signature |-> g]
    BY <1>1, <1>5, <1>6, <1>7, <2>1, Zenon
  <2>3. p.version = v /\ p.fields = f /\ p.payload = t /\ p.signature = g
    BY <2>2
  <2> QED BY <2>1, <2>2, <2>3, Zenon
<1>10. b[1] \in Bytes /\ b[2] \in Bytes /\ b[3 + W + n] \in Bytes /\ b[1] \in 0 .. CurrentVersion
  <2>1. 1 \in 1 .. Len(b) /\ 2 \in 1 .. Len(b) /\ 3 + W + n \in 1 .. Len(b)
    BY <1>0, <1>4, <1>6
  <2>2. b[1] \in Bytes /\ b[2] \in Bytes /\ b[3 + W + n] \in Bytes
    BY <2>1, SeqFacts
  <2>3. b[1] \in Nat
    BY <2>2, WidthFacts DEF Bytes
  <2> QED BY <1>0, <1>1, <2>2, <2>3
<1>11. p \in Packets
  BY <1>8, <1>9, <1>10 DEF Packets
<1>12. PICK c : c = Marshal(p)
  OBVIOUS
<1>13. /\ c \in Seq(Bytes) /\ Len(c) = 3 + W + n /\ c[1] = b[1] /\ c[2] = b[2]
       /\ \A i \in 1 .. W : c[2 + i] = u[i]
       /\ \A i \in 1 .. n : c[2 + W + i] = t[i]
       /\ c[3 + W + n] = b[3 + W + n]
  BY <1>0, <1>4, <1>8, <1>9, <1>11, <1>12, MarshalFacts DEF W
<1>14. ASSUME NEW i \in 1 .. 3 + W + n PROVE c[i] = b[i]
  <2>1. CASE i \in {1, 2, 3 + W + n}
    BY <1>13, <2>1
  <2>2. CASE i \in 3 .. 2 + W
    <3>1. PICK j \in 1 .. W : i = 2 + j
      <4>1. i - 2 \in 1 .. W /\ i = 2 + (i - 2)
        BY <1>0, <2>2
      <4> QED BY <4>1
    <3> QED BY <1>3, <1>13, <3>1
  <2>3. CASE i \in 3 + W .. 2 + W + n
    <3>1. PICK j \in 1 .. n : i = 2 + W + j
      <4>1. i - (2 + W) \in 1 .. n /\ i = 2 + W + (i - (2 + W))
        BY <1>0, <1>4, <2>3
      <4> QED BY <4>1
    <3> QED BY <1>8, <1>13, <3>1
  <2> QED BY <1>0, <1>4, <2>1, <2>2, <2>3
<1>15. c = b
  BY <1>6, <1>13, <1>14, SameSeq
<1> QED BY <1>5, <1>11, <1>12, <1>15

-----------------------------------------------------------------------------
\* The types of a connection.

LEMMA Lengths ==
  ASSUME NEW S, NEW s \in Seq(S) PROVE Len(s) \in Nat
  OBVIOUS

LEMMA OutgoingFacts ==
  ASSUME NEW p \in Outgoing
  PROVE  p \in Packets /\ Marshal(p) \in Seq(Bytes) /\ Len(Marshal(p)) \in Nat
  BY FramedConnAssumption, MarshalFacts

\* Reading a length and the bytes of a frame.
LEMMA ReadTypes ==
  ASSUME NEW s \in Seq(Bytes), NEW n \in 0 .. Len(s)
  PROVE  /\ SubSeq(s, 1, n) \in Seq(Bytes) /\ Len(SubSeq(s, 1, n)) = n
         /\ SubSeq(s, n + 1, Len(s)) \in Seq(Bytes)
  OBVIOUS

LEMMA NextWritesBytes ==
  ASSUME TypeOK, NEW w \in Writers, NEW rest \in NextWrites(w)
  PROVE  rest \in Seq(Bytes)
<1>1. CASE pending[w] = NoPacket
  <2>1. PICK n \in MinHeaderSize .. SizeLimit : rest = PutUint(n)
    BY <1>1 DEF NextWrites
  <2>2. n \in Nat
    BY WidthFacts
  <2> QED BY <2>1, <2>2, PutUintBytes
<1>2. CASE pending[w] # NoPacket
  <2>1. pending[w] \in Outgoing /\ rest = Marshal(pending[w])
    BY <1>2 DEF NextWrites, TypeOK
  <2> QED BY <2>1, OutgoingFacts
<1> QED BY <1>1, <1>2

LEMMA InitTypes == Init => TypeOK
<1> SUFFICES ASSUME Init PROVE TypeOK
  OBVIOUS
<1>1. Power[LengthWidth] \in Nat /\ MaxSends \in Nat /\ SizeLimit \in Nat
  BY WidthFacts, PowerFacts, FramedConnAssumption
<1> QED BY <1>1 DEF Init, TypeOK

LEMMA NextTypes == TypeOK /\ [Next]_vars => TypeOK'
<1> SUFFICES ASSUME TypeOK, [Next]_vars PROVE TypeOK'
  OBVIOUS
<1>0. /\ Power[LengthWidth] \in Nat /\ MaxSends \in Nat /\ LengthWidth \in Nat
      /\ SizeLimit \in Nat /\ Len(stream) \in Nat /\ sends \in Nat
  BY WidthFacts, PowerFacts, FramedConnAssumption DEF TypeOK
<1>1. CASE UNCHANGED vars
  BY <1>1 DEF vars, TypeOK
<1>2. ASSUME NEW w \in Writers, WriteLength(w) PROVE TypeOK'
  <2>1. PICK p \in Outgoing :
          /\ Len(Marshal(p)) <= SizeLimit
          /\ stream' = stream \o PutUint(Len(Marshal(p)))
          /\ pending' = [pending EXCEPT ![w] = p]
    BY <1>2 DEF WriteLength
  <2>2. stream' \in Seq(Bytes)
    BY <2>1, OutgoingFacts, PutUintBytes, ConcatFacts DEF TypeOK
  <2>3. /\ pending' \in [Writers -> Outgoing \cup {NoPacket}]
        /\ \A v \in Writers : pending'[v] # NoPacket => Len(Marshal(pending'[v])) <= SizeLimit
    BY <2>1 DEF TypeOK
  <2>4. sends' \in 0 .. MaxSends
    BY <1>0, <1>2 DEF WriteLength, TypeOK
  <2> QED BY <1>2, <2>2, <2>3, <2>4 DEF WriteLength, TypeOK
<1>3. ASSUME NEW w \in Writers, Refuse(w) PROVE TypeOK'
  <2>1. sends' \in 0 .. MaxSends
    BY <1>0, <1>3 DEF Refuse, TypeOK
  <2> QED BY <1>3, <2>1 DEF Refuse, TypeOK
<1>4. ASSUME NEW w \in Writers, WritePayload(w) PROVE TypeOK'
  <2>1. pending[w] \in Outgoing
    BY <1>4 DEF WritePayload, TypeOK
  <2>2. stream' \in Seq(Bytes)
    BY <1>4, <2>1, OutgoingFacts, ConcatFacts DEF WritePayload, TypeOK
  <2>3. /\ pending' \in [Writers -> Outgoing \cup {NoPacket}] /\ sent' \in Seq(Outgoing)
        /\ \A v \in Writers : pending'[v] # NoPacket => Len(Marshal(pending'[v])) <= SizeLimit
    BY <1>4, <2>1 DEF WritePayload, TypeOK
  <2> QED BY <1>4, <2>2, <2>3 DEF WritePayload, TypeOK
<1>5. ASSUME NEW w \in Writers, WriteFails(w) PROVE TypeOK'
  BY <1>5 DEF WriteFails, TypeOK
<1>6. CASE ReadLength
  <2>1. LengthWidth \in 0 .. Len(stream) /\ stream \in Seq(Bytes)
    BY <1>0, <1>6 DEF ReadLength, TypeOK
  <2>2. /\ SubSeq(stream, 1, LengthWidth) \in Seq(Bytes)
        /\ Len(SubSeq(stream, 1, LengthWidth)) = LengthWidth
        /\ SubSeq(stream, LengthWidth + 1, Len(stream)) \in Seq(Bytes)
    BY <2>1, ReadTypes
  <2>3. Uint(SubSeq(stream, 1, LengthWidth)) \in 0 .. Power[LengthWidth] - 1
    BY <2>2, UintBound
  <2>4. need' \in -1 .. Power[LengthWidth] - 1 /\ stream' \in Seq(Bytes)
    BY <1>0, <1>6, <2>2, <2>3 DEF ReadLength
  <2>5. reading' \in BOOLEAN
    BY <1>6 DEF ReadLength
  <2>6. reading' => need' <= SizeLimit
    BY <1>6, Zenon DEF ReadLength
  <2> QED BY <1>6, <2>4, <2>5, <2>6 DEF ReadLength, TypeOK
<1>7. CASE ReadPayload
  <2>1. need \in 0 .. Len(stream) /\ stream \in Seq(Bytes)
    BY <1>0, <1>7 DEF ReadPayload, TypeOK
  <2>2. stream' \in Seq(Bytes)
    BY <1>7, <2>1, ReadTypes DEF ReadPayload
  <2>3. need' \in -1 .. Power[LengthWidth] - 1 /\ need' <= SizeLimit
    BY <1>0, <1>7 DEF ReadPayload
  <2> QED BY <1>7, <2>2, <2>3 DEF ReadPayload, TypeOK
<1>8. CASE ReadFails
  BY <1>8 DEF ReadFails, TypeOK
<1>9. CASE Sever
  <2>0. PICK w \in Writers : \E rest \in NextWrites(w) :
          \E n \in 0 .. Len(stream) + Len(rest) - 1 : stream' = SubSeq(stream \o rest, 1, n)
    BY <1>9 DEF Sever
  <2>1. PICK rest \in NextWrites(w) :
          \E n \in 0 .. Len(stream) + Len(rest) - 1 : stream' = SubSeq(stream \o rest, 1, n)
    BY <2>0
  <2>2. rest \in Seq(Bytes) /\ stream \in Seq(Bytes)
    BY NextWritesBytes DEF TypeOK
  <2>3. stream \o rest \in Seq(Bytes) /\ Len(stream \o rest) = Len(stream) + Len(rest)
    BY <2>2, ConcatFacts
  <2>4. PICK n \in 0 .. Len(stream) + Len(rest) - 1 : stream' = SubSeq(stream \o rest, 1, n)
    BY <2>1
  <2>5. n \in 0 .. Len(stream \o rest)
    BY <1>0, <2>2, <2>3, Lengths
  <2>6. stream' \in Seq(Bytes)
    BY <2>3, <2>4, <2>5, ReadTypes
  <2> QED BY <1>9, <2>6 DEF Sever, TypeOK
<1> QED BY <1>1, <1>2, <1>3, <1>4, <1>5, <1>6, <1>7, <1>8, <1>9 DEF Next, Reader

\* Whatever the writers interleave, the bytes are bytes, a length that is read fits into its
\* field, and neither SendPacket nor ReceivePacket handles a frame above the limit
\* (transport.go:33-83).
THEOREM ConnTypes == Spec => []TypeOK
  BY InitTypes, NextTypes, PTL DEF Spec
-----------------------------------------------------------------------------
\* Where the frames lie in the bytes that were written.

\* The bytes t follow position x of s.
At(s, x, t) == x + Len(t) <= Len(s) /\ \A j \in 1 .. Len(t) : s[x + j] = t[j]

\* s is what follows position r of a.
Suffix(s, a, r) == r + Len(s) = Len(a) /\ \A j \in 1 .. Len(s) : s[j] = a[r + j]

Sendable(p) == p \in Outgoing /\ Len(p.payload) <= SizeLimit /\ Len(Marshal(p)) <= SizeLimit

\* The packets k + 1 to m lie between the cuts, each behind its length.
FrameAt(a, cut, i) ==
    /\ cut[i] = cut[i - 1] + LengthWidth + Len(Marshal(sent[i]))
    /\ At(a, cut[i - 1], PutUint(Len(Marshal(sent[i]))))
    /\ At(a, cut[i - 1] + LengthWidth, Marshal(sent[i]))

FramesAt(a, cut, k, m) ==
    /\ m \in k .. Len(sent) /\ cut \in [0 .. m -> Nat]
    /\ \A i \in k + 1 .. m : FrameAt(a, cut, i)
    /\ cut[m] <= Len(a)

\* What follows the last cut is less than a frame, whose length is n.
PartAt(a, x, n) ==
    /\ n \in 0 .. SizeLimit
    /\ Len(a) < x + LengthWidth + n
    /\ \A j \in 1 .. LengthWidth : x + j <= Len(a) => a[x + j] = PutUint(n)[j]

\* The reader is at a cut, or behind the length that follows one.
ReaderAt(a, cut, m, n) ==
    LET k == Len(got)
        r == cut[k] + (IF need = -1 THEN 0 ELSE LengthWidth)
    IN  /\ Suffix(stream, a, r)
        /\ need # -1 => need = IF k < m THEN Len(Marshal(sent[k + 1])) ELSE n

\* On a connection that holds, every packet that was sent is there, and of the next one
\* nothing or its length.
WriterAt(a, cut, m, n) ==
    link = "up" =>
        /\ m = Len(sent)
        /\ \A w \in Writers :
            IF pending[w] = NoPacket
            THEN Len(a) = cut[m]
            ELSE Len(a) = cut[m] + LengthWidth /\ n = Len(Marshal(pending[w]))

Cut(a, cut, m, n) ==
    /\ FramesAt(a, cut, Len(got), m)
    /\ PartAt(a, cut[m], n)
    /\ ReaderAt(a, cut, m, n)
    /\ WriterAt(a, cut, m, n)

\* All that was written, read or not, can be cut into frames.
FrameInv ==
    /\ \A i \in 1 .. Len(sent) : Sendable(sent[i])
    /\ \A w \in Writers : pending[w] # NoPacket => Sendable(pending[w])
    /\ got \in Seq(Packets) /\ Len(got) <= Len(sent)
    /\ \A i \in 1 .. Len(got) : got[i] = sent[i]
    /\ \E a \in Seq(Bytes) : \E cut, m, n : Cut(a, cut, m, n)

\* One goroutine writes to the connection, as in the command line client.
OneWriter == \A v, w \in Writers : v = w

LEMMA SendableFacts ==
  ASSUME NEW p, Sendable(p)
  PROVE  /\ p \in Packets /\ Marshal(p) \in Seq(Bytes)
         /\ Len(Marshal(p)) \in 1 .. SizeLimit /\ Len(Marshal(p)) \in Nat
         /\ Unmarshal(Marshal(p)) = p
         /\ PutUint(Len(Marshal(p))) \in Seq(Bytes)
         /\ Len(PutUint(Len(Marshal(p)))) = LengthWidth
         /\ Uint(PutUint(Len(Marshal(p)))) = Len(Marshal(p))
<1>1. p \in Packets /\ Marshal(p) \in Seq(Bytes) /\ Len(p.payload) \in Nat
  BY OutgoingFacts, PacketFacts DEF Sendable
<1>2. Len(Marshal(p)) = MinHeaderSize + Len(p.payload)
  BY <1>1, MarshalFacts
<1>3. Len(Marshal(p)) \in 1 .. SizeLimit /\ Len(Marshal(p)) \in Nat
  <2>1. Len(p.payload) \in Nat /\ Len(Marshal(p)) <= SizeLimit
    BY <1>1 DEF Sendable
  <2>2. PICK x, y : x = Len(Marshal(p)) /\ y = Len(p.payload)
    OBVIOUS
  <2>3. y \in Nat /\ x <= SizeLimit /\ x = MinHeaderSize + y
    BY <1>2, <2>1, <2>2
  <2>4. x \in 1 .. SizeLimit /\ x \in Nat
    BY <2>3, WidthFacts
  <2> QED BY <2>2, <2>4
<1>4. Unmarshal(Marshal(p)) = p
  BY <1>1, UnmarshalOfMarshal DEF Sendable
<1>5. Len(Marshal(p)) \in 0 .. SizeLimit
  BY <1>3, WidthFacts
<1> QED BY <1>1, <1>3, <1>4, <1>5, PutUintBytes, LengthFits

LEMMA AtGrows ==
  ASSUME NEW a \in Seq(Bytes), NEW b \in Seq(Bytes), NEW t \in Seq(Bytes), NEW x \in Nat,
         At(a, x, t)
  PROVE  At(a \o b, x, t)
<1>1. /\ Len(a \o b) = Len(a) + Len(b) /\ \A i \in 1 .. Len(a) : (a \o b)[i] = a[i]
      /\ Len(a) \in Nat /\ Len(b) \in Nat /\ Len(t) \in Nat
  BY ConcatFacts, Lengths
<1>2. x + Len(t) <= Len(a) /\ \A j \in 1 .. Len(t) : a[x + j] = t[j]
  BY DEF At
<1>3. ASSUME NEW j \in 1 .. Len(t) PROVE (a \o b)[x + j] = t[j]
  <2>1. x + j \in 1 .. Len(a)
    BY <1>1, <1>2
  <2> QED BY <1>1, <1>2, <2>1
<1>4. x + Len(t) <= Len(a \o b)
  BY <1>1, <1>2
<1> QED BY <1>3, <1>4 DEF At

LEMMA AtEnd ==
  ASSUME NEW a \in Seq(Bytes), NEW t \in Seq(Bytes)
  PROVE  At(a \o t, Len(a), t)
<1>1. /\ Len(a \o t) = Len(a) + Len(t) /\ \A i \in 1 .. Len(t) : (a \o t)[Len(a) + i] = t[i]
      /\ Len(a) \in Nat /\ Len(t) \in Nat
  BY ConcatFacts, Lengths
<1> QED BY <1>1 DEF At

LEMMA AtStays ==
  ASSUME NEW a \in Seq(Bytes), NEW t \in Seq(Bytes), NEW x \in Nat, At(a, x, t),
         NEW l \in 0 .. Len(a), x + Len(t) <= l
  PROVE  At(SubSeq(a, 1, l), x, t)
<1> DEFINE b == SubSeq(a, 1, l)
<1>1. /\ Len(b) = l /\ \A i \in 1 .. l : b[i] = a[i]
      /\ Len(a) \in Nat /\ Len(t) \in Nat
  OBVIOUS
<1> HIDE DEF b
<1>2. \A j \in 1 .. Len(t) : a[x + j] = t[j]
  BY DEF At
<1>3. ASSUME NEW j \in 1 .. Len(t) PROVE b[x + j] = t[j]
  <2>1. x + j \in 1 .. l
    BY <1>1
  <2> QED BY <1>1, <1>2, <2>1
<1>4. At(b, x, t)
  BY <1>1, <1>3 DEF At
<1> QED BY <1>4 DEF b

LEMMA SuffixGrows ==
  ASSUME NEW s \in Seq(Bytes), NEW a \in Seq(Bytes), NEW t \in Seq(Bytes), NEW r \in Nat,
         Suffix(s, a, r)
  PROVE  Suffix(s \o t, a \o t, r)
<1>1. /\ Len(s) \in Nat /\ Len(a) \in Nat /\ Len(t) \in Nat /\ r + Len(s) = Len(a)
      /\ \A j \in 1 .. Len(s) : s[j] = a[r + j]
  BY Lengths DEF Suffix
<1>2. /\ Len(a \o t) = Len(a) + Len(t)
      /\ \A i \in 1 .. Len(a) : (a \o t)[i] = a[i]
      /\ \A i \in 1 .. Len(t) : (a \o t)[Len(a) + i] = t[i]
  BY ConcatFacts
<1>3. /\ Len(s \o t) = Len(s) + Len(t)
      /\ \A i \in 1 .. Len(s) : (s \o t)[i] = s[i]
      /\ \A i \in 1 .. Len(t) : (s \o t)[Len(s) + i] = t[i]
  BY ConcatFacts
<1>4. ASSUME NEW j \in 1 .. Len(s) + Len(t) PROVE (s \o t)[j] = (a \o t)[r + j]
  <2>1. CASE j <= Len(s)
    <3>1. j \in 1 .. Len(s) /\ r + j \in 1 .. Len(a)
      BY <1>1, <2>1
    <3>2. (s \o t)[j] = s[j] /\ (a \o t)[r + j] = a[r + j]
      BY <1>2, <1>3, <3>1
    <3> QED BY <1>1, <3>1, <3>2
  <2>2. CASE j > Len(s)
    <3>1. j - Len(s) \in 1 .. Len(t) /\ Len(s) + (j - Len(s)) = j /\ Len(a) + (j - Len(s)) = r + j
      BY <1>1, <2>2
    <3>2. (s \o t)[Len(s) + (j - Len(s))] = t[j - Len(s)]
      BY <1>3, <3>1
    <3>3. (a \o t)[Len(a) + (j - Len(s))] = t[j - Len(s)]
      BY <1>2, <3>1
    <3> QED BY <3>1, <3>2, <3>3
  <2> QED BY <1>1, <2>1, <2>2
<1>5. r + Len(s \o t) = Len(a \o t)
  <2>1. Len(s) \in Nat /\ Len(t) \in Nat /\ r + Len(s) = Len(a)
    BY <1>1
  <2>2. Len(a \o t) = Len(a) + Len(t) /\ Len(s \o t) = Len(s) + Len(t)
    BY <1>2, <1>3
  <2>3. r + (Len(s) + Len(t)) = Len(a) + Len(t)
    BY <2>1
  <2> QED BY <2>2, <2>3, Zenon
<1> QED BY <1>3, <1>4, <1>5 DEF Suffix

LEMMA SuffixDrops ==
  ASSUME NEW s \in Seq(Bytes), NEW a \in Seq(Bytes), NEW r \in Nat, Suffix(s, a, r),
         NEW l \in 0 .. Len(s)
  PROVE  Suffix(SubSeq(s, l + 1, Len(s)), a, r + l)
<1> DEFINE b == SubSeq(s, l + 1, Len(s))
<1>1. /\ Len(s) \in Nat /\ Len(a) \in Nat /\ r + Len(s) = Len(a)
      /\ \A j \in 1 .. Len(s) : s[j] = a[r + j]
  BY Lengths DEF Suffix
<1>2. Len(b) = Len(s) - l /\ \A j \in 1 .. Len(s) - l : b[j] = s[l + j]
  <2>1. Len(s) - l \in Nat /\ l \in Nat /\ l + (Len(s) - l) = Len(s)
    BY <1>1
  <2>2. PICK k \in Nat : k = Len(s) - l /\ l + k = Len(s)
    BY <2>1
  <2>3. /\ Len(SubSeq(s, l + 1, l + k)) = k
        /\ \A i \in 1 .. k : SubSeq(s, l + 1, l + k)[i] = s[l + i]
    <3>1. l \in Nat /\ l + k <= Len(s)
      BY <1>1, <2>1, <2>2
    <3> QED BY <3>1, PartFacts
  <2> QED BY <2>2, <2>3
<1> HIDE DEF b
<1>3. ASSUME NEW j \in 1 .. Len(b) PROVE b[j] = a[r + l + j]
  <2>1. l + j \in 1 .. Len(s) /\ r + (l + j) = r + l + j /\ j \in 1 .. Len(s) - l
    BY <1>1, <1>2
  <2>2. b[j] = s[l + j] /\ s[l + j] = a[r + (l + j)]
    BY <1>1, <1>2, <2>1
  <2> QED BY <2>1, <2>2
<1>4. r + l + Len(b) = Len(a)
  <2>1. Len(b) = Len(s) - l /\ r + Len(s) = Len(a) /\ Len(s) \in Nat
    BY <1>1, <1>2
  <2> QED BY <2>1
<1> QED BY <1>3, <1>4 DEF Suffix, b

LEMMA SuffixCut ==
  ASSUME NEW s \in Seq(Bytes), NEW a \in Seq(Bytes), NEW r \in Nat, Suffix(s, a, r),
         NEW l \in 0 .. Len(s)
  PROVE  /\ r + l \in 0 .. Len(a) /\ SubSeq(a, 1, r + l) \in Seq(Bytes)
         /\ Len(SubSeq(a, 1, r + l)) = r + l
         /\ Suffix(SubSeq(s, 1, l), SubSeq(a, 1, r + l), r)
<1> DEFINE b == SubSeq(s, 1, l)
           c == SubSeq(a, 1, r + l)
<1>1. /\ Len(s) \in Nat /\ Len(a) \in Nat /\ r + Len(s) = Len(a)
      /\ \A j \in 1 .. Len(s) : s[j] = a[r + j]
  BY Lengths DEF Suffix
<1>2. Len(b) = l /\ \A j \in 1 .. l : b[j] = s[j]
  BY <1>1
<1>3. r + l \in 0 .. Len(a)
  BY <1>1
<1>4. c \in Seq(Bytes) /\ Len(c) = r + l /\ \A j \in 1 .. r + l : c[j] = a[j]
  BY <1>3
<1> HIDE DEF b, c
<1>5. ASSUME NEW j \in 1 .. l PROVE b[j] = c[r + j]
  <2>1. j \in 1 .. Len(s) /\ r + j \in 1 .. r + l
    BY <1>1
  <2> QED BY <1>1, <1>2, <1>4, <2>1
<1>6. Suffix(b, c, r)
  BY <1>2, <1>4, <1>5 DEF Suffix
<1> QED BY <1>3, <1>4, <1>6 DEF b, c

LEMMA SuffixReads ==
  ASSUME NEW s \in Seq(Bytes), NEW a \in Seq(Bytes), NEW r \in Nat, Suffix(s, a, r),
         NEW t \in Seq(Bytes), Len(t) <= Len(s),
         \A j \in 1 .. Len(t) : a[r + j] = t[j]
  PROVE  SubSeq(s, 1, Len(t)) = t
<1> DEFINE b == SubSeq(s, 1, Len(t))
<1>1. /\ Len(s) \in Nat /\ Len(t) \in Nat /\ \A j \in 1 .. Len(s) : s[j] = a[r + j]
  BY Lengths DEF Suffix
<1>2. b \in Seq(Bytes) /\ Len(b) = Len(t) /\ \A j \in 1 .. Len(t) : b[j] = s[j]
  BY <1>1
<1> HIDE DEF b
<1>3. ASSUME NEW j \in 1 .. Len(t) PROVE b[j] = t[j]
  <2>1. j \in 1 .. Len(s)
    BY <1>1
  <2> QED BY <1>1, <1>2, <2>1
<1>4. b = t
  BY <1>2, <1>3, SameSeq
<1> QED BY <1>4 DEF b
LEMMA NotNoPacket == ASSUME NEW p \in Packets PROVE p # NoPacket
<1>1. "version" \in DOMAIN p
  BY DEF Packets
<1>2. DOMAIN NoPacket = {}
  BY DEF NoPacket
<1> QED BY <1>1, <1>2

\* The parts of the invariant, and where the reader is.
LEMMA Opened ==
  ASSUME TypeOK, FrameInv
  PROVE  \E a \in Seq(Bytes), m \in 0 .. Len(sent), n \in 0 .. SizeLimit :
            \E cut \in [0 .. m -> Nat] : Cut(a, cut, m, n)
<1>1. PICK a \in Seq(Bytes) : \E cut, m, n : Cut(a, cut, m, n)
  BY DEF FrameInv
<1>2. PICK cut, m, n : Cut(a, cut, m, n)
  BY <1>1
<1>3. m \in Len(got) .. Len(sent) /\ cut \in [0 .. m -> Nat] /\ n \in 0 .. SizeLimit
  BY <1>2 DEF Cut, FramesAt, PartAt
<1>4. Len(got) \in Nat /\ Len(sent) \in Nat
  BY Lengths DEF FrameInv, TypeOK
<1>5. m \in 0 .. Len(sent)
  BY <1>3, <1>4
<1> QED BY <1>2, <1>3, <1>5

LEMMA Places ==
  ASSUME TypeOK, FrameInv, NEW a \in Seq(Bytes), NEW m \in 0 .. Len(sent),
         NEW cut \in [0 .. m -> Nat], NEW n, Cut(a, cut, m, n)
  PROVE  /\ Len(got) \in 0 .. m /\ cut[Len(got)] \in Nat /\ cut[m] \in Nat
         /\ Len(a) \in Nat /\ Len(stream) \in Nat /\ cut[m] <= Len(a) /\ stream \in Seq(Bytes)
         /\ need = -1 => Suffix(stream, a, cut[Len(got)])
         /\ need # -1 => Suffix(stream, a, cut[Len(got)] + LengthWidth)
<1>1. Len(got) \in Nat /\ Len(sent) \in Nat /\ Len(a) \in Nat /\ Len(stream) \in Nat
  BY Lengths DEF FrameInv, TypeOK
<1>2. m \in Len(got) .. Len(sent) /\ cut[m] <= Len(a) /\ m \in Nat
  BY <1>1 DEF Cut, FramesAt
<1>3. Len(got) \in 0 .. m /\ m \in 0 .. m
  BY <1>1, <1>2
<1>4. cut[Len(got)] \in Nat /\ cut[m] \in Nat
  BY <1>3
<1>5. cut[Len(got)] + 0 = cut[Len(got)]
  BY <1>4
<1> QED BY <1>1, <1>2, <1>3, <1>4, <1>5 DEF Cut, ReaderAt, TypeOK

LEMMA FramesGrow ==
  ASSUME TypeOK, FrameInv, NEW a \in Seq(Bytes), NEW b \in Seq(Bytes),
         NEW m \in 0 .. Len(sent), NEW cut \in [0 .. m -> Nat], NEW k \in 0 .. m,
         NEW i \in k + 1 .. m, FrameAt(a, cut, i)
  PROVE  FrameAt(a \o b, cut, i)
<1>1. Len(sent) \in Nat
  BY Lengths DEF TypeOK
<1>2. i \in 1 .. Len(sent) /\ i - 1 \in 0 .. m /\ LengthWidth \in Nat
  BY <1>1, WidthFacts
<1>3. Sendable(sent[i]) /\ cut[i - 1] \in Nat /\ cut[i - 1] + LengthWidth \in Nat
  BY <1>2 DEF FrameInv
<1> QED BY <1>3, SendableFacts, AtGrows DEF FrameAt

LEMMA WriteLengthFrames ==
  ASSUME TypeOK, FrameInv, OneWriter, NEW w \in Writers, WriteLength(w)
  PROVE  FrameInv'
<1> DEFINE W == LengthWidth
           k == Len(got)
<1>1. PICK p \in Outgoing :
        /\ Len(p.payload) <= SizeLimit /\ Len(Marshal(p)) <= SizeLimit
        /\ stream' = stream \o PutUint(Len(Marshal(p)))
        /\ pending' = [pending EXCEPT ![w] = p]
  BY DEF WriteLength
<1>2. UNCHANGED <<link, need, sent, got>> /\ link = "up" /\ pending[w] = NoPacket
  BY DEF WriteLength
<1>3. PICK a \in Seq(Bytes), m \in 0 .. Len(sent), n \in 0 .. SizeLimit :
        \E cut \in [0 .. m -> Nat] : Cut(a, cut, m, n)
  BY Opened
<1>4. PICK cut \in [0 .. m -> Nat] : Cut(a, cut, m, n)
  BY <1>3
<1>5. PICK t, l : t = PutUint(Len(Marshal(p))) /\ l = Len(Marshal(p))
  OBVIOUS
<1>6. /\ Sendable(p) /\ p # NoPacket /\ t \in Seq(Bytes) /\ Len(t) = W
      /\ l \in 1 .. SizeLimit /\ W \in Nat /\ W > 0
  BY <1>1, <1>5, SendableFacts, NotNoPacket, WidthFacts DEF Sendable
<1>7. /\ k \in 0 .. m /\ cut[k] \in Nat /\ cut[m] \in Nat /\ Len(a) \in Nat
      /\ Len(stream) \in Nat /\ stream \in Seq(Bytes)
      /\ need = -1 => Suffix(stream, a, cut[k])
      /\ need # -1 => Suffix(stream, a, cut[k] + W)
  BY <1>4, Places
<1>8. m = Len(sent) /\ Len(a) = cut[m]
  BY <1>2, <1>4 DEF Cut, WriterAt
<1> DEFINE b == a \o t
<1>9. b \in Seq(Bytes) /\ Len(b) = cut[m] + W /\ At(b, cut[m], t)
  <2>1. a \o t \in Seq(Bytes) /\ Len(a \o t) = Len(a) + Len(t) /\ At(a \o t, Len(a), t)
    BY <1>6, ConcatFacts, AtEnd
  <2> HIDE DEF W
  <2> QED BY <1>6, <1>8, <2>1
<1> HIDE DEF W, k
<1>10. FramesAt(b, cut, k, m)'
  <2>1. FramesAt(a, cut, k, m)
    BY <1>4 DEF Cut, k
  <2>2. \A i \in k + 1 .. m : FrameAt(b, cut, i)
    BY <1>6, <1>7, <2>1, FramesGrow DEF FramesAt
  <2>3. cut[m] <= Len(b)
    BY <1>6, <1>7, <1>9
  <2>4. FramesAt(b, cut, k, m)
    BY <2>1, <2>2, <2>3 DEF FramesAt
  <2> HIDE DEF b
  <2> QED BY <1>2, <2>4 DEF FramesAt, FrameAt, k
<1>11. PartAt(b, cut[m], l)
  <2> HIDE DEF b
  <2>1. l \in 0 .. SizeLimit /\ Len(b) < cut[m] + W + l
    BY <1>6, <1>7, <1>9
  <2>2. \A j \in 1 .. W : b[cut[m] + j] = PutUint(l)[j]
    BY <1>5, <1>6, <1>9 DEF At
  <2> QED BY <2>1, <2>2 DEF PartAt, W
<1>12. need # -1 => k < m
  <2> SUFFICES ASSUME need # -1, k = m PROVE FALSE
    BY <1>7
  <2>1. cut[m] + W + Len(stream) = cut[m]
    BY <1>7, <1>8 DEF Suffix
  <2> QED BY <1>6, <1>7, <2>1
<1>13. ReaderAt(b, cut, m, l)'
  <2>1. need = -1 => Suffix(stream \o t, b, cut[k])
    BY <1>6, <1>7, SuffixGrows
  <2>2. need # -1 => Suffix(stream \o t, b, cut[k] + W)
    <3>1. cut[k] + W \in Nat
      BY <1>6, <1>7
    <3> QED BY <1>6, <1>7, <3>1, SuffixGrows
  <2>3. cut[k] + 0 = cut[k]
    BY <1>7
  <2>4. need # -1 => need = Len(Marshal(sent[k + 1]))
    BY <1>4, <1>12 DEF Cut, ReaderAt, k
  <2> HIDE DEF b
  <2> QED BY <1>1, <1>2, <1>5, <1>12, <2>1, <2>2, <2>3, <2>4 DEF ReaderAt, k, W
<1>14. WriterAt(b, cut, m, l)'
  <2>1. \A v \in Writers : pending'[v] = p
    BY <1>1 DEF OneWriter, TypeOK
  <2> HIDE DEF b
  <2> QED BY <1>2, <1>5, <1>6, <1>8, <1>9, <2>1 DEF WriterAt, W
<1>15. Cut(b, cut, m, l)'
  BY <1>2, <1>10, <1>11, <1>13, <1>14 DEF Cut, k
<1>16. \A v \in Writers : pending'[v] # NoPacket => Sendable(pending'[v])
  BY <1>1, <1>6 DEF FrameInv, TypeOK
<1> QED BY <1>2, <1>9, <1>15, <1>16 DEF FrameInv, Sendable
LEMMA WritePayloadFrames ==
  ASSUME TypeOK, FrameInv, OneWriter, NEW w \in Writers, WritePayload(w)
  PROVE  FrameInv'
<1> DEFINE W == LengthWidth
           k == Len(got)
<1>1. PICK p : p = pending[w]
  OBVIOUS
<1>2. /\ UNCHANGED <<link, need, got>> /\ link = "up" /\ p # NoPacket
      /\ stream' = stream \o Marshal(p) /\ sent' = Append(sent, p)
      /\ pending' = [pending EXCEPT ![w] = NoPacket]
  BY <1>1 DEF WritePayload
<1>3. PICK a \in Seq(Bytes), m \in 0 .. Len(sent), n \in 0 .. SizeLimit :
        \E cut \in [0 .. m -> Nat] : Cut(a, cut, m, n)
  BY Opened
<1>4. PICK cut \in [0 .. m -> Nat] : Cut(a, cut, m, n)
  BY <1>3
<1>5. PICK t, l : t = Marshal(p) /\ l = Len(Marshal(p))
  OBVIOUS
<1>6. /\ Sendable(p) /\ p \in Outgoing /\ t \in Seq(Bytes) /\ Len(t) = l
      /\ l \in 1 .. SizeLimit /\ l \in Nat /\ W \in Nat /\ W > 0 /\ SizeLimit \in Nat
      /\ PutUint(l) \in Seq(Bytes) /\ Len(PutUint(l)) = W
  BY <1>1, <1>2, <1>5, SendableFacts, WidthFacts DEF Sendable, FrameInv
<1>7. /\ k \in 0 .. m /\ cut[k] \in Nat /\ cut[m] \in Nat /\ Len(a) \in Nat
      /\ Len(stream) \in Nat /\ stream \in Seq(Bytes)
      /\ need = -1 => Suffix(stream, a, cut[k])
      /\ need # -1 => Suffix(stream, a, cut[k] + W)
  BY <1>4, Places
<1>8. m = Len(sent) /\ Len(a) = cut[m] + W /\ n = l
  BY <1>1, <1>2, <1>4, <1>5 DEF Cut, WriterAt
<1>9. /\ m \in Nat /\ Len(sent') = m + 1 /\ sent'[m + 1] = p
      /\ \A i \in 1 .. m : sent'[i] = sent[i]
  BY <1>2, <1>6, <1>8 DEF TypeOK
<1> DEFINE b == a \o t
           new == [i \in 0 .. m + 1 |-> IF i = m + 1 THEN cut[m] + W + l ELSE cut[i]]
<1>10. b \in Seq(Bytes) /\ Len(b) = cut[m] + W + l /\ At(b, cut[m] + W, t)
  <2>1. a \o t \in Seq(Bytes) /\ Len(a \o t) = Len(a) + Len(t) /\ At(a \o t, Len(a), t)
    BY <1>6, ConcatFacts, AtEnd
  <2> HIDE DEF W
  <2> QED BY <1>6, <1>8, <2>1
<1> HIDE DEF W, k
<1>11. /\ new \in [0 .. m + 1 -> Nat] /\ new[m + 1] = cut[m] + W + l
       /\ \A i \in 0 .. m : new[i] = cut[i]
  BY <1>6, <1>7, <1>9
<1> HIDE DEF new
<1>12. At(b, cut[m], PutUint(l))
  <2>1. \A j \in 1 .. W : a[cut[m] + j] = PutUint(l)[j]
    <3>1. \A j \in 1 .. W : cut[m] + j <= Len(a)
      BY <1>6, <1>7, <1>8
    <3> QED BY <1>4, <1>8, <3>1 DEF Cut, PartAt, W
  <2>2. At(a, cut[m], PutUint(l))
    BY <1>6, <1>7, <1>8, <2>1 DEF At
  <2> QED BY <1>6, <1>7, <2>2, AtGrows
<1>13. FramesAt(b, new, k, m + 1)'
  <2>1. FramesAt(a, cut, k, m)
    BY <1>4 DEF Cut, k
  <2>2. \A i \in k + 1 .. m : FrameAt(b, cut, i)
    BY <1>6, <1>7, <2>1, FramesGrow DEF FramesAt
  <2> HIDE DEF b
  <2>3. ASSUME NEW i \in k + 1 .. m + 1 PROVE FrameAt(b, new, i)'
    <3>1. CASE i = m + 1
      <4>1. i - 1 = m /\ m \in 0 .. m
        BY <1>9, <3>1
      <4>2. new[i] = cut[m] + W + l /\ new[i - 1] = cut[m] /\ sent'[i] = p
        BY <1>9, <1>11, <3>1, <4>1
      <4> QED BY <1>5, <1>10, <1>12, <4>2 DEF FrameAt, W
    <3>2. CASE i # m + 1
      <4>1. i \in k + 1 .. m /\ i \in 0 .. m /\ i - 1 \in 0 .. m /\ i \in 1 .. m
        BY <1>7, <1>9, <3>2
      <4>2. new[i] = cut[i] /\ new[i - 1] = cut[i - 1] /\ sent'[i] = sent[i]
        BY <1>9, <1>11, <4>1
      <4> QED BY <2>2, <4>1, <4>2 DEF FrameAt
    <3> QED BY <3>1, <3>2
  <2>4. m + 1 \in k .. Len(sent') /\ new[m + 1] <= Len(b)
    BY <1>6, <1>7, <1>9, <1>10, <1>11
  <2>5. k' = k
    BY <1>2 DEF k
  <2> QED BY <1>11, <2>3, <2>4, <2>5 DEF FramesAt
<1>14. PartAt(b, new[m + 1], 0)
  <2> HIDE DEF b
  <2>1. 0 \in 0 .. SizeLimit /\ Len(b) < new[m + 1] + W + 0
    BY <1>6, <1>7, <1>10, <1>11
  <2>2. \A j \in 1 .. W : ~(new[m + 1] + j <= Len(b))
    BY <1>6, <1>7, <1>10, <1>11
  <2> QED BY <2>1, <2>2 DEF PartAt, W
<1>15. ReaderAt(b, new, m + 1, 0)'
  <2>1. need = -1 => Suffix(stream \o t, b, cut[k])
    BY <1>6, <1>7, SuffixGrows
  <2>2. need # -1 => Suffix(stream \o t, b, cut[k] + W)
    <3>1. cut[k] + W \in Nat
      BY <1>6, <1>7
    <3> QED BY <1>6, <1>7, <3>1, SuffixGrows
  <2>3. cut[k] + 0 = cut[k] /\ new[k] = cut[k] /\ k < m + 1
    BY <1>7, <1>9, <1>11
  <2>4. need # -1 => need = Len(Marshal(sent'[k + 1]))
    <3>1. CASE k < m
      <4>1. k + 1 \in 1 .. m
        BY <1>7, <1>9, <3>1
      <4> QED BY <1>4, <1>9, <3>1, <4>1 DEF Cut, ReaderAt, k
    <3>2. CASE ~(k < m)
      <4>1. k = m
        BY <1>7, <1>9, <3>2
      <4>2. need # -1 => need = n
        BY <1>4, <3>2 DEF Cut, ReaderAt, k
      <4> QED BY <1>5, <1>8, <1>9, <4>1, <4>2
    <3> QED BY <3>1, <3>2
  <2> HIDE DEF b
  <2> QED BY <1>2, <1>5, <2>1, <2>2, <2>3, <2>4 DEF ReaderAt, k, W
<1>16. WriterAt(b, new, m + 1, 0)'
  <2>1. \A v \in Writers : pending'[v] = NoPacket
    BY <1>2 DEF OneWriter, TypeOK
  <2> HIDE DEF b
  <2> QED BY <1>9, <1>10, <1>11, <2>1 DEF WriterAt
<1>17. Cut(b, new, m + 1, 0)'
  BY <1>2, <1>13, <1>14, <1>15, <1>16 DEF Cut, k
<1>18. /\ \A v \in Writers : pending'[v] # NoPacket => Sendable(pending'[v])
       /\ \A i \in 1 .. Len(sent') : Sendable(sent'[i])
  <2>1. \A v \in Writers : pending'[v] # NoPacket => Sendable(pending'[v])
    BY <1>2 DEF FrameInv, TypeOK
  <2>2. ASSUME NEW i \in 1 .. Len(sent') PROVE Sendable(sent'[i])
    <3>1. CASE i = m + 1
      BY <1>6, <1>9, <3>1
    <3>2. CASE i # m + 1
      <4>1. i \in 1 .. m
        BY <1>9, <3>2
      <4> QED BY <1>8, <1>9, <4>1 DEF FrameInv
    <3> QED BY <3>1, <3>2
  <2> QED BY <2>1, <2>2
<1>19. Len(got) <= Len(sent') /\ \A i \in 1 .. Len(got) : got[i] = sent'[i]
  <2>1. \A i \in 1 .. k : i \in 1 .. m
    BY <1>7, <1>9
  <2>2. k <= m + 1
    BY <1>7, <1>9
  <2> QED BY <1>9, <2>1, <2>2 DEF FrameInv, k
<1>20. \E x \in Seq(Bytes) : \E y, z, u : Cut(x, y, z, u)'
  BY <1>10, <1>17
<1> QED BY <1>2, <1>18, <1>19, <1>20 DEF FrameInv, Sendable
LEMMA FrameNext ==
  ASSUME NEW a, NEW cut, NEW k \in Nat, FrameAt(a, cut, k + 1)
  PROVE  /\ cut[k + 1] = cut[k] + LengthWidth + Len(Marshal(sent[k + 1]))
         /\ At(a, cut[k], PutUint(Len(Marshal(sent[k + 1]))))
         /\ At(a, cut[k] + LengthWidth, Marshal(sent[k + 1]))
<1>1. PICK i : i = k + 1 /\ i - 1 = k
  OBVIOUS
<1>2. FrameAt(a, cut, i)
  BY <1>1
<1> QED BY <1>1, <1>2 DEF FrameAt

LEMMA OtherFrames ==
  ASSUME TypeOK, FrameInv, UNCHANGED <<link, stream, need, sent, got>>,
         \/ pending' = pending
         \/ /\ link = "down"
            /\ \A v \in Writers : pending'[v] \in {NoPacket, pending[v]}
  PROVE  FrameInv'
<1>1. PICK a \in Seq(Bytes) : \E cut, m, n : Cut(a, cut, m, n)
  BY DEF FrameInv
<1>2. PICK cut, m, n : Cut(a, cut, m, n)
  BY <1>1
<1>3. WriterAt(a, cut, m, n)'
  <2>1. CASE pending' = pending
    BY <1>2, <2>1 DEF Cut, WriterAt
  <2>2. CASE link = "down"
    BY <2>2 DEF WriterAt
  <2> QED BY <2>1, <2>2
<1>4. FramesAt(a, cut, Len(got), m)' /\ ReaderAt(a, cut, m, n)'
  BY <1>2 DEF Cut, FramesAt, FrameAt, ReaderAt
<1>5. Cut(a, cut, m, n)'
  BY <1>2, <1>3, <1>4 DEF Cut
<1>6. \A v \in Writers : pending'[v] # NoPacket => Sendable(pending'[v])
  BY DEF FrameInv
<1>7. \E x \in Seq(Bytes) : \E y, z, u : Cut(x, y, z, u)'
  BY <1>5
<1> QED BY <1>6, <1>7 DEF FrameInv, Sendable

LEMMA ReadLengthFrames ==
  ASSUME TypeOK, FrameInv, ReadLength
  PROVE  FrameInv'
<1> DEFINE W == LengthWidth
           k == Len(got)
<1>1. PICK a \in Seq(Bytes), m \in 0 .. Len(sent), n \in 0 .. SizeLimit :
        \E cut \in [0 .. m -> Nat] : Cut(a, cut, m, n)
  BY Opened
<1>2. PICK cut \in [0 .. m -> Nat] : Cut(a, cut, m, n)
  BY <1>1
<1>3. /\ UNCHANGED <<link, pending, sent, got>> /\ need = -1 /\ Len(stream) >= W
      /\ stream' = SubSeq(stream, W + 1, Len(stream))
      /\ need' = Uint(SubSeq(stream, 1, W))
  BY DEF ReadLength
<1>4. /\ k \in 0 .. m /\ cut[k] \in Nat /\ cut[m] \in Nat /\ Len(a) \in Nat
      /\ Len(stream) \in Nat /\ stream \in Seq(Bytes) /\ Suffix(stream, a, cut[k])
  BY <1>2, <1>3, Places
<1>5. W \in Nat /\ W \in 0 .. Len(stream) /\ Len(a) = cut[k] + Len(stream) /\ Len(sent) \in Nat
  BY <1>3, <1>4, WidthFacts, Lengths DEF Suffix, TypeOK
<1> HIDE DEF W, k
<1>6. Suffix(stream', a, cut[k] + W)
  BY <1>3, <1>4, <1>5, SuffixDrops
<1>7. ASSUME NEW x \in 0 .. SizeLimit, \A j \in 1 .. W : a[cut[k] + j] = PutUint(x)[j]
      PROVE  need' = x
  <2>1. PICK t : t = PutUint(x)
    OBVIOUS
  <2>2. x \in Nat
    OBVIOUS
  <2>3. t \in Seq(Bytes) /\ Len(t) = W /\ Uint(t) = x
    BY <2>1, <2>2, PutUintBytes, LengthFits DEF W
  <2>4. SubSeq(stream, 1, Len(t)) = t
    BY <1>3, <1>4, <1>7, <2>1, <2>3, SuffixReads
  <2> QED BY <1>3, <2>3, <2>4
<1>8. need' = IF k < m THEN Len(Marshal(sent[k + 1])) ELSE n
  <2>1. ASSUME k < m PROVE need' = Len(Marshal(sent[k + 1]))
    <3>1. k + 1 \in k + 1 .. m /\ k + 1 - 1 = k /\ k + 1 \in 1 .. Len(sent)
      BY <1>4, <1>5, <2>1
    <3>2. FrameAt(a, cut, k + 1)
      BY <1>2, <3>1 DEF Cut, FramesAt, k
    <3>3. Sendable(sent[k + 1])
      BY <3>1 DEF FrameInv
    <3>4. PICK x : x = Len(Marshal(sent[k + 1]))
      OBVIOUS
    <3>5. x \in 0 .. SizeLimit /\ Len(PutUint(x)) = W
      <4>1. x \in 1 .. SizeLimit /\ Len(PutUint(x)) = W
        BY <3>3, <3>4, SendableFacts DEF W
      <4> QED BY <4>1, WidthFacts
    <3>6. \A j \in 1 .. W : a[cut[k] + j] = PutUint(x)[j]
      <4>1. k \in Nat
        BY <1>4
      <4>2. At(a, cut[k], PutUint(x))
        BY <3>2, <3>4, <4>1, FrameNext
      <4> QED BY <3>5, <4>2 DEF At
    <3> QED BY <1>7, <3>4, <3>5, <3>6
  <2>2. ASSUME ~(k < m) PROVE need' = n
    <3>1. k = m
      BY <1>4, <2>2
    <3>2. \A j \in 1 .. W : cut[k] + j <= Len(a)
      BY <1>4, <1>5
    <3>3. \A j \in 1 .. W : a[cut[k] + j] = PutUint(n)[j]
      BY <1>2, <3>1, <3>2 DEF Cut, PartAt, W
    <3> QED BY <1>7, <3>3
  <2> QED BY <2>1, <2>2
<1>9. need' # -1
  <2>1. stream \in Seq(Bytes) /\ SubSeq(stream, 1, W) \in Seq(Bytes) /\ Len(SubSeq(stream, 1, W)) = W
    BY <1>4, <1>5, ReadTypes
  <2>2. need' \in 0 .. Power[LengthWidth] - 1
    BY <1>3, <2>1, UintBound DEF W
  <2>3. Power[LengthWidth] \in Nat
    BY WidthFacts, PowerFacts
  <2> QED BY <2>2, <2>3
<1>10. ReaderAt(a, cut, m, n)'
  BY <1>3, <1>6, <1>8, <1>9 DEF ReaderAt, k, W
<1>11. FramesAt(a, cut, k, m)' /\ WriterAt(a, cut, m, n)'
  BY <1>2, <1>3 DEF Cut, FramesAt, FrameAt, WriterAt, k
<1>12. Cut(a, cut, m, n)'
  BY <1>2, <1>10, <1>11 DEF Cut, k
<1>13. \E x \in Seq(Bytes) : \E y, z, u : Cut(x, y, z, u)'
  BY <1>12
<1> QED BY <1>3, <1>13 DEF FrameInv, Sendable

LEMMA ReadPayloadFrames ==
  ASSUME TypeOK, FrameInv, ReadPayload
  PROVE  FrameInv'
<1> DEFINE W == LengthWidth
           k == Len(got)
<1>1. PICK a \in Seq(Bytes), m \in 0 .. Len(sent), n \in 0 .. SizeLimit :
        \E cut \in [0 .. m -> Nat] : Cut(a, cut, m, n)
  BY Opened
<1>2. PICK cut \in [0 .. m -> Nat] : Cut(a, cut, m, n)
  BY <1>1
<1>3. /\ UNCHANGED <<link, pending, sent>> /\ need # -1 /\ Len(stream) >= need
      /\ stream' = SubSeq(stream, need + 1, Len(stream)) /\ need' = -1
      /\ got' = Append(got, Unmarshal(SubSeq(stream, 1, need)))
  BY DEF ReadPayload
<1>4. /\ k \in 0 .. m /\ cut[k] \in Nat /\ cut[m] \in Nat /\ Len(a) \in Nat
      /\ Len(stream) \in Nat /\ stream \in Seq(Bytes) /\ Suffix(stream, a, cut[k] + W)
  BY <1>2, <1>3, Places
<1>5. /\ W \in Nat /\ Len(a) = cut[k] + W + Len(stream) /\ Len(sent) \in Nat
      /\ got \in Seq(Packets)
  BY <1>4, WidthFacts, Lengths DEF Suffix, TypeOK, FrameInv
<1> HIDE DEF W, k
<1>6. k < m
  <2> SUFFICES ASSUME ~(k < m) PROVE FALSE
    OBVIOUS
  <2>1. k = m
    BY <1>4
  <2>2. need = n /\ Len(a) < cut[m] + W + n
    BY <1>2, <1>3 DEF Cut, ReaderAt, PartAt, k, W
  <2> QED BY <1>3, <1>4, <1>5, <2>1, <2>2
<1>7. k + 1 \in k + 1 .. m /\ k + 1 - 1 = k /\ k + 1 \in 1 .. Len(sent)
  BY <1>4, <1>5, <1>6
<1>8. PICK p, t : p = sent[k + 1] /\ t = Marshal(p)
  OBVIOUS
<1>9. /\ Sendable(p) /\ p \in Packets /\ t \in Seq(Bytes) /\ Unmarshal(t) = p /\ Len(t) \in Nat
      /\ need = Len(t)
  <2>1. Sendable(p)
    BY <1>7, <1>8 DEF FrameInv
  <2>2. need = Len(t)
    BY <1>2, <1>3, <1>6, <1>8 DEF Cut, ReaderAt, k
  <2> QED BY <1>8, <2>1, <2>2, SendableFacts
<1>10. FrameAt(a, cut, k + 1)
  BY <1>2, <1>7 DEF Cut, FramesAt, k
<1>11. cut[k + 1] = cut[k] + W + Len(t) /\ At(a, cut[k] + W, t)
  <2>1. k \in Nat
    BY <1>4
  <2> QED BY <1>8, <1>10, <2>1, FrameNext DEF W
<1>12. SubSeq(stream, 1, need) = t
  <2>1. cut[k] + W \in Nat /\ Len(t) <= Len(stream)
    BY <1>3, <1>4, <1>5, <1>9
  <2>2. \A j \in 1 .. Len(t) : a[cut[k] + W + j] = t[j]
    BY <1>11 DEF At
  <2>3. SubSeq(stream, 1, Len(t)) = t
    BY <1>4, <1>9, <2>1, <2>2, SuffixReads
  <2> QED BY <1>9, <2>3
<1>13. got' = Append(got, p)
  BY <1>3, <1>9, <1>12
<1>14. /\ got' \in Seq(Packets) /\ Len(got') = k + 1 /\ got'[k + 1] = p
       /\ \A i \in 1 .. k : got'[i] = got[i]
  BY <1>5, <1>9, <1>13 DEF k
<1>15. Suffix(stream', a, cut[k + 1])
  <2>1. cut[k] + W \in Nat /\ need \in 0 .. Len(stream)
    BY <1>3, <1>4, <1>5, <1>9
  <2>2. Suffix(SubSeq(stream, need + 1, Len(stream)), a, cut[k] + W + need)
    BY <1>4, <2>1, SuffixDrops
  <2> QED BY <1>3, <1>9, <1>11, <2>2
<1>16. ReaderAt(a, cut, m, n)'
  <2>1. cut[k + 1] \in Nat
    <3>1. k + 1 \in 0 .. m
      BY <1>4, <1>7
    <3> QED BY <3>1
  <2>2. cut[k + 1] + 0 = cut[k + 1]
    BY <2>1
  <2> QED BY <1>3, <1>14, <1>15, <2>2 DEF ReaderAt
<1>17. FramesAt(a, cut, Len(got), m)'
  <2>1. m \in k + 1 .. Len(sent) /\ \A i \in k + 1 + 1 .. m : i \in k + 1 .. m
    BY <1>4, <1>5, <1>6
  <2>2. /\ \A i \in k + 1 .. m : FrameAt(a, cut, i)
        /\ cut \in [0 .. m -> Nat] /\ cut[m] <= Len(a)
    BY <1>2 DEF Cut, FramesAt, k
  <2>3. FramesAt(a, cut, k + 1, m)
    BY <2>1, <2>2 DEF FramesAt
  <2> QED BY <1>3, <1>14, <2>3 DEF FramesAt, FrameAt
<1>18. WriterAt(a, cut, m, n)'
  BY <1>2, <1>3 DEF Cut, WriterAt
<1>19. Cut(a, cut, m, n)'
  BY <1>2, <1>16, <1>17, <1>18 DEF Cut
<1>20. Len(got') <= Len(sent) /\ \A i \in 1 .. Len(got') : got'[i] = sent[i]
  <2>1. k + 1 <= Len(sent)
    BY <1>7
  <2>2. ASSUME NEW i \in 1 .. k + 1 PROVE got'[i] = sent[i]
    <3>1. CASE i = k + 1
      BY <1>8, <1>14, <3>1
    <3>2. CASE i # k + 1
      <4>1. i \in 1 .. k
        BY <1>4, <3>2
      <4> QED BY <1>14, <4>1 DEF FrameInv, k
    <3> QED BY <3>1, <3>2
  <2> QED BY <1>14, <2>1, <2>2
<1>21. \E x \in Seq(Bytes) : \E y, z, u : Cut(x, y, z, u)'
  BY <1>19
<1> QED BY <1>3, <1>14, <1>20, <1>21 DEF FrameInv, Sendable
\* Where a connection that breaks leaves the last whole frame.
LEMMA LastWhole ==
  ASSUME NEW k \in Nat, NEW m \in Nat, k <= m, NEW cut \in [0 .. m -> Nat], NEW l \in Nat,
         cut[k] <= l
  PROVE  \E x \in k .. m :
            /\ \A i \in k .. x : cut[i] <= l
            /\ x < m => l < cut[x + 1]
<1> DEFINE T == {i \in k .. m : i = m \/ l < cut[i + 1]}
<1>1. T \in SUBSET Nat /\ m \in T
  OBVIOUS
<1>2. PICK x \in T : \A y \in T : x <= y
  BY <1>1, Least
<1>3. x \in k .. m /\ (x < m => l < cut[x + 1])
  BY <1>2
<1>4. ASSUME NEW i \in k .. x PROVE cut[i] <= l
  <2>1. CASE i = k
    BY <2>1
  <2>2. CASE i # k
    <3>1. PICK j \in k .. m : j + 1 = i /\ j < x /\ j # m
      <4>1. i - 1 \in k .. m /\ i - 1 + 1 = i /\ i - 1 < x /\ i - 1 # m
        BY <1>3, <2>2
      <4> QED BY <4>1
    <3>2. j \notin T
      BY <1>2, <1>3, <3>1
    <3>3. ~(l < cut[j + 1]) /\ j + 1 \in 0 .. m
      BY <1>3, <3>1, <3>2
    <3>4. cut[j + 1] \in Nat
      BY <3>3
    <3> QED BY <3>1, <3>3, <3>4
  <2> QED BY <2>1, <2>2
<1> QED BY <1>3, <1>4

\* With a Write that fails half way the bytes end before a frame of length x does.
EndsWithin(a, rest, cut, m, n, x) ==
    /\ Len(a) + Len(rest) <= cut[m] + LengthWidth + x
    /\ \A j \in 1 .. LengthWidth :
        cut[m] + j <= Len(a \o rest) => (a \o rest)[cut[m] + j] = PutUint(x)[j]
    /\ need # -1 /\ Len(got) = m => x = n

LEMMA PartWritten ==
  ASSUME TypeOK, FrameInv, link = "up", NEW w \in Writers, NEW rest \in NextWrites(w),
         NEW a \in Seq(Bytes), NEW m \in 0 .. Len(sent), NEW cut \in [0 .. m -> Nat], NEW n,
         Cut(a, cut, m, n)
  PROVE  \E x \in 0 .. SizeLimit : EndsWithin(a, rest, cut, m, n, x)
<1> DEFINE W == LengthWidth
           k == Len(got)
<1>1. /\ k \in 0 .. m /\ cut[k] \in Nat /\ cut[m] \in Nat /\ Len(a) \in Nat
      /\ Len(stream) \in Nat /\ stream \in Seq(Bytes)
      /\ need # -1 => Suffix(stream, a, cut[k] + W)
  BY Places
<1>2. W \in Nat /\ W > 0 /\ SizeLimit \in Nat /\ MinHeaderSize \in Nat
  BY WidthFacts
<1>3. rest \in Seq(Bytes) /\ Len(rest) \in Nat
  BY NextWritesBytes, Lengths
<1>4. /\ Len(a \o rest) = Len(a) + Len(rest)
      /\ \A i \in 1 .. Len(a) : (a \o rest)[i] = a[i]
      /\ \A i \in 1 .. Len(rest) : (a \o rest)[Len(a) + i] = rest[i]
  BY <1>3, ConcatFacts
<1>5. CASE pending[w] = NoPacket
  <2>1. PICK x \in MinHeaderSize .. SizeLimit : rest = PutUint(x)
    BY <1>5 DEF NextWrites
  <2>2. x \in Nat /\ x \in 0 .. SizeLimit /\ Len(rest) = W
    BY <1>2, <2>1, PutUintBytes
  <2>3. Len(a) = cut[m]
    BY <1>5 DEF Cut, WriterAt
  <2> HIDE DEF W, k
  <2>4. ~(need # -1 /\ k = m)
    <3> SUFFICES ASSUME need # -1, k = m PROVE FALSE
      OBVIOUS
    <3>1. cut[m] + W + Len(stream) = cut[m]
      BY <1>1, <2>3 DEF Suffix
    <3> QED BY <1>1, <1>2, <3>1
  <2>5. Len(a) + Len(rest) <= cut[m] + W + x
    BY <1>1, <1>2, <2>2, <2>3
  <2>6. \A j \in 1 .. W : (a \o rest)[cut[m] + j] = PutUint(x)[j]
    BY <1>4, <2>1, <2>2, <2>3
  <2>7. EndsWithin(a, rest, cut, m, n, x)
    BY <2>4, <2>5, <2>6 DEF EndsWithin, W, k
  <2> QED BY <2>2, <2>7
<1>6. CASE pending[w] # NoPacket
  <2>1. Len(a) = cut[m] + W /\ n = Len(Marshal(pending[w])) /\ n \in 0 .. SizeLimit
    BY <1>6 DEF Cut, WriterAt, PartAt
  <2>2. rest = Marshal(pending[w])
    BY <1>6 DEF NextWrites
  <2> HIDE DEF W, k
  <2>3. Len(a) + Len(rest) <= cut[m] + W + n
    BY <1>1, <1>2, <1>3, <2>1, <2>2
  <2>4. ASSUME NEW j \in 1 .. W PROVE (a \o rest)[cut[m] + j] = PutUint(n)[j]
    <3>1. cut[m] + j \in 1 .. Len(a) /\ cut[m] + j <= Len(a)
      BY <1>1, <1>2, <2>1
    <3>2. a[cut[m] + j] = PutUint(n)[j]
      BY <3>1 DEF Cut, PartAt, W
    <3> QED BY <1>4, <3>1, <3>2
  <2>5. EndsWithin(a, rest, cut, m, n, n)
    BY <2>3, <2>4 DEF EndsWithin, W
  <2> QED BY <2>1, <2>5
<1> QED BY <1>5, <1>6

LEMMA SeverFrames ==
  ASSUME TypeOK, FrameInv, Sever
  PROVE  FrameInv'
<1> DEFINE W == LengthWidth
           k == Len(got)
<1>1. /\ UNCHANGED <<pending, sends, need, reading, sent, got>>
      /\ link = "up" /\ link' = "down"
  BY DEF Sever
<1>2. PICK w \in Writers : \E rest \in NextWrites(w) :
        \E l \in 0 .. Len(stream) + Len(rest) - 1 : stream' = SubSeq(stream \o rest, 1, l)
  BY DEF Sever
<1>3. PICK rest \in NextWrites(w) :
        \E l \in 0 .. Len(stream) + Len(rest) - 1 : stream' = SubSeq(stream \o rest, 1, l)
  BY <1>2
<1>4. PICK l \in 0 .. Len(stream) + Len(rest) - 1 : stream' = SubSeq(stream \o rest, 1, l)
  BY <1>3
<1>5. PICK a \in Seq(Bytes), m \in 0 .. Len(sent), n \in 0 .. SizeLimit :
        \E cut \in [0 .. m -> Nat] : Cut(a, cut, m, n)
  BY Opened
<1>6. PICK cut \in [0 .. m -> Nat] : Cut(a, cut, m, n)
  BY <1>5
<1>7. /\ k \in 0 .. m /\ cut[k] \in Nat /\ cut[m] \in Nat /\ Len(a) \in Nat
      /\ Len(stream) \in Nat /\ stream \in Seq(Bytes)
      /\ need = -1 => Suffix(stream, a, cut[k])
      /\ need # -1 => Suffix(stream, a, cut[k] + W)
  BY <1>6, Places
<1>8. /\ W \in Nat /\ W > 0 /\ rest \in Seq(Bytes) /\ Len(rest) \in Nat
      /\ Len(sent) \in Nat /\ m \in Nat /\ k \in Nat
  BY <1>7, WidthFacts, NextWritesBytes, Lengths DEF TypeOK
<1>9. PICK x \in 0 .. SizeLimit :
        /\ Len(a) + Len(rest) <= cut[m] + W + x
        /\ \A j \in 1 .. W :
            cut[m] + j <= Len(a \o rest) => (a \o rest)[cut[m] + j] = PutUint(x)[j]
        /\ need # -1 /\ k = m => x = n
  <2>1. PICK x \in 0 .. SizeLimit : EndsWithin(a, rest, cut, m, n, x)
    BY <1>1, <1>6, PartWritten
  <2> QED BY <2>1 DEF EndsWithin
<1>10. PICK r \in Nat : /\ r = cut[k] + (IF need = -1 THEN 0 ELSE W) /\ cut[k] <= r
                        /\ Suffix(stream, a, r)
  <2>1. CASE need = -1
    <3>1. cut[k] = cut[k] + (IF need = -1 THEN 0 ELSE W)
      BY <1>7, <2>1
    <3> QED BY <1>7, <2>1, <3>1
  <2>2. CASE need # -1
    <3>1. cut[k] + W \in Nat /\ cut[k] <= cut[k] + W
      BY <1>7, <1>8
    <3> QED BY <1>7, <2>2, <3>1
  <2> QED BY <2>1, <2>2
<1> HIDE DEF W, k
<1>11. PICK b, s : b = a \o rest /\ s = stream \o rest
  OBVIOUS
<1>12. /\ b \in Seq(Bytes) /\ Len(b) = Len(a) + Len(rest) /\ s \in Seq(Bytes)
       /\ Len(s) = Len(stream) + Len(rest) /\ Suffix(s, b, r)
       /\ stream' = SubSeq(s, 1, l) /\ l \in 0 .. Len(s) /\ l < Len(s)
  <2>1. /\ b \in Seq(Bytes) /\ Len(b) = Len(a) + Len(rest) /\ s \in Seq(Bytes)
        /\ Len(s) = Len(stream) + Len(rest)
    BY <1>7, <1>8, <1>11, ConcatFacts
  <2>2. Suffix(s, b, r)
    BY <1>7, <1>8, <1>10, <1>11, SuffixGrows
  <2>3. l \in 0 .. Len(s) /\ l < Len(s)
    BY <1>7, <1>8, <2>1
  <2> QED BY <1>4, <1>11, <2>1, <2>2, <2>3
<1>13. PICK c, e : c = SubSeq(b, 1, r + l) /\ e = r + l
  OBVIOUS
<1>14. /\ c \in Seq(Bytes) /\ Len(c) = e /\ e \in 0 .. Len(b) /\ e \in Nat /\ e < Len(b)
       /\ Suffix(stream', c, r) /\ cut[k] <= e
       /\ \A i \in 1 .. e : c[i] = b[i]
  <2>1. /\ r + l \in 0 .. Len(b) /\ c \in Seq(Bytes) /\ Len(c) = r + l
        /\ Suffix(stream', c, r)
    BY <1>12, <1>13, SuffixCut
  <2>2. r + Len(s) = Len(b) /\ Len(b) \in Nat /\ Len(s) \in Nat
    BY <1>12, Lengths DEF Suffix
  <2>3. e \in Nat /\ e < Len(b) /\ cut[k] <= e
    <3>1. cut[k] \in Nat /\ cut[k] <= r /\ l \in Nat /\ l < Len(s) /\ e = r + l
      BY <1>7, <1>10, <1>12, <1>13, <2>2
    <3> DEFINE lenb == Len(b)
               lens == Len(s)
               low == cut[k]
    <3>2. /\ r \in Nat /\ l \in Nat /\ lenb \in Nat /\ lens \in Nat /\ low \in Nat
          /\ r + lens = lenb /\ l < lens /\ low <= r /\ e = r + l
      BY <2>2, <3>1
    <3> HIDE DEF lenb, lens, low
    <3>3. e \in Nat /\ e < lenb /\ low <= e
      BY <3>2
    <3> QED BY <3>3 DEF lenb, low
  <2>4. \A i \in 1 .. e : c[i] = b[i]
    BY <1>12, <1>13, <2>1, <2>2
  <2> QED BY <1>13, <2>1, <2>3, <2>4
<1>15. PICK z \in k .. m : (\A i \in k .. z : cut[i] <= e) /\ (z < m => e < cut[z + 1])
  <2>1. k <= m
    BY <1>7, <1>8
  <2> QED BY <1>8, <1>14, <2>1, LastWhole
<1>16. z \in Nat /\ z <= m /\ k <= z /\ z \in 0 .. m /\ z \in k .. z
  BY <1>7, <1>8
<1> DEFINE new == [i \in 0 .. z |-> cut[i]]
<1>17. /\ new \in [0 .. z -> Nat] /\ new[k] = cut[k] /\ new[z] = cut[z]
       /\ \A i \in 0 .. z : new[i] = cut[i]
  BY <1>7, <1>8, <1>16
<1> HIDE DEF new
<1>18. \A i \in k + 1 .. m : FrameAt(b, cut, i) /\ Sendable(sent[i]) /\ cut[i - 1] \in Nat
  <2> SUFFICES ASSUME NEW i \in k + 1 .. m
               PROVE  FrameAt(b, cut, i) /\ Sendable(sent[i]) /\ cut[i - 1] \in Nat
    OBVIOUS
  <2>1. i \in 1 .. Len(sent) /\ i - 1 \in 0 .. m
    BY <1>7, <1>8
  <2>2. FrameAt(a, cut, i)
    BY <1>6 DEF Cut, FramesAt, k
  <2>3. FrameAt(a \o rest, cut, i)
    BY <1>7, <1>8, <2>2, FramesGrow
  <2> QED BY <1>11, <2>1, <2>3 DEF FrameInv
<1>19. FramesAt(c, new, k, z)'
  <2>1. ASSUME NEW i \in k + 1 .. z PROVE FrameAt(c, new, i)
    <3>1. i \in k + 1 .. m /\ i \in k .. z /\ i \in 0 .. z /\ i - 1 \in 0 .. z
      BY <1>8, <1>16
    <3>2. PICK y, t, u : y = cut[i - 1] /\ t = Marshal(sent[i]) /\ u = PutUint(Len(Marshal(sent[i])))
      OBVIOUS
    <3>3. /\ y \in Nat /\ t \in Seq(Bytes) /\ u \in Seq(Bytes) /\ Len(u) = W /\ Len(t) \in Nat
          /\ cut[i] = y + W + Len(t) /\ At(b, y, u) /\ At(b, y + W, t) /\ cut[i] <= e
      <4>1. FrameAt(b, cut, i) /\ Sendable(sent[i]) /\ y \in Nat
        BY <1>18, <3>1, <3>2
      <4>2. t \in Seq(Bytes) /\ u \in Seq(Bytes) /\ Len(u) = W /\ Len(t) \in Nat
        BY <3>2, <4>1, SendableFacts DEF W
      <4>3. cut[i] = y + W + Len(t) /\ At(b, y, u) /\ At(b, y + W, t)
        BY <3>2, <4>1 DEF FrameAt, W
      <4>4. cut[i] <= e
        BY <1>15, <3>1
      <4> QED BY <4>1, <4>2, <4>3, <4>4
    <3>4. y + W \in Nat /\ y + Len(u) <= e /\ y + W + Len(t) <= e
      BY <1>8, <1>14, <3>3
    <3>5. At(c, y, u) /\ At(c, y + W, t)
      BY <1>12, <1>13, <1>14, <3>3, <3>4, AtStays
    <3>6. new[i] = cut[i] /\ new[i - 1] = y
      BY <1>17, <3>1, <3>2
    <3> QED BY <3>2, <3>3, <3>5, <3>6 DEF FrameAt, W
  <2>2. z \in k .. Len(sent) /\ new[z] <= Len(c)
    BY <1>8, <1>14, <1>15, <1>16, <1>17
  <2>3. FramesAt(c, new, k, z)
    BY <1>17, <2>1, <2>2 DEF FramesAt
  <2> QED BY <1>1, <2>3 DEF FramesAt, FrameAt, k
<1>20. PICK h : h = IF z = m THEN x ELSE Len(Marshal(sent[z + 1]))
  OBVIOUS
<1>21. PartAt(c, cut[z], h)
  <2>1. CASE z = m
    <3>1. Len(c) < cut[z] + W + x
      <4>1. Len(b) <= cut[m] + W + x
        BY <1>9, <1>12
      <4>2. Len(b) \in Nat
        BY <1>12, Lengths
      <4>3. Len(c) = e /\ e \in Nat /\ e < Len(b) /\ cut[m] \in Nat
        BY <1>7, <1>14
      <4>4. Len(c) < cut[m] + W + x
        BY <1>8, <4>1, <4>2, <4>3
      <4> QED BY <2>1, <4>4
    <3>2. ASSUME NEW j \in 1 .. W, cut[z] + j <= Len(c) PROVE c[cut[z] + j] = PutUint(x)[j]
      <4>1. cut[m] + j \in 1 .. e /\ cut[m] + j <= Len(b)
        <5>1. Len(c) = e /\ e \in Nat /\ e < Len(b) /\ cut[m] \in Nat /\ cut[m] + j <= e
          BY <1>7, <1>14, <2>1, <3>2
        <5>2. Len(b) \in Nat
          BY <1>12, Lengths
        <5> QED BY <1>8, <5>1, <5>2
      <4>2. b[cut[m] + j] = PutUint(x)[j]
        BY <1>9, <1>11, <4>1
      <4> QED BY <1>14, <2>1, <4>1, <4>2
    <3> QED BY <1>20, <2>1, <3>1, <3>2 DEF PartAt, W
  <2>2. CASE z # m
    <3>1. z + 1 \in k + 1 .. m /\ z < m
      BY <1>8, <1>16, <2>2
    <3>2. PICK t : t = Len(Marshal(sent[z + 1]))
      OBVIOUS
    <3>3. /\ t \in 1 .. SizeLimit /\ t \in Nat /\ Len(PutUint(t)) = W
          /\ cut[z + 1] = cut[z] + W + t /\ At(b, cut[z], PutUint(t)) /\ cut[z] \in Nat
      BY <1>16, <1>18, <3>1, <3>2, SendableFacts, FrameNext DEF W
    <3>4. t \in 0 .. SizeLimit /\ Len(c) < cut[z] + W + t
      BY <1>14, <1>15, <3>1, <3>3, WidthFacts
    <3>5. ASSUME NEW j \in 1 .. W, cut[z] + j <= Len(c) PROVE c[cut[z] + j] = PutUint(t)[j]
      <4>1. cut[z] + j \in 1 .. e
        <5>1. Len(c) = e /\ e \in Nat /\ cut[z] \in Nat /\ cut[z] + j <= e
          BY <1>14, <3>3, <3>5
        <5> QED BY <1>8, <5>1
      <4> QED BY <1>14, <3>3, <4>1 DEF At
    <3> QED BY <1>20, <2>2, <3>2, <3>4, <3>5 DEF PartAt, W
  <2> QED BY <2>1, <2>2
<1>22. need # -1 => need = IF k < z THEN Len(Marshal(sent[k + 1])) ELSE h
  <2> SUFFICES ASSUME need # -1
               PROVE  need = IF k < z THEN Len(Marshal(sent[k + 1])) ELSE h
    OBVIOUS
  <2>1. need = IF k < m THEN Len(Marshal(sent[k + 1])) ELSE n
    BY <1>6 DEF Cut, ReaderAt, k
  <2>2. CASE k < z
    <3>1. k < m
      BY <1>8, <1>16, <2>2
    <3> QED BY <2>1, <2>2, <3>1
  <2>3. CASE ~(k < z) /\ z = m
    <3>1. k = m /\ ~(k < m)
      BY <1>8, <1>16, <2>3
    <3> QED BY <1>9, <1>20, <2>1, <2>3, <3>1
  <2>4. CASE ~(k < z) /\ z # m
    <3>1. k = z /\ k < m
      BY <1>8, <1>16, <2>4
    <3> QED BY <1>20, <2>1, <2>4, <3>1
  <2> QED BY <2>2, <2>3, <2>4
<1>23. ReaderAt(c, new, z, h)'
  BY <1>1, <1>10, <1>14, <1>17, <1>22 DEF ReaderAt, k, W
<1>24. WriterAt(c, new, z, h)'
  BY <1>1 DEF WriterAt
<1>25. FramesAt(c, new, Len(got), z)'
  BY <1>19 DEF k
<1>26. PartAt(c, new[z], h)
  BY <1>17, <1>21
<1>27. Cut(c, new, z, h)'
  BY <1>23, <1>24, <1>25, <1>26 DEF Cut
<1>28. \E x1 \in Seq(Bytes) : \E y1, z1, u1 : Cut(x1, y1, z1, u1)'
  BY <1>14, <1>27
<1> QED BY <1>1, <1>28 DEF FrameInv, Sendable

LEMMA InitFrames == TypeOK /\ Init => FrameInv
<1> SUFFICES ASSUME TypeOK, Init PROVE FrameInv
  OBVIOUS
<1> DEFINE cut == [i \in 0 .. 0 |-> 0]
<1>1. /\ stream = <<>> /\ sent = <<>> /\ got = <<>> /\ need = -1 /\ Len(sent) = 0 /\ Len(got) = 0
      /\ \A w \in Writers : pending[w] = NoPacket
  BY DEF Init
<1>2. cut \in [0 .. 0 -> Nat] /\ cut[0] = 0 /\ LengthWidth \in Nat /\ LengthWidth > 0
  BY WidthFacts
<1> HIDE DEF cut
<1>3. FramesAt(<<>>, cut, Len(got), 0)
  <2>1. 0 + 1 .. 0 = {} /\ 0 \in 0 .. 0 /\ Len(<<>>) = 0
    OBVIOUS
  <2> QED BY <1>1, <1>2, <2>1 DEF FramesAt
<1>4. PartAt(<<>>, cut[0], 0)
  <2>1. Len(<<>>) = 0 /\ \A j \in 1 .. LengthWidth : ~(0 + j <= 0)
    BY <1>2
  <2> QED BY <1>2, <2>1, WidthFacts DEF PartAt
<1>5. ReaderAt(<<>>, cut, 0, 0)
  BY <1>1, <1>2 DEF ReaderAt, Suffix
<1>6. WriterAt(<<>>, cut, 0, 0)
  BY <1>1, <1>2 DEF WriterAt
<1>7. Cut(<<>>, cut, 0, 0)
  BY <1>3, <1>4, <1>5, <1>6 DEF Cut
<1>8. \E a \in Seq(Bytes) : \E y, z, u : Cut(a, y, z, u)
  <2>1. <<>> \in Seq(Bytes)
    OBVIOUS
  <2> QED BY <1>7, <2>1, Zenon
<1> QED BY <1>1, <1>8 DEF FrameInv

LEMMA NextFrames == OneWriter /\ TypeOK /\ FrameInv /\ [Next]_vars => FrameInv'
<1> SUFFICES ASSUME OneWriter, TypeOK, FrameInv, [Next]_vars PROVE FrameInv'
  OBVIOUS
<1>1. CASE UNCHANGED vars
  BY <1>1, OtherFrames DEF vars
<1>2. ASSUME NEW w \in Writers, Refuse(w) PROVE FrameInv'
  BY <1>2, OtherFrames DEF Refuse
<1>3. ASSUME NEW w \in Writers, WriteFails(w) PROVE FrameInv'
  <2>1. \A v \in Writers : pending'[v] \in {NoPacket, pending[v]}
    BY <1>3 DEF WriteFails, TypeOK
  <2> QED BY <1>3, <2>1, OtherFrames DEF WriteFails
<1>4. CASE ReadFails
  BY <1>4, OtherFrames DEF ReadFails
<1> QED
  BY <1>1, <1>2, <1>3, <1>4, WriteLengthFrames, WritePayloadFrames, ReadLengthFrames,
     ReadPayloadFrames, SeverFrames DEF Next, Reader

LEMMA FramesPrefix == TypeOK /\ FrameInv => ReceivedAsSent
<1> SUFFICES ASSUME TypeOK, FrameInv PROVE ReceivedAsSent
  OBVIOUS
<1>1. /\ got \in Seq(Packets) /\ Len(got) <= Len(sent) /\ sent \in Seq(Outgoing)
      /\ \A i \in 1 .. Len(got) : got[i] = sent[i]
  BY DEF TypeOK, FrameInv
<1>2. Len(got) \in Nat /\ Len(sent) \in Nat
  BY <1>1, Lengths
<1>3. SubSeq(got, 1, Len(got)) = SubSeq(sent, 1, Len(got))
  BY <1>1, <1>2
<1> QED BY <1>1, <1>3 DEF ReceivedAsSent, IsPrefix

\* With one writer, the packets that Unmarshal hands over are those SendPacket reported
\* as sent, in that order and unaltered, wherever the connection breaks, for any byte
\* base, length width and size limit (transport.go:33-83, packet.go Marshal, Unmarshal).
THEOREM AlwaysReceivedAsSent == OneWriter => (Spec => []ReceivedAsSent)
<1>1. Init => TypeOK /\ (OneWriter => FrameInv)
  BY InitTypes, InitFrames
<1>2. TypeOK /\ (OneWriter => FrameInv) /\ [Next]_vars => TypeOK' /\ (OneWriter => FrameInv')
  BY NextTypes, NextFrames
<1>3. OneWriter /\ TypeOK /\ (OneWriter => FrameInv) => ReceivedAsSent
  BY FramesPrefix
<1> SUFFICES ASSUME OneWriter PROVE Spec => []ReceivedAsSent
  OBVIOUS
<1>4. Init => TypeOK /\ FrameInv
  BY <1>1
<1>5. TypeOK /\ FrameInv /\ [Next]_vars => TypeOK' /\ FrameInv'
  BY <1>2
<1>6. TypeOK /\ FrameInv => ReceivedAsSent
  BY <1>3
<1> QED BY <1>4, <1>5, <1>6, PTL DEF Spec
=============================================================================
