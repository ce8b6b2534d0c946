----------------------------- MODULE WireProofs ------------------------------
(***************************************************************************)
(* Proof that what one side writes the other reads, for any width of a     *)
(* byte, of an integer and of a hash, any decision, response and account.  *)
(***************************************************************************)
EXTENDS Wire, SequenceTheorems, SumTheorems

(***************************************************************************)
(* Recursion.  A function that starts somewhere and takes a step n times   *)
(* exists; and what holds at the start and is kept by the steps holds at   *)
(* the end.                                                                *)
(***************************************************************************)
LEMMA StepByStep ==
  ASSUME NEW n \in Nat, NEW S, 0 \in S, \A i \in 1..n : i - 1 \in S => i \in S
  PROVE  \A i \in 0..n : i \in S
<1> DEFINE T == {i \in 0..n : i \notin S}
<1>1. ASSUME T # {} PROVE FALSE
  <2>1. PICK i \in T : \A j \in T : i <= j
    <3>1. T \subseteq Nat
      OBVIOUS
    <3> HIDE DEF T
    <3> QED
      BY <1>1, <3>1, LeastNatural
  <2>2. i \in 1..n /\ i - 1 \in 0..n /\ i - 1 \notin T
    BY <2>1
  <2> QED
    BY <2>1, <2>2
<1> QED
  BY <1>1

Unrolled(g, V, start, next, n) ==
  g \in [0..n -> V] /\ g[0] = start /\ \A i \in 1..n : g[i] = next[i][g[i - 1]]

LEMMA Unrolls ==
  ASSUME NEW V, NEW start \in V, NEW n \in Nat, NEW next \in [1..n -> [V -> V]]
  PROVE  \E g : Unrolled(g, V, start, next, n)
<1> DEFINE S == {m \in 0..n : \E g : Unrolled(g, V, start, next, m)}
<1>1. 0 \in S
  <2> DEFINE g == [i \in 0..0 |-> start]
  <2>1. Unrolled(g, V, start, next, 0)
    BY DEF Unrolled
  <2> QED
    BY <2>1
<1>2. ASSUME NEW i \in 1..n, i - 1 \in S PROVE i \in S
  <2>1. PICK g : Unrolled(g, V, start, next, i - 1)
    BY <1>2
  <2> DEFINE h == [j \in 0..i |-> IF j = i THEN next[i][g[i - 1]] ELSE g[j]]
  <2>2. g[i - 1] \in V
    BY <2>1 DEF Unrolled
  <2>3. next[i][g[i - 1]] \in V
    BY <2>2
  <2>4. h \in [0..i -> V]
    BY <2>1, <2>3 DEF Unrolled
  <2>5. h[i] = next[i][g[i - 1]] /\ \A j \in 0..(i - 1) : h[j] = g[j]
    OBVIOUS
  <2> HIDE DEF h
  <2>6. \A j \in 1..i : h[j] = next[j][h[j - 1]]
    BY <2>1, <2>5 DEF Unrolled
  <2>7. h[0] = start
    BY <2>1, <2>5 DEF Unrolled
  <2>8. Unrolled(h, V, start, next, i)
    BY <2>4, <2>6, <2>7 DEF Unrolled
  <2> QED
    BY <2>8
<1> HIDE DEF S
<1>3. \A i \in 0..n : i \in S
  BY <1>1, <1>2, StepByStep
<1>4. n \in S
  BY <1>3
<1> QED
  BY <1>4 DEF S

(***************************************************************************)
(* Division.                                                               *)
(***************************************************************************)
LEMMA Scaled ==
  ASSUME NEW c \in Nat, NEW x \in Int, NEW y \in Int, x <= y
  PROVE  c * x <= c * y
OBVIOUS

LEMMA Quotient ==
  ASSUME NEW n \in Int, NEW c \in Nat, c > 0
  PROVE  /\ n \div c \in Int /\ c * (n \div c) <= n /\ n < c * (n \div c) + c
         /\ n % c = n - c * (n \div c) /\ n % c \in Int /\ 0 <= n % c /\ n % c < c
OBVIOUS

LEMMA QuotientIs ==
  ASSUME NEW n \in Int, NEW c \in Nat, c > 0, NEW q \in Int, c * q <= n, n < c * q + c
  PROVE  n \div c = q
<1> DEFINE p == n \div c
<1>1. p \in Int /\ c * p <= n /\ n < c * p + c
  BY Quotient
<1> HIDE DEF p
<1>2. CASE p < q
  <2>1. c * (p + 1) <= c * q
    BY <1>1, <1>2, Scaled
  <2>2. c * (p + 1) = c * p + c
    BY <1>1
  <2> QED
    BY <1>1, <2>1, <2>2
<1>3. CASE q < p
  <2>1. c * (q + 1) <= c * p
    BY <1>1, <1>3, Scaled
  <2>2. c * (q + 1) = c * q + c
    OBVIOUS
  <2> QED
    BY <1>1, <2>1, <2>2
<1>4. p = q
  BY <1>1, <1>2, <1>3
<1> QED
  BY <1>4 DEF p

LEMMA QuotientOfQuotient ==
  ASSUME NEW n \in Int, NEW c \in Nat, c > 0, NEW b \in Nat, b > 0
  PROVE  n \div (b * c) = (n \div c) \div b
<1> DEFINE q == n \div c
           p == q \div b
<1>1. q \in Int /\ c * q <= n /\ n < c * q + c
  BY Quotient
<1> HIDE DEF q
<1>2. p \in Int /\ b * p <= q /\ q < b * p + b
  BY <1>1, Quotient
<1> HIDE DEF p
<1>3. c * (b * p) <= c * q
  BY <1>1, <1>2, Scaled
<1>4. c * (q + 1) <= c * (b * p + b)
  BY <1>1, <1>2, Scaled
<1>5. /\ c * (b * p) = (b * c) * p /\ c * (q + 1) = c * q + c
      /\ c * (b * p + b) = (b * c) * p + b * c /\ b * c \in Nat /\ b * c > 0
  BY <1>1, <1>2
<1>6. (b * c) * p <= n /\ n < (b * c) * p + b * c
  BY <1>1, <1>2, <1>3, <1>4, <1>5
<1>7. n \div (b * c) = p
  BY <1>2, <1>5, <1>6, QuotientIs
<1> QED
  BY <1>7 DEF p, q

(***************************************************************************)
(* Powers of a byte.                                                       *)
(***************************************************************************)
LEMMA Widths ==
  /\ B \in Nat /\ B > 2 /\ HashLen \in Nat
  /\ Bytes16 \in Nat /\ Bytes32 \in Nat /\ Bytes64 \in Nat
  /\ 1 <= Bytes16 /\ Bytes16 <= Bytes32 /\ Bytes32 <= Bytes64
  /\ \A kind \in IntegerKinds : Width[kind] \in 1..Bytes64
<1>1. /\ B \in Nat /\ B > 2 /\ HashLen \in Nat
      /\ Bytes16 \in 1..Bytes32 /\ Bytes32 \in 1..Bytes64 /\ Bytes64 \in Nat
  BY WidthAssumption
<1>2. \A kind \in IntegerKinds : Width[kind] \in {1, Bytes16, Bytes32, Bytes64}
  BY DEF IntegerKinds, Width
<1> QED
  BY <1>1, <1>2

LEMMA CapacityIs ==
  /\ Capacity \in [0..Bytes64 -> Int]
  /\ Capacity[0] = 1 /\ \A w \in 1..Bytes64 : Capacity[w] = B * Capacity[w - 1]
  /\ \A w \in 0..Bytes64 : Capacity[w] \in Nat /\ Capacity[w] > 0
<1> DEFINE next == [w \in 1..Bytes64 |-> [x \in Int |-> B * x]]
           value(f, w) == IF w = 0 THEN 1 ELSE B * f[w - 1]
           Right(f) == f = [w \in 0..Bytes64 |-> value(f, w)]
<1>1. Bytes64 \in Nat /\ B \in Int
  BY Widths
<1>2. next \in [1..Bytes64 -> [Int -> Int]]
  BY <1>1
<1>3. \A w \in 1..Bytes64, x \in Int : next[w][x] = B * x
  OBVIOUS
<1> HIDE DEF next
<1>4. PICK g : Unrolled(g, Int, 1, next, Bytes64)
  <2> DEFINE V == Int
             start == 1
  <2>1. start \in V /\ next \in [1..Bytes64 -> [V -> V]]
    BY <1>2
  <2> HIDE DEF V, start
  <2>2. \E g : Unrolled(g, V, start, next, Bytes64)
    BY <1>1, <2>1, Unrolls
  <2> QED
    BY <2>2 DEF V, start
<1>5. g[0] = 1 /\ \A w \in 1..Bytes64 : g[w - 1] \in Int /\ g[w] = next[w][g[w - 1]]
  BY <1>1, <1>4 DEF Unrolled
<1>51. \A w \in 0..Bytes64 : g[w] = value(g, w)
  BY <1>1, <1>3, <1>5
<1>6. g = [w \in 0..Bytes64 |-> g[w]]
  BY <1>4 DEF Unrolled
<1>7. Right(g)
  BY <1>51, <1>6
<1>8. Capacity = CHOOSE f : Right(f)
  BY Zenon DEF Capacity
<1>9. Right(Capacity)
  BY <1>7, <1>8
<1>10. \A w \in 0..Bytes64 : Capacity[w] = value(Capacity, w)
  <2> HIDE DEF value
  <2> QED
    BY <1>9
<1>11. /\ Capacity[0] = 1 /\ \A w \in 1..Bytes64 : Capacity[w] = B * Capacity[w - 1]
  BY <1>1, <1>10
<1>12. Capacity = [w \in 0..Bytes64 |-> Capacity[w]]
  <2> HIDE DEF value
  <2> QED
    BY <1>9
<1> DEFINE S == {w \in 0..Bytes64 : Capacity[w] \in Nat /\ Capacity[w] > 0}
<1>13. 0 \in S /\ \A w \in 1..Bytes64 : w - 1 \in S => w \in S
  <2>1. 0 \in S
    BY <1>1, <1>11
  <2>2. ASSUME NEW w \in 1..Bytes64, w - 1 \in S PROVE w \in S
    <3>1. Capacity[w - 1] \in Nat /\ Capacity[w - 1] > 0 /\ Capacity[w] = B * Capacity[w - 1]
      BY <1>11, <2>2
    <3> DEFINE c == Capacity[w - 1]
    <3> HIDE DEF c
    <3>2. c \in Nat /\ c > 0 => B * c \in Nat /\ B * c > 0
      BY Widths
    <3> QED
      BY <3>1, <3>2 DEF c
  <2> QED
    BY <2>1, <2>2
<1> HIDE DEF S
<1>14. \A w \in 0..Bytes64 : w \in S
  BY <1>1, <1>13, StepByStep
<1>15. \A w \in 0..Bytes64 : Capacity[w] \in Nat /\ Capacity[w] > 0
  BY <1>14 DEF S
<1>16. \A w \in 0..Bytes64 : Capacity[w] \in Int
  BY <1>15
<1> QED
  BY <1>11, <1>12, <1>15, <1>16

\* A number in range is not changed by the width it is written in.
LEMMA RangeIs ==
  ASSUME NEW kind \in IntegerKinds, NEW n \in Int, InRange(n, kind)
  PROVE  LET c == Capacity[Width[kind]]
         IN  /\ c \in Nat /\ c > 0 /\ Beyond(kind) \in Int /\ Beyond(kind) <= c
             /\ \/ n >= 0 /\ n < c /\ n < Beyond(kind)
                \/ n < 0 /\ -c <= n /\ n + c >= Beyond(kind)
<1> DEFINE c == Capacity[Width[kind]]
<1>1. c \in Nat /\ c > 0
  BY Widths, CapacityIs
<1> HIDE DEF c
<1>2. c \div 2 \in Int /\ 0 <= c \div 2 /\ 2 * (c \div 2) <= c /\ c < 2 * (c \div 2) + 2
  BY <1>1
<1>3. CASE kind \in {"i32", "i64"}
  <2>1. Lowest(kind) = -(c \div 2) /\ Beyond(kind) = -(c \div 2) + c
    BY <1>3 DEF Lowest, Beyond, c
  <2>2. -(c \div 2) <= n /\ n < -(c \div 2) + c
    BY <2>1 DEF InRange
  <2>3. Beyond(kind) \in Int /\ Beyond(kind) <= c
    BY <1>1, <1>2, <2>1
  <2>4. \/ n >= 0 /\ n < c /\ n < Beyond(kind)
        \/ n < 0 /\ -c <= n /\ n + c >= Beyond(kind)
    BY <1>1, <1>2, <2>1, <2>2
  <2> QED
    BY <1>1, <2>3, <2>4 DEF c
<1>4. CASE kind \notin {"i32", "i64"}
  <2>1. Lowest(kind) = 0 /\ Beyond(kind) = c
    BY <1>1, <1>4 DEF Lowest, Beyond, c
  <2>2. 0 <= n /\ n < c
    BY <2>1 DEF InRange
  <2> QED
    BY <1>1, <2>1, <2>2 DEF c
<1> QED
  BY <1>3, <1>4

(***************************************************************************)
(* What a reader finds after a position: the bytes of s.                   *)
(***************************************************************************)
Holds(data, at, s) ==
  /\ IsSequence(data) /\ at \in Nat /\ at + Len(s) <= Len(data)
  /\ \A j \in 1..Len(s) : data[at + j] = s[j]

LEMMA LeBytesIs ==
  ASSUME NEW kind \in IntegerKinds, NEW n \in Int
  PROVE  /\ LeBytes(n, kind) \in Seq(0..(B - 1)) /\ Len(LeBytes(n, kind)) = Width[kind]
         /\ \A i \in 1..Width[kind] : LeBytes(n, kind)[i] = (n \div Capacity[i - 1]) % B
<1> DEFINE w == Width[kind]
           digit(i) == (n \div Capacity[i - 1]) % B
<1>1. w \in Nat /\ w \in 1..Bytes64
  BY Widths
<1>2. ASSUME NEW i \in 1..w PROVE digit(i) \in 0..(B - 1)
  <2> DEFINE c == Capacity[i - 1]
  <2>1. c \in Nat /\ c > 0
    BY <1>1, Widths, CapacityIs
  <2> HIDE DEF c
  <2>2. n \div c \in Int
    BY <2>1, Quotient
  <2>3. B \in Nat /\ B > 0
    BY Widths
  <2>4. (n \div c) % B \in Int /\ 0 <= (n \div c) % B /\ (n \div c) % B < B
    BY <2>2, <2>3, Quotient
  <2>5. (n \div c) % B \in 0..(B - 1)
    BY <2>3, <2>4
  <2> QED
    BY <2>5 DEF c
<1>3. LeBytes(n, kind) = [i \in 1..w |-> digit(i)]
  BY DEF LeBytes
<1> HIDE DEF digit, w
<1> QED
  <2>1. [i \in 1..w |-> digit(i)] \in Seq(0..(B - 1)) /\ Len([i \in 1..w |-> digit(i)]) = w
    BY <1>1, <1>2
  <2>2. \A i \in 1..w : LeBytes(n, kind)[i] = digit(i)
    BY <1>3
  <2> QED
    BY <1>3, <2>1, <2>2 DEF w, digit

LEMMA IntegerReads ==
  ASSUME NEW kind \in IntegerKinds, NEW n \in Int, InRange(n, kind), NEW data, NEW at,
         Holds(data, at, LeBytes(n, kind))
  PROVE  Integer(data, at, kind) = n
<1> DEFINE w == Width[kind]
           rest(i) == n - Capacity[i] * (n \div Capacity[i])
           value(f, i) == IF i = 0 THEN 0 ELSE f[i - 1] + Capacity[i - 1] * data[at + i]
           Right(f) == f = [i \in 0..w |-> value(f, i)]
           g == [i \in 0..w |-> rest(i)]
           f == CHOOSE h : Right(h)
<1>1. w \in 1..Bytes64 /\ w \in Nat
  BY Widths
<1>2. \A i \in 1..w : data[at + i] = (n \div Capacity[i - 1]) % B
  BY LeBytesIs DEF Holds
<1>3. rest(0) = 0
  <2>1. n \div 1 = n /\ n - 1 * n = 0
    BY QuotientIs
  <2> QED
    BY <2>1, CapacityIs
<1>4. ASSUME NEW i \in 1..w PROVE rest(i) = rest(i - 1) + Capacity[i - 1] * data[at + i]
  <2> DEFINE c == Capacity[i - 1]
             q == n \div c
             p == q \div B
  <2>1. c \in Nat /\ c > 0 /\ Capacity[i] = B * c
    BY <1>1, Widths, CapacityIs
  <2> HIDE DEF c
  <2>2. B \in Nat /\ B > 0
    BY Widths
  <2>3. q \in Int
    BY <2>1, Quotient
  <2>4. n \div (B * c) = p
    BY <2>1, <2>2, QuotientOfQuotient
  <2> HIDE DEF q
  <2>5. p \in Int /\ q % B = q - B * p
    BY <2>2, <2>3, Quotient
  <2> HIDE DEF p
  <2>6. n - (B * c) * p = (n - c * q) + c * (q - B * p)
    BY <2>1, <2>2, <2>3, <2>5
  <2>7. rest(i) = n - (B * c) * p
    BY <2>1, <2>4
  <2>8. rest(i - 1) = n - c * q
    BY DEF c, q
  <2>9. data[at + i] = q - B * p
    BY <1>2, <2>5 DEF q, c
  <2> QED
    BY <2>6, <2>7, <2>8, <2>9 DEF c
<1> HIDE DEF rest
<1>5. Right(g)
  <2>1. \A i \in 0..w : g[i] = rest(i)
    OBVIOUS
  <2> HIDE DEF g
  <2>2. \A i \in 0..w : rest(i) = value(g, i)
    BY <1>1, <1>3, <1>4, <2>1
  <2> HIDE DEF value
  <2> QED
    BY <2>2 DEF g
<1>6. Right(f)
  BY <1>5
<1>7. f[0] = 0 /\ \A i \in 1..w : f[i] = f[i - 1] + Capacity[i - 1] * data[at + i]
  <2>1. \A i \in 0..w : f[i] = value(f, i)
    <3> HIDE DEF value, f
    <3> QED
      BY <1>6
  <2> HIDE DEF f
  <2> QED
    BY <1>1, <2>1
<1>8. Integer(data, at, kind) = IF f[w] >= Beyond(kind) THEN f[w] - Capacity[w] ELSE f[w]
  BY Zenon DEF Integer
<1> HIDE DEF f, g
<1> DEFINE S == {i \in 0..w : f[i] = rest(i)}
<1>9. 0 \in S /\ \A i \in 1..w : i - 1 \in S => i \in S
  BY <1>1, <1>3, <1>4, <1>7
<1> HIDE DEF S
<1>10. w \in S
  BY <1>1, <1>9, StepByStep
<1>11. f[w] = rest(w)
  BY <1>10 DEF S
<1> DEFINE c == Capacity[w]
<1>12. /\ c \in Nat /\ c > 0 /\ Beyond(kind) \in Int /\ Beyond(kind) <= c
       /\ \/ n >= 0 /\ n < c /\ n < Beyond(kind)
          \/ n < 0 /\ -c <= n /\ n + c >= Beyond(kind)
  BY RangeIs
<1>13. rest(w) = n - c * (n \div c)
  BY DEF rest
<1> HIDE DEF c
<1>14. CASE n >= 0
  <2>1. n \div c = 0
    BY <1>12, <1>14, QuotientIs
  <2>2. f[w] = n
    BY <1>11, <1>12, <1>13, <2>1
  <2> QED
    BY <1>8, <1>12, <1>14, <2>2 DEF c
<1>15. CASE n < 0
  <2>1. n \div c = -1
    BY <1>12, <1>15, QuotientIs
  <2>2. f[w] = n + c
    BY <1>11, <1>12, <1>13, <2>1
  <2>3. n + c >= Beyond(kind) /\ (n + c) - c = n
    BY <1>12, <1>15
  <2> QED
    BY <1>8, <2>2, <2>3 DEF c
<1> QED
  BY <1>14, <1>15

(***************************************************************************)
(* A flattened sequence holds its pieces, each where the one before ends.  *)
(***************************************************************************)
Ends(ends, seqs) ==
  /\ ends \in [0..Len(seqs) -> Nat] /\ ends[0] = 0
  /\ \A i \in 1..Len(seqs) : ends[i] = ends[i - 1] + Len(seqs[i])

Placed(ends, seqs, flat) ==
  /\ Ends(ends, seqs) /\ IsSequence(flat) /\ Len(flat) = ends[Len(seqs)]
  /\ \A i \in 1..Len(seqs) :
       /\ ends[i] <= Len(flat)
       /\ \A j \in 1..Len(seqs[i]) : flat[ends[i - 1] + j] = seqs[i][j]

LEMMA LongerHolds ==
  ASSUME NEW A, NEW s \in Seq(A), NEW t \in Seq(A)
  PROVE  /\ Len(s \o t) = Len(s) + Len(t)
         /\ \A j \in 1..Len(s) : (s \o t)[j] = s[j]
         /\ \A j \in 1..Len(t) : (s \o t)[Len(s) + j] = t[j]
<1> DEFINE u == s \o t
<1>1. /\ Len(u) = Len(s) + Len(t)
      /\ \A i \in 1..(Len(s) + Len(t)) : u[i] = IF i <= Len(s) THEN s[i] ELSE t[i - Len(s)]
  BY ConcatProperties
<1>2. Len(s) \in Nat /\ Len(t) \in Nat
  OBVIOUS
<1> HIDE DEF u
<1>3. \A j \in 1..Len(s) : u[j] = s[j]
  BY <1>1, <1>2
<1>4. \A j \in 1..Len(t) : u[Len(s) + j] = t[j]
  BY <1>1, <1>2
<1> QED
  BY <1>1, <1>3, <1>4 DEF u

Pieces(g, flat, seqs, A, n) ==
  /\ flat = g[n] /\ g[0] = <<>>
  /\ \A i \in 0..n : g[i] \in Seq(A)
  /\ \A i \in 1..n : g[i] = g[i - 1] \o seqs[i]

LEMMA FlattenUnrolls ==
  ASSUME NEW A, NEW seqs, NEW n \in Nat, n = Len(seqs), n > 0,
         \A i \in 1..n : seqs[i] \in Seq(A)
  PROVE  \E g : Pieces(g, FlattenSeq(seqs), seqs, A, n)
<1> DEFINE V == Seq(A)
           next == [i \in 1..n |-> [s \in V |-> s \o seqs[i]]]
           value(f, i) == IF i = 1 THEN seqs[i] ELSE f[i - 1] \o seqs[i]
           Right(f) == f = [i \in 1..n |-> value(f, i)]
           f == CHOOSE h : Right(h)
<1>1. ASSUME NEW i \in 1..n, NEW s \in V PROVE s \o seqs[i] \in V
  BY <1>1, ConcatProperties
<1>2. next \in [1..n -> [V -> V]]
  BY <1>1
<1>3. \A i \in 1..n, s \in V : next[i][s] = s \o seqs[i]
  OBVIOUS
<1>4. <<>> \in V
  OBVIOUS
<1> HIDE DEF next, V
<1>5. PICK g : Unrolled(g, V, <<>>, next, n)
  BY <1>2, <1>4, Unrolls
<1>6. /\ g[0] = <<>> /\ \A i \in 0..n : g[i] \in V
      /\ \A i \in 1..n : g[i] = next[i][g[i - 1]]
  BY <1>5 DEF Unrolled
<1>7. ASSUME NEW i \in 1..n PROVE g[i] = g[i - 1] \o seqs[i]
  <2>1. i - 1 \in 0..n
    OBVIOUS
  <2>2. g[i - 1] \in V /\ g[i] = next[i][g[i - 1]]
    BY <1>6, <2>1
  <2> QED
    BY <1>3, <2>2, Zenon
<1>8. g[1] = seqs[1]
  <2>1. 1 \in 1..n /\ 1 - 1 = 0
    OBVIOUS
  <2>2. g[1] = <<>> \o seqs[1]
    <3>1. g[1] = g[1 - 1] \o seqs[1]
      BY <1>7, <2>1, Zenon
    <3> QED
      BY <1>6, <2>1, <3>1
  <2>3. seqs[1] \in Seq(A)
    BY <2>1
  <2> QED
    BY <2>2, <2>3, ConcatEmptySeq
<1> DEFINE h == [i \in 1..n |-> g[i]]
<1>9. Right(h)
  <2>1. \A i \in 1..n : h[i] = g[i]
    OBVIOUS
  <2> HIDE DEF h
  <2>2. ASSUME NEW i \in 1..n PROVE g[i] = value(h, i)
    <3>1. CASE i = 1
      BY <1>8, <3>1
    <3>2. CASE i # 1
      <4>1. i - 1 \in 1..n
        BY <3>2
      <4> QED
        BY <1>7, <2>1, <3>2, <4>1
    <3> QED
      BY <3>1, <3>2
  <2> HIDE DEF value
  <2> QED
    BY <2>2 DEF h
<1>10. Right(f)
  BY <1>9
<1>11. \A i \in 1..n : f[i] = value(f, i)
  <2> HIDE DEF value, f
  <2> QED
    BY <1>10
<1>12. FlattenSeq(seqs) = f[n]
  <2>1. Len(seqs) # 0
    OBVIOUS
  <2> QED
    BY <2>1, Zenon DEF FlattenSeq
<1> HIDE DEF f
<1> DEFINE S == {i \in 0..n : i = 0 \/ f[i] = g[i]}
<1>13. 0 \in S
  OBVIOUS
<1>14. ASSUME NEW i \in 1..n, i - 1 \in S PROVE i \in S
  <2>1. CASE i = 1
    BY <1>8, <1>11, <2>1
  <2>2. CASE i # 1
    <3>1. f[i - 1] = g[i - 1]
      BY <1>14, <2>2
    <3>2. f[i] = f[i - 1] \o seqs[i] /\ g[i] = g[i - 1] \o seqs[i]
      BY <1>7, <1>11, <2>2
    <3>3. f[i] = g[i]
      BY <3>1, <3>2, Zenon
    <3> QED
      BY <3>3
  <2> QED
    BY <2>1, <2>2
<1> HIDE DEF S
<1>15. n \in S
  <2>1. \A i \in 0..n : i \in S
    BY <1>13, <1>14, StepByStep
  <2> QED
    BY <2>1
<1>16. f[n] = g[n]
  BY <1>15 DEF S
<1>17. Pieces(g, FlattenSeq(seqs), seqs, A, n)
  BY <1>6, <1>7, <1>12, <1>16 DEF V, Pieces
<1> QED
  BY <1>17

LEMMA Flattened ==
  ASSUME NEW seqs, IsSequence(seqs), \A i \in 1..Len(seqs) : IsSequence(seqs[i])
  PROVE  \E ends : Placed(ends, seqs, FlattenSeq(seqs))
<1> DEFINE n == Len(seqs)
           A == UNION {Range(seqs[i]) : i \in 1..n}
           flat == FlattenSeq(seqs)
<1>1. n \in Nat
  BY DEF IsSequence
<1>2. ASSUME NEW i \in 1..n PROVE seqs[i] \in Seq(A)
  <2>1. seqs[i] \in Seq(Range(seqs[i])) /\ Range(seqs[i]) \subseteq A
    BY DEF IsSequence
  <2> HIDE DEF A
  <2> QED
    BY <2>1, SeqMonotonic
<1>3. CASE n = 0
  <2> DEFINE ends == [i \in 0..0 |-> 0]
  <2>1. flat = seqs
    BY <1>3 DEF FlattenSeq
  <2>2. ends \in [0..n -> Nat] /\ ends[0] = 0 /\ ends[n] = 0
    BY <1>3
  <2>3. ~\E i \in 1..n : TRUE
    BY <1>3
  <2>4. Ends(ends, seqs)
    BY <2>2, <2>3 DEF Ends
  <2>5. Placed(ends, seqs, flat)
    BY <1>3, <2>1, <2>2, <2>3, <2>4 DEF Placed
  <2> QED
    BY <2>5
<1>4. CASE n > 0
  <2> HIDE DEF A
  <2>0. PICK g : Pieces(g, flat, seqs, A, n)
    <3>1. \A i \in 1..n : seqs[i] \in Seq(A)
      BY <1>2
    <3>2. n = Len(seqs) /\ n \in Nat /\ n > 0
      BY <1>1, <1>4
    <3> HIDE DEF n
    <3> QED
      BY <3>1, <3>2, FlattenUnrolls
  <2>1. /\ flat = g[n] /\ g[0] = <<>>
        /\ \A i \in 0..n : g[i] \in Seq(A)
        /\ \A i \in 1..n : g[i] = g[i - 1] \o seqs[i]
    BY <2>0 DEF Pieces
  <2> DEFINE ends == [i \in 0..n |-> Len(g[i])]
  <2>2. \A i \in 0..n : ends[i] = Len(g[i]) /\ ends[i] \in Nat
    BY <2>1
  <2>3. ends \in [0..n -> Nat] /\ ends[0] = 0
    BY <1>1, <2>1, <2>2
  <2> HIDE DEF ends
  <2>4. ASSUME NEW i \in 1..n
        PROVE  /\ i - 1 \in 0..n /\ i \in 0..n /\ ends[i] = ends[i - 1] + Len(seqs[i])
               /\ \A j \in 1..ends[i - 1] : g[i][j] = g[i - 1][j]
               /\ \A j \in 1..Len(seqs[i]) : g[i][ends[i - 1] + j] = seqs[i][j]
    <3>1. i - 1 \in 0..n /\ i \in 0..n
      BY <1>1
    <3>2. g[i - 1] \in Seq(A) /\ seqs[i] \in Seq(A) /\ g[i] = g[i - 1] \o seqs[i]
      BY <1>2, <2>1, <3>1
    <3>3. ends[i] = Len(g[i]) /\ ends[i - 1] = Len(g[i - 1])
      BY <2>2, <3>1
    <3> DEFINE s == g[i - 1]
               t == seqs[i]
               u == g[i]
    <3>4. s \in Seq(A) /\ t \in Seq(A) /\ u = s \o t
      BY <3>2
    <3> HIDE DEF s, t, u
    <3>5. /\ Len(u) = Len(s) + Len(t) /\ \A j \in 1..Len(s) : u[j] = s[j]
          /\ \A j \in 1..Len(t) : u[Len(s) + j] = t[j]
      BY <3>4, LongerHolds
    <3>6. ends[i] = Len(u) /\ ends[i - 1] = Len(s)
      BY <3>3 DEF s, u
    <3>7. /\ ends[i] = ends[i - 1] + Len(t) /\ \A j \in 1..ends[i - 1] : u[j] = s[j]
          /\ \A j \in 1..Len(t) : u[ends[i - 1] + j] = t[j]
      BY <3>5, <3>6
    <3> QED
      BY <3>1, <3>7 DEF s, t, u
  <2>5. Ends(ends, seqs)
    BY <2>3, <2>4 DEF Ends
  <2> DEFINE Kept(i, k) == /\ ends[k] <= ends[i]
                           /\ \A j \in 1..Len(seqs[k]) : g[i][ends[k - 1] + j] = seqs[k][j]
             S == {i \in 0..n : \A k \in 1..i : Kept(i, k)}
  <2>6. 0 \in S
    BY <1>1
  <2>7. ASSUME NEW i \in 1..n, i - 1 \in S PROVE i \in S
    <3>1. ASSUME NEW k \in 1..i PROVE Kept(i, k)
      <4>1. CASE k = i
        <5>1. ends[i] <= ends[i]
          BY <2>2, <2>4
        <5> QED
          BY <2>4, <4>1, <5>1
      <4>2. CASE k # i
        <5>1. k \in 1..(i - 1) /\ k \in 1..n
          BY <1>1, <4>2
        <5>2. Kept(i - 1, k)
          BY <2>7, <5>1
        <5>3. /\ Len(seqs[k]) \in Nat /\ ends[k] = ends[k - 1] + Len(seqs[k])
              /\ ends[k] \in Nat /\ ends[k - 1] \in Nat /\ ends[i] \in Nat /\ ends[i - 1] \in Nat
          BY <1>2, <2>2, <2>4, <5>1
        <5>4. Len(seqs[i]) \in Nat /\ ends[i] = ends[i - 1] + Len(seqs[i])
          BY <1>2, <2>4
        <5>5. ends[k] <= ends[i]
          BY <5>2, <5>3, <5>4
        <5>6. ASSUME NEW j \in 1..Len(seqs[k]) PROVE g[i][ends[k - 1] + j] = seqs[k][j]
          <6>1. ends[k - 1] + j \in 1..ends[i - 1]
            BY <5>2, <5>3
          <6> QED
            BY <2>4, <5>2, <6>1
        <5> QED
          BY <5>5, <5>6
      <4> QED
        BY <4>1, <4>2
    <3> QED
      BY <1>1, <3>1
  <2> HIDE DEF S
  <2>8. n \in S
    <3>1. \A i \in 0..n : i \in S
      BY <1>1, <2>6, <2>7, StepByStep
    <3> QED
      BY <1>1, <3>1
  <2>9. \A k \in 1..n : Kept(n, k)
    BY <2>8 DEF S
  <2>10. n \in 0..n
    BY <1>1
  <2>11. IsSequence(flat) /\ Len(flat) = ends[n]
    <3>1. flat \in Seq(A) /\ Len(flat) = ends[n]
      BY <2>1, <2>2, <2>10
    <3> QED
      BY <3>1, SeqOfRange DEF IsSequence
  <2>12. \A i \in 1..n : /\ ends[i] <= Len(flat)
                         /\ \A j \in 1..Len(seqs[i]) : flat[ends[i - 1] + j] = seqs[i][j]
    BY <2>1, <2>9, <2>11
  <2>13. Placed(ends, seqs, flat)
    <3> HIDE DEF flat
    <3> QED
      BY <2>5, <2>11, <2>12 DEF Placed
  <2> QED
    BY <2>13
<1> QED
  BY <1>1, <1>3, <1>4

LEMMA Joined ==
  ASSUME NEW s, NEW t, IsSequence(s), IsSequence(t)
  PROVE  /\ IsSequence(s \o t) /\ Len(s \o t) = Len(s) + Len(t)
         /\ \A data, at : Holds(data, at, s \o t) =>
                            Holds(data, at, s) /\ Holds(data, at + Len(s), t)
<1> DEFINE A == Range(s) \cup Range(t)
           u == s \o t
<1>1. s \in Seq(Range(s)) /\ t \in Seq(Range(t)) /\ Range(s) \subseteq A /\ Range(t) \subseteq A
  BY DEF IsSequence
<1> HIDE DEF A
<1>2. s \in Seq(A) /\ t \in Seq(A)
  BY <1>1, SeqMonotonic
<1>3. u \in Seq(A) /\ Len(s) \in Nat /\ Len(t) \in Nat
  BY <1>2, ConcatProperties
<1>4. /\ Len(u) = Len(s) + Len(t)
      /\ \A j \in 1..Len(s) : u[j] = s[j]
      /\ \A j \in 1..Len(t) : u[Len(s) + j] = t[j]
  BY <1>2, LongerHolds
<1> HIDE DEF u
<1>5. IsSequence(u)
  BY <1>3, SeqOfRange DEF IsSequence
<1>6. ASSUME NEW data, NEW at, Holds(data, at, u)
      PROVE  Holds(data, at, s) /\ Holds(data, at + Len(s), t)
  <2>1. /\ at \in Nat /\ at + Len(u) <= Len(data)
        /\ \A j \in 1..Len(u) : data[at + j] = u[j]
        /\ IsSequence(data) /\ Len(data) \in Nat
    BY <1>6 DEF Holds, IsSequence
  <2>2. ASSUME NEW j \in 1..Len(s) PROVE data[at + j] = s[j]
    BY <1>3, <1>4, <2>1
  <2>3. ASSUME NEW j \in 1..Len(t) PROVE data[(at + Len(s)) + j] = t[j]
    <3>1. Len(s) + j \in 1..Len(u) /\ at + (Len(s) + j) = (at + Len(s)) + j
      BY <1>3, <1>4, <2>1
    <3> QED
      BY <1>4, <2>1, <3>1
  <2>4. /\ at + Len(s) \in Nat /\ (at + Len(s)) + Len(t) <= Len(data)
        /\ at + Len(s) <= Len(data)
    BY <1>3, <1>4, <2>1
  <2> QED
    BY <2>1, <2>2, <2>3, <2>4 DEF Holds
<1> QED
  BY <1>4, <1>5, <1>6 DEF u

LEMMA HeldSubSeq ==
  ASSUME NEW data, NEW at, NEW s, IsSequence(s), Holds(data, at, s)
  PROVE  SubSeq(data, at + 1, at + Len(s)) = s
<1> DEFINE n == Len(s)
           A == Range(data) \cup Range(s)
           t == SubSeq(data, at + 1, at + n)
<1>1. /\ data \in Seq(Range(data)) /\ s \in Seq(Range(s))
      /\ Range(data) \subseteq A /\ Range(s) \subseteq A
  BY DEF Holds, IsSequence
<1> HIDE DEF A
<1>2. data \in Seq(A) /\ s \in Seq(A)
  BY <1>1, SeqMonotonic
<1>3. n \in Nat /\ Len(data) \in Nat
  BY <1>2
<1>4. at \in Nat /\ at + n <= Len(data) /\ \A j \in 1..n : data[at + j] = s[j]
  BY DEF Holds
<1> HIDE DEF n
<1>5. \A i \in (at + 1)..(at + n) : data[i] \in A
  <2>1. \A i \in (at + 1)..(at + n) : i \in 1..Len(data)
    BY <1>3, <1>4
  <2> QED
    BY <1>2, <2>1, ElementOfSeq
<1>6. at + 1 \in Int /\ at + n \in Int /\ (at + n) - (at + 1) + 1 = n
  BY <1>3, <1>4
<1>7. /\ t \in Seq(A)
      /\ Len(t) = IF at + 1 <= at + n THEN (at + n) - (at + 1) + 1 ELSE 0
      /\ \A i \in 1..((at + n) - (at + 1) + 1) : t[i] = data[(at + 1) + i - 1]
  BY <1>5, <1>6, SubSeqProperties
<1> HIDE DEF t
<1>8. Len(t) = n /\ \A i \in 1..n : t[i] = data[(at + 1) + i - 1]
  <2> DEFINE m == (at + n) - (at + 1) + 1
  <2>1. m = n
    BY <1>6
  <2>2. IF at + 1 <= at + n THEN n = m ELSE n = 0
    BY <1>3, <1>4, <2>1
  <2>3. /\ Len(t) = IF at + 1 <= at + n THEN m ELSE 0
        /\ \A i \in 1..m : t[i] = data[(at + 1) + i - 1]
    BY <1>7
  <2> HIDE DEF m
  <2>4. Len(t) = n
    BY <2>2, <2>3
  <2> QED
    BY <2>1, <2>3, <2>4
<1>9. \A i \in 1..n : t[i] = s[i]
  <2>1. \A i \in 1..n : (at + 1) + i - 1 = at + i
    BY <1>3, <1>4
  <2> QED
    BY <1>4, <1>8, <2>1
<1>10. t = s
  <2>1. Len(s) = n
    BY DEF n
  <2> QED
    BY <1>2, <1>7, <1>8, <1>9, <2>1, SeqEqual
<1> QED
  BY <1>10 DEF t, n

(***************************************************************************)
(* An item that fits its kind is read back, and the reader stops where it  *)
(* ends.                                                                   *)
(***************************************************************************)
LEMMA Kinds ==
  /\ IntegerKinds = {"u8", "u16", "u32", "i32", "u64", "i64"}
  /\ VectorKinds = {"proof", "strs", "i32s"}
  /\ Width["u8"] = 1 /\ Width["u16"] = Bytes16 /\ Width["u32"] = Bytes32
  /\ Width["i32"] = Bytes32 /\ Width["u64"] = Bytes64 /\ Width["i64"] = Bytes64
  /\ Element["proof"] = "node" /\ Element["strs"] = "str" /\ Element["i32s"] = "i32"
BY DEF IntegerKinds, VectorKinds, Width, Element

ItemKinds == IntegerKinds \cup {"bytes", "bool", "str", "optionStr", "node"}
ItemFits(v, kind) ==
  /\ IsItem(v, kind)
  /\ kind \in IntegerKinds => InRange(v, kind)
  /\ kind = "bytes" => Len(v) = HashLen
  /\ kind = "node" => Len(v.hash) = HashLen

\* Reading a value written at a position.
Reads(v, kind, data, at, s) ==
  Item(data, at, kind) = v /\ ItemEnd(data, at, kind) = at + Len(s)

LEMMA IntegerItem ==
  ASSUME NEW kind \in IntegerKinds, NEW v, ItemFits(v, kind)
  PROVE  /\ IsSequence(WriteItem(v, kind))
         /\ Len(WriteItem(v, kind)) = Width[kind]
         /\ \A data, at : Holds(data, at, WriteItem(v, kind)) =>
                            Reads(v, kind, data, at, WriteItem(v, kind))
<1>1. v \in Int /\ InRange(v, kind)
  BY Kinds DEF ItemFits, IsItem
<1>2. WriteItem(v, kind) = LeBytes(v, kind)
  BY Kinds DEF WriteItem
<1>3. LeBytes(v, kind) \in Seq(0..(B - 1)) /\ Len(LeBytes(v, kind)) = Width[kind]
  BY <1>1, LeBytesIs
<1>4. IsSequence(LeBytes(v, kind))
  BY <1>3, SeqOfRange DEF IsSequence
<1>5. ASSUME NEW data, NEW at, Holds(data, at, LeBytes(v, kind))
      PROVE  Reads(v, kind, data, at, LeBytes(v, kind))
  <2>1. Integer(data, at, kind) = v
    BY <1>1, <1>5, IntegerReads
  <2>2. at + Width[kind] <= Len(data)
    BY <1>3, <1>5 DEF Holds
  <2>3. ItemEnd(data, at, kind) = at + Width[kind] /\ Item(data, at, kind) = v
    BY <2>1, <2>2, Kinds DEF ItemEnd, Item, Within
  <2> QED
    BY <1>3, <2>3 DEF Reads
<1> QED
  BY <1>2, <1>3, <1>4, <1>5

LEMMA BytesItem ==
  ASSUME NEW v, ItemFits(v, "bytes")
  PROVE  /\ IsSequence(WriteItem(v, "bytes"))
         /\ Len(WriteItem(v, "bytes")) = HashLen
         /\ \A data, at : Holds(data, at, WriteItem(v, "bytes")) =>
                            Reads(v, "bytes", data, at, WriteItem(v, "bytes"))
<1>1. WriteItem(v, "bytes") = v
  BY Kinds DEF WriteItem
<1>2. IsSequence(v) /\ Len(v) = HashLen
  BY Kinds DEF ItemFits, IsItem
<1>3. ASSUME NEW data, NEW at, Holds(data, at, v) PROVE Reads(v, "bytes", data, at, v)
  <2>1. SubSeq(data, at + 1, at + HashLen) = v
    BY <1>2, <1>3, HeldSubSeq
  <2>2. at + HashLen <= Len(data)
    BY <1>2, <1>3 DEF Holds
  <2>3. Item(data, at, "bytes") = v
    BY <2>1, Kinds DEF Item
  <2>4. ItemEnd(data, at, "bytes") = at + HashLen
    BY <2>2, Kinds DEF ItemEnd, Within
  <2> QED
    BY <1>2, <2>3, <2>4 DEF Reads
<1> QED
  BY <1>1, <1>2, <1>3

\* A byte that says yes or no, before a struct's end, an option or a proof node.
LEMMA FlagReads ==
  ASSUME NEW data, NEW at, NEW n \in {0, 1}, Holds(data, at, <<n>>)
  PROVE  data[at + 1] = n /\ BoolEnd(data, at) = at + 1 /\ at \in Nat
<1> DEFINE s == <<n>>
<1>1. Len(s) = 1 /\ s[1] = n
  OBVIOUS
<1> HIDE DEF s
<1>2. at \in Nat /\ at + Len(s) <= Len(data) /\ data[at + 1] = s[1] /\ Len(data) \in Nat
  <2>1. Holds(data, at, s)
    BY DEF s
  <2> QED
    BY <1>1, <2>1 DEF Holds, IsSequence
<1>3. at < Len(data) /\ data[at + 1] = n
  BY <1>1, <1>2
<1> QED
  BY <1>2, <1>3 DEF BoolEnd

LEMMA FlagIsSequence ==
  ASSUME NEW n \in {0, 1}
  PROVE  IsSequence(<<n>>) /\ Len(<<n>>) = 1
<1>1. <<n>> \in Seq({0, 1}) /\ Len(<<n>>) = 1
  OBVIOUS
<1> QED
  BY <1>1, SeqOfRange DEF IsSequence

LEMMA BoolItem ==
  ASSUME NEW v, ItemFits(v, "bool")
  PROVE  /\ IsSequence(WriteItem(v, "bool"))
         /\ Len(WriteItem(v, "bool")) = 1
         /\ \A data, at : Holds(data, at, WriteItem(v, "bool")) =>
                            Reads(v, "bool", data, at, WriteItem(v, "bool"))
<1> DEFINE n == IF v THEN 1 ELSE 0
<1>1. v \in BOOLEAN
  BY Kinds DEF ItemFits, IsItem
<1>2. n \in {0, 1} /\ (n = 1) = v
  BY <1>1
<1>3. WriteItem(v, "bool") = <<n>>
  BY Kinds DEF WriteItem, BoolBytes
<1> HIDE DEF n
<1>4. IsSequence(<<n>>) /\ Len(<<n>>) = 1
  BY <1>2, FlagIsSequence
<1>5. ASSUME NEW data, NEW at, Holds(data, at, <<n>>) PROVE Reads(v, "bool", data, at, <<n>>)
  <2>1. data[at + 1] = n /\ BoolEnd(data, at) = at + 1
    BY <1>2, <1>5, FlagReads
  <2>2. Item(data, at, "bool") = v
    <3>1. Item(data, at, "bool") = (data[at + 1] = 1)
      BY Kinds DEF Item
    <3> QED
      BY <1>2, <2>1, <3>1
  <2>3. ItemEnd(data, at, "bool") = at + 1
    BY <2>1, Kinds DEF ItemEnd
  <2> QED
    BY <1>4, <2>2, <2>3 DEF Reads
<1> QED
  BY <1>3, <1>4, <1>5

\* A string is read back, and what is written of it is as long as it says.
LEMMA LengthFits ==
  ASSUME NEW v, IsText(v)
  PROVE  /\ IsSequence(v) /\ Len(v) \in Nat /\ InRange(Len(v), "u32")
         /\ IsSequence(LeBytes(Len(v), "u32")) /\ Len(LeBytes(Len(v), "u32")) = Bytes32
<1>1. IsSequence(v) /\ Len(v) \in Nat /\ Len(v) < Capacity[Bytes32]
  BY DEF IsText, IsSequence
<1>2. Lowest("u32") = 0 /\ Beyond("u32") = Capacity[Bytes32]
  <2>1. Capacity[Bytes32] \in Nat
    BY Widths, CapacityIs
  <2>2. Lowest("u32") = 0
    BY DEF Lowest
  <2> QED
    BY <2>1, <2>2, Kinds DEF Beyond
<1>3. InRange(Len(v), "u32")
  BY <1>1, <1>2 DEF InRange
<1>4. LeBytes(Len(v), "u32") \in Seq(0..(B - 1)) /\ Len(LeBytes(Len(v), "u32")) = Bytes32
  <2>1. "u32" \in IntegerKinds /\ Len(v) \in Int /\ Width["u32"] = Bytes32
    BY <1>1, Kinds
  <2> QED
    BY <2>1, LeBytesIs
<1> QED
  BY <1>1, <1>3, <1>4, SeqOfRange DEF IsSequence

LEMMA StrReads ==
  ASSUME NEW v, IsText(v)
  PROVE  /\ IsSequence(StrBytes(v)) /\ Len(StrBytes(v)) = Bytes32 + Len(v)
         /\ \A data, at : Holds(data, at, StrBytes(v)) =>
                            /\ Str(data, at) = v
                            /\ StrEnd(data, at) = at + Len(StrBytes(v))
<1> DEFINE head == LeBytes(Len(v), "u32")
           u == StrBytes(v)
<1>1. /\ IsSequence(v) /\ Len(v) \in Nat /\ InRange(Len(v), "u32")
      /\ IsSequence(head) /\ Len(head) = Bytes32
  BY LengthFits
<1>2. Bytes32 \in Nat
  BY Widths
<1>3. u = head \o v
  BY DEF StrBytes
<1> HIDE DEF u
<1>4. IsSequence(u) /\ Len(u) = Bytes32 + Len(v)
  <2> HIDE DEF head
  <2> QED
    BY <1>1, <1>3, Joined
<1>5. ASSUME NEW data, NEW at, Holds(data, at, u)
      PROVE  Str(data, at) = v /\ StrEnd(data, at) = at + Len(u)
  <2>1. Holds(data, at, head) /\ Holds(data, at + Bytes32, v)
    <3> HIDE DEF head
    <3> QED
      BY <1>1, <1>3, <1>5, Joined
  <2>2. Integer(data, at, "u32") = Len(v)
    BY <1>1, <2>1, Kinds, IntegerReads
  <2>3. at \in Nat /\ at + Len(u) <= Len(data) /\ Len(data) \in Nat
    BY <1>5 DEF Holds, IsSequence
  <2>4. (at + Bytes32) + Len(v) = at + Len(u) /\ at + Bytes32 <= Len(data)
    BY <1>1, <1>2, <1>4, <2>3
  <2>5. StrEnd(data, at) = at + Len(u)
    BY <1>2, <2>2, <2>3, <2>4 DEF StrEnd, Within
  <2>6. SubSeq(data, (at + Bytes32) + 1, (at + Bytes32) + Len(v)) = v
    BY <1>1, <2>1, HeldSubSeq
  <2>7. Str(data, at) = v
    <3>1. at + Bytes32 + 1 = (at + Bytes32) + 1
      OBVIOUS
    <3> QED
      BY <2>4, <2>5, <2>6, <3>1 DEF Str
  <2> QED
    BY <2>5, <2>7
<1> QED
  BY <1>4, <1>5 DEF u

LEMMA StrItem ==
  ASSUME NEW v, ItemFits(v, "str")
  PROVE  /\ IsSequence(WriteItem(v, "str"))
         /\ \A data, at : Holds(data, at, WriteItem(v, "str")) =>
                            Reads(v, "str", data, at, WriteItem(v, "str"))
<1>1. IsText(v)
  BY Kinds DEF ItemFits, IsItem
<1>2. WriteItem(v, "str") = StrBytes(v)
  BY Kinds DEF WriteItem
<1>3. \A data, at : Item(data, at, "str") = Str(data, at) /\ ItemEnd(data, at, "str") = StrEnd(data, at)
  BY Kinds DEF Item, ItemEnd
<1> QED
  BY <1>1, <1>2, <1>3, StrReads DEF Reads

LEMMA OptionItem ==
  ASSUME NEW v, ItemFits(v, "optionStr")
  PROVE  /\ IsSequence(WriteItem(v, "optionStr"))
         /\ \A data, at : Holds(data, at, WriteItem(v, "optionStr")) =>
                            Reads(v, "optionStr", data, at, WriteItem(v, "optionStr"))
<1> DEFINE kind == "optionStr"
<1>1. v = None \/ (v = Some(v[1]) /\ IsText(v[1]))
  BY Kinds DEF ItemFits, IsItem
<1>2. WriteItem(v, kind) = IF v = None THEN << 0 >> ELSE << 1 >> \o StrBytes(v[1])
  BY Kinds DEF WriteItem
<1>3. \A data, at :
        /\ Item(data, at, kind) = IF data[at + 1] = 1 THEN Some(Str(data, at + 1)) ELSE None
        /\ ItemEnd(data, at, kind) = IF BoolEnd(data, at) # Failed /\ data[at + 1] = 1
                                     THEN StrEnd(data, at + 1) ELSE BoolEnd(data, at)
  BY Kinds DEF Item, ItemEnd
<1> HIDE DEF kind
<1>4. CASE v = None
  <2>1. WriteItem(v, kind) = << 0 >>
    BY <1>2, <1>4
  <2>2. IsSequence(<< 0 >>) /\ Len(<< 0 >>) = 1
    BY FlagIsSequence
  <2>3. ASSUME NEW data, NEW at, Holds(data, at, << 0 >>) PROVE Reads(v, kind, data, at, << 0 >>)
    <3>1. data[at + 1] = 0 /\ BoolEnd(data, at) = at + 1
      BY <2>3, FlagReads
    <3> QED
      BY <1>3, <1>4, <2>2, <3>1 DEF Reads
  <2> QED
    BY <2>1, <2>2, <2>3 DEF kind
<1>5. CASE v # None
  <2> DEFINE x == v[1]
             t == StrBytes(x)
             u == << 1 >> \o t
  <2>1. v = Some(x) /\ IsText(x) /\ WriteItem(v, kind) = u
    BY <1>1, <1>2, <1>5
  <2>2. IsSequence(<< 1 >>) /\ Len(<< 1 >>) = 1
    BY FlagIsSequence
  <2>3. /\ IsSequence(t)
        /\ \A data, at : Holds(data, at, t) => Str(data, at) = x /\ StrEnd(data, at) = at + Len(t)
    BY <2>1, StrReads
  <2> HIDE DEF t
  <2> DEFINE one == << 1 >>
  <2>4. /\ IsSequence(u) /\ Len(u) = 1 + Len(t) /\ Len(t) \in Nat
        /\ \A data, at : Holds(data, at, u) => Holds(data, at, one) /\ Holds(data, at + 1, t)
    <3>1. IsSequence(one) /\ Len(one) = 1 /\ u = one \o t
      BY <2>2
    <3> HIDE DEF one, u
    <3>2. Len(t) \in Nat
      BY <2>3 DEF IsSequence
    <3>3. /\ IsSequence(u) /\ Len(u) = Len(one) + Len(t)
          /\ \A data, at : Holds(data, at, u) => Holds(data, at, one) /\ Holds(data, at + Len(one), t)
      BY <2>3, <3>1, Joined
    <3> QED
      BY <3>1, <3>2, <3>3
  <2> HIDE DEF u
  <2>5. ASSUME NEW data, NEW at, Holds(data, at, u) PROVE Reads(v, kind, data, at, u)
    <3>1. Holds(data, at, << 1 >>) /\ Holds(data, at + 1, t)
      BY <2>4, <2>5
    <3>2. data[at + 1] = 1 /\ BoolEnd(data, at) = at + 1 /\ at \in Nat
      BY <3>1, FlagReads
    <3>3. Str(data, at + 1) = x /\ StrEnd(data, at + 1) = (at + 1) + Len(t)
      BY <2>3, <3>1
    <3>4. BoolEnd(data, at) # Failed /\ (at + 1) + Len(t) = at + Len(u)
      BY <2>4, <3>2 DEF Failed
    <3>5. Item(data, at, kind) = Some(x) /\ ItemEnd(data, at, kind) = (at + 1) + Len(t)
      BY <1>3, <3>2, <3>3, <3>4
    <3> QED
      BY <2>1, <3>4, <3>5 DEF Reads
  <2> QED
    BY <2>1, <2>4, <2>5 DEF kind
<1> QED
  BY <1>4, <1>5

LEMMA NodeItem ==
  ASSUME NEW v, ItemFits(v, "node")
  PROVE  /\ IsSequence(WriteItem(v, "node"))
         /\ \A data, at : Holds(data, at, WriteItem(v, "node")) =>
                            Reads(v, "node", data, at, WriteItem(v, "node"))
<1> DEFINE kind == "node"
           h == v.hash
           right == v.isRightSibling
           n == IF right THEN 1 ELSE 0
           u == h \o <<n>>
<1>1. /\ v = [hash |-> h, isRightSibling |-> right]
      /\ IsSequence(h) /\ right \in BOOLEAN /\ Len(h) = HashLen
  BY Kinds DEF ItemFits, IsItem
<1>2. WriteItem(v, kind) = u
  BY Kinds DEF WriteItem, BoolBytes
<1>3. \A data, at :
        /\ Item(data, at, kind) = [hash |-> SubSeq(data, at + 1, at + HashLen),
                                   isRightSibling |-> data[at + HashLen + 1] = 1]
        /\ ItemEnd(data, at, kind) =
             IF at + HashLen > Len(data) THEN Failed ELSE BoolEnd(data, at + HashLen)
  BY Kinds DEF Item, ItemEnd
<1>4. n \in {0, 1} /\ (n = 1) = right
  BY <1>1
<1>5. HashLen \in Nat
  BY Widths
<1> HIDE DEF h, right, n, kind
<1>6. IsSequence(<<n>>) /\ Len(<<n>>) = 1
  BY <1>4, FlagIsSequence
<1>7. /\ IsSequence(u) /\ Len(u) = HashLen + 1
      /\ \A data, at : Holds(data, at, u) => Holds(data, at, h) /\ Holds(data, at + HashLen, <<n>>)
  <2> DEFINE t == <<n>>
  <2>1. IsSequence(t) /\ Len(t) = 1 /\ u = h \o t
    BY <1>6
  <2> HIDE DEF t, u
  <2>2. /\ IsSequence(u) /\ Len(u) = HashLen + 1
        /\ \A data, at : Holds(data, at, u) => Holds(data, at, h) /\ Holds(data, at + HashLen, t)
    BY <1>1, <2>1, Joined
  <2> QED
    BY <2>2 DEF t
<1> HIDE DEF u
<1>8. ASSUME NEW data, NEW at, Holds(data, at, u) PROVE Reads(v, kind, data, at, u)
  <2>1. Holds(data, at, h) /\ Holds(data, at + HashLen, <<n>>)
    BY <1>7, <1>8
  <2>2. SubSeq(data, at + 1, at + HashLen) = h
    BY <1>1, <2>1, HeldSubSeq
  <2>3. data[(at + HashLen) + 1] = n /\ BoolEnd(data, at + HashLen) = (at + HashLen) + 1
    BY <1>4, <2>1, FlagReads
  <2>4. at \in Nat /\ at + Len(u) <= Len(data) /\ Len(data) \in Nat
    BY <1>8 DEF Holds, IsSequence
  <2>5. ~(at + HashLen > Len(data)) /\ (at + HashLen) + 1 = at + Len(u)
    BY <1>5, <1>7, <2>4
  <2>6. ItemEnd(data, at, kind) = at + Len(u)
    BY <1>3, <2>3, <2>5
  <2>7. (data[at + HashLen + 1] = 1) = right
    BY <1>4, <2>3
  <2>8. Item(data, at, kind) = [hash |-> h, isRightSibling |-> right]
    BY <1>3, <2>2, <2>7
  <2> QED
    BY <1>1, <2>6, <2>8 DEF Reads
<1> QED
  BY <1>2, <1>7, <1>8 DEF kind

LEMMA ItemReads ==
  ASSUME NEW kind \in ItemKinds, NEW v, ItemFits(v, kind)
  PROVE  /\ IsSequence(WriteItem(v, kind))
         /\ \A data, at : Holds(data, at, WriteItem(v, kind)) =>
                            Reads(v, kind, data, at, WriteItem(v, kind))
<1>1. CASE kind \in IntegerKinds
  BY <1>1, IntegerItem
<1>2. CASE kind = "bytes"
  BY <1>2, BytesItem
<1>3. CASE kind = "bool"
  BY <1>3, BoolItem
<1>4. CASE kind = "str"
  BY <1>4, StrItem
<1>5. CASE kind = "optionStr"
  BY <1>5, OptionItem
<1>6. CASE kind = "node"
  BY <1>6, NodeItem
<1> QED
  BY <1>1, <1>2, <1>3, <1>4, <1>5, <1>6 DEF ItemKinds

(***************************************************************************)
(* The pieces of a flattened sequence are found where the ends say.        *)
(***************************************************************************)
LEMMA FlatHolds ==
  ASSUME NEW seqs, IsSequence(seqs), \A i \in 1..Len(seqs) : IsSequence(seqs[i])
  PROVE  \E ends : /\ Ends(ends, seqs) /\ IsSequence(FlattenSeq(seqs))
                   /\ Len(FlattenSeq(seqs)) = ends[Len(seqs)]
                   /\ \A data, at : Holds(data, at, FlattenSeq(seqs)) =>
                        \A i \in 1..Len(seqs) : Holds(data, at + ends[i - 1], seqs[i])
<1> DEFINE n == Len(seqs)
           flat == FlattenSeq(seqs)
<1>0. PICK ends : Placed(ends, seqs, flat)
  BY Flattened
<1>1. /\ Ends(ends, seqs) /\ IsSequence(flat) /\ Len(flat) = ends[n]
      /\ \A i \in 1..n :
           /\ ends[i] <= Len(flat)
           /\ \A j \in 1..Len(seqs[i]) : flat[ends[i - 1] + j] = seqs[i][j]
  BY <1>0 DEF Placed
<1>2. n \in Nat /\ Len(flat) \in Nat
  BY <1>1 DEF IsSequence
<1> HIDE DEF flat
<1>3. ASSUME NEW data, NEW at, Holds(data, at, flat), NEW i \in 1..n
      PROVE  Holds(data, at + ends[i - 1], seqs[i])
  <2> DEFINE e == ends[i - 1]
             s == seqs[i]
  <2>1. e \in Nat /\ ends[i] = e + Len(s) /\ ends[i] <= Len(flat)
    <3>1. i - 1 \in 0..n
      BY <1>2
    <3> QED
      BY <1>1, <3>1 DEF Ends
  <2>2. /\ IsSequence(data) /\ at \in Nat /\ at + Len(flat) <= Len(data) /\ Len(data) \in Nat
        /\ \A j \in 1..Len(flat) : data[at + j] = flat[j]
    BY <1>3 DEF Holds, IsSequence
  <2>3. Len(s) \in Nat
    BY DEF IsSequence
  <2>4. \A j \in 1..Len(s) : flat[e + j] = s[j]
    BY <1>1
  <2> HIDE DEF e, s
  <2>5. at + e \in Nat /\ (at + e) + Len(s) <= Len(data)
    BY <1>2, <2>1, <2>2, <2>3
  <2>6. ASSUME NEW j \in 1..Len(s) PROVE data[(at + e) + j] = s[j]
    <3>1. e + j \in 1..Len(flat) /\ at + (e + j) = (at + e) + j
      BY <1>2, <2>1, <2>2, <2>3
    <3> QED
      BY <2>2, <2>4, <3>1
  <2>7. Holds(data, at + e, s)
    BY <2>2, <2>5, <2>6 DEF Holds
  <2> QED
    BY <2>7 DEF e, s
<1> QED
  BY <1>1, <1>3 DEF flat

(***************************************************************************)
(* A field: an item, or the items of a vector after their number.          *)
(***************************************************************************)
FieldKinds == (ItemKinds \ {"node"}) \cup VectorKinds
FieldFits(v, kind) ==
  IF kind \notin VectorKinds THEN ItemFits(v, kind)
  ELSE IsText(v) /\ \A i \in DOMAIN v : ItemFits(v[i], Element[kind])

ReadsField(v, kind, data, at, s) ==
  Field(data, at, kind) = v /\ FieldEnd(data, at, kind) = at + Len(s)

LEMMA VectorReads ==
  ASSUME NEW kind \in VectorKinds, NEW v, FieldFits(v, kind)
  PROVE  /\ IsSequence(Write(v, kind))
         /\ \A data, at : Holds(data, at, Write(v, kind)) =>
                            ReadsField(v, kind, data, at, Write(v, kind))
<1> DEFINE element == Element[kind]
           n == Len(v)
           ws == [i \in DOMAIN v |-> WriteItem(v[i], element)]
           head == LeBytes(n, "u32")
           flat == FlattenSeq(ws)
           u == Write(v, kind)
<1>1. element \in ItemKinds
  BY Kinds DEF ItemKinds
<1>2. IsText(v) /\ \A i \in DOMAIN v : ItemFits(v[i], element)
  BY DEF FieldFits
<1>3. /\ IsSequence(v) /\ n \in Nat /\ InRange(n, "u32")
      /\ IsSequence(head) /\ Len(head) = Bytes32
  BY <1>2, LengthFits
<1>4. Bytes32 \in Nat
  BY Widths
<1>5. DOMAIN v = 1..n /\ v = [i \in 1..n |-> v[i]]
  BY <1>3 DEF IsSequence
<1>6. ASSUME NEW i \in 1..n
      PROVE  /\ IsSequence(WriteItem(v[i], element))
             /\ \A data, at : Holds(data, at, WriteItem(v[i], element)) =>
                                Reads(v[i], element, data, at, WriteItem(v[i], element))
  BY <1>1, <1>2, <1>5, ItemReads
<1>7. ws = [i \in 1..n |-> WriteItem(v[i], element)]
  BY <1>5
<1>8. \A i \in 1..n : ws[i] = WriteItem(v[i], element)
  BY <1>7
<1>9. IsSequence(ws) /\ Len(ws) = n
  <2> DEFINE A == {WriteItem(v[i], element) : i \in 1..n}
  <2>1. ws \in Seq(A) /\ Len(ws) = n
    BY <1>3, <1>7
  <2> QED
    BY <2>1, SeqOfRange DEF IsSequence
<1>10. u = head \o flat
  BY DEF Write
<1> HIDE DEF element, n, ws, head, u
<1>11. PICK ends : /\ Ends(ends, ws) /\ IsSequence(flat) /\ Len(flat) = ends[n]
                   /\ \A data, at : Holds(data, at, flat) =>
                        \A i \in 1..n : Holds(data, at + ends[i - 1], ws[i])
  <2>1. \A i \in 1..Len(ws) : IsSequence(ws[i])
    BY <1>6, <1>8, <1>9
  <2> QED
    BY <1>9, <2>1, FlatHolds
<1> HIDE DEF flat
<1>12. ends[0] = 0 /\ \A i \in 1..n : ends[i - 1] \in Nat /\ ends[i] = ends[i - 1] + Len(ws[i])
  BY <1>3, <1>9, <1>11 DEF Ends
<1>13. ends[n] \in Nat
  BY <1>3, <1>9, <1>11 DEF Ends
<1>14. /\ IsSequence(u) /\ Len(u) = Bytes32 + Len(flat)
       /\ \A data, at : Holds(data, at, u) =>
                          Holds(data, at, head) /\ Holds(data, at + Bytes32, flat)
  BY <1>3, <1>10, <1>11, Joined
<1>15. ASSUME NEW data, NEW at, Holds(data, at, u) PROVE ReadsField(v, kind, data, at, u)
  <2> DEFINE pos == [i \in 0..n |-> (at + Bytes32) + ends[i]]
             after(f, i) == IF f[i - 1] = Failed THEN Failed ELSE ItemEnd(data, f[i - 1], element)
             value(f, i) == IF i = 0 THEN at + Bytes32 ELSE after(f, i)
             Right(f) == f = [i \in 0..n |-> value(f, i)]
             f == CHOOSE h : Right(h)
  <2>1. Holds(data, at, head) /\ Holds(data, at + Bytes32, flat)
    BY <1>14, <1>15
  <2>2. Integer(data, at, "u32") = n
    BY <1>3, <2>1, Kinds, IntegerReads DEF head
  <2>3. at \in Nat /\ at + Len(u) <= Len(data) /\ Len(data) \in Nat
    BY <1>15 DEF Holds, IsSequence
  <2>4. \A i \in 0..n : pos[i] = (at + Bytes32) + ends[i]
    OBVIOUS
  <2> HIDE DEF pos
  <2>5. ASSUME NEW i \in 1..n
        PROVE  /\ Item(data, pos[i - 1], element) = v[i] /\ pos[i - 1] # Failed
               /\ ItemEnd(data, pos[i - 1], element) = pos[i]
    <3>1. i - 1 \in 0..n /\ i \in 0..n
      BY <1>3
    <3>2. pos[i - 1] = (at + Bytes32) + ends[i - 1] /\ pos[i] = (at + Bytes32) + ends[i]
      BY <2>4, <3>1
    <3>3. Holds(data, pos[i - 1], ws[i])
      BY <1>11, <2>1, <3>2
    <3>4. Reads(v[i], element, data, pos[i - 1], ws[i])
      BY <1>6, <1>8, <3>3
    <3>5. Len(ws[i]) \in Nat
      BY <1>6, <1>8 DEF IsSequence
    <3>6. pos[i - 1] + Len(ws[i]) = pos[i] /\ pos[i - 1] # Failed
      BY <1>4, <1>12, <2>3, <3>2, <3>5 DEF Failed
    <3> QED
      BY <3>4, <3>6 DEF Reads
  <2>6. pos[0] = at + Bytes32
    BY <1>3, <1>4, <1>12, <2>3, <2>4
  <2>7. Right(pos)
    <3>1. \A i \in 0..n : pos[i] = value(pos, i)
      BY <1>3, <2>5, <2>6
    <3>2. pos = [i \in 0..n |-> pos[i]]
      BY DEF pos
    <3> HIDE DEF value
    <3> QED
      BY <3>1, <3>2
  <2>8. Right(f)
    BY <2>7
  <2>9. \A i \in 0..n : f[i] = value(f, i)
    <3> HIDE DEF value, f
    <3> QED
      BY <2>8
  <2>10. ElementEnds(data, at, kind) = f
    <3>1. ElementEnds(data, at, kind) =
            CHOOSE h : h = [i \in 0..Integer(data, at, "u32") |->
                              IF i = 0 THEN at + Bytes32
                              ELSE IF h[i - 1] = Failed THEN Failed
                                   ELSE ItemEnd(data, h[i - 1], Element[kind])]
      BY Zenon DEF ElementEnds
    <3> QED
      BY <2>2, <3>1, Zenon DEF element
  <2> HIDE DEF f
  <2> DEFINE S == {i \in 0..n : f[i] = pos[i]}
  <2>11. 0 \in S
    BY <1>3, <2>6, <2>9
  <2>12. ASSUME NEW i \in 1..n, i - 1 \in S PROVE i \in S
    <3>1. f[i - 1] = pos[i - 1] /\ i \in 0..n
      BY <2>12
    <3>2. f[i] = after(f, i)
      <4> HIDE DEF after
      <4> QED
        BY <2>9
    <3>3. f[i] = pos[i]
      BY <2>5, <3>1, <3>2
    <3> QED
      BY <3>1, <3>3
  <2> HIDE DEF S
  <2>13. \A i \in 0..n : f[i] = pos[i]
    <3>1. \A i \in 0..n : i \in S
      BY <1>3, <2>11, <2>12, StepByStep
    <3> QED
      BY <3>1 DEF S
  <2>14. FieldEnd(data, at, kind) = at + Len(u)
    <3>1. pos[n] = at + Len(u) /\ at + Bytes32 <= Len(data)
      BY <1>3, <1>4, <1>11, <1>13, <1>14, <2>3, <2>4
    <3>2. FieldEnd(data, at, kind) =
            IF at + Bytes32 > Len(data) THEN Failed
            ELSE ElementEnds(data, at, kind)[Integer(data, at, "u32")]
      BY DEF FieldEnd
    <3>3. f[n] = pos[n]
      BY <1>3, <2>13
    <3>4. ~(at + Bytes32 > Len(data))
      BY <1>4, <2>3, <3>1
    <3> QED
      BY <2>2, <2>10, <3>1, <3>2, <3>3, <3>4
  <2>15. Field(data, at, kind) = v
    <3>1. Field(data, at, kind) = [i \in 1..n |-> Item(data, f[i - 1], element)]
      BY <2>2, <2>10 DEF Field, element
    <3>2. ASSUME NEW i \in 1..n PROVE Item(data, f[i - 1], element) = v[i]
      <4>1. f[i - 1] = pos[i - 1]
        BY <1>3, <2>13
      <4> QED
        BY <2>5, <4>1
    <3> QED
      BY <1>5, <3>1, <3>2
  <2> QED
    BY <2>14, <2>15 DEF ReadsField
<1> QED
  BY <1>14, <1>15 DEF u

LEMMA FieldReads ==
  ASSUME NEW kind \in FieldKinds, NEW v, FieldFits(v, kind)
  PROVE  /\ IsSequence(Write(v, kind))
         /\ \A data, at : Holds(data, at, Write(v, kind)) =>
                            ReadsField(v, kind, data, at, Write(v, kind))
<1>1. CASE kind \in VectorKinds
  BY <1>1, VectorReads
<1>2. CASE kind \notin VectorKinds
  <2>1. kind \in ItemKinds /\ ItemFits(v, kind) /\ Write(v, kind) = WriteItem(v, kind)
    BY <1>2 DEF FieldKinds, FieldFits, Write
  <2>2. \A data, at : /\ Field(data, at, kind) = Item(data, at, kind)
                      /\ FieldEnd(data, at, kind) = ItemEnd(data, at, kind)
    BY <1>2 DEF Field, FieldEnd
  <2>3. /\ IsSequence(WriteItem(v, kind))
        /\ \A data, at : Holds(data, at, WriteItem(v, kind)) =>
                            Reads(v, kind, data, at, WriteItem(v, kind))
    BY <2>1, ItemReads
  <2> QED
    BY <2>1, <2>2, <2>3 DEF Reads, ReadsField
<1> QED
  BY <1>1, <1>2

(***************************************************************************)
(* A struct: what is written of a record after a tag is read as that       *)
(* record, by name.                                                        *)
(***************************************************************************)
RecordFits(args, struct) ==
  \A p \in Range(struct) : p[2] \in FieldKinds /\ FieldFits(args[p[1]], p[2])

LEMMA Tagged ==
  ASSUME NEW tag, NEW flat, IsSequence(flat)
  PROVE  LET data == withDiscriminator(tag, flat)
         IN  /\ IsSequence(data) /\ data[1] = tag /\ Len(data) = 1 + Len(flat)
             /\ Holds(data, 1, flat)
<1> DEFINE s == <<tag>>
           data == s \o flat
<1>1. s \in Seq({tag}) /\ Len(s) = 1 /\ s[1] = tag
  OBVIOUS
<1>2. IsSequence(s)
  BY <1>1, SeqOfRange DEF IsSequence
<1> HIDE DEF s
<1>3. /\ IsSequence(data) /\ Len(data) = Len(s) + Len(flat)
      /\ \A d, at : Holds(d, at, data) => Holds(d, at, s) /\ Holds(d, at + Len(s), flat)
  BY <1>2, Joined
<1> HIDE DEF data
<1>4. Len(data) \in Nat
  BY <1>3 DEF IsSequence
<1>5. Holds(data, 0, data)
  BY <1>3, <1>4 DEF Holds
<1>6. Holds(data, 0, s) /\ Holds(data, 0 + Len(s), flat)
  BY <1>3, <1>5
<1>7. Holds(data, 1, flat)
  BY <1>1, <1>6
<1>8. data[1] = tag
  <2>1. 1 \in 1..Len(s) /\ 0 + 1 = 1
    BY <1>1
  <2>2. data[0 + 1] = s[1]
    BY <1>6, <2>1 DEF Holds
  <2> QED
    BY <1>1, <2>1, <2>2
<1>9. withDiscriminator(tag, flat) = data
  BY DEF withDiscriminator, data, s
<1> QED
  BY <1>1, <1>3, <1>7, <1>8, <1>9

\* The bytes of a record, field by field.
LEMMA FinishIs ==
  ASSUME NEW args, NEW struct, IsSequence(struct), RecordFits(args, struct)
  PROVE  LET n == Len(struct)
             ws == [i \in DOMAIN struct |-> Write(args[struct[i][1]], struct[i][2])]
         IN  /\ n \in Nat /\ DOMAIN struct = 1..n /\ finish(args, struct) = FlattenSeq(ws)
             /\ IsSequence(ws) /\ Len(ws) = n
             /\ \A i \in 1..n : /\ ws[i] = Write(args[struct[i][1]], struct[i][2])
                                /\ IsSequence(ws[i])
<1> DEFINE n == Len(struct)
           piece(i) == Write(args[struct[i][1]], struct[i][2])
           ws == [i \in DOMAIN struct |-> piece(i)]
           A == {piece(i) : i \in 1..n}
<1>1. n \in Nat /\ DOMAIN struct = 1..n
  BY DEF IsSequence
<1>2. finish(args, struct) = FlattenSeq(ws)
  BY DEF finish
<1>3. ASSUME NEW i \in 1..n PROVE IsSequence(piece(i))
  <2> DEFINE kind == struct[i][2]
             v == args[struct[i][1]]
  <2>1. kind \in FieldKinds /\ FieldFits(v, kind)
    BY <1>1 DEF RecordFits, Range
  <2> HIDE DEF kind, v
  <2>2. IsSequence(Write(v, kind))
    BY <2>1, FieldReads
  <2> QED
    BY <2>2 DEF kind, v
<1> HIDE DEF piece
<1>4. ws \in Seq(A) /\ Len(ws) = n /\ \A i \in 1..n : ws[i] = piece(i)
  BY <1>1
<1>5. IsSequence(ws)
  BY <1>4, SeqOfRange DEF IsSequence
<1> QED
  BY <1>1, <1>2, <1>3, <1>4, <1>5 DEF piece

LEMMA StructReads ==
  ASSUME NEW args, NEW struct, IsSequence(struct), RecordFits(args, struct), NEW tag
  PROVE  LET data == withDiscriminator(tag, finish(args, struct))
         IN  /\ Named(data, struct) = [f \in Fields(struct) |-> args[f]]
             /\ Deserialize(data, struct) = Some([f \in Fields(struct) |-> args[f]])
<1> DEFINE n == Len(struct)
           ws == [i \in DOMAIN struct |-> Write(args[struct[i][1]], struct[i][2])]
           flat == finish(args, struct)
           data == withDiscriminator(tag, flat)
<1>1. /\ n \in Nat /\ DOMAIN struct = 1..n /\ flat = FlattenSeq(ws)
      /\ IsSequence(ws) /\ Len(ws) = n
      /\ \A i \in 1..n : /\ ws[i] = Write(args[struct[i][1]], struct[i][2])
                         /\ IsSequence(ws[i])
  BY FinishIs
<1> HIDE DEF ws, n, flat
<1>2. PICK ends : /\ Ends(ends, ws) /\ IsSequence(flat) /\ Len(flat) = ends[n]
                  /\ \A d, at : Holds(d, at, flat) =>
                       \A i \in 1..n : Holds(d, at + ends[i - 1], ws[i])
  <2>1. \A i \in 1..Len(ws) : IsSequence(ws[i])
    BY <1>1
  <2> QED
    BY <1>1, <2>1, FlatHolds
<1>3. Holds(data, 1, flat)
  BY <1>2, Tagged
<1> HIDE DEF data
<1>4. /\ ends[0] = 0 /\ \A i \in 0..n : ends[i] \in Nat
      /\ \A i \in 1..n : ends[i] = ends[i - 1] + Len(ws[i])
  BY <1>1, <1>2 DEF Ends
<1> DEFINE pos == [i \in 0..n |-> 1 + ends[i]]
           after(f, i) == IF f[i - 1] = Failed THEN Failed ELSE FieldEnd(data, f[i - 1], struct[i][2])
           value(f, i) == IF i = 0 THEN 1 ELSE after(f, i)
           Right(f) == f = [i \in 0..n |-> value(f, i)]
           f == CHOOSE h : Right(h)
<1>5. \A i \in 0..n : pos[i] = 1 + ends[i]
  OBVIOUS
<1> HIDE DEF pos
<1>6. ASSUME NEW i \in 1..n
      PROVE  /\ Field(data, pos[i - 1], struct[i][2]) = args[struct[i][1]]
             /\ FieldEnd(data, pos[i - 1], struct[i][2]) = pos[i] /\ pos[i - 1] # Failed
  <2> DEFINE kind == struct[i][2]
             v == args[struct[i][1]]
  <2>1. kind \in FieldKinds /\ FieldFits(v, kind)
    BY <1>1 DEF RecordFits, Range
  <2>2. ws[i] = Write(v, kind)
    BY <1>1
  <2>3. i - 1 \in 0..n /\ i \in 0..n
    BY <1>1
  <2>4. pos[i - 1] = 1 + ends[i - 1] /\ pos[i] = 1 + ends[i]
    BY <1>5, <2>3
  <2>5. Holds(data, pos[i - 1], ws[i])
    BY <1>2, <1>3, <2>4
  <2> HIDE DEF kind, v
  <2>6. ReadsField(v, kind, data, pos[i - 1], ws[i])
    BY <2>1, <2>2, <2>5, FieldReads
  <2>7. Len(ws[i]) \in Nat
    BY <1>1 DEF IsSequence
  <2>8. pos[i - 1] + Len(ws[i]) = pos[i] /\ pos[i - 1] # Failed
    BY <1>4, <2>3, <2>4, <2>7 DEF Failed
  <2>9. Field(data, pos[i - 1], kind) = v /\ FieldEnd(data, pos[i - 1], kind) = pos[i]
    BY <2>6, <2>8 DEF ReadsField
  <2> QED
    BY <2>8, <2>9 DEF kind, v
<1>7. pos[0] = 1
  BY <1>1, <1>4, <1>5
<1>8. Right(pos)
  <2>1. \A i \in 0..n : pos[i] = value(pos, i)
    BY <1>1, <1>6, <1>7
  <2>2. pos = [i \in 0..n |-> pos[i]]
    BY DEF pos
  <2> HIDE DEF value
  <2> QED
    BY <2>1, <2>2
<1>9. Right(f)
  BY <1>8
<1>10. \A i \in 0..n : f[i] = value(f, i)
  <2> HIDE DEF value, f
  <2> QED
    BY <1>9
<1>11. FieldEnds(data, struct) = f
  BY Zenon DEF FieldEnds, n
<1> HIDE DEF f
<1> DEFINE S == {i \in 0..n : f[i] = pos[i]}
<1>12. 0 \in S
  BY <1>1, <1>7, <1>10
<1>13. ASSUME NEW i \in 1..n, i - 1 \in S PROVE i \in S
  <2>1. f[i - 1] = pos[i - 1] /\ i \in 0..n
    BY <1>13
  <2>2. f[i] = after(f, i)
    <3> HIDE DEF after
    <3> QED
      BY <1>10
  <2>3. f[i] = pos[i]
    BY <1>6, <2>1, <2>2
  <2> QED
    BY <2>1, <2>3
<1> HIDE DEF S
<1>14. \A i \in 0..n : f[i] = pos[i]
  <2>1. \A i \in 0..n : i \in S
    BY <1>1, <1>12, <1>13, StepByStep
  <2> QED
    BY <2>1 DEF S
<1>15. f[n] # Failed
  <2>1. f[n] = 1 + ends[n] /\ ends[n] \in Nat
    BY <1>1, <1>4, <1>5, <1>14
  <2> QED
    BY <2>1 DEF Failed
<1>16. Named(data, struct) = [x \in Fields(struct) |-> args[x]]
  <2> DEFINE read(x) == LET i == CHOOSE i \in DOMAIN struct : struct[i][1] = x
                        IN  Field(data, f[i - 1], struct[i][2])
  <2>1. Named(data, struct) = [x \in Fields(struct) |-> read(x)]
    BY <1>11 DEF Named
  <2>2. ASSUME NEW x \in Fields(struct) PROVE read(x) = args[x]
    <3> DEFINE i == CHOOSE i \in DOMAIN struct : struct[i][1] = x
    <3>1. i \in DOMAIN struct /\ struct[i][1] = x
      BY DEF Fields, Range
    <3>2. read(x) = Field(data, f[i - 1], struct[i][2])
      OBVIOUS
    <3> HIDE DEF i
    <3>3. i \in 1..n /\ i - 1 \in 0..n
      BY <1>1, <3>1
    <3> HIDE DEF read
    <3> QED
      BY <1>6, <1>14, <3>1, <3>2, <3>3
  <2> HIDE DEF read
  <2> QED
    BY <2>1, <2>2
<1>17. Deserialize(data, struct) = Some([x \in Fields(struct) |-> args[x]])
  BY <1>11, <1>15, <1>16 DEF Deserialize, n
<1> QED
  BY <1>16, <1>17 DEF data, flat

(***************************************************************************)
(* The layouts, as sets.                                                   *)
(***************************************************************************)
LEMMA RevealWritesAre ==
  /\ IsSequence(RevealWrites)
  /\ Range(RevealWrites) =
      {<<"strategy", "bytes">>, <<"index", "u64">>, <<"fixtureId", "i64">>,
       <<"market", "u16">>, <<"side", "u8">>, <<"fairProbBps", "u16">>,
       <<"entryOddsMilli", "u32">>, <<"stake", "u64">>,
       <<"signalHash", "bytes">>, <<"nonce", "bytes">>}
<1>1. DOMAIN RevealWrites = 1..10 /\ RevealWrites = [i \in 1..10 |-> RevealWrites[i]]
  BY DEF RevealWrites
<1>2. IsSequence(RevealWrites)
  BY <1>1 DEF IsSequence, Range
<1> QED
  BY <1>1, <1>2 DEF RevealWrites, Range

LEMMA RevealChecksAre ==
  /\ IsSequence(RevealChecks)
  /\ Range(RevealChecks) =
      {<<"strategy", "bytes">>, <<"signalHash", "bytes">>,
       <<"nonce", "bytes">>, <<"index", "u64">>, <<"fixtureId", "i64">>,
       <<"market", "u16">>, <<"side", "side">>, <<"fairProbBps", "u16">>,
       <<"entryOddsMilli", "u32">>, <<"stake", "u64">>}
<1>1. DOMAIN RevealChecks = 1..10 /\ RevealChecks = [i \in 1..10 |-> RevealChecks[i]]
  BY DEF RevealChecks
<1>2. IsSequence(RevealChecks)
  BY <1>1 DEF IsSequence, Range
<1> QED
  BY <1>1, <1>2 DEF RevealChecks, Range

LEMMA SettleWritesAre ==
  /\ IsSequence(SettleWrites)
  /\ Range(SettleWrites) =
      {<<"claimedResult", "u8">>, <<"ts", "i64">>,
       <<"summaryFixtureId", "i64">>, <<"updateCount", "i32">>,
       <<"minTimestamp", "i64">>, <<"maxTimestamp", "i64">>,
       <<"subTreeRoot", "bytes">>, <<"subTreeProof", "proof">>,
       <<"mainTreeProof", "proof">>, <<"homeKey", "u32">>,
       <<"homeValue", "i32">>, <<"homePeriod", "i32">>,
       <<"homeRoot", "bytes">>, <<"homeProof", "proof">>, <<"awayKey", "u32">>,
       <<"awayValue", "i32">>, <<"awayPeriod", "i32">>,
       <<"awayRoot", "bytes">>, <<"awayProof", "proof">>}
<1>1. DOMAIN SettleWrites = 1..19 /\ SettleWrites = [i \in 1..19 |-> SettleWrites[i]]
  BY DEF SettleWrites
<1>2. IsSequence(SettleWrites)
  BY <1>1 DEF IsSequence, Range
<1> QED
  BY <1>1, <1>2 DEF SettleWrites, Range

LEMMA SettleChecksAre ==
  /\ IsSequence(SettleChecks)
  /\ Range(SettleChecks) =
      {<<"claimedResult", "side">>, <<"ts", "i64">>,
       <<"summaryFixtureId", "i64">>, <<"updateCount", "i32">>,
       <<"minTimestamp", "i64">>, <<"maxTimestamp", "i64">>,
       <<"subTreeRoot", "bytes">>, <<"subTreeProof", "proof">>,
       <<"mainTreeProof", "proof">>, <<"homeKey", "u32">>,
       <<"homeValue", "i32">>, <<"homePeriod", "i32">>,
       <<"homeRoot", "bytes">>, <<"homeProof", "proof">>, <<"awayKey", "u32">>,
       <<"awayValue", "i32">>, <<"awayPeriod", "i32">>,
       <<"awayRoot", "bytes">>, <<"awayProof", "proof">>}
<1>1. DOMAIN SettleChecks = 1..19 /\ SettleChecks = [i \in 1..19 |-> SettleChecks[i]]
  BY DEF SettleChecks
<1>2. IsSequence(SettleChecks)
  BY <1>1 DEF IsSequence, Range
<1> QED
  BY <1>1, <1>2 DEF SettleChecks, Range

LEMMA ProveOddsWritesAre ==
  /\ IsSequence(ProveOddsWrites)
  /\ Range(ProveOddsWrites) =
      {<<"ts", "i64">>, <<"oddsFixtureId", "i64">>, <<"messageId", "str">>,
       <<"oddsTs", "i64">>, <<"bookmaker", "str">>, <<"bookmakerId", "i32">>,
       <<"superOddsType", "str">>, <<"gameState", "optionStr">>,
       <<"inRunning", "bool">>, <<"marketParameters", "optionStr">>,
       <<"marketPeriod", "optionStr">>, <<"priceNames", "strs">>,
       <<"prices", "i32s">>, <<"summaryFixtureId", "i64">>,
       <<"updateCount", "u32">>, <<"minTimestamp", "i64">>,
       <<"maxTimestamp", "i64">>, <<"subTreeRoot", "bytes">>,
       <<"subTreeProof", "proof">>, <<"mainTreeProof", "proof">>,
       <<"sideIndex", "u8">>}
<1>1. DOMAIN ProveOddsWrites = 1..21 /\ ProveOddsWrites = [i \in 1..21 |-> ProveOddsWrites[i]]
  BY DEF ProveOddsWrites
<1>2. IsSequence(ProveOddsWrites)
  BY <1>1 DEF IsSequence, Range
<1> QED
  BY <1>1, <1>2 DEF ProveOddsWrites, Range

LEMMA ProveOddsChecksAre ==
  /\ IsSequence(ProveOddsChecks)
  /\ Range(ProveOddsChecks) =
      {<<"ts", "i64">>, <<"oddsFixtureId", "i64">>, <<"oddsTs", "i64">>,
       <<"bookmakerId", "i32">>, <<"prices", "i32s">>,
       <<"summaryFixtureId", "i64">>, <<"updateCount", "u32">>,
       <<"minTimestamp", "i64">>, <<"maxTimestamp", "i64">>,
       <<"subTreeRoot", "bytes">>, <<"subTreeProof", "proof">>,
       <<"mainTreeProof", "proof">>, <<"sideIndex", "u8">>}
<1>1. DOMAIN ProveOddsChecks = 1..13 /\ ProveOddsChecks = [i \in 1..13 |-> ProveOddsChecks[i]]
  BY DEF ProveOddsChecks
<1>2. IsSequence(ProveOddsChecks)
  BY <1>1 DEF IsSequence, Range
<1> QED
  BY <1>1, <1>2 DEF ProveOddsChecks, Range

LEMMA InitializeWritesAre ==
  /\ IsSequence(InitializeWrites)
  /\ Range(InitializeWrites) =
      {<<"strategyId", "u64">>, <<"txlineProgram", "bytes">>,
       <<"startingBankroll", "u64">>}
<1>1. DOMAIN InitializeWrites = 1..3 /\ InitializeWrites = [i \in 1..3 |-> InitializeWrites[i]]
  BY DEF InitializeWrites
<1>2. IsSequence(InitializeWrites)
  BY <1>1 DEF IsSequence, Range
<1> QED
  BY <1>1, <1>2 DEF InitializeWrites, Range

LEMMA InitializeChecksAre ==
  /\ IsSequence(InitializeChecks)
  /\ Range(InitializeChecks) =
      {<<"txlineProgram", "bytes">>, <<"strategyId", "u64">>,
       <<"startingBankroll", "u64">>}
<1>1. DOMAIN InitializeChecks = 1..3 /\ InitializeChecks = [i \in 1..3 |-> InitializeChecks[i]]
  BY DEF InitializeChecks
<1>2. IsSequence(InitializeChecks)
  BY <1>1 DEF IsSequence, Range
<1> QED
  BY <1>1, <1>2 DEF InitializeChecks, Range

LEMMA CommitWritesAre ==
  /\ IsSequence(CommitWrites)
  /\ Range(CommitWrites) =
      {<<"commitHash", "bytes">>, <<"fixtureId", "i64">>, <<"market", "u16">>}
<1>1. DOMAIN CommitWrites = 1..3 /\ CommitWrites = [i \in 1..3 |-> CommitWrites[i]]
  BY DEF CommitWrites
<1>2. IsSequence(CommitWrites)
  BY <1>1 DEF IsSequence, Range
<1> QED
  BY <1>1, <1>2 DEF CommitWrites, Range

LEMMA CommitChecksAre ==
  /\ IsSequence(CommitChecks)
  /\ Range(CommitChecks) =
      {<<"commitHash", "bytes">>, <<"fixtureId", "i64">>, <<"market", "u16">>}
<1>1. DOMAIN CommitChecks = 1..3 /\ CommitChecks = [i \in 1..3 |-> CommitChecks[i]]
  BY DEF CommitChecks
<1>2. IsSequence(CommitChecks)
  BY <1>1 DEF IsSequence, Range
<1> QED
  BY <1>1, <1>2 DEF CommitChecks, Range

LEMMA VoidWritesAre ==
  /\ IsSequence(VoidWrites)
  /\ Range(VoidWrites) =
      {<<"reason", "u8">>}
<1>1. DOMAIN VoidWrites = 1..1 /\ VoidWrites = [i \in 1..1 |-> VoidWrites[i]]
  BY DEF VoidWrites
<1>2. IsSequence(VoidWrites)
  BY <1>1 DEF IsSequence, Range
<1> QED
  BY <1>1, <1>2 DEF VoidWrites, Range

(***************************************************************************)
(* The program's structs are what the client writes, field by field.       *)
(***************************************************************************)
LEMMA JoinIs ==
  ASSUME NEW s, NEW t, NEW w, IsSequence(s), IsSequence(t), IsSequence(w),
         Len(w) = Len(s) + Len(t), \A i \in 1..Len(s) : w[i] = s[i],
         \A i \in 1..Len(t) : w[Len(s) + i] = t[i]
  PROVE  s \o t = w
<1> DEFINE A == Range(s) \cup (Range(t) \cup Range(w))
           u == s \o t
<1>1. /\ s \in Seq(Range(s)) /\ t \in Seq(Range(t)) /\ w \in Seq(Range(w))
      /\ Range(s) \subseteq A /\ Range(t) \subseteq A /\ Range(w) \subseteq A
  BY DEF IsSequence
<1> HIDE DEF A
<1>2. s \in Seq(A) /\ t \in Seq(A) /\ w \in Seq(A)
  BY <1>1, SeqMonotonic
<1>3. Len(s) \in Nat /\ Len(t) \in Nat /\ u \in Seq(A)
  BY <1>2, ConcatProperties
<1>4. /\ Len(u) = Len(s) + Len(t) /\ \A i \in 1..Len(s) : u[i] = s[i]
      /\ \A i \in 1..Len(t) : u[Len(s) + i] = t[i]
  BY <1>2, LongerHolds
<1> HIDE DEF u
<1>5. ASSUME NEW i \in 1..Len(u) PROVE u[i] = w[i]
  <2>1. CASE i <= Len(s)
    BY <1>3, <1>4, <2>1
  <2>2. CASE ~(i <= Len(s))
    <3>1. i - Len(s) \in 1..Len(t) /\ Len(s) + (i - Len(s)) = i
      BY <1>3, <1>4, <2>2
    <3> QED
      BY <1>4, <3>1
  <2> QED
    BY <2>1, <2>2
<1>6. u = w
  BY <1>2, <1>3, <1>4, <1>5, SeqEqual
<1> QED
  BY <1>6 DEF u

Associate(s, t, u) == (s \o t) \o u = s \o (t \o u)

LEMMA JoinsAssociate ==
  ASSUME NEW s, NEW t, NEW u, IsSequence(s), IsSequence(t), IsSequence(u)
  PROVE  Associate(s, t, u)
<1> DEFINE A == Range(s) \cup (Range(t) \cup Range(u))
<1>1. /\ s \in Seq(Range(s)) /\ t \in Seq(Range(t)) /\ u \in Seq(Range(u))
      /\ Range(s) \subseteq A /\ Range(t) \subseteq A /\ Range(u) \subseteq A
  BY DEF IsSequence
<1> HIDE DEF A
<1>2. s \in Seq(A) /\ t \in Seq(A) /\ u \in Seq(A)
  BY <1>1, SeqMonotonic
<1> QED
  BY <1>2, ConcatAssociative DEF Associate

\* A literal of n elements is a sequence of them.
LEMMA LiteralIs ==
  ASSUME NEW s, NEW n \in Nat, s = [i \in 1..n |-> s[i]]
  PROVE  IsSequence(s) /\ Len(s) = n
<1>1. s \in [1..n -> Range(s)]
  BY DEF Range
<1>2. s \in Seq(Range(s)) /\ Len(s) = n
  BY <1>1
<1> QED
  BY <1>2 DEF IsSequence

\* Four pieces, the first of which is the reveal.
Pieces4(r, s, t, u, w) == ((r \o s) \o t) \o u = r \o w
Cut(w, s, t) == s \o t = w

LEMMA FourPieces ==
  ASSUME NEW r, NEW s, NEW t, NEW u, NEW v, NEW w,
         IsSequence(r), IsSequence(s), IsSequence(t), IsSequence(u),
         Cut(v, s, t), IsSequence(v), Cut(w, v, u)
  PROVE  Pieces4(r, s, t, u, w)
<1>1. Associate(r, s, t) /\ Associate(r, v, u)
  BY JoinsAssociate
<1>2. (r \o s) \o t = r \o v /\ (r \o v) \o u = r \o w
  BY <1>1, Zenon DEF Associate, Cut
<1> QED
  BY <1>2, Zenon DEF Pieces4

LEMMA SettleArgsAre == SettleArgs = RevealWrites \o SettleWrites
<1> DEFINE s == << <<"claimedResult", "u8">>, <<"ts", "i64">> >>
           t == ScoresBatchSummary
           u == << <<"subTreeProof", "proof">>, <<"mainTreeProof", "proof">>,
                   <<"homeKey", "u32">>, <<"homeValue", "i32">>, <<"homePeriod", "i32">>,
                   <<"homeRoot", "bytes">>, <<"homeProof", "proof">>,
                   <<"awayKey", "u32">>, <<"awayValue", "i32">>, <<"awayPeriod", "i32">>,
                   <<"awayRoot", "bytes">>, <<"awayProof", "proof">> >>
           v == [i \in 1..7 |-> SettleWrites[i]]
           w == SettleWrites
<1>1. SettleArgs = ((RevealWrites \o s) \o t) \o u
  BY DEF SettleArgs, RevealArgs, RevealWrites
<1>2. /\ s = [i \in 1..2 |-> s[i]] /\ t = [i \in 1..5 |-> t[i]] /\ u = [i \in 1..12 |-> u[i]]
      /\ v = [i \in 1..7 |-> v[i]] /\ w = [i \in 1..19 |-> w[i]]
  BY DEF ScoresBatchSummary, SettleWrites
<1>3. \A i \in 1..7 : v[i] = w[i]
  OBVIOUS
<1>4. s[1] = w[1] /\ s[2] = w[2]
  BY DEF SettleWrites
<1>5. t[1] = w[3] /\ t[2] = w[4] /\ t[3] = w[5] /\ t[4] = w[6] /\ t[5] = w[7]
  BY DEF SettleWrites, ScoresBatchSummary
<1>6. /\ u[1] = w[8] /\ u[2] = w[9] /\ u[3] = w[10] /\ u[4] = w[11] /\ u[5] = w[12]
      /\ u[6] = w[13] /\ u[7] = w[14] /\ u[8] = w[15] /\ u[9] = w[16] /\ u[10] = w[17]
      /\ u[11] = w[18] /\ u[12] = w[19]
  BY DEF SettleWrites
<1> HIDE DEF s, t, u, v, w
<1>7. /\ IsSequence(s) /\ Len(s) = 2 /\ IsSequence(t) /\ Len(t) = 5 /\ IsSequence(u) /\ Len(u) = 12
      /\ IsSequence(v) /\ Len(v) = 7 /\ IsSequence(w) /\ Len(w) = 19
  BY <1>2, LiteralIs
<1>8. s \o t = v
  <2>1. \A i \in 1..2 : v[i] = s[i]
    BY <1>3, <1>4, <1>5
  <2>2. \A i \in 1..5 : v[2 + i] = t[i]
    BY <1>3, <1>4, <1>5
  <2>3. /\ Len(v) = Len(s) + Len(t) /\ \A i \in 1..Len(s) : v[i] = s[i]
        /\ \A i \in 1..Len(t) : v[Len(s) + i] = t[i]
    BY <1>7, <2>1, <2>2
  <2> QED
    BY <1>7, <2>3, JoinIs
<1>9. v \o u = w
  <2>1. \A i \in 1..7 : w[i] = v[i]
    BY <1>3, <1>6
  <2>2. \A i \in 1..12 : w[7 + i] = u[i]
    BY <1>3, <1>6
  <2>3. /\ Len(w) = Len(v) + Len(u) /\ \A i \in 1..Len(v) : w[i] = v[i]
        /\ \A i \in 1..Len(u) : w[Len(v) + i] = u[i]
    BY <1>7, <2>1, <2>2
  <2> QED
    BY <1>7, <2>3, JoinIs
<1>10. IsSequence(RevealWrites)
  BY RevealWritesAre
<1>11. Pieces4(RevealWrites, s, t, u, w)
  BY <1>7, <1>8, <1>9, <1>10, FourPieces DEF Cut
<1> QED
  BY <1>1, <1>11, Zenon DEF w, Pieces4

LEMMA ProveOddsArgsAre == ProveOddsArgs = RevealWrites \o ProveOddsWrites
<1> DEFINE s1 == << <<"ts", "i64">> >>
           t == OddsBatchSummary
           u == << <<"subTreeProof", "proof">>, <<"mainTreeProof", "proof">>, <<"sideIndex", "u8">> >>
           v == [i \in 1..18 |-> ProveOddsWrites[i]]
           v1 == [i \in 1..13 |-> ProveOddsWrites[i]]
           w == ProveOddsWrites
<1>1. ProveOddsArgs = (((RevealWrites \o s1) \o Odds) \o t) \o u
  BY DEF ProveOddsArgs, RevealArgs, RevealWrites
<1>2. /\ s1 = [i \in 1..1 |-> s1[i]] /\ Odds = [i \in 1..12 |-> Odds[i]]
      /\ t = [i \in 1..5 |-> t[i]] /\ u = [i \in 1..3 |-> u[i]] /\ v1 = [i \in 1..13 |-> v1[i]]
      /\ v = [i \in 1..18 |-> v[i]] /\ w = [i \in 1..21 |-> w[i]]
  BY DEF OddsBatchSummary, Odds, ProveOddsWrites
<1>3. (\A i \in 1..18 : v[i] = w[i]) /\ \A i \in 1..13 : v1[i] = w[i]
  OBVIOUS
<1>4. s1[1] = w[1]
  BY DEF ProveOddsWrites
<1>5. /\ Odds[1] = w[2] /\ Odds[2] = w[3] /\ Odds[3] = w[4] /\ Odds[4] = w[5] /\ Odds[5] = w[6]
      /\ Odds[6] = w[7] /\ Odds[7] = w[8] /\ Odds[8] = w[9] /\ Odds[9] = w[10]
      /\ Odds[10] = w[11] /\ Odds[11] = w[12] /\ Odds[12] = w[13]
  BY DEF ProveOddsWrites, Odds
<1>6. t[1] = w[14] /\ t[2] = w[15] /\ t[3] = w[16] /\ t[4] = w[17] /\ t[5] = w[18]
  BY DEF ProveOddsWrites, OddsBatchSummary
<1>7. u[1] = w[19] /\ u[2] = w[20] /\ u[3] = w[21]
  BY DEF ProveOddsWrites
<1> HIDE DEF s1, t, u, v, v1, w
<1>8. /\ IsSequence(s1) /\ Len(s1) = 1 /\ IsSequence(Odds) /\ Len(Odds) = 12
      /\ IsSequence(t) /\ Len(t) = 5 /\ IsSequence(u) /\ Len(u) = 3
      /\ IsSequence(v) /\ Len(v) = 18 /\ IsSequence(v1) /\ Len(v1) = 13
      /\ IsSequence(w) /\ Len(w) = 21
  BY <1>2, LiteralIs
<1>9. s1 \o Odds = v1
  <2>1. \A i \in 1..1 : v1[i] = s1[i]
    BY <1>3, <1>4, <1>5
  <2>2. \A i \in 1..12 : v1[1 + i] = Odds[i]
    BY <1>3, <1>4, <1>5
  <2>3. /\ Len(v1) = Len(s1) + Len(Odds) /\ \A i \in 1..Len(s1) : v1[i] = s1[i]
        /\ \A i \in 1..Len(Odds) : v1[Len(s1) + i] = Odds[i]
    BY <1>8, <2>1, <2>2
  <2> QED
    BY <1>8, <2>3, JoinIs
<1>10. v1 \o t = v
  <2>1. \A i \in 1..13 : v[i] = v1[i]
    BY <1>3, <1>6
  <2>2. \A i \in 1..5 : v[13 + i] = t[i]
    BY <1>3, <1>6
  <2>3. /\ Len(v) = Len(v1) + Len(t) /\ \A i \in 1..Len(v1) : v[i] = v1[i]
        /\ \A i \in 1..Len(t) : v[Len(v1) + i] = t[i]
    BY <1>8, <2>1, <2>2
  <2> QED
    BY <1>8, <2>3, JoinIs
<1>11. v \o u = w
  <2>1. \A i \in 1..18 : w[i] = v[i]
    BY <1>3, <1>7
  <2>2. \A i \in 1..3 : w[18 + i] = u[i]
    BY <1>3, <1>7
  <2>3. /\ Len(w) = Len(v) + Len(u) /\ \A i \in 1..Len(v) : w[i] = v[i]
        /\ \A i \in 1..Len(u) : w[Len(v) + i] = u[i]
    BY <1>8, <2>1, <2>2
  <2> QED
    BY <1>8, <2>3, JoinIs
<1>12. IsSequence(RevealWrites)
  BY RevealWritesAre
<1>13. (RevealWrites \o s1) \o Odds = RevealWrites \o v1
  <2>1. Associate(RevealWrites, s1, Odds)
    BY <1>8, <1>12, JoinsAssociate
  <2> QED
    BY <1>9, <2>1, Zenon DEF Associate
<1>14. Pieces4(RevealWrites, v1, t, u, w)
  BY <1>8, <1>10, <1>11, <1>12, FourPieces DEF Cut
<1> QED
  BY <1>1, <1>13, <1>14, Zenon DEF w, Pieces4

(***************************************************************************)
(* What passes the client's checks fits where it is written.               *)
(***************************************************************************)
Passed(args, checks) == \A p \in Range(checks) : Passes(args[p[1]], p[2])
Typed(args, writes) == \A p \in Range(writes) : IsOf(args[p[1]], p[2])
Unchecked == {"bool", "str", "optionStr", "strs"}
Covers(checks, writes) ==
  \A p \in Range(writes) : /\ p[2] \in FieldKinds
                           /\ \/ p[2] \in Unchecked \/ p \in Range(checks)
                              \/ p[2] = "u8" /\ <<p[1], "side">> \in Range(checks)

LEMMA PassedFits ==
  ASSUME NEW kind \in FieldKinds, NEW v, IsOf(v, kind),
         \/ kind \in Unchecked \/ Passes(v, kind)
         \/ kind = "u8" /\ Passes(v, "side")
  PROVE  FieldFits(v, kind)
<1>1. CASE kind = "proof"
  <2>1. Passes(v, kind)
    BY <1>1 DEF Unchecked
  <2>2. IsText(v) /\ \A i \in DOMAIN v : IsItem(v[i], "node")
    BY <1>1, Kinds DEF IsOf
  <2>3. \A i \in DOMAIN v : Len(v[i].hash) = HashLen
    BY <1>1, <2>1, Kinds DEF Passes
  <2>4. \A i \in DOMAIN v : ItemFits(v[i], "node")
    BY <2>2, <2>3, Kinds DEF ItemFits
  <2> QED
    BY <1>1, <2>2, <2>4, Kinds DEF FieldFits
<1>2. CASE kind = "i32s"
  <2>1. Passes(v, kind)
    BY <1>2 DEF Unchecked
  <2>2. IsText(v) /\ \A i \in DOMAIN v : IsItem(v[i], "i32")
    BY <1>2, Kinds DEF IsOf
  <2>3. \A i \in DOMAIN v : InRange(v[i], "i32")
    BY <1>2, <2>1, Kinds DEF Passes
  <2>4. \A i \in DOMAIN v : ItemFits(v[i], "i32")
    BY <2>2, <2>3, Kinds DEF ItemFits
  <2> QED
    BY <1>2, <2>2, <2>4, Kinds DEF FieldFits
<1>3. CASE kind = "strs"
  <2>1. IsText(v) /\ \A i \in DOMAIN v : IsItem(v[i], "str")
    BY <1>3, Kinds DEF IsOf
  <2>2. \A i \in DOMAIN v : ItemFits(v[i], "str")
    BY <2>1, Kinds DEF ItemFits
  <2> QED
    BY <1>3, <2>1, <2>2, Kinds DEF FieldFits
<1>4. CASE kind \in IntegerKinds
  <2>1. kind \notin VectorKinds /\ kind \notin Unchecked /\ kind \notin {"bytes", "node"}
    BY <1>4, Kinds DEF Unchecked
  <2>2. InRange(v, kind)
    <3>1. CASE Passes(v, kind)
      BY <1>4, <3>1, Kinds DEF Passes
    <3>2. CASE kind = "u8" /\ Passes(v, "side")
      <4>1. v \in {0, 1, 2}
        BY <3>2, Kinds DEF Passes
      <4>2. Lowest("u8") = 0 /\ Beyond("u8") = Capacity[1]
        <5>1. Lowest("u8") = 0
          BY DEF Lowest
        <5>2. Capacity[1] \in Nat
          BY Widths, CapacityIs
        <5> QED
          BY <5>1, <5>2, Kinds DEF Beyond
      <4>3. Capacity[1] > 2
        <5>1. 1 \in 1..Bytes64 /\ 1 - 1 = 0
          BY Widths
        <5>2. Capacity[1] = B * 1
          BY <5>1, CapacityIs
        <5> QED
          BY <5>2, Widths
      <4>4. Capacity[1] \in Nat
        BY Widths, CapacityIs
      <4> QED
        BY <3>2, <4>1, <4>2, <4>3, <4>4 DEF InRange
    <3> QED
      BY <2>1, <3>1, <3>2
  <2>3. IsItem(v, kind)
    BY <2>1 DEF IsOf
  <2> QED
    BY <2>1, <2>2, <2>3 DEF FieldFits, ItemFits
<1>5. CASE kind \in {"bytes", "bool", "str", "optionStr"}
  <2>1. kind \notin VectorKinds /\ kind \notin IntegerKinds /\ kind # "node"
    BY <1>5, Kinds
  <2>2. IsItem(v, kind)
    BY <2>1 DEF IsOf
  <2>3. kind = "bytes" => Len(v) = HashLen
    BY Kinds DEF Passes, Unchecked
  <2> QED
    BY <2>1, <2>2, <2>3 DEF FieldFits, ItemFits
<1> QED
  BY <1>1, <1>2, <1>3, <1>4, <1>5, Kinds DEF FieldKinds, ItemKinds

LEMMA CheckedFits ==
  ASSUME NEW args, NEW checks, NEW writes,
         Covers(checks, writes), Passed(args, checks), Typed(args, writes)
  PROVE  RecordFits(args, writes)
<1>1. ASSUME NEW p \in Range(writes) PROVE p[2] \in FieldKinds /\ FieldFits(args[p[1]], p[2])
  <2> DEFINE v == args[p[1]]
             kind == p[2]
  <2>1. kind \in FieldKinds /\ IsOf(v, kind)
    BY DEF Covers, Typed
  <2>2. \/ kind \in Unchecked \/ Passes(v, kind)
        \/ kind = "u8" /\ Passes(v, "side")
    <3>1. \/ kind \in Unchecked \/ p \in Range(checks)
          \/ kind = "u8" /\ <<p[1], "side">> \in Range(checks)
      BY DEF Covers
    <3>2. CASE p \in Range(checks)
      BY <3>2 DEF Passed
    <3>3. CASE <<p[1], "side">> \in Range(checks)
      <4> DEFINE q == <<p[1], "side">>
      <4>1. q \in Range(checks) /\ q[1] = p[1] /\ q[2] = "side"
        BY <3>3
      <4>2. Passes(args[q[1]], q[2])
        BY <4>1 DEF Passed
      <4>3. Passes(v, "side")
        BY <4>1, <4>2
      <4> QED
        BY <3>1, <3>2, <4>3
    <3> QED
      BY <3>1, <3>2, <3>3
  <2> HIDE DEF v, kind
  <2>3. FieldFits(v, kind)
    BY <2>1, <2>2, PassedFits
  <2> QED
    BY <2>1, <2>3 DEF v, kind
<1> QED
  BY <1>1 DEF RecordFits

LEMMA RangeJoins ==
  ASSUME NEW s, NEW t, IsSequence(s), IsSequence(t)
  PROVE  Range(s \o t) = Range(s) \cup Range(t) /\ IsSequence(s \o t)
<1> DEFINE A == Range(s) \cup Range(t)
<1>1. s \in Seq(Range(s)) /\ t \in Seq(Range(t)) /\ Range(s) \subseteq A /\ Range(t) \subseteq A
  BY DEF IsSequence
<1> HIDE DEF A
<1>2. s \in Seq(A) /\ t \in Seq(A)
  BY <1>1, SeqMonotonic
<1>3. Range(s \o t) = Range(s) \cup Range(t)
  BY <1>2, RangeConcatenation
<1> QED
  BY <1>3, Joined

LEMMA EncodeIs ==
  ASSUME NEW args, NEW checks, NEW layout, Encode(args, checks, layout).ok
  PROVE  Encode(args, checks, layout) = Ok(finish(args, layout)) /\ Passed(args, checks)
<1>1. CASE Failing(args, checks) = {}
  <2>1. \A i \in DOMAIN checks : Passes(args[checks[i][1]], checks[i][2])
    BY <1>1 DEF Failing
  <2> QED
    BY <1>1, <2>1 DEF Encode, Passed, Range
<1>2. CASE Failing(args, checks) # {}
  <2> DEFINE field == checks[Min(Failing(args, checks))][1]
  <2>1. Encode(args, checks, layout) = Error(field)
    BY <1>2 DEF Encode
  <2> HIDE DEF field
  <2>2. Encode(args, checks, layout).ok = FALSE
    BY <2>1 DEF Error
  <2> QED
    BY <2>2
<1> QED
  BY <1>1, <1>2

\* Every field of a layout is checked in its own width, or needs no check.
LEMMA ChecksCover ==
  /\ Covers(RevealChecks, RevealWrites) /\ Covers(SettleChecks, SettleWrites)
  /\ Covers(ProveOddsChecks, ProveOddsWrites) /\ Covers(InitializeChecks, InitializeWrites)
  /\ Covers(CommitChecks, CommitWrites) /\ Covers(VoidWrites, VoidWrites)
<1>1. {"u8", "u16", "u32", "i32", "u64", "i64", "bytes", "bool", "str", "optionStr",
       "proof", "strs", "i32s"} \subseteq FieldKinds
  BY Kinds DEF FieldKinds, ItemKinds
<1>2. Covers(RevealChecks, RevealWrites)
  BY <1>1, RevealWritesAre, RevealChecksAre DEF Covers, Unchecked
<1>3. Covers(SettleChecks, SettleWrites)
  BY <1>1, SettleWritesAre, SettleChecksAre DEF Covers, Unchecked
<1>4. Covers(ProveOddsChecks, ProveOddsWrites)
  BY <1>1, ProveOddsWritesAre, ProveOddsChecksAre DEF Covers, Unchecked
<1>5. Covers(InitializeChecks, InitializeWrites)
  BY <1>1, InitializeWritesAre, InitializeChecksAre DEF Covers, Unchecked
<1>6. Covers(CommitChecks, CommitWrites)
  BY <1>1, CommitWritesAre, CommitChecksAre DEF Covers, Unchecked
<1>7. Covers(VoidWrites, VoidWrites)
  BY <1>1, VoidWritesAre DEF Covers, Unchecked
<1> QED
  BY <1>2, <1>3, <1>4, <1>5, <1>6, <1>7

\* An instruction after a reveal: what is checked and written of both.
LEMMA RevealAnd ==
  ASSUME NEW args, NEW checks, NEW writes, IsSequence(checks), IsSequence(writes),
         Covers(checks, writes), Typed(args, RevealWrites), Typed(args, writes),
         Passed(args, RevealChecks \o checks)
  PROVE  /\ IsSequence(RevealWrites \o writes) /\ RecordFits(args, RevealWrites \o writes)
         /\ Fields(RevealWrites \o writes) = Fields(RevealWrites) \cup Fields(writes)
<1> DEFINE cs == RevealChecks \o checks
           ws == RevealWrites \o writes
<1>1. /\ Range(cs) = Range(RevealChecks) \cup Range(checks)
      /\ Range(ws) = Range(RevealWrites) \cup Range(writes) /\ IsSequence(ws)
  BY RevealChecksAre, RevealWritesAre, RangeJoins
<1> HIDE DEF cs, ws
<1>2. Covers(RevealChecks, RevealWrites)
  BY ChecksCover
<1>3. Covers(cs, ws)
  BY <1>1, <1>2 DEF Covers
<1>4. Typed(args, ws) /\ Passed(args, cs)
  BY <1>1 DEF Typed, cs
<1>5. RecordFits(args, ws)
  BY <1>3, <1>4, CheckedFits
<1>6. Fields(ws) = Fields(RevealWrites) \cup Fields(writes)
  BY <1>1 DEF Fields
<1> QED
  BY <1>1, <1>5, <1>6 DEF ws

(***************************************************************************)
(* The names of the fields.                                                *)
(***************************************************************************)
LEMMA RevealFields ==
  Fields(RevealWrites) =
    {"strategy", "index", "fixtureId", "market", "side", "fairProbBps", "entryOddsMilli",
     "stake", "signalHash", "nonce"}
BY RevealWritesAre DEF Fields

LEMMA SettleFields ==
  Fields(SettleWrites) =
    {"claimedResult", "ts", "summaryFixtureId", "updateCount", "minTimestamp", "maxTimestamp",
     "subTreeRoot", "subTreeProof", "mainTreeProof", "homeKey", "homeValue", "homePeriod",
     "homeRoot", "homeProof", "awayKey", "awayValue", "awayPeriod", "awayRoot", "awayProof"}
BY SettleWritesAre DEF Fields

LEMMA ProveOddsFields ==
  Fields(ProveOddsWrites) =
    {"ts", "oddsFixtureId", "messageId", "oddsTs", "bookmaker", "bookmakerId", "superOddsType",
     "gameState", "inRunning", "marketParameters", "marketPeriod", "priceNames", "prices",
     "summaryFixtureId", "updateCount", "minTimestamp", "maxTimestamp", "subTreeRoot",
     "subTreeProof", "mainTreeProof", "sideIndex"}
BY ProveOddsWritesAre DEF Fields

LEMMA OtherFields ==
  /\ Fields(InitializeWrites) = {"strategyId", "txlineProgram", "startingBankroll"}
  /\ Fields(CommitWrites) = {"commitHash", "fixtureId", "market"}
  /\ Fields(VoidWrites) = {"reason"}
BY InitializeWritesAre, CommitWritesAre, VoidWritesAre DEF Fields

(***************************************************************************)
(* An instruction that is built carries what was encoded, and the program  *)
(* reads the record it was encoded from.                                   *)
(***************************************************************************)
LEMMA InstructionIs ==
  ASSUME NEW tag, NEW body, NEW accounts, Instruction(tag, body, accounts).ok
  PROVE  /\ body.ok
         /\ Instruction(tag, body, accounts) =
              Ok([data |-> withDiscriminator(tag, body.value), accounts |-> accounts])
<1>1. CASE body.ok
  BY <1>1 DEF Instruction
<1>2. CASE ~body.ok
  <2>1. Instruction(tag, body, accounts) = body
    BY <1>2 DEF Instruction
  <2> QED
    BY <1>2, <2>1
<1> QED
  BY <1>1, <1>2

LEMMA ReceiveReads ==
  ASSUME NEW tag, NEW args, NEW struct, Arguments[tag] = struct,
         IsSequence(struct), RecordFits(args, struct)
  PROVE  Receive(withDiscriminator(tag, finish(args, struct))) =
           Some([f \in Fields(struct) |-> args[f]])
<1> DEFINE flat == finish(args, struct)
           data == withDiscriminator(tag, flat)
<1>1. IsSequence(flat)
  <2> DEFINE ws == [i \in DOMAIN struct |-> Write(args[struct[i][1]], struct[i][2])]
  <2>1. /\ flat = FlattenSeq(ws) /\ IsSequence(ws) /\ Len(ws) = Len(struct)
        /\ \A i \in 1..Len(struct) : IsSequence(ws[i])
    BY FinishIs
  <2> HIDE DEF ws, flat
  <2> QED
    BY <2>1, Flattened DEF Placed
<1>2. data[1] = tag
  BY <1>1, Tagged
<1>3. Deserialize(data, struct) = Some([f \in Fields(struct) |-> args[f]])
  BY StructReads
<1> HIDE DEF data
<1>4. Receive(data) = Deserialize(data, struct)
  BY <1>2 DEF Receive
<1> QED
  BY <1>3, <1>4 DEF data

LEMMA FinishSame ==
  ASSUME NEW a, NEW b, NEW layout, \A f \in Fields(layout) : a[f] = b[f]
  PROVE  finish(a, layout) = finish(b, layout)
<1>1. ASSUME NEW i \in DOMAIN layout PROVE layout[i][1] \in Fields(layout)
  BY DEF Fields, Range
<1>2. [i \in DOMAIN layout |-> Write(a[layout[i][1]], layout[i][2])] =
      [i \in DOMAIN layout |-> Write(b[layout[i][1]], layout[i][2])]
  BY <1>1
<1> QED
  BY <1>2 DEF finish

\* The arguments after a reveal do not disturb it.
LEMMA WithRevealIs ==
  ASSUME NEW value, NEW reveal \in Reveals, NEW writes, DOMAIN value = Fields(writes),
         Fields(writes) \cap Fields(RevealWrites) = {}, Typed(value, writes)
  PROVE  LET a == WithReveal(value, reveal)
         IN  /\ Typed(a, RevealWrites) /\ Typed(a, writes)
             /\ \A f \in Fields(writes) : a[f] = value[f]
             /\ \A f \in Fields(RevealWrites) : a[f] = reveal[f]
<1> DEFINE a == WithReveal(value, reveal)
<1>1. IsRecordOf(reveal, RevealWrites)
  BY InputAssumption
<1>2. DOMAIN reveal = Fields(RevealWrites)
  BY <1>1 DEF IsRecordOf
<1>3. /\ \A f \in Fields(writes) : a[f] = value[f]
      /\ \A f \in Fields(RevealWrites) : a[f] = reveal[f]
  BY <1>2 DEF WithReveal
<1> HIDE DEF a
<1>4. (\A p \in Range(writes) : p[1] \in Fields(writes))
      /\ \A p \in Range(RevealWrites) : p[1] \in Fields(RevealWrites)
  BY DEF Fields
<1>5. Typed(a, RevealWrites)
  BY <1>1, <1>3, <1>4 DEF Typed, IsRecordOf
<1>6. Typed(a, writes)
  BY <1>3, <1>4 DEF Typed
<1> QED
  BY <1>3, <1>5, <1>6 DEF a

\* What an instruction after a reveal says when the client has encoded it.
Says(data, writes, value, reveal) ==
  \E a : /\ Receive(data) = Some(a) /\ DOMAIN a = Fields(RevealWrites) \cup Fields(writes)
         /\ \A f \in Fields(writes) : a[f] = value[f]
         /\ \A f \in Fields(RevealWrites) : a[f] = reveal[f]

LEMMA RevealedIsSaid ==
  ASSUME NEW tag, NEW value, NEW reveal \in Reveals, NEW checks, NEW writes,
         DOMAIN value = Fields(writes), Fields(writes) \cap Fields(RevealWrites) = {},
         Typed(value, writes), IsSequence(checks), IsSequence(writes),
         Covers(checks, writes), Arguments[tag] = RevealWrites \o writes,
         Passed(WithReveal(value, reveal), RevealChecks \o checks)
  PROVE  Says(withDiscriminator(tag, finish(WithReveal(value, reveal), RevealWrites \o writes)),
              writes, value, reveal)
<1> DEFINE args == WithReveal(value, reveal)
           struct == RevealWrites \o writes
           data == withDiscriminator(tag, finish(args, struct))
           a == [f \in Fields(struct) |-> args[f]]
<1>1. /\ Typed(args, RevealWrites) /\ Typed(args, writes)
      /\ \A f \in Fields(writes) : args[f] = value[f]
      /\ \A f \in Fields(RevealWrites) : args[f] = reveal[f]
  BY WithRevealIs
<1> HIDE DEF args
<1>2. /\ IsSequence(struct) /\ RecordFits(args, struct)
      /\ Fields(struct) = Fields(RevealWrites) \cup Fields(writes)
  BY <1>1, RevealAnd DEF args
<1>3. Arguments[tag] = struct
  OBVIOUS
<1> HIDE DEF struct
<1>4. Receive(data) = Some(a)
  BY <1>2, <1>3, ReceiveReads
<1>5. /\ DOMAIN a = Fields(RevealWrites) \cup Fields(writes)
      /\ \A f \in Fields(RevealWrites) \cup Fields(writes) : a[f] = args[f]
  BY <1>2
<1> HIDE DEF a, data
<1>6. Says(data, writes, value, reveal)
  BY <1>1, <1>4, <1>5 DEF Says
<1> QED
  BY <1>6 DEF data, struct, args

(***************************************************************************)
(* Settling.                                                               *)
(***************************************************************************)
Roots == {"homeRoot", "awayRoot"}
SettleProofs == {"subTreeProof", "mainTreeProof", "homeProof", "awayProof"}

LEMMA SettleArgsOf ==
  ASSUME NEW v \in Scores, buildSettleArgs(v).ok
  PROVE  LET value == buildSettleArgs(v).value
         IN  /\ DOMAIN value = Fields(SettleWrites) /\ Typed(value, SettleWrites)
             /\ \A f \in Fields(SettleWrites) \ Roots : value[f] = Plain(v, f)
             /\ \A f \in Roots : value[f] = v.eventStatRoot
<1> DEFINE item(f) == CASE f \in {"homeRoot", "awayRoot"} -> v.eventStatRoot
                        [] f \in SettleProofs -> convertProof(v[f])
                        [] OTHER -> v[f]
           value == [f \in Fields(SettleWrites) |-> item(f)]
<1>1. buildSettleArgs(v) = Ok(value)
  <2> DEFINE bad == Failure(v,
               <<"ts", "summaryFixtureId", "updateCount", "minTimestamp", "maxTimestamp",
                 "homeKey", "homeValue", "homePeriod", "awayKey", "awayValue", "awayPeriod">>,
               <<"eventStatRoot", "subTreeRoot">>,
               <<"subTreeProof", "mainTreeProof", "homeProof", "awayProof">>)
  <2>1. buildSettleArgs(v) = CASE v.second # "both" -> Error(v.second)
                               [] v.second = "both" /\ bad # None -> Error(bad[1])
                               [] OTHER -> Ok(value)
    BY DEF buildSettleArgs, SettleProofs
  <2>2. \A x : Error(x).ok = FALSE
    BY DEF Error
  <2> HIDE DEF bad, value
  <2>3. CASE v.second # "both"
    BY <2>1, <2>2, <2>3
  <2>4. CASE v.second = "both" /\ bad # None
    <3>1. buildSettleArgs(v) = Error(bad[1])
      BY <2>1, <2>4
    <3> QED
      BY <2>2, <3>1
  <2>5. CASE v.second = "both" /\ bad = None
    BY <2>1, <2>5
  <2> QED
    BY <2>3, <2>4, <2>5
<1>2. buildSettleArgs(v).value = value
  BY <1>1 DEF Ok
<1>3. /\ DOMAIN value = Fields(SettleWrites)
      /\ \A f \in Fields(SettleWrites) : value[f] = item(f)
  OBVIOUS
<1> HIDE DEF value
<1>4. ASSUME NEW f \in Fields(SettleWrites) \ Roots PROVE value[f] = Plain(v, f)
  BY <1>3, SettleFields DEF Plain, Listed, Roots, SettleProofs
<1>5. ASSUME NEW f \in Roots PROVE value[f] = v.eventStatRoot
  BY <1>3, SettleFields DEF Roots, SettleProofs
<1>6. Typed(value, SettleWrites)
  <2>1. IsResponseFor(v, SettleWrites, Roots) /\ IsSequence(v.eventStatRoot)
    BY InputAssumption DEF Roots
  <2>2. ASSUME NEW p \in Range(SettleWrites) PROVE IsOf(value[p[1]], p[2])
    <3>1. p[1] \in Fields(SettleWrites)
      BY DEF Fields
    <3>2. CASE p[1] \notin Roots
      BY <1>4, <2>1, <3>1, <3>2 DEF IsResponseFor
    <3>3. CASE p[1] \in Roots
      <4>1. p[2] = "bytes" /\ value[p[1]] = v.eventStatRoot
        BY <1>5, <3>3, SettleWritesAre DEF Roots
      <4>2. IsOf(value[p[1]], "bytes")
        BY <2>1, <4>1, Kinds DEF IsOf, IsItem
      <4> QED
        BY <4>1, <4>2
    <3> QED
      BY <3>2, <3>3
  <2> QED
    BY <2>2 DEF Typed
<1> QED
  BY <1>2, <1>3, <1>4, <1>5, <1>6

\* What is under way when the client settles a decision.
SettleBuilt(v, reveal) ==
  LET args == buildSettleArgs(v)
  IN  IF args.ok THEN buildSettleDecisionInstruction(StrategyAddress, reveal.index,
                                                     WithReveal(args.value, reveal))
      ELSE args

LEMMA SettleSays ==
  ASSUME NEW v \in Scores, NEW reveal \in Reveals, SettleBuilt(v, reveal).ok
  PROVE  LET value == buildSettleArgs(v).value
             built == SettleBuilt(v, reveal)
         IN  /\ Says(built.value.data, SettleWrites, value, reveal)
             /\ built.value.accounts =
                  << <<Authority, "rs">>, <<StrategyAddress, "w">>,
                     <<deriveCommitPda(StrategyAddress, reveal.index), "w">>, <<Txline, "r">>,
                     <<deriveDailyRootsPda("daily_scores_roots", value.ts), "r">> >>
             /\ buildSettleArgs(v).ok
<1> DEFINE value == buildSettleArgs(v).value
           built == SettleBuilt(v, reveal)
           args == WithReveal(value, reveal)
           body == encodeSettleArgs(args)
           accounts == << <<Authority, "rs">>, <<StrategyAddress, "w">>,
                          <<deriveCommitPda(StrategyAddress, reveal.index), "w">>, <<Txline, "r">>,
                          <<deriveDailyRootsPda("daily_scores_roots", args.ts), "r">> >>
           flat == finish(args, RevealWrites \o SettleWrites)
           data == withDiscriminator("settle_decision", flat)
<1>1. buildSettleArgs(v).ok
  <2>1. CASE ~buildSettleArgs(v).ok
    <3>1. built = buildSettleArgs(v)
      BY <2>1 DEF SettleBuilt
    <3> QED
      BY <2>1, <3>1
  <2> QED
    BY <2>1
<1>2. built = Instruction("settle_decision", body, accounts)
  BY <1>1 DEF SettleBuilt, buildSettleDecisionInstruction
<1>3. /\ DOMAIN value = Fields(SettleWrites) /\ Typed(value, SettleWrites)
      /\ Fields(SettleWrites) \cap Fields(RevealWrites) = {} /\ "ts" \in Fields(SettleWrites)
  BY <1>1, SettleArgsOf, SettleFields, RevealFields
<1> HIDE DEF value
<1>4. args.ts = value.ts
  <2>1. \A f \in Fields(SettleWrites) : args[f] = value[f]
    BY <1>3, WithRevealIs
  <2> HIDE DEF args
  <2> QED
    BY <1>3, <2>1
<1> HIDE DEF args, accounts, body, built
<1>5. Instruction("settle_decision", body, accounts).ok
  BY <1>2 DEF built
<1>6. /\ body.ok
      /\ Instruction("settle_decision", body, accounts) =
           Ok([data |-> withDiscriminator("settle_decision", body.value), accounts |-> accounts])
  BY <1>5, InstructionIs
<1>7. body = Encode(args, RevealChecks \o SettleChecks, RevealWrites \o SettleWrites)
  BY DEF body, encodeSettleArgs
<1>8. body = Ok(flat) /\ Passed(args, RevealChecks \o SettleChecks)
  BY <1>6, <1>7, EncodeIs
<1>9. body.value = flat
  BY <1>8 DEF Ok
<1> HIDE DEF flat
<1>10. built.value.data = data /\ built.value.accounts = accounts
  BY <1>2, <1>6, <1>9 DEF Ok
<1>11. Says(data, SettleWrites, value, reveal)
  <2>1. Arguments["settle_decision"] = RevealWrites \o SettleWrites
    BY SettleArgsAre DEF Arguments
  <2>2. IsSequence(SettleChecks) /\ IsSequence(SettleWrites) /\ Covers(SettleChecks, SettleWrites)
    BY SettleChecksAre, SettleWritesAre, ChecksCover
  <2> QED
    BY <1>3, <1>8, <2>1, <2>2, RevealedIsSaid DEF args, flat
<1> HIDE DEF data
<1> QED
  BY <1>1, <1>4, <1>10, <1>11 DEF built, value, accounts

(***************************************************************************)
(* Proving entry odds.                                                     *)
(***************************************************************************)
OddsLists == {"subTreeProof", "mainTreeProof", "priceNames", "prices"}

LEMMA ProveOddsArgsOf ==
  ASSUME NEW v \in Quotes, buildProveOddsArgs(v).ok
  PROVE  LET value == buildProveOddsArgs(v).value
         IN  /\ DOMAIN value = Fields(ProveOddsWrites) /\ Typed(value, ProveOddsWrites)
             /\ \A f \in Fields(ProveOddsWrites) \ {"oddsTs"} : value[f] = Plain(v, f)
             /\ value["oddsTs"] = v.ts
<1> DEFINE item(f) == CASE f \in OddsLists -> convertProof(v[f])
                        [] f = "oddsTs" -> v.ts
                        [] OTHER -> v[f]
           value == [f \in Fields(ProveOddsWrites) |-> item(f)]
<1>1. buildProveOddsArgs(v) = Ok(value)
  <2> DEFINE bad == Failure(v,
               <<"oddsFixtureId", "ts", "bookmakerId", "summaryFixtureId", "updateCount",
                 "minTimestamp", "maxTimestamp">>,
               <<>>, <<>>)
             badPrice == \E i \in DOMAIN convertProof(v.prices) :
                           ~isSafeInteger(convertProof(v.prices)[i])
             badHash == Failure(v, <<>>, <<"subTreeRoot">>, <<"subTreeProof", "mainTreeProof">>)
  <2>1. buildProveOddsArgs(v) =
          CASE bad # None -> Error(bad[1])
            [] bad = None /\ badPrice -> Error("prices")
            [] bad = None /\ ~badPrice /\ badHash # None -> Error(badHash[1])
            [] OTHER -> Ok(value)
    BY DEF buildProveOddsArgs, OddsLists
  <2>2. \A x : Error(x).ok = FALSE
    BY DEF Error
  <2> HIDE DEF bad, badPrice, badHash, value
  <2>3. CASE bad # None
    <3>1. buildProveOddsArgs(v) = Error(bad[1])
      BY <2>1, <2>3
    <3> QED
      BY <2>2, <3>1
  <2>4. CASE bad = None /\ badPrice
    <3>1. buildProveOddsArgs(v) = Error("prices")
      BY <2>1, <2>4
    <3> QED
      BY <2>2, <3>1
  <2>5. CASE bad = None /\ ~badPrice /\ badHash # None
    <3>1. buildProveOddsArgs(v) = Error(badHash[1])
      BY <2>1, <2>5
    <3> QED
      BY <2>2, <3>1
  <2>6. CASE bad = None /\ ~badPrice /\ badHash = None
    BY <2>1, <2>6
  <2> QED
    BY <2>3, <2>4, <2>5, <2>6
<1>2. buildProveOddsArgs(v).value = value
  BY <1>1 DEF Ok
<1>3. /\ DOMAIN value = Fields(ProveOddsWrites)
      /\ \A f \in Fields(ProveOddsWrites) : value[f] = item(f)
  OBVIOUS
<1> HIDE DEF value
<1>4. ASSUME NEW f \in Fields(ProveOddsWrites) \ {"oddsTs"} PROVE value[f] = Plain(v, f)
  BY <1>3, ProveOddsFields DEF Plain, Listed, OddsLists
<1>5. value["oddsTs"] = v.ts
  BY <1>3, ProveOddsFields DEF OddsLists
<1>6. Typed(value, ProveOddsWrites)
  <2>1. IsResponseFor(v, ProveOddsWrites, {"oddsTs"})
    BY InputAssumption
  <2>2. ASSUME NEW p \in Range(ProveOddsWrites) PROVE IsOf(value[p[1]], p[2])
    <3>1. p[1] \in Fields(ProveOddsWrites)
      BY DEF Fields
    <3>2. CASE p[1] # "oddsTs"
      BY <1>4, <2>1, <3>1, <3>2 DEF IsResponseFor
    <3>3. CASE p[1] = "oddsTs"
      <4>1. p[2] = "i64"
        BY <3>3, ProveOddsWritesAre
      <4> DEFINE q == <<"ts", "i64">>
      <4>2. q \in Range(ProveOddsWrites) /\ q[1] = "ts" /\ q[2] = "i64"
        BY ProveOddsWritesAre
      <4>3. IsOf(Plain(v, "ts"), "i64")
        BY <2>1, <4>2 DEF IsResponseFor
      <4>4. Plain(v, "ts") = v.ts
        BY DEF Plain, Listed
      <4> QED
        BY <1>5, <3>3, <4>1, <4>3, <4>4
    <3> QED
      BY <3>2, <3>3
  <2> QED
    BY <2>2 DEF Typed
<1> QED
  BY <1>2, <1>3, <1>4, <1>5, <1>6

ProveOddsBuilt(v, reveal) ==
  LET args == buildProveOddsArgs(v)
  IN  IF args.ok THEN buildProveEntryOddsInstruction(StrategyAddress, reveal.index,
                                                     WithReveal(args.value, reveal))
      ELSE args

LEMMA ProveOddsSays ==
  ASSUME NEW v \in Quotes, NEW reveal \in Reveals, ProveOddsBuilt(v, reveal).ok
  PROVE  LET value == buildProveOddsArgs(v).value
             built == ProveOddsBuilt(v, reveal)
         IN  /\ Says(built.value.data, ProveOddsWrites, value, reveal)
             /\ built.value.accounts =
                  << <<Authority, "rs">>, <<StrategyAddress, "r">>,
                     <<deriveCommitPda(StrategyAddress, reveal.index), "w">>, <<Txline, "r">>,
                     <<deriveDailyRootsPda("daily_batch_roots", value.ts), "r">> >>
             /\ buildProveOddsArgs(v).ok
<1> DEFINE value == buildProveOddsArgs(v).value
           built == ProveOddsBuilt(v, reveal)
           args == WithReveal(value, reveal)
           body == encodeProveOddsArgs(args)
           accounts == << <<Authority, "rs">>, <<StrategyAddress, "r">>,
                          <<deriveCommitPda(StrategyAddress, reveal.index), "w">>, <<Txline, "r">>,
                          <<deriveDailyRootsPda("daily_batch_roots", args.ts), "r">> >>
           flat == finish(args, RevealWrites \o ProveOddsWrites)
           data == withDiscriminator("prove_entry_odds", flat)
<1>1. buildProveOddsArgs(v).ok
  <2>1. CASE ~buildProveOddsArgs(v).ok
    <3>1. built = buildProveOddsArgs(v)
      BY <2>1 DEF ProveOddsBuilt
    <3> QED
      BY <2>1, <3>1
  <2> QED
    BY <2>1
<1>2. built = Instruction("prove_entry_odds", body, accounts)
  BY <1>1 DEF ProveOddsBuilt, buildProveEntryOddsInstruction
<1>3. /\ DOMAIN value = Fields(ProveOddsWrites) /\ Typed(value, ProveOddsWrites)
      /\ Fields(ProveOddsWrites) \cap Fields(RevealWrites) = {} /\ "ts" \in Fields(ProveOddsWrites)
  BY <1>1, ProveOddsArgsOf, ProveOddsFields, RevealFields
<1> HIDE DEF value
<1>4. args.ts = value.ts
  <2>1. \A f \in Fields(ProveOddsWrites) : args[f] = value[f]
    BY <1>3, WithRevealIs
  <2> HIDE DEF args
  <2> QED
    BY <1>3, <2>1
<1> HIDE DEF args, accounts, body, built
<1>5. Instruction("prove_entry_odds", body, accounts).ok
  BY <1>2 DEF built
<1>6. /\ body.ok
      /\ Instruction("prove_entry_odds", body, accounts) =
           Ok([data |-> withDiscriminator("prove_entry_odds", body.value), accounts |-> accounts])
  BY <1>5, InstructionIs
<1>7. body = Encode(args, RevealChecks \o ProveOddsChecks, RevealWrites \o ProveOddsWrites)
  BY DEF body, encodeProveOddsArgs
<1>8. body = Ok(flat) /\ Passed(args, RevealChecks \o ProveOddsChecks)
  BY <1>6, <1>7, EncodeIs
<1>9. body.value = flat
  BY <1>8 DEF Ok
<1> HIDE DEF flat
<1>10. built.value.data = data /\ built.value.accounts = accounts
  BY <1>2, <1>6, <1>9 DEF Ok
<1>11. Says(data, ProveOddsWrites, value, reveal)
  <2>1. Arguments["prove_entry_odds"] = RevealWrites \o ProveOddsWrites
    BY ProveOddsArgsAre DEF Arguments
  <2>2. /\ IsSequence(ProveOddsChecks) /\ IsSequence(ProveOddsWrites)
        /\ Covers(ProveOddsChecks, ProveOddsWrites)
    BY ProveOddsChecksAre, ProveOddsWritesAre, ChecksCover
  <2> QED
    BY <1>3, <1>8, <2>1, <2>2, RevealedIsSaid DEF args, flat
<1> HIDE DEF data
<1> QED
  BY <1>1, <1>4, <1>10, <1>11 DEF built, value, accounts

(***************************************************************************)
(* Voiding, initializing, committing.                                      *)
(***************************************************************************)
VoidBuilt(in) == Instruction("void_decision", encodeVoidDecisionData(in), <<>>)

LEMMA VoidSays ==
  ASSUME NEW reason \in Reasons, NEW reveal \in Reveals,
         VoidBuilt(WithReveal([reason |-> reason], reveal)).ok
  PROVE  Says(VoidBuilt(WithReveal([reason |-> reason], reveal)).value.data,
              VoidWrites, [reason |-> reason], reveal)
<1> DEFINE value == [reason |-> reason]
           args == WithReveal(value, reveal)
           built == VoidBuilt(args)
           body == encodeVoidDecisionData(args)
           flat == finish(args, RevealWrites \o VoidWrites)
           data == withDiscriminator("void_decision", flat)
<1>1. /\ DOMAIN value = Fields(VoidWrites) /\ Typed(value, VoidWrites)
      /\ Fields(VoidWrites) \cap Fields(RevealWrites) = {}
  <2>1. DOMAIN value = Fields(VoidWrites) /\ Fields(VoidWrites) \cap Fields(RevealWrites) = {}
    BY OtherFields, RevealFields
  <2>2. reason \in Int
    BY InputAssumption
  <2>3. value["reason"] = reason
    OBVIOUS
  <2>4. IsOf(reason, "u8")
    BY <2>2, Kinds DEF IsOf, IsItem
  <2> HIDE DEF value
  <2>5. Typed(value, VoidWrites)
    <3>1. \A p \in Range(VoidWrites) : p = <<"reason", "u8">>
      BY VoidWritesAre
    <3> QED
      BY <2>3, <2>4, <3>1 DEF Typed
  <2> QED
    BY <2>1, <2>5
<1> HIDE DEF value, args
<1>2. built = Instruction("void_decision", body, <<>>) /\ built.ok
  BY DEF VoidBuilt, args, value
<1> HIDE DEF built, body
<1>3. /\ body.ok
      /\ Instruction("void_decision", body, <<>>) =
           Ok([data |-> withDiscriminator("void_decision", body.value), accounts |-> <<>>])
  BY <1>2, InstructionIs
<1>4. body = Encode(args, RevealChecks \o VoidWrites, RevealWrites \o VoidWrites)
  BY DEF body, encodeVoidDecisionData
<1>5. body = Ok(flat) /\ Passed(args, RevealChecks \o VoidWrites)
  BY <1>3, <1>4, EncodeIs
<1>6. body.value = flat
  BY <1>5 DEF Ok
<1> HIDE DEF flat
<1>7. built.value.data = data
  BY <1>2, <1>3, <1>6 DEF Ok
<1>8. Says(data, VoidWrites, value, reveal)
  <2>1. Arguments["void_decision"] = RevealWrites \o VoidWrites
    BY DEF Arguments, RevealArgs, RevealWrites, VoidWrites
  <2>2. IsSequence(VoidWrites) /\ Covers(VoidWrites, VoidWrites)
    BY VoidWritesAre, ChecksCover
  <2> QED
    BY <1>1, <1>5, <2>1, <2>2, RevealedIsSaid DEF args, flat
<1> QED
  BY <1>7, <1>8 DEF built, args, value

LEMMA InitializeSays ==
  ASSUME NEW in \in Strategies, buildInitializeStrategyInstruction(in).ok
  PROVE  LET built == buildInitializeStrategyInstruction(in)
         IN  /\ Receive(built.value.data) = Some([f \in Fields(InitializeWrites) |-> in[f]])
             /\ built.value.accounts =
                  << <<Authority, "ws">>, <<deriveStrategyPda(in.strategyId), "w">>, <<System, "r">> >>
<1> DEFINE built == buildInitializeStrategyInstruction(in)
           body == Encode(in, InitializeChecks, InitializeWrites)
           accounts == << <<Authority, "ws">>, <<deriveStrategyPda(in.strategyId), "w">>,
                          <<System, "r">> >>
           flat == finish(in, InitializeWrites)
           data == withDiscriminator("initialize_strategy", flat)
<1>1. built = Instruction("initialize_strategy", body, accounts) /\ built.ok
  BY DEF buildInitializeStrategyInstruction
<1> HIDE DEF built, body, accounts
<1>2. /\ body.ok
      /\ Instruction("initialize_strategy", body, accounts) =
           Ok([data |-> withDiscriminator("initialize_strategy", body.value), accounts |-> accounts])
  BY <1>1, InstructionIs
<1>3. body = Ok(flat) /\ Passed(in, InitializeChecks)
  BY <1>2, EncodeIs DEF body
<1>4. body.value = flat
  BY <1>3 DEF Ok
<1>5. RecordFits(in, InitializeWrites)
  <2>1. IsRecordOf(in, InitializeWrites)
    BY InputAssumption
  <2>2. Typed(in, InitializeWrites)
    BY <2>1 DEF IsRecordOf, Typed
  <2> QED
    BY <1>3, <2>2, ChecksCover, CheckedFits
<1>6. Receive(data) = Some([f \in Fields(InitializeWrites) |-> in[f]])
  <2>1. Arguments["initialize_strategy"] = InitializeWrites /\ IsSequence(InitializeWrites)
    BY InitializeWritesAre DEF Arguments, InitializeWrites
  <2> QED
    BY <1>5, <2>1, ReceiveReads
<1> HIDE DEF flat
<1>7. built.value.data = data /\ built.value.accounts = accounts
  BY <1>1, <1>2, <1>4 DEF Ok
<1> QED
  BY <1>6, <1>7 DEF built, accounts

\* The client seals a reveal under the hash of the bytes the program will hash.
CommitIn(reveal, hash) ==
  [commitHash |-> hash.value, fixtureId |-> reveal.fixtureId, market |-> reveal.market,
   index |-> reveal.index, strategy |-> StrategyAddress, reveal |-> reveal]

LEMMA HashIs ==
  ASSUME NEW reveal \in Reveals, computeCommitHash(reveal).ok
  PROVE  computeCommitHash(reveal).value = Keccak(finish(reveal, RevealWrites))
<1> DEFINE body == encodeRevealArgs(reveal)
<1>1. CASE body.ok
  <2>1. body = Ok(finish(reveal, RevealWrites))
    BY <1>1, EncodeIs DEF encodeRevealArgs
  <2>2. body.value = finish(reveal, RevealWrites)
    BY <2>1 DEF Ok
  <2>3. computeCommitHash(reveal) = Ok(Keccak(body.value))
    BY <1>1 DEF computeCommitHash
  <2> QED
    BY <2>2, <2>3 DEF Ok
<1>2. CASE ~body.ok
  <2>1. computeCommitHash(reveal) = body
    BY <1>2 DEF computeCommitHash
  <2> QED
    BY <1>2, <2>1
<1> QED
  BY <1>1, <1>2

LEMMA CommitSays ==
  ASSUME NEW reveal \in Reveals, computeCommitHash(reveal).ok,
         buildCommitDecisionInstruction(CommitIn(reveal, computeCommitHash(reveal))).ok
  PROVE  LET in == CommitIn(reveal, computeCommitHash(reveal))
             built == buildCommitDecisionInstruction(in)
         IN  /\ Receive(built.value.data) = Some([f \in Fields(CommitWrites) |-> in[f]])
             /\ in.commitHash = Keccak(finish(reveal, RevealWrites))
             /\ built.value.accounts =
                  << <<Authority, "ws">>, <<StrategyAddress, "w">>,
                     <<deriveCommitPda(StrategyAddress, reveal.index), "w">>, <<System, "r">> >>
<1> DEFINE in == CommitIn(reveal, computeCommitHash(reveal))
           built == buildCommitDecisionInstruction(in)
           body == Encode(in, CommitChecks, CommitWrites)
           accounts == << <<Authority, "ws">>, <<StrategyAddress, "w">>,
                          <<deriveCommitPda(StrategyAddress, reveal.index), "w">>, <<System, "r">> >>
           flat == finish(in, CommitWrites)
           data == withDiscriminator("commit_decision", flat)
           sealing == Keccak(finish(reveal, RevealWrites))
<1>1. computeCommitHash(reveal).value = sealing
  BY HashIs
<1>2. /\ in.commitHash = sealing /\ in.fixtureId = reveal.fixtureId /\ in.market = reveal.market
      /\ in.index = reveal.index /\ in.strategy = StrategyAddress
  BY <1>1 DEF CommitIn
<1>3. IsSequence(sealing)
  <2> DEFINE x == finish(reveal, RevealWrites)
  <2>1. HashLen \in Nat
    BY Widths
  <2>2. sealing = [i \in 1..HashLen |-> sealing[i]]
    BY DEF Keccak
  <2> HIDE DEF sealing
  <2> QED
    BY <2>1, <2>2, LiteralIs
<1> HIDE DEF in, sealing
<1>4. built = Instruction("commit_decision", body, accounts) /\ built.ok
  BY <1>2 DEF buildCommitDecisionInstruction, in
<1> HIDE DEF built, body, accounts
<1>5. /\ body.ok
      /\ Instruction("commit_decision", body, accounts) =
           Ok([data |-> withDiscriminator("commit_decision", body.value), accounts |-> accounts])
  BY <1>4, InstructionIs
<1>6. body = Ok(flat) /\ Passed(in, CommitChecks)
  BY <1>5, EncodeIs DEF body
<1>7. body.value = flat
  BY <1>6 DEF Ok
<1>8. RecordFits(in, CommitWrites)
  <2>1. IsRecordOf(reveal, RevealWrites)
    BY InputAssumption
  <2>2. reveal.fixtureId \in Int /\ reveal.market \in Int
    BY <2>1, RevealWritesAre, Kinds DEF IsRecordOf, IsOf, IsItem
  <2>3. IsOf(sealing, "bytes") /\ IsOf(reveal.fixtureId, "i64") /\ IsOf(reveal.market, "u16")
    BY <1>3, <2>2, Kinds DEF IsOf, IsItem
  <2>4. Typed(in, CommitWrites)
    BY <1>2, <2>3, CommitWritesAre DEF Typed
  <2> QED
    BY <1>6, <2>4, ChecksCover, CheckedFits
<1>9. Receive(data) = Some([f \in Fields(CommitWrites) |-> in[f]])
  <2>1. Arguments["commit_decision"] = CommitWrites /\ IsSequence(CommitWrites)
    BY CommitWritesAre DEF Arguments, CommitWrites
  <2> QED
    BY <1>8, <2>1, ReceiveReads
<1> HIDE DEF flat
<1>10. built.value.data = data /\ built.value.accounts = accounts
  BY <1>4, <1>5, <1>7 DEF Ok
<1> QED
  BY <1>2, <1>9, <1>10 DEF built, accounts, in, sealing

(***************************************************************************)
(* Accounts: the size the client asks for is the size the program writes.  *)
(***************************************************************************)
LEMMA StrategyAre ==
  /\ IsSequence(Strategy) /\ Len(Strategy) = 14
  /\ Range(Strategy) =
       {<<"authority", "bytes">>, <<"strategyId", "u64">>, <<"txlineProgram", "bytes">>,
        <<"startingBankroll", "u64">>, <<"bankroll", "u64">>, <<"realizedPnl", "i64">>,
        <<"decisionsCount", "u64">>, <<"openCount", "u64">>, <<"settledCount", "u64">>,
        <<"wins", "u32">>, <<"losses", "u32">>, <<"pushes", "u32">>,
        <<"commitLogRoot", "bytes">>, <<"bump", "u8">>}
<1>1. DOMAIN Strategy = 1..14 /\ Strategy = [i \in 1..14 |-> Strategy[i]]
  BY DEF Strategy
<1>2. IsSequence(Strategy) /\ Len(Strategy) = 14
  BY <1>1 DEF IsSequence, Range
<1> QED
  BY <1>1, <1>2 DEF Strategy, Range

LEMMA DecisionCommitAre ==
  /\ IsSequence(DecisionCommit) /\ Len(DecisionCommit) = 13
  /\ Range(DecisionCommit) =
       {<<"strategy", "bytes">>, <<"index", "u64">>, <<"commitHash", "bytes">>,
        <<"fixtureId", "i64">>, <<"market", "u16">>, <<"commitSlot", "u64">>,
        <<"commitUnixTs", "i64">>, <<"status", "u8">>, <<"outcomeSide", "u8">>,
        <<"pnl", "i64">>, <<"settleSlot", "u64">>, <<"entryOddsProven", "bool">>,
        <<"bump", "u8">>}
<1>1. DOMAIN DecisionCommit = 1..13 /\ DecisionCommit = [i \in 1..13 |-> DecisionCommit[i]]
  BY DEF DecisionCommit
<1>2. IsSequence(DecisionCommit) /\ Len(DecisionCommit) = 13
  BY <1>1 DEF IsSequence, Range
<1> QED
  BY <1>1, <1>2 DEF DecisionCommit, Range

LEMMA DecisionReadsAre ==
  /\ IsSequence(DecisionReads) /\ Len(DecisionReads) = 13
  /\ Range(DecisionReads) =
       {<<"strategy", "bytes">>, <<"index", "u64">>, <<"commitHash", "bytes">>,
        <<"fixtureId", "i64">>, <<"market", "u16">>, <<"commitSlot", "u64">>,
        <<"commitUnixTs", "i64">>, <<"status", "u8">>, <<"outcomeSide", "u8">>,
        <<"pnl", "i64">>, <<"settleSlot", "u64">>, <<"entryOddsProven", "u8">>,
        <<"bump", "u8">>}
<1>1. DOMAIN DecisionReads = 1..13 /\ DecisionReads = [i \in 1..13 |-> DecisionReads[i]]
  BY DEF DecisionReads
<1>2. IsSequence(DecisionReads) /\ Len(DecisionReads) = 13
  BY <1>1 DEF IsSequence, Range
<1> QED
  BY <1>1, <1>2 DEF DecisionReads, Range

\* The bytes of a field whose size does not depend on its value.
Size(kind) ==
  IF kind \in IntegerKinds THEN Width[kind] ELSE IF kind = "bytes" THEN HashLen ELSE 1

LEMMA WriteSize ==
  ASSUME NEW kind \in IntegerKinds \cup {"bytes", "bool"}, NEW v, FieldFits(v, kind)
  PROVE  Len(Write(v, kind)) = Size(kind)
<1>1. Write(v, kind) = WriteItem(v, kind) /\ ItemFits(v, kind)
  BY Kinds DEF Write, FieldFits
<1>2. CASE kind \in IntegerKinds
  BY <1>1, <1>2, IntegerItem DEF Size
<1>3. CASE kind = "bytes"
  <2>1. WriteItem(v, kind) = v /\ Len(v) = HashLen /\ Size(kind) = HashLen
    BY <1>1, <1>3, Kinds DEF WriteItem, ItemFits, Size
  <2> QED
    BY <1>1, <2>1
<1>4. CASE kind = "bool"
  <2>1. WriteItem(v, kind) = BoolBytes(v) /\ Size(kind) = 1
    BY <1>4, Kinds DEF WriteItem, Size
  <2>2. Len(BoolBytes(v)) = 1
    BY DEF BoolBytes
  <2> QED
    BY <1>1, <2>1, <2>2
<1> QED
  BY <1>2, <1>3, <1>4

Sized(ends, flat, struct) ==
  /\ ends[0] = 0 /\ IsSequence(flat) /\ Len(flat) = ends[Len(struct)]
  /\ \A i \in 1..Len(struct) : ends[i] = ends[i - 1] + Size(struct[i][2])

LEMMA FinishSize ==
  ASSUME NEW args, NEW struct, IsSequence(struct), RecordFits(args, struct),
         \A p \in Range(struct) : p[2] \in IntegerKinds \cup {"bytes", "bool"}
  PROVE  \E ends : Sized(ends, finish(args, struct), struct)
<1> DEFINE n == Len(struct)
           ws == [i \in DOMAIN struct |-> Write(args[struct[i][1]], struct[i][2])]
           flat == finish(args, struct)
<1>1. /\ n \in Nat /\ DOMAIN struct = 1..n /\ flat = FlattenSeq(ws)
      /\ IsSequence(ws) /\ Len(ws) = n
      /\ \A i \in 1..n : /\ ws[i] = Write(args[struct[i][1]], struct[i][2])
                         /\ IsSequence(ws[i])
  BY FinishIs
<1> HIDE DEF ws, flat
<1>2. PICK ends : Ends(ends, ws) /\ IsSequence(flat) /\ Len(flat) = ends[n]
  <2>1. \A i \in 1..Len(ws) : IsSequence(ws[i])
    BY <1>1
  <2> QED
    BY <1>1, <2>1, FlatHolds
<1>3. ASSUME NEW i \in 1..n PROVE Len(ws[i]) = Size(struct[i][2])
  <2> DEFINE kind == struct[i][2]
             v == args[struct[i][1]]
  <2>1. struct[i] \in Range(struct)
    BY <1>1 DEF Range
  <2>2. kind \in IntegerKinds \cup {"bytes", "bool"} /\ FieldFits(v, kind)
    BY <2>1 DEF RecordFits
  <2>3. ws[i] = Write(v, kind)
    BY <1>1
  <2> HIDE DEF kind, v
  <2>4. Len(ws[i]) = Size(kind)
    BY <2>2, <2>3, WriteSize
  <2> QED
    BY <2>4 DEF kind
<1>4. ends[0] = 0 /\ \A i \in 1..n : ends[i] = ends[i - 1] + Size(struct[i][2])
  BY <1>1, <1>2, <1>3 DEF Ends
<1> QED
  BY <1>2, <1>4 DEF flat, Sized

LEMMA StrategySize ==
  ASSUME NEW a, RecordFits(a, Strategy)
  PROVE  IsSequence(finish(a, Strategy)) /\ Len(finish(a, Strategy)) = STRATEGY_BODY_SIZE
<1> DEFINE flat == finish(a, Strategy)
<1>1. \A p \in Range(Strategy) : p[2] \in IntegerKinds \cup {"bytes", "bool"}
  BY StrategyAre, Kinds
<1>2. PICK ends : /\ ends[0] = 0 /\ IsSequence(flat) /\ Len(flat) = ends[14]
                  /\ \A i \in 1..14 : ends[i] = ends[i - 1] + Size(Strategy[i][2])
  <2>1. PICK ends : Sized(ends, flat, Strategy)
    BY <1>1, StrategyAre, FinishSize
  <2>2. /\ ends[0] = 0 /\ IsSequence(flat) /\ Len(flat) = ends[14]
        /\ \A i \in 1..14 : ends[i] = ends[i - 1] + Size(Strategy[i][2])
    BY <2>1, StrategyAre DEF Sized
  <2> QED
    BY <2>2
<1> HIDE DEF flat
<1>3. /\ Size("bytes") = HashLen /\ Size("u64") = Bytes64 /\ Size("i64") = Bytes64
      /\ Size("u32") = Bytes32 /\ Size("u8") = 1
  BY Kinds DEF Size
<1>4. /\ ends[1] = 0 + HashLen /\ ends[2] = ends[1] + Bytes64
      /\ ends[3] = ends[2] + HashLen /\ ends[4] = ends[3] + Bytes64
      /\ ends[5] = ends[4] + Bytes64 /\ ends[6] = ends[5] + Bytes64
      /\ ends[7] = ends[6] + Bytes64 /\ ends[8] = ends[7] + Bytes64
      /\ ends[9] = ends[8] + Bytes64 /\ ends[10] = ends[9] + Bytes32
      /\ ends[11] = ends[10] + Bytes32 /\ ends[12] = ends[11] + Bytes32
      /\ ends[13] = ends[12] + HashLen /\ ends[14] = ends[13] + 1
  BY <1>2, <1>3 DEF Strategy
<1>5. HashLen \in Nat /\ Bytes32 \in Nat /\ Bytes64 \in Nat
  BY Widths
<1>6. ends[14] = STRATEGY_BODY_SIZE
  BY <1>4, <1>5 DEF STRATEGY_BODY_SIZE
<1> QED
  BY <1>2, <1>6 DEF flat

LEMMA DecisionSize ==
  ASSUME NEW a, RecordFits(a, DecisionReads)
  PROVE  /\ IsSequence(finish(a, DecisionReads))
         /\ Len(finish(a, DecisionReads)) = DECISION_COMMIT_BODY_SIZE
<1> DEFINE flat == finish(a, DecisionReads)
<1>1. \A p \in Range(DecisionReads) : p[2] \in IntegerKinds \cup {"bytes", "bool"}
  BY DecisionReadsAre, Kinds
<1>2. PICK ends : /\ ends[0] = 0 /\ IsSequence(flat) /\ Len(flat) = ends[13]
                  /\ \A i \in 1..13 : ends[i] = ends[i - 1] + Size(DecisionReads[i][2])
  <2>1. PICK ends : Sized(ends, flat, DecisionReads)
    BY <1>1, DecisionReadsAre, FinishSize
  <2>2. /\ ends[0] = 0 /\ IsSequence(flat) /\ Len(flat) = ends[13]
        /\ \A i \in 1..13 : ends[i] = ends[i - 1] + Size(DecisionReads[i][2])
    BY <2>1, DecisionReadsAre DEF Sized
  <2> QED
    BY <2>2
<1> HIDE DEF flat
<1>3. /\ Size("bytes") = HashLen /\ Size("u64") = Bytes64 /\ Size("i64") = Bytes64
      /\ Size("u16") = Bytes16 /\ Size("u8") = 1
  BY Kinds DEF Size
<1>4. /\ ends[1] = 0 + HashLen /\ ends[2] = ends[1] + Bytes64
      /\ ends[3] = ends[2] + HashLen /\ ends[4] = ends[3] + Bytes64
      /\ ends[5] = ends[4] + Bytes16 /\ ends[6] = ends[5] + Bytes64
      /\ ends[7] = ends[6] + Bytes64 /\ ends[8] = ends[7] + 1
      /\ ends[9] = ends[8] + 1 /\ ends[10] = ends[9] + Bytes64
      /\ ends[11] = ends[10] + Bytes64 /\ ends[12] = ends[11] + 1
      /\ ends[13] = ends[12] + 1
  BY <1>2, <1>3 DEF DecisionReads
<1>5. HashLen \in Nat /\ Bytes16 \in Nat /\ Bytes64 \in Nat
  BY Widths
<1>6. ends[13] = DECISION_COMMIT_BODY_SIZE
  BY <1>4, <1>5 DEF DECISION_COMMIT_BODY_SIZE
<1> QED
  BY <1>2, <1>6 DEF flat

(***************************************************************************)
(* What the client reads of an account.                                    *)
(***************************************************************************)
LEMMA AccountFits ==
  ASSUME NEW a, NEW struct, IsAccountOf(a, struct), Covers(struct, struct)
  PROVE  RecordFits(a, struct) /\ a = [f \in Fields(struct) |-> a[f]]
<1>1. Typed(a, struct) /\ Passed(a, struct) /\ a = [f \in Fields(struct) |-> a[f]]
  BY DEF IsAccountOf, IsRecordOf, Typed, Passed
<1>2. RecordFits(a, struct)
  BY <1>1, CheckedFits
<1> QED
  BY <1>1, <1>2

\* An account of the size that is asked for, and of one that is not the one asked for.
LEMMA DecodedIs ==
  ASSUME NEW name, NEW flat, IsSequence(flat), NEW size, Len(flat) = size, NEW reads
  PROVE  Decoded(withDiscriminator(name, flat), name, size, reads) =
           Ok(Some(Named(withDiscriminator(name, flat), reads)))
<1> DEFINE data == withDiscriminator(name, flat)
<1>1. data[1] = name /\ Len(data) = 1 + Len(flat)
  BY Tagged
<1> HIDE DEF data
<1>2. Len(flat) \in Nat
  BY DEF IsSequence
<1>3. ~(Len(data) < 1 + size) /\ Len(data) >= 1 + size
  BY <1>1, <1>2
<1>4. checkAccount(data, name, size) = None
  BY <1>1, <1>3 DEF checkAccount
<1>5. Decoded(data, name, size, reads) = Ok(Some(Named(data, reads)))
  BY <1>4 DEF Decoded
<1> QED
  BY <1>5 DEF data

LEMMA DecodedIsNot ==
  ASSUME NEW other, NEW name, name # other, NEW flat, IsSequence(flat), NEW size \in Nat, NEW reads
  PROVE  ~Decoded(withDiscriminator(other, flat), name, size, reads).ok
<1> DEFINE data == withDiscriminator(other, flat)
           bad == checkAccount(data, name, size)
<1>1. data[1] = other /\ Len(data) = 1 + Len(flat)
  BY Tagged
<1> HIDE DEF data
<1>2. Len(flat) \in Nat
  BY DEF IsSequence
<1>3. Len(data) < 1 + size \/ (~(Len(data) < 1 + size) /\ Len(data) >= 1 + size)
  BY <1>1, <1>2
<1>4. bad = <<"too-short">> \/ bad = <<"wrong-discriminator">>
  BY <1>1, <1>3 DEF checkAccount, Some
<1> HIDE DEF bad
<1>5. bad # None
  BY <1>4 DEF None
<1>6. Decoded(data, name, size, reads) = Error(bad[1])
  BY <1>5 DEF Decoded, bad
<1> QED
  BY <1>6 DEF Error, data

LEMMA SizesAre == STRATEGY_BODY_SIZE \in Nat /\ DECISION_COMMIT_BODY_SIZE \in Nat
BY Widths DEF STRATEGY_BODY_SIZE, DECISION_COMMIT_BODY_SIZE

LEMMA LedgerFits ==
  ASSUME NEW a \in Ledgers
  PROVE  RecordFits(a, Strategy) /\ a = [f \in Fields(Strategy) |-> a[f]]
<1>1. IsAccountOf(a, Strategy)
  BY InputAssumption
<1>2. Covers(Strategy, Strategy)
  BY StrategyAre, Kinds DEF Covers, FieldKinds, ItemKinds
<1> QED
  BY <1>1, <1>2, AccountFits

LEMMA CommitFits ==
  ASSUME NEW a \in Commits
  PROVE  RecordFits(a, DecisionCommit) /\ a = [f \in Fields(DecisionCommit) |-> a[f]]
<1>1. IsAccountOf(a, DecisionCommit)
  BY InputAssumption
<1>2. Covers(DecisionCommit, DecisionCommit)
  BY DecisionCommitAre, Kinds DEF Covers, FieldKinds, ItemKinds, Unchecked
<1> QED
  BY <1>1, <1>2, AccountFits

LEMMA StrategyIsRead ==
  ASSUME NEW a \in Ledgers
  PROVE  decodeStrategyAccount(Stored("Strategy", a)) = Ok(Some(a))
<1> DEFINE flat == finish(a, Strategy)
           data == withDiscriminator("Strategy", flat)
<1>1. RecordFits(a, Strategy) /\ a = [f \in Fields(Strategy) |-> a[f]]
  BY LedgerFits
<1>2. IsSequence(flat) /\ Len(flat) = STRATEGY_BODY_SIZE
  BY <1>1, StrategySize
<1>3. StrategyReads = Strategy
  BY DEF StrategyReads, Strategy
<1>4. Named(data, Strategy) = a
  BY <1>1, StrategyAre, StructReads
<1>5. Decoded(data, "Strategy", STRATEGY_BODY_SIZE, Strategy) = Ok(Some(Named(data, Strategy)))
  BY <1>2, DecodedIs
<1>6. Stored("Strategy", a) = data
  BY DEF Stored
<1> HIDE DEF data
<1> QED
  BY <1>3, <1>4, <1>5, <1>6 DEF decodeStrategyAccount

LEMMA DecisionIsNotStrategy ==
  ASSUME NEW a \in Commits
  PROVE  /\ ~decodeStrategyAccount(Stored("DecisionCommit", a)).ok
         /\ IsSequence(finish(a, DecisionCommit))
<1> DEFINE flat == finish(a, DecisionCommit)
<1>1. RecordFits(a, DecisionCommit)
  BY CommitFits
<1>2. \A p \in Range(DecisionCommit) : p[2] \in IntegerKinds \cup {"bytes", "bool"}
  BY DecisionCommitAre, Kinds
<1>3. IsSequence(flat)
  BY <1>1, <1>2, DecisionCommitAre, FinishSize DEF Sized
<1>4. Stored("DecisionCommit", a) = withDiscriminator("DecisionCommit", flat)
  BY DEF Stored
<1> HIDE DEF flat
<1>5. ~decodeStrategyAccount(withDiscriminator("DecisionCommit", flat)).ok
  BY <1>3, SizesAre, DecodedIsNot DEF decodeStrategyAccount
<1> QED
  BY <1>3, <1>4, <1>5 DEF flat

LEMMA StrategyIsNotDecision ==
  ASSUME NEW a \in Ledgers
  PROVE  ~decodeDecisionCommitAccount(Stored("Strategy", a)).ok
<1> DEFINE flat == finish(a, Strategy)
           d == Decoded(withDiscriminator("Strategy", flat), "DecisionCommit",
                        DECISION_COMMIT_BODY_SIZE, DecisionReads)
<1>1. IsSequence(flat)
  BY LedgerFits, StrategySize
<1>2. Stored("Strategy", a) = withDiscriminator("Strategy", flat)
  BY DEF Stored
<1> HIDE DEF flat
<1>3. ~d.ok
  BY <1>1, SizesAre, DecodedIsNot
<1>4. decodeDecisionCommitAccount(withDiscriminator("Strategy", flat)) = d
  BY <1>3 DEF decodeDecisionCommitAccount
<1> QED
  BY <1>2, <1>3, <1>4

\* A flag is written as the byte the client reads it from.
FlagByte(a) == IF a["entryOddsProven"] THEN 1 ELSE 0
AsRead(a) ==
  [f \in Fields(DecisionCommit) |-> IF f = "entryOddsProven" THEN FlagByte(a) ELSE a[f]]

LEMMA FlagIsByte ==
  ASSUME NEW n \in {0, 1}
  PROVE  LeBytes(n, "u8") = <<n>> /\ InRange(n, "u8")
<1>1. /\ B \in Nat /\ B > 2 /\ 0 \in 0..Bytes64 /\ 1 \in 1..Bytes64 /\ "u8" \in IntegerKinds
  BY Widths, Kinds
<1>2. Capacity[0] = 1 /\ Capacity[1] = B * Capacity[1 - 1]
  BY <1>1, CapacityIs
<1>3. Capacity[1] = B
  BY <1>1, <1>2
<1>4. InRange(n, "u8")
  BY <1>1, <1>3, Kinds DEF InRange, Lowest, Beyond
<1>5. LeBytes(n, "u8") = [i \in 1..1 |-> (n \div Capacity[i - 1]) % B]
  BY Kinds DEF LeBytes
<1>6. (n \div Capacity[1 - 1]) % B = n
  <2>1. n \div 1 = n /\ n % B = n
    BY <1>1
  <2> QED
    BY <1>2, <2>1
<1>7. LeBytes(n, "u8") = [i \in 1..1 |-> n]
  BY <1>5, <1>6
<1> QED
  BY <1>4, <1>7

LEMMA DecisionFieldsAre ==
  /\ Fields(DecisionReads) = Fields(DecisionCommit)
  /\ Fields(DecisionCommit) =
       {"strategy", "index", "commitHash", "fixtureId", "market", "commitSlot", "commitUnixTs",
        "status", "outcomeSide", "pnl", "settleSlot", "entryOddsProven", "bump"}
BY DecisionCommitAre, DecisionReadsAre DEF Fields

LEMMA AsReadFits ==
  ASSUME NEW a \in Commits
  PROVE  /\ a["entryOddsProven"] \in BOOLEAN /\ FlagByte(a) \in {0, 1}
         /\ RecordFits(AsRead(a), DecisionReads)
         /\ AsRead(a) = [f \in Fields(DecisionReads) |-> AsRead(a)[f]]
<1> DEFINE b == AsRead(a)
           e == "entryOddsProven"
<1>1. RecordFits(a, DecisionCommit)
  BY CommitFits
<1>2. a[e] \in BOOLEAN
  <2>1. <<e, "bool">> \in Range(DecisionCommit)
    BY DecisionCommitAre
  <2>2. FieldFits(a[e], "bool")
    BY <1>1, <2>1 DEF RecordFits
  <2> QED
    BY <2>2, Kinds DEF FieldFits, ItemFits, IsItem
<1>3. FlagByte(a) \in {0, 1}
  BY DEF FlagByte
<1>4. b[e] = FlagByte(a) /\ \A f \in Fields(DecisionCommit) \ {e} : b[f] = a[f]
  BY DecisionFieldsAre DEF AsRead
<1>5. b = [f \in Fields(DecisionReads) |-> b[f]]
  BY DecisionFieldsAre DEF AsRead
<1> HIDE DEF b
<1>6. FieldFits(b[e], "u8") /\ "u8" \in FieldKinds
  <2> DEFINE n == FlagByte(a)
  <2>1. n \in {0, 1} /\ InRange(n, "u8")
    BY <1>3, FlagIsByte
  <2> HIDE DEF n
  <2>2. IsItem(n, "u8")
    BY <2>1, Kinds DEF IsItem
  <2>3. FieldFits(n, "u8") /\ "u8" \in FieldKinds
    BY <2>1, <2>2, Kinds DEF FieldFits, ItemFits, FieldKinds, ItemKinds
  <2> QED
    BY <1>4, <2>3 DEF n
<1>7. ASSUME NEW p \in Range(DecisionReads) PROVE p[2] \in FieldKinds /\ FieldFits(b[p[1]], p[2])
  <2>1. CASE p = <<e, "u8">>
    BY <1>6, <2>1
  <2>2. CASE p # <<e, "u8">>
    <3>1. p \in Range(DecisionCommit) /\ p[1] \in Fields(DecisionCommit) \ {e}
      BY <2>2, DecisionCommitAre, DecisionReadsAre, DecisionFieldsAre
    <3>2. p[2] \in FieldKinds /\ FieldFits(a[p[1]], p[2])
      BY <1>1, <3>1 DEF RecordFits
    <3> QED
      BY <1>4, <3>1, <3>2
  <2> QED
    BY <2>1, <2>2
<1>8. RecordFits(b, DecisionReads)
  BY <1>7 DEF RecordFits
<1> QED
  BY <1>2, <1>3, <1>5, <1>8 DEF b

LEMMA SameBytes ==
  ASSUME NEW a \in Commits
  PROVE  finish(a, DecisionCommit) = finish(AsRead(a), DecisionReads)
<1> DEFINE b == AsRead(a)
           e == "entryOddsProven"
           n == FlagByte(a)
<1>1. n \in {0, 1} /\ LeBytes(n, "u8") = <<n>>
  BY AsReadFits, FlagIsByte
<1>2. b[e] = n /\ \A f \in Fields(DecisionCommit) \ {e} : b[f] = a[f]
  BY DecisionFieldsAre DEF AsRead
<1>3. BoolBytes(a[e]) = <<n>>
  BY DEF BoolBytes, FlagByte
<1> HIDE DEF b, n
<1>4. Write(a[e], "bool") = BoolBytes(a[e]) /\ Write(b[e], "u8") = LeBytes(b[e], "u8")
  BY Kinds DEF Write, WriteItem
<1>5. Write(a[e], "bool") = Write(b[e], "u8")
  BY <1>1, <1>2, <1>3, <1>4
<1>6. DOMAIN DecisionCommit = 1..13 /\ DOMAIN DecisionReads = 1..13
  BY DEF DecisionCommit, DecisionReads
<1>7. ASSUME NEW i \in 1..13
      PROVE  Write(a[DecisionCommit[i][1]], DecisionCommit[i][2]) =
             Write(b[DecisionReads[i][1]], DecisionReads[i][2])
  <2>1. CASE i = 12
    <3>1. /\ DecisionCommit[i][1] = e /\ DecisionCommit[i][2] = "bool"
          /\ DecisionReads[i][1] = e /\ DecisionReads[i][2] = "u8"
      BY <2>1 DEF DecisionCommit, DecisionReads
    <3> QED
      BY <1>5, <3>1
  <2>2. CASE i # 12
    <3>1. /\ DecisionReads[i] = DecisionCommit[i]
          /\ DecisionCommit[i][1] \in Fields(DecisionCommit) \ {e}
      BY <2>2, DecisionFieldsAre DEF DecisionCommit, DecisionReads
    <3> QED
      BY <1>2, <3>1
  <2> QED
    BY <2>1, <2>2
<1>8. [i \in 1..13 |-> Write(a[DecisionCommit[i][1]], DecisionCommit[i][2])] =
      [i \in 1..13 |-> Write(b[DecisionReads[i][1]], DecisionReads[i][2])]
  BY <1>7
<1> QED
  BY <1>6, <1>8 DEF finish, b

LEMMA DecisionIsRead ==
  ASSUME NEW a \in Commits
  PROVE  decodeDecisionCommitAccount(Stored("DecisionCommit", a)) = Ok(Some(a))
<1> DEFINE b == AsRead(a)
           flat == finish(b, DecisionReads)
           data == withDiscriminator("DecisionCommit", flat)
           d == Decoded(data, "DecisionCommit", DECISION_COMMIT_BODY_SIZE, DecisionReads)
<1>1. /\ a["entryOddsProven"] \in BOOLEAN
      /\ RecordFits(b, DecisionReads) /\ b = [f \in Fields(DecisionReads) |-> b[f]]
  BY AsReadFits
<1>2. a = [f \in Fields(DecisionCommit) |-> a[f]]
  BY CommitFits
<1>3. /\ DOMAIN b = Fields(DecisionCommit) /\ b["entryOddsProven"] = FlagByte(a)
      /\ \A f \in Fields(DecisionCommit) \ {"entryOddsProven"} : b[f] = a[f]
  BY DecisionFieldsAre DEF AsRead
<1> HIDE DEF b
<1>4. IsSequence(flat) /\ Len(flat) = DECISION_COMMIT_BODY_SIZE
  BY <1>1, DecisionSize
<1>5. Named(data, DecisionReads) = b
  BY <1>1, DecisionReadsAre, StructReads
<1>6. d = Ok(Some(Named(data, DecisionReads)))
  BY <1>4, DecodedIs
<1>7. Stored("DecisionCommit", a) = data
  BY SameBytes DEF Stored, b
<1> HIDE DEF data, d
<1>8. d = Ok(Some(b))
  BY <1>5, <1>6
<1>9. d.ok /\ d.value[1] = b
  BY <1>8 DEF Ok, Some
<1>10. decodeDecisionCommitAccount(data) = Ok(Some([b EXCEPT !.entryOddsProven = @ = 1]))
  BY <1>9 DEF decodeDecisionCommitAccount, d
<1>11. [b EXCEPT !.entryOddsProven = @ = 1] = a
  <2>1. (FlagByte(a) = 1) = a["entryOddsProven"]
    BY <1>1 DEF FlagByte
  <2> DEFINE c == [b EXCEPT !.entryOddsProven = @ = 1]
  <2>2. DOMAIN c = Fields(DecisionCommit) /\ c = [f \in Fields(DecisionCommit) |-> c[f]]
    BY <1>3
  <2>3. ASSUME NEW f \in Fields(DecisionCommit) PROVE c[f] = a[f]
    <3>1. CASE f = "entryOddsProven"
      BY <1>3, <2>1, <3>1
    <3>2. CASE f # "entryOddsProven"
      BY <1>3, <3>2
    <3> QED
      BY <3>1, <3>2
  <2> HIDE DEF c
  <2>4. c = a
    BY <1>2, <2>2, <2>3
  <2> QED
    BY <2>4 DEF c
<1> QED
  BY <1>7, <1>10, <1>11

(***************************************************************************)
(* The inductive invariant: every call under way is what its operation     *)
(* built from the inputs and from the decision on the chain, and what has  *)
(* landed is what the program reads of it.                                 *)
(***************************************************************************)
Called(op, meant, built) == [op |-> op, meant |-> meant, built |-> built]
Sealing(reveal) == [strategy |-> StrategyAddress, reveal |-> reveal,
                    hash |-> Keccak(finish(reveal, RevealWrites))]
VoidIn(reason, reveal) == WithReveal([reason |-> reason], reveal)
StrategyAnswer(held) ==
  IF held = <<>> THEN Ok(None) ELSE decodeStrategyAccount(Stored(held[1], held[2]))
DecisionAnswer(held) ==
  IF held = <<>> THEN Ok(None) ELSE decodeDecisionCommitAccount(Stored(held[1], held[2]))

InitializeCalled ==
  \E in \in Strategies :
    call = Called("initialize_strategy", in, buildInitializeStrategyInstruction(in))
CommitCalled ==
  \E reveal \in Reveals :
    LET hash == computeCommitHash(reveal)
        in == CommitIn(reveal, hash)
    IN  hash.ok /\ call = Called("commit_decision", in, buildCommitDecisionInstruction(in))
CommitRefused ==
  \E reveal \in Reveals :
    /\ ~computeCommitHash(reveal).ok
    /\ call = Called("commit_decision", reveal, computeCommitHash(reveal))
SettleCalled ==
  /\ sealed # None
  /\ \E v \in Scores : call = Called("settle_decision", v, SettleBuilt(v, sealed[1].reveal))
ProveOddsCalled ==
  /\ sealed # None
  /\ \E v \in Quotes : call = Called("prove_entry_odds", v, ProveOddsBuilt(v, sealed[1].reveal))
VoidCalled ==
  /\ sealed # None
  /\ \E reason \in Reasons : LET in == VoidIn(reason, sealed[1].reveal)
                            IN  call = Called("void_decision", in, VoidBuilt(in))
StrategyAsked == \E held \in Accounts : call = Called("readStrategy", held, StrategyAnswer(held))
DecisionAsked == \E held \in Accounts : call = Called("readDecision", held, DecisionAnswer(held))

SealedWell == sealed # None => \E reveal \in Reveals : sealed = Some(Sealing(reveal))
CallWell ==
  \/ call = Idle \/ InitializeCalled \/ CommitCalled \/ CommitRefused \/ SettleCalled
  \/ ProveOddsCalled \/ VoidCalled \/ StrategyAsked \/ DecisionAsked
LandedWell ==
  landed # None =>
    /\ call.op \in DOMAIN Arguments /\ call.built.ok
    /\ landed = Some(Receive(call.built.value.data))
    /\ call.op = "commit_decision" /\ landed[1] # None =>
         sealed = Some([strategy |-> call.built.value.accounts[2][1],
                        reveal |-> call.meant.reveal, hash |-> landed[1][1].commitHash])
WireInv == SealedWell /\ CallWell /\ LandedWell

LEMMA InitiallyWell == Init => WireInv
BY DEF Init, WireInv, SealedWell, CallWell, LandedWell

\* A call that begins builds what the invariant says and disturbs nothing else.
LEMMA CallBegins ==
  ASSUME WireInv, NEW op, NEW meant, NEW built, Call(op, meant, built)
  PROVE  /\ call' = Called(op, meant, built) /\ sealed' = sealed /\ SealedWell'
         /\ landed' = None
<1>1. call = Idle /\ sealed' = sealed /\ landed' = landed
  BY DEF Call
<1>2. call' = Called(op, meant, built)
  BY DEF Call, Called
<1>3. SealedWell'
  BY <1>1 DEF WireInv, SealedWell
<1>4. landed = None
  <2>1. "idle" \notin DOMAIN Arguments
    BY DEF Arguments
  <2>2. call.op = "idle"
    BY <1>1 DEF Idle
  <2> QED
    BY <2>1, <2>2 DEF WireInv, LandedWell
<1> QED
  BY <1>1, <1>2, <1>3, <1>4

LEMMA CommitCallIsWell ==
  ASSUME WireInv, commit
  PROVE  (CommitCalled \/ CommitRefused)' /\ SealedWell' /\ landed' = None
<1>1. PICK reveal \in Reveals :
        LET hash == computeCommitHash(reveal)
        IN  /\ sealed = None
            /\ IF hash.ok
               THEN LET in == [commitHash |-> hash.value, fixtureId |-> reveal.fixtureId,
                               market |-> reveal.market, index |-> reveal.index,
                               strategy |-> StrategyAddress, reveal |-> reveal]
                    IN  Call("commit_decision", in, buildCommitDecisionInstruction(in))
               ELSE Call("commit_decision", reveal, hash)
  BY DEF commit
<1> DEFINE hash == computeCommitHash(reveal)
           in == CommitIn(reveal, hash)
<1>2. CASE hash.ok
  <2>1. Call("commit_decision", in, buildCommitDecisionInstruction(in))
    BY <1>1, <1>2 DEF CommitIn
  <2>2. call' = Called("commit_decision", in, buildCommitDecisionInstruction(in)) /\ SealedWell'
        /\ landed' = None
    BY <2>1, CallBegins
  <2>3. CommitCalled'
    BY <1>2, <2>2 DEF CommitCalled
  <2> QED
    BY <2>2, <2>3
<1>3. CASE ~hash.ok
  <2>1. Call("commit_decision", reveal, hash)
    BY <1>1, <1>3
  <2>2. call' = Called("commit_decision", reveal, hash) /\ SealedWell' /\ landed' = None
    BY <2>1, CallBegins
  <2>3. CommitRefused'
    BY <1>3, <2>2 DEF CommitRefused
  <2> QED
    BY <2>2, <2>3
<1> QED
  BY <1>2, <1>3

LEMMA CallsAreWell ==
  ASSUME WireInv,
         \/ initializeStrategy \/ commit \/ settle \/ proveEntryOdds \/ voidDecision
         \/ readStrategy \/ readDecision
  PROVE  WireInv'
<1>1. SealedWell' /\ CallWell' /\ landed' = None
  <2>1. CASE initializeStrategy
    <3>1. PICK in \in Strategies :
            Call("initialize_strategy", in, buildInitializeStrategyInstruction(in))
      BY <2>1 DEF initializeStrategy
    <3>2. InitializeCalled' /\ SealedWell' /\ landed' = None
      BY <3>1, CallBegins DEF InitializeCalled
    <3> QED
      BY <3>2 DEF CallWell
  <2>2. CASE commit
    BY <2>2, CommitCallIsWell DEF CallWell
  <2>3. CASE settle
    <3>1. PICK v \in Scores : /\ sealed # None
                              /\ Call("settle_decision", v, SettleBuilt(v, sealed[1].reveal))
      BY <2>3 DEF settle, SettleBuilt
    <3>2. /\ call' = Called("settle_decision", v, SettleBuilt(v, sealed[1].reveal))
          /\ sealed' = sealed /\ SealedWell' /\ landed' = None
      BY <3>1, CallBegins
    <3>3. SettleCalled'
      BY <3>1, <3>2 DEF SettleCalled
    <3> QED
      BY <3>2, <3>3 DEF CallWell
  <2>4. CASE proveEntryOdds
    <3>1. PICK v \in Quotes : /\ sealed # None
                              /\ Call("prove_entry_odds", v, ProveOddsBuilt(v, sealed[1].reveal))
      BY <2>4 DEF proveEntryOdds, ProveOddsBuilt
    <3>2. /\ call' = Called("prove_entry_odds", v, ProveOddsBuilt(v, sealed[1].reveal))
          /\ sealed' = sealed /\ SealedWell' /\ landed' = None
      BY <3>1, CallBegins
    <3>3. ProveOddsCalled'
      BY <3>1, <3>2 DEF ProveOddsCalled
    <3> QED
      BY <3>2, <3>3 DEF CallWell
  <2>5. CASE voidDecision
    <3>1. PICK reason \in Reasons :
            /\ sealed # None
            /\ Call("void_decision", VoidIn(reason, sealed[1].reveal),
                    VoidBuilt(VoidIn(reason, sealed[1].reveal)))
      BY <2>5 DEF voidDecision, VoidIn, VoidBuilt
    <3>2. /\ call' = Called("void_decision", VoidIn(reason, sealed[1].reveal),
                            VoidBuilt(VoidIn(reason, sealed[1].reveal)))
          /\ sealed' = sealed /\ SealedWell' /\ landed' = None
      BY <3>1, CallBegins
    <3>3. VoidCalled'
      BY <3>1, <3>2 DEF VoidCalled
    <3> QED
      BY <3>2, <3>3 DEF CallWell
  <2>6. CASE readStrategy
    <3>1. PICK held \in Accounts : Call("readStrategy", held, StrategyAnswer(held))
      BY <2>6 DEF readStrategy, StrategyAnswer
    <3>2. call' = Called("readStrategy", held, StrategyAnswer(held)) /\ SealedWell' /\ landed' = None
      BY <3>1, CallBegins
    <3>3. StrategyAsked'
      BY <3>2 DEF StrategyAsked, Accounts
    <3> QED
      BY <3>2, <3>3 DEF CallWell
  <2>7. CASE readDecision
    <3>1. PICK held \in Accounts : Call("readDecision", held, DecisionAnswer(held))
      BY <2>7 DEF readDecision, DecisionAnswer
    <3>2. call' = Called("readDecision", held, DecisionAnswer(held)) /\ SealedWell' /\ landed' = None
      BY <3>1, CallBegins
    <3>3. DecisionAsked'
      BY <3>2 DEF DecisionAsked, Accounts
    <3> QED
      BY <3>2, <3>3 DEF CallWell
  <2> QED
    BY <2>1, <2>2, <2>3, <2>4, <2>5, <2>6, <2>7
<1>2. LandedWell'
  BY <1>1 DEF LandedWell
<1> QED
  BY <1>1, <1>2 DEF WireInv

\* What the program makes of a commit: the hash the reveal is sealed under.
LEMMA CommitLands ==
  ASSUME CallWell, call.op = "commit_decision", call.built.ok
  PROVE  \E reveal \in Reveals :
           /\ computeCommitHash(reveal).ok
           /\ call = Called("commit_decision", CommitIn(reveal, computeCommitHash(reveal)),
                            buildCommitDecisionInstruction(CommitIn(reveal, computeCommitHash(reveal))))
           /\ CommitCalled
<1>1. /\ call.op # "idle" /\ call.op # "initialize_strategy" /\ call.op # "settle_decision"
      /\ call.op # "prove_entry_odds" /\ call.op # "void_decision"
      /\ call.op # "readStrategy" /\ call.op # "readDecision"
  OBVIOUS
<1>2. CommitCalled
  <2>1. \A op, meant, built : Called(op, meant, built).op = op /\ Called(op, meant, built).built = built
    BY DEF Called
  <2>2. Idle.op = "idle"
    BY DEF Idle
  <2>3. ~CommitRefused
    BY <2>1 DEF CommitRefused
  <2> QED
    BY <1>1, <2>1, <2>2, <2>3 DEF CallWell, InitializeCalled, SettleCalled, ProveOddsCalled,
                                  VoidCalled, StrategyAsked, DecisionAsked
<1> QED
  BY <1>2 DEF CommitCalled

\* What landed of a commit that was built from a reveal.
LEMMA CommitReceived ==
  ASSUME NEW reveal \in Reveals, computeCommitHash(reveal).ok,
         NEW c, c = Called("commit_decision", CommitIn(reveal, computeCommitHash(reveal)),
                   buildCommitDecisionInstruction(CommitIn(reveal, computeCommitHash(reveal)))),
         c.built.ok
  PROVE  \E a : /\ Receive(c.built.value.data) = Some(a)
                /\ a = [f \in Fields(CommitWrites) |-> c.meant[f]]
                /\ c.meant.reveal = reveal
                /\ [strategy |-> c.built.value.accounts[2][1], reveal |-> reveal,
                    hash |-> a.commitHash] = Sealing(reveal)
<1> DEFINE in == CommitIn(reveal, computeCommitHash(reveal))
           built == buildCommitDecisionInstruction(in)
           a == [f \in Fields(CommitWrites) |-> in[f]]
           sealing == Keccak(finish(reveal, RevealWrites))
           accounts == << <<Authority, "ws">>, <<StrategyAddress, "w">>,
                          <<deriveCommitPda(StrategyAddress, reveal.index), "w">>, <<System, "r">> >>
<1>1. c.meant = in /\ c.built = built
  BY DEF Called
<1>2. /\ Receive(built.value.data) = Some(a) /\ in.commitHash = sealing
      /\ built.value.accounts[2][1] = StrategyAddress
  <2>1. built.ok
    BY <1>1
  <2>2. /\ Receive(built.value.data) = Some(a) /\ in.commitHash = sealing
        /\ built.value.accounts = accounts
    BY <2>1, CommitSays
  <2>3. accounts[2][1] = StrategyAddress
    OBVIOUS
  <2> HIDE DEF built, a, in, sealing, accounts
  <2> QED
    BY <2>2, <2>3
<1>3. in.reveal = reveal
  BY DEF CommitIn
<1> HIDE DEF in, built, sealing
<1>4. a.commitHash = sealing
  BY <1>2, OtherFields
<1> HIDE DEF a
<1>5. [strategy |-> built.value.accounts[2][1], reveal |-> reveal,
       hash |-> a.commitHash] = Sealing(reveal)
  BY <1>2, <1>4 DEF Sealing, sealing
<1> QED
  BY <1>1, <1>2, <1>3, <1>5 DEF a

LEMMA LandIsWell ==
  ASSUME WireInv, Land
  PROVE  WireInv'
<1> DEFINE got == Receive(call.built.value.data)
<1>1. /\ call.op \in DOMAIN Arguments /\ call.built.ok /\ landed' = Some(got) /\ call' = call
      /\ sealed' = IF call.op = "commit_decision" /\ landed'[1] # None
                   THEN Some([strategy |-> call.built.value.accounts[2][1],
                              reveal |-> call.meant.reveal, hash |-> landed'[1][1].commitHash])
                   ELSE sealed
  BY DEF Land
<1> HIDE DEF got
<1>2. landed'[1] = got
  BY <1>1 DEF Some
<1>3. CASE call.op = "commit_decision"
  <2>1. PICK reveal \in Reveals :
          /\ computeCommitHash(reveal).ok
          /\ call = Called("commit_decision", CommitIn(reveal, computeCommitHash(reveal)),
                           buildCommitDecisionInstruction(CommitIn(reveal, computeCommitHash(reveal))))
          /\ CommitCalled
    BY <1>1, <1>3, CommitLands DEF WireInv
  <2>2. PICK a : /\ got = Some(a) /\ call.meant.reveal = reveal
                 /\ [strategy |-> call.built.value.accounts[2][1], reveal |-> reveal,
                     hash |-> a.commitHash] = Sealing(reveal)
    BY <1>1, <2>1, CommitReceived DEF got
  <2>3. got # None /\ got[1] = a
    BY <2>2 DEF Some, None
  <2>4. sealed' = Some(Sealing(reveal))
    BY <1>1, <1>2, <1>3, <2>2, <2>3
  <2>5. SealedWell'
    BY <2>4 DEF SealedWell
  <2>6. CommitCalled'
    BY <1>1, <2>1 DEF CommitCalled
  <2>7. LandedWell'
    BY <1>1, <1>2, <2>2, <2>3, <2>4 DEF LandedWell, got
  <2> QED
    BY <2>5, <2>6, <2>7 DEF WireInv, CallWell
<1>4. CASE call.op # "commit_decision"
  <2>1. sealed' = sealed
    BY <1>1, <1>4
  <2>2. SealedWell'
    BY <2>1 DEF WireInv, SealedWell
  <2>3. CallWell'
    BY <1>1, <2>1 DEF WireInv, CallWell, InitializeCalled, CommitCalled, CommitRefused,
                      SettleCalled, ProveOddsCalled, VoidCalled, StrategyAsked, DecisionAsked,
                      Accounts
  <2>4. LandedWell'
    BY <1>1, <1>4 DEF LandedWell, got
  <2> QED
    BY <2>2, <2>3, <2>4 DEF WireInv
<1> QED
  BY <1>3, <1>4

LEMMA StepsAreWell ==
  ASSUME WireInv, [Next]_vars
  PROVE  WireInv'
<1>1. CASE Land
  BY <1>1, LandIsWell
<1>2. CASE Return
  <2>1. call' = Idle /\ landed' = None /\ sealed' = sealed
    BY <1>2 DEF Return
  <2> QED
    BY <2>1 DEF WireInv, SealedWell, CallWell, LandedWell
<1>3. CASE UNCHANGED vars
  BY <1>3 DEF vars, WireInv, SealedWell, CallWell, LandedWell, InitializeCalled, CommitCalled,
              CommitRefused, SettleCalled, ProveOddsCalled, VoidCalled, StrategyAsked,
              DecisionAsked, Accounts
<1>4. CASE \/ initializeStrategy \/ commit \/ settle \/ proveEntryOdds \/ voidDecision
           \/ readStrategy \/ readDecision
  BY <1>4, CallsAreWell
<1> QED
  BY <1>1, <1>2, <1>3, <1>4 DEF Next

(***************************************************************************)
(* What the properties say of each instruction that has landed.            *)
(***************************************************************************)
LEMMA PlainIs ==
  ASSUME NEW v, NEW f, f \notin Listed
  PROVE  Plain(v, f) = v[f]
BY DEF Plain

\* The decision that a reveal after a commit speaks of.
LEMMA SealedIs ==
  ASSUME SealedWell, sealed # None
  PROVE  \E reveal \in Reveals :
           /\ sealed[1].reveal = reveal /\ sealed[1].strategy = StrategyAddress
           /\ \A a : (\A f \in Fields(RevealWrites) : a[f] = reveal[f]) =>
                       Keccak(finish(a, RevealArgs)) = sealed[1].hash
<1>1. PICK reveal \in Reveals : sealed = Some(Sealing(reveal))
  BY DEF SealedWell
<1>2. sealed[1] = Sealing(reveal)
  BY <1>1 DEF Some
<1>3. /\ sealed[1].reveal = reveal /\ sealed[1].hash = Keccak(finish(reveal, RevealWrites))
      /\ sealed[1].strategy = StrategyAddress
  BY <1>2 DEF Sealing
<1>4. ASSUME NEW a, \A f \in Fields(RevealWrites) : a[f] = reveal[f]
      PROVE  Keccak(finish(a, RevealArgs)) = sealed[1].hash
  <2>1. RevealArgs = RevealWrites
    BY DEF RevealArgs, RevealWrites
  <2>2. finish(a, RevealWrites) = finish(reveal, RevealWrites)
    BY <1>4, FinishSame
  <2> QED
    BY <1>3, <2>1, <2>2
<1> QED
  BY <1>3, <1>4

SettleAccounts(reveal, ts) ==
  << <<Authority, "rs">>, <<StrategyAddress, "w">>,
     <<deriveCommitPda(StrategyAddress, reveal.index), "w">>, <<Txline, "r">>,
     <<deriveDailyRootsPda("daily_scores_roots", ts), "r">> >>
ProveOddsAccounts(reveal, ts) ==
  << <<Authority, "rs">>, <<StrategyAddress, "r">>,
     <<deriveCommitPda(StrategyAddress, reveal.index), "w">>, <<Txline, "r">>,
     <<deriveDailyRootsPda("daily_batch_roots", ts), "r">> >>

LEMMA SettleAccountsFit ==
  ASSUME NEW reveal, NEW args, NEW ts
  PROVE  /\ RolesFit("settle_decision", SettleAccounts(reveal, ts))
         /\ SeedsFit("settle_decision", SettleAccounts(reveal, ts), args,
                     StrategyAddress, reveal.index)
         /\ SettleAccounts(reveal, ts)[5][1] = deriveDailyRootsPda("daily_scores_roots", ts)
<1> DEFINE accounts == SettleAccounts(reveal, ts)
<1>1. /\ Len(accounts) = 5 /\ accounts[1][2] = "rs" /\ accounts[2][2] = "w"
      /\ accounts[3][2] = "w"
  BY DEF SettleAccounts
<1>2. /\ accounts[2][1] = StrategyAddress
      /\ accounts[3][1] = deriveCommitPda(StrategyAddress, reveal.index)
      /\ accounts[5][1] = deriveDailyRootsPda("daily_scores_roots", ts)
  BY DEF SettleAccounts
<1> HIDE DEF accounts
<1>3. RolesFit("settle_decision", accounts)
  <2> DEFINE context == Context("settle_decision")
  <2>1. /\ Len(context) = 5 /\ DOMAIN context = 1..5
        /\ \A i \in 1..5 : (context[i][1] => i = 1) /\ (context[i][2] => i \in {2, 3})
    BY DEF Context
  <2> HIDE DEF context
  <2>2. \A i \in DOMAIN context : /\ context[i][1] => accounts[i][2] \in {"ws", "rs"}
                                 /\ context[i][2] => accounts[i][2] \in {"ws", "w"}
    BY <1>1, <2>1
  <2> QED
    BY <1>1, <2>1, <2>2 DEF RolesFit, context
<1>4. SeedsFit("settle_decision", accounts, args, StrategyAddress, reveal.index)
  BY <1>2 DEF SeedsFit, deriveCommitPda
<1> QED
  BY <1>2, <1>3, <1>4 DEF accounts

LEMMA ProveOddsAccountsFit ==
  ASSUME NEW reveal, NEW args, NEW ts
  PROVE  /\ RolesFit("prove_entry_odds", ProveOddsAccounts(reveal, ts))
         /\ SeedsFit("prove_entry_odds", ProveOddsAccounts(reveal, ts), args,
                     StrategyAddress, reveal.index)
         /\ ProveOddsAccounts(reveal, ts)[5][1] = deriveDailyRootsPda("daily_batch_roots", ts)
<1> DEFINE accounts == ProveOddsAccounts(reveal, ts)
<1>1. /\ Len(accounts) = 5 /\ accounts[1][2] = "rs" /\ accounts[3][2] = "w"
  BY DEF ProveOddsAccounts
<1>2. /\ accounts[2][1] = StrategyAddress
      /\ accounts[3][1] = deriveCommitPda(StrategyAddress, reveal.index)
      /\ accounts[5][1] = deriveDailyRootsPda("daily_batch_roots", ts)
  BY DEF ProveOddsAccounts
<1> HIDE DEF accounts
<1>3. RolesFit("prove_entry_odds", accounts)
  <2> DEFINE context == Context("prove_entry_odds")
  <2>1. /\ Len(context) = 5 /\ DOMAIN context = 1..5
        /\ \A i \in 1..5 : (context[i][1] => i = 1) /\ (context[i][2] => i \in {3})
    BY DEF Context
  <2> HIDE DEF context
  <2>2. \A i \in DOMAIN context : /\ context[i][1] => accounts[i][2] \in {"ws", "rs"}
                                 /\ context[i][2] => accounts[i][2] \in {"ws", "w"}
    BY <1>1, <2>1
  <2> QED
    BY <1>1, <2>1, <2>2 DEF RolesFit, context
<1>4. SeedsFit("prove_entry_odds", accounts, args, StrategyAddress, reveal.index)
  BY <1>2 DEF SeedsFit, deriveCommitPda
<1> QED
  BY <1>2, <1>3, <1>4 DEF accounts

\* Of a time that is not before 1970, the day the client names is the program's.
LEMMA SameDay ==
  ASSUME NEW ts \in Int, NEW seed, epoch_day_le(ts) # None
  PROVE  deriveDailyRootsPda(seed, ts) = <<seed, epoch_day_le(ts)[1]>>
<1>1. ts >= 0
  <2>1. CASE ts < 0
    BY <2>1 DEF epoch_day_le
  <2> QED
    BY <2>1
<1>2. epoch_day_le(ts) = Some(LeBytes(ts \div DayMs, "u16"))
  BY DEF epoch_day_le
<1>3. DayOf(ts) = ts \div DayMs
  BY <1>1 DEF DayOf
<1> QED
  BY <1>2, <1>3 DEF deriveDailyRootsPda, Some

LEMMA SettleLanded ==
  ASSUME SealedWell, SettleCalled, LandedWell, landed # None
  PROVE  Understood /\ RootAgrees
<1>1. PICK v \in Scores : call = Called("settle_decision", v, SettleBuilt(v, sealed[1].reveal))
  BY DEF SettleCalled
<1>2. PICK reveal \in Reveals :
        /\ sealed[1].reveal = reveal /\ sealed[1].strategy = StrategyAddress
        /\ \A a : (\A f \in Fields(RevealWrites) : a[f] = reveal[f]) =>
                    Keccak(finish(a, RevealArgs)) = sealed[1].hash
  BY SealedIs DEF SettleCalled
<1> DEFINE built == SettleBuilt(v, reveal)
           value == buildSettleArgs(v).value
<1>3. call.op = "settle_decision" /\ call.meant = v /\ call.built = built
  BY <1>1, <1>2 DEF Called
<1>4. built.ok /\ landed = Some(Receive(built.value.data))
  BY <1>3 DEF LandedWell
<1>5. /\ Says(built.value.data, SettleWrites, value, reveal)
      /\ built.value.accounts = SettleAccounts(reveal, value.ts) /\ buildSettleArgs(v).ok
  BY <1>4, SettleSays DEF SettleAccounts
<1>6. /\ DOMAIN value = Fields(SettleWrites) /\ Typed(value, SettleWrites)
      /\ \A f \in Fields(SettleWrites) \ Roots : value[f] = Plain(v, f)
      /\ \A f \in Roots : value[f] = v.eventStatRoot
  BY <1>5, SettleArgsOf
<1> HIDE DEF built, value
<1>7. PICK a : /\ Receive(built.value.data) = Some(a)
               /\ DOMAIN a = Fields(RevealWrites) \cup Fields(SettleWrites)
               /\ \A f \in Fields(SettleWrites) : a[f] = value[f]
               /\ \A f \in Fields(RevealWrites) : a[f] = reveal[f]
  BY <1>5 DEF Says
<1>8. landed[1] # None /\ landed[1][1] = a
  BY <1>4, <1>7 DEF Some, None
<1>9. \A f \in DOMAIN v \cap DOMAIN a : a[f] = Plain(v, f)
  <2>1. DOMAIN v \cap (Fields(RevealWrites) \cup Roots) = {}
    BY InputAssumption DEF IsResponseFor, Roots
  <2> QED
    BY <1>6, <1>7, <2>1
<1>10. a.homeRoot = v.eventStatRoot /\ a.awayRoot = v.eventStatRoot /\ a.ts = value.ts
  <2>1. a["homeRoot"] = v.eventStatRoot /\ a["awayRoot"] = v.eventStatRoot /\ a["ts"] = value["ts"]
    BY <1>6, <1>7, SettleFields DEF Roots
  <2> QED
    BY <2>1
<1>11. /\ RolesFit("settle_decision", built.value.accounts)
       /\ SeedsFit("settle_decision", built.value.accounts, a, StrategyAddress, reveal.index)
       /\ built.value.accounts[5][1] = deriveDailyRootsPda("daily_scores_roots", a.ts)
  BY <1>5, <1>10, SettleAccountsFit
<1>12. Keccak(finish(a, RevealArgs)) = sealed[1].hash
  BY <1>2, <1>7
<1>13. sealed # None
  BY DEF SettleCalled
<1>14. Understood
  BY <1>2, <1>3, <1>8, <1>9, <1>10, <1>11, <1>12, <1>13 DEF Understood, Said
<1>15. a.ts \in Int
  <2>1. <<"ts", "i64">> \in Range(SettleWrites)
    BY SettleWritesAre
  <2>2. IsOf(value["ts"], "i64")
    BY <1>6, <2>1 DEF Typed
  <2> QED
    BY <1>10, <2>2, Kinds DEF IsOf, IsItem
<1>16. RootAgrees
  BY <1>3, <1>8, <1>11, <1>15, SameDay DEF RootAgrees
<1> QED
  BY <1>14, <1>16

LEMMA ProveOddsLanded ==
  ASSUME SealedWell, ProveOddsCalled, LandedWell, landed # None
  PROVE  Understood /\ RootAgrees
<1>1. PICK v \in Quotes : call = Called("prove_entry_odds", v, ProveOddsBuilt(v, sealed[1].reveal))
  BY DEF ProveOddsCalled
<1>2. PICK reveal \in Reveals :
        /\ sealed[1].reveal = reveal /\ sealed[1].strategy = StrategyAddress
        /\ \A a : (\A f \in Fields(RevealWrites) : a[f] = reveal[f]) =>
                    Keccak(finish(a, RevealArgs)) = sealed[1].hash
  BY SealedIs DEF ProveOddsCalled
<1> DEFINE built == ProveOddsBuilt(v, reveal)
           value == buildProveOddsArgs(v).value
<1>3. call.op = "prove_entry_odds" /\ call.meant = v /\ call.built = built
  BY <1>1, <1>2 DEF Called
<1>4. built.ok /\ landed = Some(Receive(built.value.data))
  BY <1>3 DEF LandedWell
<1>5. /\ Says(built.value.data, ProveOddsWrites, value, reveal)
      /\ built.value.accounts = ProveOddsAccounts(reveal, value.ts) /\ buildProveOddsArgs(v).ok
  BY <1>4, ProveOddsSays DEF ProveOddsAccounts
<1>6. /\ DOMAIN value = Fields(ProveOddsWrites) /\ Typed(value, ProveOddsWrites)
      /\ \A f \in Fields(ProveOddsWrites) \ {"oddsTs"} : value[f] = Plain(v, f)
      /\ value["oddsTs"] = v.ts
  BY <1>5, ProveOddsArgsOf
<1> HIDE DEF built, value
<1>7. PICK a : /\ Receive(built.value.data) = Some(a)
               /\ DOMAIN a = Fields(RevealWrites) \cup Fields(ProveOddsWrites)
               /\ \A f \in Fields(ProveOddsWrites) : a[f] = value[f]
               /\ \A f \in Fields(RevealWrites) : a[f] = reveal[f]
  BY <1>5 DEF Says
<1>8. landed[1] # None /\ landed[1][1] = a
  BY <1>4, <1>7 DEF Some, None
<1>9. \A f \in DOMAIN v \cap DOMAIN a : a[f] = Plain(v, f)
  <2>1. DOMAIN v \cap (Fields(RevealWrites) \cup {"oddsTs"}) = {}
    BY InputAssumption DEF IsResponseFor
  <2> QED
    BY <1>6, <1>7, <2>1
<1>10. a.ts = value.ts /\ a.oddsTs = v.ts
  <2>1. a["ts"] = value["ts"] /\ a["oddsTs"] = v.ts
    BY <1>6, <1>7, ProveOddsFields
  <2> QED
    BY <2>1
<1>11. /\ RolesFit("prove_entry_odds", built.value.accounts)
       /\ SeedsFit("prove_entry_odds", built.value.accounts, a, StrategyAddress, reveal.index)
       /\ built.value.accounts[5][1] = deriveDailyRootsPda("daily_batch_roots", a.ts)
  BY <1>5, <1>10, ProveOddsAccountsFit
<1>12. Keccak(finish(a, RevealArgs)) = sealed[1].hash
  BY <1>2, <1>7
<1>13. sealed # None
  BY DEF ProveOddsCalled
<1>14. Understood
  BY <1>2, <1>3, <1>8, <1>9, <1>10, <1>11, <1>12, <1>13 DEF Understood, Said
<1>15. a.ts \in Int
  <2>1. <<"ts", "i64">> \in Range(ProveOddsWrites)
    BY ProveOddsWritesAre
  <2>2. IsOf(value["ts"], "i64")
    BY <1>6, <2>1 DEF Typed
  <2> QED
    BY <1>10, <2>2, Kinds DEF IsOf, IsItem
<1>16. RootAgrees
  BY <1>3, <1>8, <1>11, <1>15, SameDay DEF RootAgrees
<1> QED
  BY <1>14, <1>16

LEMMA VoidLanded ==
  ASSUME SealedWell, VoidCalled, LandedWell, landed # None
  PROVE  Understood /\ RootAgrees
<1>1. PICK reason \in Reasons : LET in == VoidIn(reason, sealed[1].reveal)
                                IN  call = Called("void_decision", in, VoidBuilt(in))
  BY DEF VoidCalled
<1>2. PICK reveal \in Reveals :
        /\ sealed[1].reveal = reveal /\ sealed[1].strategy = StrategyAddress
        /\ \A a : (\A f \in Fields(RevealWrites) : a[f] = reveal[f]) =>
                    Keccak(finish(a, RevealArgs)) = sealed[1].hash
  BY SealedIs DEF VoidCalled
<1> DEFINE value == [reason |-> reason]
           in == WithReveal(value, reveal)
           built == VoidBuilt(in)
<1>3. call.op = "void_decision" /\ call.meant = in /\ call.built = built
  BY <1>1, <1>2 DEF Called, VoidIn
<1>4. built.ok /\ landed = Some(Receive(built.value.data))
  BY <1>3 DEF LandedWell
<1>5. Says(built.value.data, VoidWrites, value, reveal)
  BY <1>4, VoidSays
<1>6. DOMAIN value = Fields(VoidWrites) /\ Fields(VoidWrites) \cap Fields(RevealWrites) = {}
  BY OtherFields, RevealFields
<1>7. Fields(VoidWrites) \cap Listed = {} /\ Fields(RevealWrites) \cap Listed = {}
  BY OtherFields, RevealFields DEF Listed
<1>8. DOMAIN reveal = Fields(RevealWrites)
  BY InputAssumption DEF IsRecordOf
<1> HIDE DEF built, value
<1>9. PICK a : /\ Receive(built.value.data) = Some(a)
               /\ DOMAIN a = Fields(RevealWrites) \cup Fields(VoidWrites)
               /\ \A f \in Fields(VoidWrites) : a[f] = value[f]
               /\ \A f \in Fields(RevealWrites) : a[f] = reveal[f]
  BY <1>5 DEF Says
<1>10. landed[1] # None /\ landed[1][1] = a
  BY <1>4, <1>9 DEF Some, None
<1>11. \A f \in DOMAIN in \cap DOMAIN a : a[f] = Plain(in, f)
  <2>1. \A f \in Fields(VoidWrites) \cup Fields(RevealWrites) : Plain(in, f) = in[f]
    BY <1>7, PlainIs
  <2>2. /\ \A f \in Fields(VoidWrites) : in[f] = value[f]
        /\ \A f \in Fields(RevealWrites) : in[f] = reveal[f]
    BY <1>6, <1>8 DEF WithReveal
  <2> QED
    BY <1>9, <2>1, <2>2
<1> HIDE DEF in
<1>12. Keccak(finish(a, RevealArgs)) = sealed[1].hash
  BY <1>2, <1>9
<1>13. Understood
  BY <1>3, <1>10, <1>11, <1>12 DEF Understood, Said
<1>14. RootAgrees
  BY <1>3 DEF RootAgrees
<1> QED
  BY <1>13, <1>14

LEMMA InitializeLanded ==
  ASSUME InitializeCalled, LandedWell, landed # None
  PROVE  Understood /\ RootAgrees
<1>1. PICK in \in Strategies :
        call = Called("initialize_strategy", in, buildInitializeStrategyInstruction(in))
  BY DEF InitializeCalled
<1> DEFINE built == buildInitializeStrategyInstruction(in)
           a == [f \in Fields(InitializeWrites) |-> in[f]]
           accounts == << <<Authority, "ws">>, <<deriveStrategyPda(in.strategyId), "w">>,
                          <<System, "r">> >>
<1>2. call.op = "initialize_strategy" /\ call.meant = in /\ call.built = built
  BY <1>1 DEF Called
<1>3. built.ok /\ landed = Some(Receive(built.value.data))
  BY <1>2 DEF LandedWell
<1>4. Receive(built.value.data) = Some(a) /\ built.value.accounts = accounts
  BY <1>3, InitializeSays
<1>5. /\ \A f \in Fields(InitializeWrites) : a[f] = in[f] /\ f \notin Listed
      /\ DOMAIN a = Fields(InitializeWrites)
  BY OtherFields DEF Listed
<1>6. a.strategyId = in.strategyId
  <2>1. a["strategyId"] = in["strategyId"]
    BY OtherFields
  <2> QED
    BY <2>1
<1> HIDE DEF built, a
<1>7. landed[1] # None /\ landed[1][1] = a
  BY <1>3, <1>4 DEF Some, None
<1>8. \A f \in DOMAIN in \cap DOMAIN a : a[f] = Plain(in, f)
  BY <1>5, PlainIs
<1>9. /\ Len(accounts) = 3 /\ accounts[1][2] = "ws" /\ accounts[2][2] = "w"
      /\ accounts[2][1] = deriveStrategyPda(in.strategyId)
  OBVIOUS
<1> HIDE DEF accounts
<1>10. RolesFit("initialize_strategy", accounts)
  <2> DEFINE context == Context("initialize_strategy")
  <2>1. /\ Len(context) = 3 /\ DOMAIN context = 1..3
        /\ \A i \in 1..3 : (context[i][1] => i = 1) /\ (context[i][2] => i \in {1, 2})
    BY DEF Context
  <2> HIDE DEF context
  <2>2. \A i \in DOMAIN context : /\ context[i][1] => accounts[i][2] \in {"ws", "rs"}
                                 /\ context[i][2] => accounts[i][2] \in {"ws", "w"}
    BY <1>9, <2>1
  <2> QED
    BY <1>9, <2>1, <2>2 DEF RolesFit, context
<1>11. \A strategy, index : SeedsFit("initialize_strategy", accounts, a, strategy, index)
  BY <1>6, <1>9 DEF SeedsFit, deriveStrategyPda
<1>12. Understood
  BY <1>2, <1>4, <1>7, <1>8, <1>10, <1>11 DEF Understood, Said
<1>13. RootAgrees
  BY <1>2 DEF RootAgrees
<1> QED
  BY <1>12, <1>13

LEMMA CommitLanded ==
  ASSUME CommitCalled, LandedWell, landed # None
  PROVE  Understood /\ RootAgrees
<1>1. PICK reveal \in Reveals :
        /\ computeCommitHash(reveal).ok
        /\ call = Called("commit_decision", CommitIn(reveal, computeCommitHash(reveal)),
                         buildCommitDecisionInstruction(CommitIn(reveal, computeCommitHash(reveal))))
  BY DEF CommitCalled
<1> DEFINE in == CommitIn(reveal, computeCommitHash(reveal))
           built == buildCommitDecisionInstruction(in)
           a == [f \in Fields(CommitWrites) |-> in[f]]
           accounts == << <<Authority, "ws">>, <<StrategyAddress, "w">>,
                          <<deriveCommitPda(StrategyAddress, reveal.index), "w">>, <<System, "r">> >>
<1>2. call.op = "commit_decision" /\ call.meant = in /\ call.built = built
  BY <1>1 DEF Called
<1>3. built.ok /\ landed = Some(Receive(built.value.data))
  BY <1>2 DEF LandedWell
<1>4. Receive(built.value.data) = Some(a) /\ built.value.accounts = accounts
  BY <1>1, <1>3, CommitSays
<1>5. /\ \A f \in Fields(CommitWrites) : a[f] = in[f] /\ f \notin Listed
      /\ DOMAIN a = Fields(CommitWrites)
  BY OtherFields DEF Listed
<1>6. in.reveal = reveal
  BY DEF CommitIn
<1> HIDE DEF built, a, in
<1>7. landed[1] # None /\ landed[1][1] = a
  BY <1>3, <1>4 DEF Some, None
<1>8. \A f \in DOMAIN in \cap DOMAIN a : a[f] = Plain(in, f)
  BY <1>5, PlainIs
<1>9. /\ Len(accounts) = 4 /\ accounts[1][2] = "ws" /\ accounts[2][2] = "w"
      /\ accounts[3][2] = "w" /\ accounts[2][1] = StrategyAddress
      /\ accounts[3][1] = deriveCommitPda(StrategyAddress, reveal.index)
  OBVIOUS
<1> HIDE DEF accounts
<1>10. RolesFit("commit_decision", accounts)
  <2> DEFINE context == Context("commit_decision")
  <2>1. /\ Len(context) = 4 /\ DOMAIN context = 1..4
        /\ \A i \in 1..4 : (context[i][1] => i = 1) /\ (context[i][2] => i \in {1, 2, 3})
    BY DEF Context
  <2> HIDE DEF context
  <2>2. \A i \in DOMAIN context : /\ context[i][1] => accounts[i][2] \in {"ws", "rs"}
                                 /\ context[i][2] => accounts[i][2] \in {"ws", "w"}
    BY <1>9, <2>1
  <2> QED
    BY <1>9, <2>1, <2>2 DEF RolesFit, context
<1>11. \A strategy : SeedsFit("commit_decision", accounts, a, strategy, reveal.index)
  BY <1>9 DEF SeedsFit, StrategyAddress, deriveStrategyPda, deriveCommitPda
<1>12. sealed # None /\ sealed[1].reveal.index = reveal.index
  <2> DEFINE decision == [strategy |-> call.built.value.accounts[2][1],
                          reveal |-> in.reveal, hash |-> a.commitHash]
  <2>1. sealed = Some(decision)
    BY <1>2, <1>7 DEF LandedWell
  <2>2. sealed # None /\ sealed[1] = decision
    BY <2>1 DEF Some, None
  <2> QED
    BY <1>6, <2>2
<1>13. Understood
  BY <1>2, <1>4, <1>7, <1>8, <1>10, <1>11, <1>12 DEF Understood, Said
<1>14. RootAgrees
  BY <1>2 DEF RootAgrees
<1> QED
  BY <1>13, <1>14

LEMMA ReadsAreTold ==
  ASSUME CallWell
  PROVE  ReadsTellTheChain
<1>1. \A op, meant, built : /\ Called(op, meant, built).op = op
                            /\ Called(op, meant, built).meant = meant
                            /\ Called(op, meant, built).built = built
  BY DEF Called
<1>2. ASSUME NEW held \in Accounts
      PROVE  \/ held = <<>>
             \/ /\ held[1] = "Strategy" /\ held[2] \in Ledgers /\ held # <<>>
                /\ StrategyAnswer(held) = Ok(Some(held[2])) /\ ~DecisionAnswer(held).ok
             \/ /\ held[1] = "DecisionCommit" /\ held[2] \in Commits /\ held # <<>>
                /\ DecisionAnswer(held) = Ok(Some(held[2])) /\ ~StrategyAnswer(held).ok
  <2>1. CASE held = <<>>
    BY <2>1
  <2>2. CASE \E a \in Ledgers : held = <<"Strategy", a>>
    <3>1. PICK a \in Ledgers : held = <<"Strategy", a>>
      BY <2>2
    <3>2. held # <<>> /\ held[1] = "Strategy" /\ held[2] = a
      BY <3>1
    <3>3. /\ StrategyAnswer(held) = decodeStrategyAccount(Stored("Strategy", a))
          /\ DecisionAnswer(held) = decodeDecisionCommitAccount(Stored("Strategy", a))
      BY <3>2 DEF StrategyAnswer, DecisionAnswer
    <3> QED
      BY <3>2, <3>3, StrategyIsRead, StrategyIsNotDecision
  <2>3. CASE \E a \in Commits : held = <<"DecisionCommit", a>>
    <3>1. PICK a \in Commits : held = <<"DecisionCommit", a>>
      BY <2>3
    <3>2. held # <<>> /\ held[1] = "DecisionCommit" /\ held[2] = a
      BY <3>1
    <3>3. /\ StrategyAnswer(held) = decodeStrategyAccount(Stored("DecisionCommit", a))
          /\ DecisionAnswer(held) = decodeDecisionCommitAccount(Stored("DecisionCommit", a))
      BY <3>2 DEF StrategyAnswer, DecisionAnswer
    <3> QED
      BY <3>2, <3>3, DecisionIsRead, DecisionIsNotStrategy
  <2> QED
    BY <2>1, <2>2, <2>3 DEF Accounts
<1>3. CASE call.op = "readStrategy"
  <2>1. PICK held \in Accounts : call = Called("readStrategy", held, StrategyAnswer(held))
    BY <1>1, <1>3 DEF CallWell, Idle, InitializeCalled, CommitCalled, CommitRefused,
                      SettleCalled, ProveOddsCalled, VoidCalled, StrategyAsked, DecisionAsked
  <2>2. call.meant = held /\ call.built = StrategyAnswer(held)
    BY <1>1, <2>1
  <2>3. held = <<>> => StrategyAnswer(held) = Ok(None)
    BY DEF StrategyAnswer
  <2> QED
    BY <1>2, <1>3, <2>2, <2>3 DEF ReadsTellTheChain
<1>4. CASE call.op = "readDecision"
  <2>1. PICK held \in Accounts : call = Called("readDecision", held, DecisionAnswer(held))
    BY <1>1, <1>4 DEF CallWell, Idle, InitializeCalled, CommitCalled, CommitRefused,
                      SettleCalled, ProveOddsCalled, VoidCalled, StrategyAsked, DecisionAsked
  <2>2. call.meant = held /\ call.built = DecisionAnswer(held)
    BY <1>1, <2>1
  <2>3. held = <<>> => DecisionAnswer(held) = Ok(None)
    BY DEF DecisionAnswer
  <2> QED
    BY <1>2, <1>4, <2>2, <2>3 DEF ReadsTellTheChain
<1> QED
  BY <1>3, <1>4 DEF ReadsTellTheChain

LEMMA LandedIsTold ==
  ASSUME WireInv
  PROVE  Understood /\ RootAgrees
<1>1. CASE landed = None
  BY <1>1 DEF Understood, RootAgrees
<1>2. CASE landed # None
  <2>1. call.op \in DOMAIN Arguments /\ call.built.ok
    BY <1>2 DEF WireInv, LandedWell
  <2>2. call.op \notin {"idle", "readStrategy", "readDecision"}
    BY <2>1 DEF Arguments
  <2>3. InitializeCalled \/ CommitCalled \/ SettleCalled \/ ProveOddsCalled \/ VoidCalled
    BY <2>1, <2>2 DEF WireInv, CallWell, Idle, CommitRefused, StrategyAsked, DecisionAsked, Called
  <2> QED
    BY <1>2, <2>3, InitializeLanded, CommitLanded, SettleLanded, ProveOddsLanded, VoidLanded
       DEF WireInv
<1> QED
  BY <1>1, <1>2

(***************************************************************************)
(* What the chain holds of a decision, what a call under way has built and *)
(* what the program has read stay the ones of one reveal: the client's two *)
(* halves, hashing at the commit and revealing at the settlement, meet in  *)
(* the program (borsh.ts, commit-hash.ts, compute_commit_hash in logic.rs).*)
(***************************************************************************)
THEOREM WireIsWell == Spec => []WireInv
<1>1. Init => WireInv
  BY InitiallyWell
<1>2. WireInv /\ [Next]_vars => WireInv'
  BY StepsAreWell
<1> QED
  BY <1>1, <1>2, PTL DEF Spec

(***************************************************************************)
(* Whatever the client builds within its range checks the program reads as *)
(* it was meant, field by field, for accounts in the roles and at the      *)
(* addresses it derives, and under the hash that was sealed: no width of a *)
(* number, length of a proof or of a string makes a field slip.            *)
(***************************************************************************)
THEOREM InstructionsAreUnderstood == Spec => []Understood
<1>1. WireInv => Understood
  BY LandedIsTold
<1> QED
  BY <1>1, WireIsWell, PTL

(***************************************************************************)
(* The day in the roots account's address is the day the program derives,  *)
(* although the client lets a day wrap into its two bytes.                 *)
(***************************************************************************)
THEOREM RootsAgree == Spec => []RootAgrees
<1>1. WireInv => RootAgrees
  BY LandedIsTold
<1> QED
  BY <1>1, WireIsWell, PTL

(***************************************************************************)
(* An account is read back field by field, an absent one as absent, and    *)
(* one of the other type is refused, whatever their sizes.                 *)
(***************************************************************************)
THEOREM ReadsAreTheChain == Spec => []ReadsTellTheChain
<1>1. WireInv => ReadsTellTheChain
  BY ReadsAreTold DEF WireInv
<1> QED
  BY <1>1, WireIsWell, PTL

(***************************************************************************)
(* The bytes that are hashed at the commit determine the reveal: no two    *)
(* decisions the client would encode share them, so that a hash without    *)
(* collisions binds the agent (borsh.ts and compute_commit_hash).  This    *)
(* is what lets AgentLedger take the commit hash for an injection.         *)
(***************************************************************************)
THEOREM EncodingIsBinding ==
  ASSUME NEW reveal \in Reveals, NEW other \in Reveals,
         encodeRevealArgs(reveal).ok, encodeRevealArgs(other).ok,
         encodeRevealArgs(reveal).value = encodeRevealArgs(other).value
  PROVE  reveal = other
<1> DEFINE flat(r) == finish(r, RevealWrites)
           told(r) == [f \in Fields(RevealWrites) |-> r[f]]
<1>1. ASSUME NEW r \in Reveals, encodeRevealArgs(r).ok
      PROVE  /\ encodeRevealArgs(r).value = flat(r) /\ r = told(r)
             /\ Named(withDiscriminator("reveal", flat(r)), RevealWrites) = told(r)
  <2>1. encodeRevealArgs(r) = Ok(flat(r)) /\ Passed(r, RevealChecks)
    BY <1>1, EncodeIs DEF encodeRevealArgs
  <2>2. IsRecordOf(r, RevealWrites)
    BY InputAssumption
  <2>3. Typed(r, RevealWrites) /\ r = told(r)
    BY <2>2 DEF IsRecordOf, Typed
  <2>4. RecordFits(r, RevealWrites)
    BY <2>1, <2>3, ChecksCover, CheckedFits
  <2>5. Named(withDiscriminator("reveal", flat(r)), RevealWrites) = told(r)
    BY <2>4, RevealWritesAre, StructReads
  <2>6. encodeRevealArgs(r).value = flat(r)
    BY <2>1 DEF Ok
  <2> QED
    BY <2>3, <2>5, <2>6
<1> HIDE DEF flat, told
<1>2. flat(reveal) = flat(other)
  BY <1>1
<1>3. told(reveal) = told(other)
  BY <1>1, <1>2
<1> QED
  BY <1>1, <1>3
=============================================================================
