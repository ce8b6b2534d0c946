-------------------------- MODULE SseFramesProofs ---------------------------
(***************************************************************************)
(* Proof that the cuts of the network do not show in the frames, for any   *)
(* text, any chunks and whatever parseFrame makes of a frame.              *)
(***************************************************************************)
EXTENDS SseFrames, SequenceTheorems, SumTheorems

(***************************************************************************)
(* Line ends.  A chunk's text is a concatenation, piece by piece.          *)
(***************************************************************************)
Adds(g, chunk, m) ==
  g = [n \in 0..m |-> IF n = 0 THEN <<>> ELSE g[n - 1] \o Kept(chunk, n)]

LEMMA AddsSteps ==
  ASSUME NEW chunk, NEW m \in Nat, NEW g, Adds(g, chunk, m)
  PROVE  g[0] = <<>> /\ \A n \in 1..m : g[n] = g[n - 1] \o Kept(chunk, n)
<1> DEFINE value(n) == IF n = 0 THEN <<>> ELSE g[n - 1] \o Kept(chunk, n)
<1>1. g = [n \in 0..m |-> value(n)]
  BY DEF Adds
<1>2. value(0) = <<>> /\ \A n \in 1..m : value(n) = g[n - 1] \o Kept(chunk, n)
  OBVIOUS
<1>3. 0 \in 0..m /\ \A n \in 1..m : n \in 0..m
  OBVIOUS
<1> HIDE DEF value
<1>4. \A n \in 0..m : g[n] = value(n)
  BY <1>1
<1> QED
  BY <1>2, <1>3, <1>4

LEMMA AddsGoesOn ==
  ASSUME NEW chunk, NEW m \in Nat, NEW g, Adds(g, chunk, m)
  PROVE  \E h : Adds(h, chunk, m + 1)
<1> DEFINE value(f, n) == IF n = 0 THEN <<>> ELSE f[n - 1] \o Kept(chunk, n)
           h == [n \in 0..(m + 1) |-> IF n = m + 1 THEN g[m] \o Kept(chunk, m + 1) ELSE g[n]]
<1>1. g[0] = <<>> /\ \A n \in 1..m : g[n] = g[n - 1] \o Kept(chunk, n)
  BY AddsSteps
<1>2. /\ \A n \in 0..m : h[n] = g[n]
      /\ h[m + 1] = g[m] \o Kept(chunk, m + 1)
  OBVIOUS
<1>3. h = [n \in 0..(m + 1) |-> h[n]]
  OBVIOUS
<1> HIDE DEF h
<1>4. ASSUME NEW n \in 0..(m + 1) PROVE h[n] = value(h, n)
  <2>1. CASE n = 0
    BY <1>1, <1>2, <2>1
  <2>2. CASE n \in 1..m
    <3>1. n - 1 \in 0..m /\ n \in 0..m /\ n # 0
      BY <2>2
    <3> QED
      BY <1>1, <1>2, <2>2, <3>1
  <2>3. CASE n = m + 1
    <3>1. n - 1 = m /\ m \in 0..m /\ n # 0
      BY <2>3
    <3> QED
      BY <1>2, <2>3, <3>1
  <2> QED
    BY <2>1, <2>2, <2>3
<1>5. Adds(h, chunk, m + 1)
  BY <1>3, <1>4 DEF Adds
<1> QED
  BY <1>5

LEMMA AddsExists == ASSUME NEW chunk, NEW m \in Nat PROVE \E g : Adds(g, chunk, m)
<1> DEFINE Stuck == {n \in Nat : ~\E g : Adds(g, chunk, n)}
<1>1. ASSUME Stuck # {} PROVE FALSE
  <2>1. PICK n \in Stuck : \A k \in Stuck : n <= k
    <3>1. Stuck \subseteq Nat
      OBVIOUS
    <3> HIDE DEF Stuck
    <3> QED
      BY <1>1, <3>1, LeastNatural
  <2>2. n \in Nat /\ ~\E g : Adds(g, chunk, n)
    OBVIOUS
  <2>3. CASE n = 0
    <3> DEFINE g == [k \in 0..0 |-> <<>>]
    <3>1. g = [k \in 0..0 |-> IF k = 0 THEN <<>> ELSE g[k - 1] \o Kept(chunk, k)]
      OBVIOUS
    <3> HIDE DEF g
    <3>2. Adds(g, chunk, 0)
      BY <3>1 DEF Adds
    <3> QED
      BY <2>2, <2>3, <3>2
  <2>4. CASE n # 0
    <3>1. n - 1 \in Nat /\ n - 1 \notin Stuck
      BY <2>1, <2>2, <2>4
    <3>2. PICK g : Adds(g, chunk, n - 1)
      BY <3>1
    <3>3. \E h : Adds(h, chunk, (n - 1) + 1)
      BY <3>1, <3>2, AddsGoesOn
    <3>4. (n - 1) + 1 = n
      BY <2>2
    <3> QED
      BY <2>2, <3>3, <3>4
  <2> QED
    BY <2>3, <2>4
<1> QED
  BY <1>1

LEMMA KeptIsText ==
  ASSUME NEW chunk \in Seq(Pieces), NEW n \in 1..Len(chunk)
  PROVE  Kept(chunk, n) \in Seq(Pieces)
BY DEF Kept

LEMMA NormalizeSteps ==
  ASSUME NEW chunk \in Seq(Pieces)
  PROVE  \E g : /\ NormalizeCrlf(chunk) = g[Len(chunk)]
                /\ g[0] = <<>> /\ \A n \in 1..Len(chunk) : g[n] = g[n - 1] \o Kept(chunk, n)
                /\ \A n \in 0..Len(chunk) : g[n] \in Seq(Pieces)
<1> DEFINE N == Len(chunk)
           g == CHOOSE h : Adds(h, chunk, N)
<1>1. N \in Nat
  OBVIOUS
<1>2. Adds(g, chunk, N)
  BY <1>1, AddsExists
<1>3. NormalizeCrlf(chunk) = g[N]
  BY Zenon DEF NormalizeCrlf, Adds
<1> HIDE DEF g
<1>4. g[0] = <<>> /\ \A n \in 1..N : g[n] = g[n - 1] \o Kept(chunk, n)
  BY <1>1, <1>2, AddsSteps
<1> DEFINE Odd == {n \in 0..N : g[n] \notin Seq(Pieces)}
<1>5. ASSUME Odd # {} PROVE FALSE
  <2>1. PICK n \in Odd : \A k \in Odd : n <= k
    <3>1. Odd \subseteq Nat
      BY <1>1
    <3> HIDE DEF Odd
    <3> QED
      BY <1>5, <3>1, LeastNatural
  <2>2. n # 0
    <3>1. <<>> \in Seq(Pieces) /\ g[n] \notin Seq(Pieces)
      BY EmptySeq
    <3> QED
      BY <1>4, <3>1
  <2>3. n \in 1..N /\ n - 1 \in 0..N /\ n - 1 \notin Odd
    BY <1>1, <2>1, <2>2
  <2>4. g[n - 1] \in Seq(Pieces) /\ Kept(chunk, n) \in Seq(Pieces)
    BY <2>3, KeptIsText
  <2>5. g[n - 1] \o Kept(chunk, n) \in Seq(Pieces)
    BY <2>4, ConcatProperties
  <2> QED
    BY <1>4, <2>1, <2>3, <2>5
<1> QED
  BY <1>3, <1>4, <1>5

LEMMA NormalizeIsText ==
  ASSUME NEW chunk \in Seq(Pieces)
  PROVE  NormalizeCrlf(chunk) \in Seq(Pieces) /\ NormalizeCrlf(<<>>) = <<>>
<1>1. NormalizeCrlf(chunk) \in Seq(Pieces)
  <2>1. PICK g : /\ NormalizeCrlf(chunk) = g[Len(chunk)]
                 /\ \A n \in 0..Len(chunk) : g[n] \in Seq(Pieces)
    BY NormalizeSteps
  <2>2. Len(chunk) \in 0..Len(chunk)
    OBVIOUS
  <2> QED
    BY <2>1, <2>2
<1>2. NormalizeCrlf(<<>>) = <<>>
  <2>1. <<>> \in Seq(Pieces) /\ Len(<<>>) = 0
    OBVIOUS
  <2>2. PICK g : NormalizeCrlf(<<>>) = g[Len(<<>>)] /\ g[0] = <<>>
    BY <2>1, NormalizeSteps
  <2> QED
    BY <2>1, <2>2
<1> QED
  BY <1>1, <1>2

\* A cut beside no CRLF does not show after the line ends are normalized.
Tears(p, c) == p # <<>> /\ c # <<>> /\ p[Len(p)] = CR /\ c[1] = LF

LEMMA KeptInPlace ==
  ASSUME NEW p \in Seq(Pieces), NEW c \in Seq(Pieces), ~Tears(p, c)
  PROVE  /\ \A n \in 1..Len(p) : Kept(p \o c, n) = Kept(p, n)
         /\ \A k \in 1..Len(c) : Kept(p \o c, Len(p) + k) = Kept(c, k)
<1> DEFINE w == p \o c
<1>1. /\ w \in Seq(Pieces) /\ Len(w) = Len(p) + Len(c)
      /\ \A i \in 1..(Len(p) + Len(c)) : w[i] = IF i <= Len(p) THEN p[i] ELSE c[i - Len(p)]
  BY ConcatProperties
<1>2. Len(p) \in Nat /\ Len(c) \in Nat
  OBVIOUS
<1> HIDE DEF w
<1>3. ASSUME NEW n \in 1..Len(p) PROVE Kept(w, n) = Kept(p, n)
  <2>1. w[n] = p[n]
    BY <1>1, <1>2
  <2>2. CASE n < Len(p)
    <3>1. w[n + 1] = p[n + 1] /\ n < Len(w)
      BY <1>1, <1>2, <2>2
    <3> QED
      BY <2>1, <2>2, <3>1 DEF Kept
  <2>3. CASE n = Len(p)
    <3>1. ~(p[n] = CR /\ n < Len(w) /\ w[n + 1] = LF)
      <4>1. CASE c = <<>>
        BY <1>1, <2>3, <4>1
      <4>2. CASE c # <<>>
        <5>1. p # <<>> /\ w[n + 1] = c[1]
          BY <1>1, <1>2, <2>3, <4>2
        <5> QED
          BY <2>3, <4>2, <5>1 DEF Tears
      <4> QED
        BY <4>1, <4>2
    <3> QED
      BY <2>1, <2>3, <3>1 DEF Kept
  <2> QED
    BY <1>2, <2>2, <2>3
<1>4. ASSUME NEW k \in 1..Len(c) PROVE Kept(w, Len(p) + k) = Kept(c, k)
  <2>1. w[Len(p) + k] = c[k]
    BY <1>1, <1>2
  <2>2. Len(p) + k < Len(w) <=> k < Len(c)
    BY <1>1, <1>2
  <2>3. k < Len(c) => w[(Len(p) + k) + 1] = c[k + 1]
    BY <1>1, <1>2
  <2> QED
    BY <2>1, <2>2, <2>3 DEF Kept
<1> QED
  BY <1>3, <1>4 DEF w

LEMMA NormalizeConcat ==
  ASSUME NEW p \in Seq(Pieces), NEW c \in Seq(Pieces), ~Tears(p, c)
  PROVE  NormalizeCrlf(p \o c) = NormalizeCrlf(p) \o NormalizeCrlf(c)
<1> DEFINE w == p \o c
           P == Len(p)
           C == Len(c)
<1>1. w \in Seq(Pieces) /\ Len(w) = P + C /\ P \in Nat /\ C \in Nat
  BY ConcatProperties
<1>2. /\ \A n \in 1..P : Kept(w, n) = Kept(p, n)
      /\ \A k \in 1..C : Kept(w, P + k) = Kept(c, k)
  BY KeptInPlace
<1> HIDE DEF w
<1>3. PICK gw : /\ NormalizeCrlf(w) = gw[P + C]
                /\ gw[0] = <<>> /\ \A n \in 1..(P + C) : gw[n] = gw[n - 1] \o Kept(w, n)
  BY <1>1, NormalizeSteps
<1>4. PICK gp : /\ NormalizeCrlf(p) = gp[P]
                /\ gp[0] = <<>> /\ \A n \in 1..P : gp[n] = gp[n - 1] \o Kept(p, n)
                /\ \A n \in 0..P : gp[n] \in Seq(Pieces)
  BY NormalizeSteps
<1>5. PICK gc : /\ NormalizeCrlf(c) = gc[C]
                /\ gc[0] = <<>> /\ \A n \in 1..C : gc[n] = gc[n - 1] \o Kept(c, n)
                /\ \A n \in 0..C : gc[n] \in Seq(Pieces)
  BY NormalizeSteps
<1> HIDE DEF P, C
<1> DEFINE Odd == {n \in 0..P : gw[n] # gp[n]}
<1>6. ASSUME Odd # {} PROVE FALSE
  <2>1. PICK n \in Odd : \A k \in Odd : n <= k
    <3>1. Odd \subseteq Nat
      BY <1>1
    <3> HIDE DEF Odd
    <3> QED
      BY <1>6, <3>1, LeastNatural
  <2>2. n # 0
    BY <1>3, <1>4
  <2>3. n \in 1..P /\ n \in 1..(P + C) /\ n - 1 \in 0..P /\ n - 1 \notin Odd
    BY <1>1, <2>1, <2>2
  <2>4. gw[n - 1] = gp[n - 1]
    BY <2>3
  <2> QED
    BY <1>2, <1>3, <1>4, <2>1, <2>3, <2>4
<1>7. gw[P] = gp[P] /\ gp[P] \in Seq(Pieces)
  <2>1. P \in 0..P
    BY <1>1
  <2> QED
    BY <1>4, <1>6, <2>1
<1> DEFINE Joined(k) == gw[P + k] = gp[P] \o gc[k]
           Off == {k \in 0..C : ~Joined(k)}
<1> HIDE DEF Joined
<1>8. ASSUME Off # {} PROVE FALSE
  <2>1. PICK k \in Off : \A i \in Off : k <= i
    <3>1. Off \subseteq Nat
      BY <1>1
    <3> HIDE DEF Off
    <3> QED
      BY <1>8, <3>1, LeastNatural
  <2>2. k # 0
    <3>1. gp[P] \o <<>> = gp[P] /\ P + 0 = P
      BY <1>1, <1>7, ConcatEmptySeq
    <3> QED
      BY <1>5, <1>7, <2>1, <3>1 DEF Joined
  <2>3. k \in 1..C /\ P + k \in 1..(P + C) /\ k - 1 \in 0..C /\ k - 1 \notin Off
        /\ (P + k) - 1 = P + (k - 1)
    BY <1>1, <2>1, <2>2
  <2>4. gw[P + (k - 1)] = gp[P] \o gc[k - 1]
    BY <2>3 DEF Joined
  <2>5. gw[P + k] = (gp[P] \o gc[k - 1]) \o Kept(c, k)
    BY <1>2, <1>3, <2>3, <2>4
  <2>6. gc[k - 1] \in Seq(Pieces) /\ Kept(c, k) \in Seq(Pieces)
    BY <1>5, <2>3, KeptIsText DEF C
  <2>7. gw[P + k] = gp[P] \o (gc[k - 1] \o Kept(c, k))
    <3> DEFINE a == gp[P]
               b == gc[k - 1]
               d == Kept(c, k)
    <3>1. a \in Seq(Pieces) /\ b \in Seq(Pieces) /\ d \in Seq(Pieces)
      BY <1>7, <2>6
    <3> HIDE DEF a, b, d
    <3>2. (a \o b) \o d = a \o (b \o d)
      BY <3>1, ConcatAssociative
    <3> QED
      BY <2>5, <3>2, Zenon DEF a, b, d
  <2> QED
    BY <1>5, <2>1, <2>3, <2>7 DEF Joined
<1>9. C \in 0..C
  BY <1>1
<1>10. gw[P + C] = gp[P] \o gc[C]
  BY <1>8, <1>9 DEF Joined
<1> QED
  BY <1>3, <1>4, <1>5, <1>10 DEF w

(***************************************************************************)
(* Separators.                                                             *)
(***************************************************************************)
LEMMA SeparatorFacts ==
  ASSUME NEW text \in Seq(Pieces), NEW from \in 1..(Len(text) + 1)
  PROVE  LET s == Separator(text, from) IN
         /\ s \in from..(Len(text) + 1)
         /\ s <= Len(text) => IsSeparator(text, s) /\ s + 2 \in (from + 1)..(Len(text) + 1)
         /\ \A j \in from..(s - 1) : ~IsSeparator(text, j)
<1> DEFINE L == Len(text)
           At(i) == /\ i <= L => IsSeparator(text, i)
                    /\ \A j \in from..(i - 1) : ~IsSeparator(text, j)
           Candidates == {i \in from..(L + 1) : i <= L => IsSeparator(text, i)}
<1>1. L \in Nat /\ from \in Nat /\ from <= L + 1 /\ from >= 1
  OBVIOUS
<1> HIDE DEF L
<1>2. PICK i \in Candidates : \A j \in Candidates : i <= j
  <2>1. Candidates \subseteq Nat
    BY <1>1
  <2>2. L + 1 \in Candidates
    BY <1>1
  <2> HIDE DEF Candidates
  <2> QED
    BY <2>1, <2>2, LeastNatural
<1>3. i \in from..(L + 1) /\ At(i)
  <2>1. \A j \in from..(i - 1) : j \notin Candidates /\ j \in from..(L + 1)
    BY <1>1, <1>2
  <2> QED
    BY <1>2, <2>1
<1>4. Separator(text, from) = CHOOSE k \in from..(L + 1) : At(k)
  BY DEF Separator, L
<1> DEFINE s == Separator(text, from)
<1>5. s \in from..(L + 1) /\ At(s)
  <2> HIDE DEF At
  <2> QED
    BY <1>3, <1>4
<1> HIDE DEF s
<1>6. s <= L => s < L
  BY <1>5 DEF IsSeparator, L
<1>7. s <= L => s + 2 \in (from + 1)..(L + 1)
  BY <1>1, <1>5, <1>6
<1> QED
  BY <1>5, <1>7 DEF s, L

LEMMA SeparatorIs ==
  ASSUME NEW text \in Seq(Pieces), NEW from \in 1..(Len(text) + 1),
         NEW i \in from..(Len(text) + 1), i <= Len(text) => IsSeparator(text, i),
         \A j \in from..(i - 1) : ~IsSeparator(text, j)
  PROVE  Separator(text, from) = i
<1> DEFINE s == Separator(text, from)
<1>1. /\ s \in from..(Len(text) + 1) /\ (s <= Len(text) => IsSeparator(text, s))
      /\ \A j \in from..(s - 1) : ~IsSeparator(text, j)
  BY SeparatorFacts
<1>2. Len(text) \in Nat /\ from \in Nat
  OBVIOUS
<1> HIDE DEF s
<1>3. ~(s < i)
  BY <1>1, <1>2
<1>4. ~(i < s)
  BY <1>1, <1>2
<1> QED
  BY <1>1, <1>2, <1>3, <1>4 DEF s

(***************************************************************************)
(* Draining, as a function of the position from which it goes on.          *)
(***************************************************************************)
Stage(g, text, from) ==
  LET separator == Separator(text, from)
  IN  IF separator > Len(text)
      THEN [frames |-> <<>>, buffer |-> SubSeq(text, from, Len(text))]
      ELSE [frames |-> FrameOf(SubSeq(text, from, separator - 1)) \o g[separator + 2].frames,
            buffer |-> g[separator + 2].buffer]

Drains(g, text, low) == g = [from \in low..(Len(text) + 1) |-> Stage(g, text, from)]

LEMMA StageSame ==
  ASSUME NEW text \in Seq(Pieces), NEW from \in 1..(Len(text) + 1), NEW g, NEW h,
         \A i \in (from + 1)..(Len(text) + 1) : g[i] = h[i]
  PROVE  Stage(g, text, from) = Stage(h, text, from)
<1> DEFINE s == Separator(text, from)
<1>1. s \in from..(Len(text) + 1) /\ (s <= Len(text) => s + 2 \in (from + 1)..(Len(text) + 1))
  BY SeparatorFacts
<1> HIDE DEF s
<1>2. s > Len(text) \/ g[s + 2] = h[s + 2]
  <2>1. s > Len(text) \/ s <= Len(text)
    BY <1>1
  <2> QED
    BY <1>1, <2>1
<1> QED
  BY <1>2 DEF Stage, s

LEMMA DrainsGoesOn ==
  ASSUME NEW text \in Seq(Pieces), NEW low \in 1..(Len(text) + 1), NEW g,
         Drains(g, text, low + 1)
  PROVE  \E h : Drains(h, text, low)
<1> DEFINE L == Len(text)
           h == [from \in low..(L + 1) |-> IF from = low THEN Stage(g, text, low) ELSE g[from]]
<1>1. L \in Nat /\ low \in Nat /\ low <= L + 1
  OBVIOUS
<1>2. \A from \in (low + 1)..(L + 1) : g[from] = Stage(g, text, from)
  <2>1. g = [from \in (low + 1)..(L + 1) |-> Stage(g, text, from)]
    BY DEF Drains
  <2> QED
    BY <2>1
<1>3. /\ h[low] = Stage(g, text, low)
      /\ \A from \in (low + 1)..(L + 1) : h[from] = g[from]
  BY <1>1
<1>4. h = [from \in low..(L + 1) |-> h[from]]
  OBVIOUS
<1> HIDE DEF h
<1>5. ASSUME NEW from \in low..(L + 1) PROVE h[from] = Stage(h, text, from)
  <2>1. from \in 1..(Len(text) + 1)
    BY <1>1
  <2>2. \A i \in (from + 1)..(Len(text) + 1) : h[i] = g[i]
    BY <1>1, <1>3
  <2>3. Stage(h, text, from) = Stage(g, text, from)
    BY <2>1, <2>2, StageSame
  <2>4. from = low \/ from \in (low + 1)..(L + 1)
    BY <1>1
  <2> QED
    BY <1>2, <1>3, <2>3, <2>4
<1>6. Drains(h, text, low)
  BY <1>4, <1>5 DEF Drains
<1> QED
  BY <1>6

LEMMA DrainsExists == ASSUME NEW text \in Seq(Pieces) PROVE \E g : Drains(g, text, 1)
<1> DEFINE L == Len(text)
           Stuck == {n \in Nat : n <= L + 1 /\ ~\E g : Drains(g, text, L + 2 - n)}
<1>1. L \in Nat
  OBVIOUS
<1>2. ASSUME Stuck # {} PROVE FALSE
  <2>1. PICK n \in Stuck : \A k \in Stuck : n <= k
    <3>1. Stuck \subseteq Nat
      OBVIOUS
    <3> HIDE DEF Stuck
    <3> QED
      BY <1>2, <3>1, LeastNatural
  <2>2. n \in Nat /\ n <= L + 1 /\ ~\E g : Drains(g, text, L + 2 - n)
    OBVIOUS
  <2>3. CASE n = 0
    <3> DEFINE g == [from \in (L + 2)..(L + 1) |-> 0]
    <3>1. (L + 2)..(L + 1) = {}
      BY <1>1
    <3>2. g = [from \in (L + 2)..(L + 1) |-> Stage(g, text, from)]
      BY <3>1
    <3> HIDE DEF g
    <3>3. Drains(g, text, L + 2) /\ L + 2 - n = L + 2
      BY <1>1, <2>3, <3>2 DEF Drains
    <3> QED
      BY <2>2, <3>3
  <2>4. CASE n # 0
    <3>1. n - 1 \in Nat /\ n - 1 <= L + 1 /\ n - 1 \notin Stuck
      BY <1>1, <2>1, <2>2, <2>4
    <3>2. PICK g : Drains(g, text, L + 2 - (n - 1))
      BY <3>1
    <3>3. L + 2 - (n - 1) = (L + 2 - n) + 1 /\ L + 2 - n \in 1..(L + 1)
      BY <1>1, <2>2, <2>4
    <3>4. \E h : Drains(h, text, L + 2 - n)
      BY <3>2, <3>3, DrainsGoesOn
    <3> QED
      BY <2>2, <3>4
  <2> QED
    BY <2>3, <2>4
<1>3. L + 1 \in Nat /\ L + 1 <= L + 1 /\ L + 2 - (L + 1) = 1
  BY <1>1
<1>4. L + 1 \notin Stuck
  BY <1>2
<1> QED
  BY <1>3, <1>4

Frames == {parseFrame(raw) : raw \in Seq(Pieces)}

LEMMA FrameOfIsFrames ==
  ASSUME NEW raw \in Seq(Pieces)
  PROVE  FrameOf(raw) \in Seq(Frames)
<1>1. parseFrame(raw) \in Frames
  BY DEF Frames
<1> DEFINE frame == parseFrame(raw)
<1> HIDE DEF frame
<1>2. frame \in Frames
  BY <1>1 DEF frame
<1>3. <<frame>> \in Seq(Frames) /\ <<>> \in Seq(Frames)
  BY <1>2
<1>4. FrameOf(raw) = <<>> \/ FrameOf(raw) = <<frame>>
  BY Zenon DEF FrameOf, frame
<1> QED
  BY <1>3, <1>4

\* What draining comes to from a position on.
Drained(g, text) ==
  \A from \in 1..(Len(text) + 1) :
    /\ g[from] = Stage(g, text, from)
    /\ g[from].frames \in Seq(Frames) /\ g[from].buffer \in Seq(Pieces)
    /\ g[from] = [frames |-> g[from].frames, buffer |-> g[from].buffer]

LEMMA DrainSteps ==
  ASSUME NEW text \in Seq(Pieces)
  PROVE  \E g : Drain(text) = g[1] /\ Drained(g, text)
<1> DEFINE L == Len(text)
           g == CHOOSE h : Drains(h, text, 1)
<1>1. L \in Nat
  OBVIOUS
<1>2. Drains(g, text, 1)
  BY DrainsExists
<1>3. Drain(text) = g[1]
  BY Zenon DEF Drain, Drains, Stage
<1> HIDE DEF g
<1>4. \A from \in 1..(L + 1) : g[from] = Stage(g, text, from)
  <2>1. g = [from \in 1..(L + 1) |-> Stage(g, text, from)]
    BY <1>2 DEF Drains
  <2> QED
    BY <2>1
<1> DEFINE Typed(d) == /\ d.frames \in Seq(Frames) /\ d.buffer \in Seq(Pieces)
                       /\ d = [frames |-> d.frames, buffer |-> d.buffer]
           Odd == {n \in 0..L : ~Typed(g[L + 1 - n])}
<1> HIDE DEF Typed
<1>5. ASSUME Odd # {} PROVE FALSE
  <2>1. PICK n \in Odd : \A k \in Odd : n <= k
    <3>1. Odd \subseteq Nat
      BY <1>1
    <3> HIDE DEF Odd
    <3> QED
      BY <1>5, <3>1, LeastNatural
  <2> DEFINE from == L + 1 - n
             s == Separator(text, from)
  <2>2. n \in 0..L /\ ~Typed(g[from]) /\ from \in 1..(L + 1)
    BY <1>1
  <2>3. s \in from..(L + 1) /\ (s <= L => s + 2 \in (from + 1)..(L + 1))
    BY <2>2, SeparatorFacts
  <2>4. \A i \in (from + 1)..(L + 1) : Typed(g[i])
    <3> SUFFICES ASSUME NEW i \in (from + 1)..(L + 1) PROVE Typed(g[i])
      OBVIOUS
    <3>1. L + 1 - i \in 0..L /\ L + 1 - i < n /\ L + 1 - (L + 1 - i) = i
      BY <1>1, <2>2
    <3>2. L + 1 - i \notin Odd
      BY <1>1, <2>1, <2>2, <3>1
    <3> QED
      BY <3>1, <3>2
  <2> HIDE DEF s, from
  <2>5. CASE s > L
    <3>1. g[from] = [frames |-> <<>>, buffer |-> SubSeq(text, from, L)]
      BY <1>4, <2>2, <2>5 DEF Stage, s
    <3>2. SubSeq(text, from, L) \in Seq(Pieces) /\ <<>> \in Seq(Frames)
      BY <1>1, <2>2
    <3> QED
      BY <2>2, <3>1, <3>2 DEF Typed
  <2>6. CASE ~(s > L)
    <3>1. s <= L /\ s + 2 \in (from + 1)..(L + 1)
      BY <1>1, <2>2, <2>3, <2>6
    <3> DEFINE raw == SubSeq(text, from, s - 1)
    <3>2. raw \in Seq(Pieces)
      BY <1>1, <2>2, <2>3, <3>1
    <3> HIDE DEF raw
    <3>3. /\ g[s + 2].frames \in Seq(Frames) /\ g[s + 2].buffer \in Seq(Pieces)
          /\ FrameOf(raw) \in Seq(Frames)
      BY <2>4, <3>1, <3>2, FrameOfIsFrames DEF Typed
    <3>4. g[from] = [frames |-> FrameOf(raw) \o g[s + 2].frames, buffer |-> g[s + 2].buffer]
      BY <1>4, <2>2, <2>6 DEF Stage, s, raw
    <3>5. FrameOf(raw) \o g[s + 2].frames \in Seq(Frames)
      BY <3>3, ConcatProperties
    <3> QED
      BY <2>2, <3>3, <3>4, <3>5 DEF Typed
  <2> QED
    BY <2>5, <2>6
<1>6. ASSUME NEW from \in 1..(L + 1) PROVE Typed(g[from])
  <2>1. L + 1 - from \in 0..L /\ L + 1 - (L + 1 - from) = from
    BY <1>1
  <2>2. L + 1 - from \notin Odd
    BY <1>5
  <2> QED
    BY <2>1, <2>2
<1> QED
  BY <1>3, <1>4, <1>6 DEF Drained, Typed

(***************************************************************************)
(* Draining goes by positions, and the buffer is what is left of the text: *)
(* to drain a rest of the text is to go on from where it starts.           *)
(***************************************************************************)
Rest(text, i) == SubSeq(text, i, Len(text))

LEMMA RestFacts ==
  ASSUME NEW text \in Seq(Pieces), NEW i \in 1..(Len(text) + 1)
  PROVE  /\ Rest(text, i) \in Seq(Pieces) /\ Len(Rest(text, i)) = Len(text) + 1 - i
         /\ \A k \in 1..(Len(text) + 1 - i) : Rest(text, i)[k] = text[i + k - 1]
<1>1. i \in Int /\ Len(text) \in Int /\ \A k \in i..Len(text) : text[k] \in Pieces
  OBVIOUS
<1>2. /\ Rest(text, i) \in Seq(Pieces)
      /\ Len(Rest(text, i)) = IF i <= Len(text) THEN Len(text) - i + 1 ELSE 0
      /\ \A k \in 1..(Len(text) - i + 1) : Rest(text, i)[k] = text[i + k - 1]
  BY <1>1, SubSeqProperties DEF Rest
<1>3. Len(text) - i + 1 = Len(text) + 1 - i /\ (~(i <= Len(text)) => Len(text) + 1 - i = 0)
  BY <1>1
<1> QED
  BY <1>2, <1>3

LEMMA CutOfRest ==
  ASSUME NEW text \in Seq(Pieces), NEW i \in 1..(Len(text) + 1),
         NEW k \in 1..(Len(text) + 2 - i), NEW n \in (k - 1)..(Len(text) + 1 - i)
  PROVE  SubSeq(Rest(text, i), k, n) = SubSeq(text, i + k - 1, i + n - 1)
<1> DEFINE v == Rest(text, i)
           a == SubSeq(v, k, n)
           b == SubSeq(text, i + k - 1, i + n - 1)
           L == Len(text)
<1>1. /\ v \in Seq(Pieces) /\ Len(v) = L + 1 - i
      /\ \A j \in 1..(L + 1 - i) : v[j] = text[i + j - 1]
  BY RestFacts
<1>2. L \in Nat /\ i \in Int /\ k \in Int /\ n \in Int
  OBVIOUS
<1> HIDE DEF v, L
<1>3. \A j \in k..n : v[j] \in Pieces
  BY <1>1, <1>2 DEF L
<1>4. /\ a \in Seq(Pieces) /\ Len(a) = (IF k <= n THEN n - k + 1 ELSE 0)
      /\ \A j \in 1..(n - k + 1) : a[j] = v[k + j - 1]
  BY <1>2, <1>3, SubSeqProperties
<1>5. \A j \in (i + k - 1)..(i + n - 1) : text[j] \in Pieces
  BY <1>2 DEF L
<1>6. /\ b \in Seq(Pieces)
      /\ Len(b) = (IF i + k - 1 <= i + n - 1 THEN (i + n - 1) - (i + k - 1) + 1 ELSE 0)
      /\ \A j \in 1..((i + n - 1) - (i + k - 1) + 1) : b[j] = text[(i + k - 1) + j - 1]
  BY <1>2, <1>5, SubSeqProperties
<1> HIDE DEF a, b
<1>7. Len(a) = Len(b)
  BY <1>2, <1>4, <1>6
<1>8. ASSUME NEW j \in 1..Len(a) PROVE a[j] = b[j]
  <2>1. j \in 1..(n - k + 1) /\ j \in 1..((i + n - 1) - (i + k - 1) + 1)
    BY <1>2, <1>4
  <2>2. k + j - 1 \in 1..(L + 1 - i) /\ i + (k + j - 1) - 1 = (i + k - 1) + j - 1
    BY <1>2, <2>1 DEF L
  <2> QED
    BY <1>1, <1>4, <1>6, <2>1, <2>2
<1>9. a = b
  BY <1>4, <1>6, <1>7, <1>8, SeqEqual
<1> QED
  BY <1>9 DEF a, b, v

LEMMA SeparatorOfRest ==
  ASSUME NEW text \in Seq(Pieces), NEW i \in 1..(Len(text) + 1), NEW k \in 1..(Len(text) + 2 - i)
  PROVE  Separator(text, i + k - 1) = Separator(Rest(text, i), k) + i - 1
<1> DEFINE v == Rest(text, i)
           L == Len(text)
           s == Separator(v, k)
<1>1. /\ v \in Seq(Pieces) /\ Len(v) = L + 1 - i
      /\ \A j \in 1..(L + 1 - i) : v[j] = text[i + j - 1]
  BY RestFacts
<1>2. L \in Nat /\ i \in Int /\ k \in Int
  OBVIOUS
<1> HIDE DEF v
<1>3. ASSUME NEW j \in 1..(L + 1 - i) PROVE IsSeparator(v, j) <=> IsSeparator(text, j + i - 1)
  <2>1. j < Len(v) <=> j + i - 1 < L
    BY <1>1, <1>2
  <2>2. v[j] = text[j + i - 1]
    BY <1>1, <1>2
  <2>3. j < Len(v) => v[j + 1] = text[(j + i - 1) + 1]
    BY <1>1, <1>2
  <2> QED
    BY <2>1, <2>2, <2>3 DEF IsSeparator
<1>4. k \in 1..(Len(v) + 1)
  BY <1>1, <1>2
<1>5. /\ s \in k..(Len(v) + 1) /\ (s <= Len(v) => IsSeparator(v, s))
      /\ \A j \in k..(s - 1) : ~IsSeparator(v, j)
  BY <1>1, <1>4, SeparatorFacts
<1> HIDE DEF s
<1>6. i + k - 1 \in 1..(L + 1) /\ s + i - 1 \in (i + k - 1)..(L + 1)
  BY <1>1, <1>2, <1>5
<1>7. s + i - 1 <= L => IsSeparator(text, s + i - 1)
  BY <1>1, <1>2, <1>3, <1>5
<1>8. ASSUME NEW j \in (i + k - 1)..((s + i - 1) - 1) PROVE ~IsSeparator(text, j)
  <2>1. j - i + 1 \in k..(s - 1) /\ j - i + 1 \in 1..(L + 1 - i) /\ (j - i + 1) + i - 1 = j
    BY <1>1, <1>2, <1>5
  <2> QED
    BY <1>3, <1>5, <2>1
<1>9. Separator(text, i + k - 1) = s + i - 1
  BY <1>6, <1>7, <1>8, SeparatorIs
<1> QED
  BY <1>9 DEF s, v

LEMMA DrainOfRest ==
  ASSUME NEW text \in Seq(Pieces), NEW i \in 1..(Len(text) + 1), NEW g, Drained(g, text)
  PROVE  Drain(Rest(text, i)) = g[i]
<1> DEFINE v == Rest(text, i)
           L == Len(text)
           M == Len(v)
<1>1. v \in Seq(Pieces) /\ M = L + 1 - i /\ L \in Nat /\ i \in Nat /\ M \in Nat
  BY RestFacts
<1>2. \A k \in 1..(M + 1), n \in Int :
        n \in (k - 1)..M => SubSeq(v, k, n) = SubSeq(text, i + k - 1, i + n - 1)
  <2> SUFFICES ASSUME NEW k \in 1..(M + 1), NEW n \in Int, n \in (k - 1)..M
               PROVE  SubSeq(v, k, n) = SubSeq(text, i + k - 1, i + n - 1)
    OBVIOUS
  <2>1. k \in 1..(L + 2 - i) /\ n \in (k - 1)..(L + 1 - i)
    BY <1>1
  <2> QED
    BY <2>1, CutOfRest
<1>3. ASSUME NEW k \in 1..(M + 1) PROVE Separator(text, i + k - 1) = Separator(v, k) + i - 1
  <2>1. k \in 1..(L + 2 - i)
    BY <1>1
  <2> QED
    BY <2>1, SeparatorOfRest
<1> HIDE DEF v
<1>4. PICK h : Drain(v) = h[1] /\ Drained(h, v)
  BY <1>1, DrainSteps
<1> HIDE DEF M, L
<1> DEFINE Same(k) == h[k] = g[i + k - 1]
           Odd == {n \in 0..M : ~Same(M + 1 - n)}
<1> HIDE DEF Same
<1>5. ASSUME Odd # {} PROVE FALSE
  <2>1. PICK n \in Odd : \A j \in Odd : n <= j
    <3>1. Odd \subseteq Nat
      BY <1>1
    <3> HIDE DEF Odd
    <3> QED
      BY <1>5, <3>1, LeastNatural
  <2> DEFINE k == M + 1 - n
             s == Separator(v, k)
  <2>2. n \in 0..M /\ ~Same(k) /\ k \in 1..(M + 1)
    BY <1>1
  <2>3. s \in k..(M + 1) /\ (s <= M => s + 2 \in (k + 1)..(M + 1))
    BY <1>1, <2>2, SeparatorFacts DEF M
  <2>4. \A j \in (k + 1)..(M + 1) : Same(j)
    <3> SUFFICES ASSUME NEW j \in (k + 1)..(M + 1) PROVE Same(j)
      OBVIOUS
    <3>1. M + 1 - j \in 0..M /\ M + 1 - j < n /\ M + 1 - (M + 1 - j) = j
      BY <1>1, <2>2
    <3>2. M + 1 - j \notin Odd
      <4>1. M + 1 - j \in Int /\ n \in Int /\ ~(n <= M + 1 - j)
        BY <1>1, <2>2, <3>1
      <4> HIDE DEF Odd, k
      <4> QED
        BY <2>1, <4>1
    <3> QED
      BY <3>1, <3>2
  <2>5. Separator(text, i + k - 1) = s + i - 1
    BY <1>3, <2>2
  <2>6. h[k] = Stage(h, v, k)
    BY <1>4, <2>2 DEF Drained, M
  <2>7. i + k - 1 \in 1..(L + 1)
    BY <1>1, <2>2
  <2>8. g[i + k - 1] = Stage(g, text, i + k - 1)
    BY <2>7 DEF Drained, L
  <2> HIDE DEF s, k
  <2>9. CASE s > M
    <3>1. h[k] = [frames |-> <<>>, buffer |-> SubSeq(v, k, M)]
      BY <2>6, <2>9 DEF Stage, s, M
    <3>2. s + i - 1 > L
      BY <1>1, <2>2, <2>3, <2>9
    <3>3. g[i + k - 1] = [frames |-> <<>>, buffer |-> SubSeq(text, i + k - 1, L)]
      BY <2>5, <2>8, <3>2 DEF Stage, L
    <3>4. M \in Int /\ M \in (k - 1)..M /\ i + M - 1 = L
      BY <1>1, <2>2
    <3>5. SubSeq(v, k, M) = SubSeq(text, i + k - 1, L)
      BY <1>2, <2>2, <3>4
    <3> QED
      BY <2>2, <3>1, <3>3, <3>5 DEF Same
  <2>10. CASE ~(s > M)
    <3>1. s <= M /\ s + 2 \in (k + 1)..(M + 1)
      BY <1>1, <2>2, <2>3, <2>10
    <3> DEFINE raw == SubSeq(v, k, s - 1)
               there == SubSeq(text, i + k - 1, (s + i - 1) - 1)
    <3>2. raw = there
      <4>1. s - 1 \in Int /\ s - 1 \in (k - 1)..M /\ i + (s - 1) - 1 = (s + i - 1) - 1
        BY <1>1, <2>2, <2>3, <3>1
      <4> QED
        BY <1>2, <2>2, <4>1
    <3> HIDE DEF raw, there
    <3>3. h[k] = [frames |-> FrameOf(raw) \o h[s + 2].frames, buffer |-> h[s + 2].buffer]
      BY <2>6, <2>10 DEF Stage, s, M, raw
    <3>4. ~(s + i - 1 > L)
      BY <1>1, <2>2, <2>3, <3>1
    <3>5. g[i + k - 1] = [frames |-> FrameOf(there) \o g[(s + i - 1) + 2].frames,
                          buffer |-> g[(s + i - 1) + 2].buffer]
      BY <2>5, <2>8, <3>4 DEF Stage, L, there
    <3>6. h[s + 2] = g[(s + i - 1) + 2]
      <4>1. (s + i - 1) + 2 = i + (s + 2) - 1
        BY <1>1, <2>2, <2>3
      <4> QED
        BY <2>4, <3>1, <4>1 DEF Same
    <3> QED
      BY <2>2, <3>2, <3>3, <3>5, <3>6 DEF Same
  <2> QED
    BY <2>9, <2>10
<1>6. Same(1)
  <2>1. M \in 0..M /\ M + 1 - M = 1
    BY <1>1
  <2>2. M \notin Odd
    BY <1>5
  <2> QED
    BY <2>1, <2>2
<1>7. i + 1 - 1 = i
  BY <1>1
<1> QED
  BY <1>4, <1>6, <1>7 DEF Same, v

(***************************************************************************)
(* More text: what was complete stays, what was left goes on.              *)
(***************************************************************************)
LEMMA TextAndMore ==
  ASSUME NEW t \in Seq(Pieces), NEW c \in Seq(Pieces)
  PROVE  /\ t \o c \in Seq(Pieces) /\ Len(t \o c) = Len(t) + Len(c)
         /\ \A i \in 1..(Len(t) + 1) : Rest(t \o c, i) = Rest(t, i) \o c
         /\ \A i \in 1..Len(t), n \in 0..Len(t) : SubSeq(t \o c, i, n) = SubSeq(t, i, n)
<1> DEFINE u == t \o c
           T == Len(t)
           C == Len(c)
<1>1. /\ u \in Seq(Pieces) /\ Len(u) = T + C /\ T \in Nat /\ C \in Nat
      /\ \A i \in 1..(T + C) : u[i] = IF i <= T THEN t[i] ELSE c[i - T]
  BY ConcatProperties
<1> HIDE DEF u
<1>2. ASSUME NEW i \in 1..(T + 1) PROVE Rest(u, i) = Rest(t, i) \o c
  <2> DEFINE a == Rest(u, i)
             r == Rest(t, i)
             b == r \o c
  <2>1. i \in 1..(Len(u) + 1)
    BY <1>1
  <2>2. /\ a \in Seq(Pieces) /\ Len(a) = T + C + 1 - i
        /\ \A k \in 1..(T + C + 1 - i) : a[k] = u[i + k - 1]
    <3>1. /\ a \in Seq(Pieces) /\ Len(a) = Len(u) + 1 - i
          /\ \A k \in 1..(Len(u) + 1 - i) : a[k] = u[i + k - 1]
      BY <1>1, <2>1, RestFacts
    <3>2. Len(u) = T + C
      BY <1>1
    <3> HIDE DEF a, T, C
    <3> QED
      BY <3>1, <3>2
  <2>3. /\ r \in Seq(Pieces) /\ Len(r) = T + 1 - i
        /\ \A k \in 1..(T + 1 - i) : r[k] = t[i + k - 1]
    BY RestFacts
  <2> HIDE DEF a, r
  <2>4. /\ b \in Seq(Pieces) /\ Len(b) = (T + 1 - i) + C
        /\ \A k \in 1..((T + 1 - i) + C) : b[k] = IF k <= T + 1 - i THEN r[k] ELSE c[k - (T + 1 - i)]
    BY <2>3, ConcatProperties
  <2> HIDE DEF b, T, C
  <2>5. Len(a) = Len(b)
    BY <1>1, <2>2, <2>4
  <2>6. ASSUME NEW k \in 1..Len(a) PROVE a[k] = b[k]
    <3>1. k \in 1..(T + C + 1 - i) /\ k \in 1..((T + 1 - i) + C) /\ i + k - 1 \in 1..(T + C)
      BY <1>1, <2>2
    <3>2. CASE k <= T + 1 - i
      <4>1. k \in 1..(T + 1 - i) /\ i + k - 1 <= T
        BY <1>1, <3>1, <3>2
      <4> QED
        BY <1>1, <2>2, <2>3, <2>4, <3>1, <3>2, <4>1
    <3>3. CASE ~(k <= T + 1 - i)
      <4>1. ~(i + k - 1 <= T) /\ (i + k - 1) - T = k - (T + 1 - i)
        BY <1>1, <3>1, <3>3
      <4> QED
        BY <1>1, <2>2, <2>4, <3>1, <3>3, <4>1
    <3> QED
      BY <3>2, <3>3
  <2>7. a = b
    BY <2>2, <2>4, <2>5, <2>6, SeqEqual
  <2> QED
    BY <2>7 DEF a, b, r
<1>3. \A i \in 1..T, n \in 0..T : SubSeq(u, i, n) = SubSeq(t, i, n)
  <2> SUFFICES ASSUME NEW i \in 1..T, NEW n \in 0..T
               PROVE  SubSeq(u, i, n) = SubSeq(t, i, n)
    OBVIOUS
  <2>1. CASE n = 0
    BY <1>1, <2>1, SubSeqEmpty
  <2>2. CASE n # 0
    <3>1. n \in 1..Len(t) /\ i \in 1..Len(t)
      BY <1>1, <2>2
    <3> QED
      BY <3>1, SubSeqOfConcat1 DEF u
  <2> QED
    BY <2>1, <2>2
<1> QED
  BY <1>1, <1>2, <1>3 DEF u

LEMMA SeparatorStays ==
  ASSUME NEW t \in Seq(Pieces), NEW c \in Seq(Pieces), NEW i \in 1..(Len(t) + 1),
         Separator(t, i) <= Len(t)
  PROVE  Separator(t \o c, i) = Separator(t, i)
<1> DEFINE u == t \o c
           s == Separator(t, i)
<1>1. /\ u \in Seq(Pieces) /\ Len(u) = Len(t) + Len(c) /\ Len(t) \in Nat /\ Len(c) \in Nat
      /\ \A k \in 1..(Len(t) + Len(c)) : u[k] = IF k <= Len(t) THEN t[k] ELSE c[k - Len(t)]
  BY ConcatProperties
<1>2. /\ s \in i..(Len(t) + 1) /\ IsSeparator(t, s) /\ s < Len(t)
      /\ \A j \in i..(s - 1) : ~IsSeparator(t, j)
  BY SeparatorFacts DEF IsSeparator
<1> HIDE DEF u, s
<1>3. ASSUME NEW j \in 1..Len(t), j < Len(t) PROVE IsSeparator(u, j) <=> IsSeparator(t, j)
  <2>1. u[j] = t[j] /\ u[j + 1] = t[j + 1] /\ j < Len(u)
    BY <1>1, <1>3
  <2> QED
    BY <1>3, <2>1 DEF IsSeparator
<1>4. i \in 1..(Len(u) + 1) /\ s \in i..(Len(u) + 1)
  BY <1>1, <1>2
<1>5. IsSeparator(u, s) /\ \A j \in i..(s - 1) : ~IsSeparator(u, j)
  <2>1. s \in 1..Len(t) /\ \A j \in i..(s - 1) : j \in 1..Len(t) /\ j < Len(t)
    BY <1>1, <1>2
  <2> QED
    BY <1>2, <1>3, <2>1
<1>6. Separator(u, i) = s
  BY <1>1, <1>4, <1>5, SeparatorIs
<1> QED
  BY <1>6 DEF u, s

\* Drained so far and drained after: one after the other.
LEMMA DrainContinues ==
  ASSUME NEW t \in Seq(Pieces), NEW c \in Seq(Pieces)
  PROVE  LET before == Drain(t)  after == Drain(before.buffer \o c) IN
         /\ Drain(t \o c) = [frames |-> before.frames \o after.frames, buffer |-> after.buffer]
         /\ before.buffer \in Seq(Pieces) /\ before.frames \in Seq(Frames)
         /\ after.frames \in Seq(Frames) /\ after.buffer \in Seq(Pieces)
<1> DEFINE u == t \o c
           T == Len(t)
           On(d) == Drain(d.buffer \o c)
           Goes(x, d) == x = [frames |-> d.frames \o On(d).frames, buffer |-> On(d).buffer]
<1>1. /\ u \in Seq(Pieces) /\ Len(u) = T + Len(c) /\ T \in Nat /\ Len(c) \in Nat
      /\ \A i \in 1..(T + 1) : Rest(u, i) = Rest(t, i) \o c
      /\ \A i \in 1..T, n \in 0..T : SubSeq(u, i, n) = SubSeq(t, i, n)
  BY TextAndMore
<1>2. \A i \in 1..(T + 1) : Separator(t, i) <= T => Separator(u, i) = Separator(t, i)
  BY SeparatorStays
<1> HIDE DEF u
<1>3. PICK g : Drain(t) = g[1] /\ Drained(g, t)
  BY DrainSteps
<1>4. PICK h : Drain(u) = h[1] /\ Drained(h, u)
  BY <1>1, DrainSteps
<1>5. \A d : d.buffer \in Seq(Pieces) =>
             /\ On(d).frames \in Seq(Frames) /\ On(d).buffer \in Seq(Pieces)
             /\ On(d) = [frames |-> On(d).frames, buffer |-> On(d).buffer]
  <2> SUFFICES ASSUME NEW d, d.buffer \in Seq(Pieces)
               PROVE  /\ On(d).frames \in Seq(Frames) /\ On(d).buffer \in Seq(Pieces)
                      /\ On(d) = [frames |-> On(d).frames, buffer |-> On(d).buffer]
    OBVIOUS
  <2> DEFINE w == d.buffer \o c
  <2>1. w \in Seq(Pieces)
    BY ConcatProperties
  <2> HIDE DEF w
  <2>2. PICK f : Drain(w) = f[1] /\ Drained(f, w)
    BY <2>1, DrainSteps
  <2>3. 1 \in 1..(Len(w) + 1)
    BY <2>1
  <2>4. /\ f[1].frames \in Seq(Frames) /\ f[1].buffer \in Seq(Pieces)
        /\ f[1] = [frames |-> f[1].frames, buffer |-> f[1].buffer]
    BY <2>2, <2>3 DEF Drained
  <2>5. On(d) = f[1]
    BY <2>2 DEF w
  <2> HIDE DEF On
  <2> QED
    BY <2>4, <2>5
<1> DEFINE Right(i) == Goes(h[i], g[i])
           Odd == {n \in 0..T : ~Right(T + 1 - n)}
<1> HIDE DEF Right, T, On
<1>6. ASSUME Odd # {} PROVE FALSE
  <2>1. PICK n \in Odd : \A j \in Odd : n <= j
    <3>1. Odd \subseteq Nat
      BY <1>1
    <3> HIDE DEF Odd
    <3> QED
      BY <1>6, <3>1, LeastNatural
  <2> DEFINE i == T + 1 - n
             s == Separator(t, i)
  <2>2. n \in 0..T /\ ~Right(i) /\ i \in 1..(T + 1)
    BY <1>1
  <2>3. s \in i..(T + 1) /\ (s <= T => s + 2 \in (i + 1)..(T + 1) /\ s < T)
    BY <2>2, SeparatorFacts DEF T, IsSeparator
  <2>4. \A j \in (i + 1)..(T + 1) : Right(j)
    <3> SUFFICES ASSUME NEW j \in (i + 1)..(T + 1) PROVE Right(j)
      OBVIOUS
    <3>1. T + 1 - j \in 0..T /\ T + 1 - j < n /\ T + 1 - (T + 1 - j) = j
      BY <1>1, <2>2
    <3>2. T + 1 - j \notin Odd
      <4>1. T + 1 - j \in Int /\ n \in Int /\ ~(n <= T + 1 - j)
        BY <1>1, <2>2, <3>1
      <4> HIDE DEF Odd, i
      <4> QED
        BY <2>1, <4>1
    <3> QED
      BY <3>1, <3>2
  <2> HIDE DEF s, i
  <2>5. /\ g[i] = Stage(g, t, i) /\ g[i].buffer \in Seq(Pieces) /\ g[i].frames \in Seq(Frames)
    BY <1>3, <2>2 DEF Drained, T
  <2>6. i \in 1..(Len(u) + 1)
    BY <1>1, <2>2
  <2>7. h[i] = Stage(h, u, i)
    BY <1>4, <2>6 DEF Drained
  <2>8. CASE s > T
    <3>1. g[i] = [frames |-> <<>>, buffer |-> Rest(t, i)]
      BY <2>5, <2>8 DEF Stage, s, T, Rest
    <3>2. g[i].frames = <<>> /\ g[i].buffer = Rest(t, i)
      BY <3>1
    <3>3. h[i] = Drain(Rest(u, i))
      BY <1>1, <1>4, <2>6, DrainOfRest
    <3>4. Rest(u, i) = g[i].buffer \o c
      BY <1>1, <2>2, <3>2
    <3>5. h[i] = On(g[i])
      BY <3>3, <3>4 DEF On
    <3>6. On(g[i]).frames \in Seq(Frames)
          /\ On(g[i]) = [frames |-> On(g[i]).frames, buffer |-> On(g[i]).buffer]
      BY <1>5, <2>5
    <3> DEFINE fs == On(g[i]).frames
    <3>7. <<>> \o fs = fs
      <4>1. fs \in Seq(Frames)
        BY <3>6
      <4> HIDE DEF fs
      <4> QED
        BY <4>1, ConcatEmptySeq
    <3> QED
      BY <2>2, <3>2, <3>5, <3>6, <3>7 DEF Right
  <2>9. CASE ~(s > T)
    <3>1. s <= T /\ s + 2 \in (i + 1)..(T + 1) /\ s < T /\ i \in 1..T /\ s - 1 \in 0..T
          /\ s + 2 \in 1..(T + 1)
      BY <1>1, <2>2, <2>3, <2>9
    <3>2. Separator(u, i) = s /\ ~(s > Len(u))
      <4>1. Separator(u, i) = s
        BY <1>2, <2>2, <3>1 DEF s
      <4>2. ~(s > Len(u))
        BY <1>1, <2>2, <2>3, <3>1
      <4> QED
        BY <4>1, <4>2
    <3> DEFINE raw == SubSeq(t, i, s - 1)
               f == FrameOf(raw)
               x == g[s + 2]
               y == h[s + 2]
    <3>3. SubSeq(u, i, s - 1) = raw
      BY <1>1, <3>1
    <3>4. raw \in Seq(Pieces)
      <4>1. \A k \in i..(s - 1) : t[k] \in Pieces
        BY <1>1, <2>2, <3>1 DEF T
      <4>2. i \in Int /\ s - 1 \in Int
        BY <1>1, <2>2, <3>1
      <4> QED
        BY <4>1, <4>2, SubSeqProperties
    <3>5. f \in Seq(Frames)
      <4> HIDE DEF raw
      <4> QED
        BY <3>4, FrameOfIsFrames
    <3>6. x.frames \in Seq(Frames) /\ x.buffer \in Seq(Pieces)
      BY <1>3, <3>1 DEF Drained, T
    <3>7. On(x).frames \in Seq(Frames)
      BY <1>5, <3>6
    <3>8. y = [frames |-> x.frames \o On(x).frames, buffer |-> On(x).buffer]
      BY <2>4, <3>1 DEF Right
    <3>9. g[i] = [frames |-> f \o x.frames, buffer |-> x.buffer]
      BY <2>5, <2>9 DEF Stage, s, T
    <3>10. h[i] = [frames |-> f \o y.frames, buffer |-> y.buffer]
      BY <2>7, <3>2, <3>3 DEF Stage
    <3> DEFINE xs == x.frames
               os == On(x).frames
               fx == f \o xs
               xo == xs \o os
    <3>11. xs \in Seq(Frames) /\ os \in Seq(Frames)
      BY <3>6, <3>7
    <3> HIDE DEF f, x, y, xs, os
    <3>12. fx \o os = f \o xo
      <4>1. (f \o xs) \o os = f \o (xs \o os)
        BY <3>5, <3>11, ConcatAssociative
      <4> QED
        BY <4>1
    <3> HIDE DEF fx, xo
    <3>13. g[i] = [frames |-> fx, buffer |-> x.buffer]
      BY <3>9 DEF fx, xs
    <3>14. g[i].frames = fx /\ g[i].buffer = x.buffer
      BY <3>13
    <3>15. On(g[i]) = On(x)
      BY <3>14 DEF On
    <3>16. y = [frames |-> xo, buffer |-> On(x).buffer]
      BY <3>8 DEF xo, xs, os
    <3>17. y.frames = xo /\ y.buffer = On(x).buffer
      BY <3>16
    <3>18. h[i] = [frames |-> fx \o os, buffer |-> On(x).buffer]
      BY <3>10, <3>12, <3>17
    <3> QED
      BY <2>2, <3>14, <3>15, <3>18 DEF Right, os
  <2> QED
    BY <2>8, <2>9
<1>7. Right(1)
  <2>1. T \in 0..T /\ T + 1 - T = 1
    BY <1>1
  <2>2. T \notin Odd
    BY <1>6
  <2> QED
    BY <2>1, <2>2
<1>8. 1 \in 1..(Len(t) + 1)
  BY <1>1 DEF T
<1>9. g[1].frames \in Seq(Frames) /\ g[1].buffer \in Seq(Pieces)
  BY <1>3, <1>8 DEF Drained
<1>10. On(g[1]).frames \in Seq(Frames) /\ On(g[1]).buffer \in Seq(Pieces)
  BY <1>5, <1>9
<1> QED
  BY <1>3, <1>4, <1>7, <1>9, <1>10 DEF Right, On, u

(***************************************************************************)
(* Chunk after chunk.                                                      *)
(***************************************************************************)
AtTear == /\ received \in 1..(Len(stream) - 1)
          /\ stream[received] = CR /\ stream[received + 1] = LF

Whole == Drain(NormalizeCrlf(SubSeq(stream, 1, received)))

ChunkInv ==
  /\ stream \in Seq(Pieces) /\ received \in 0..Len(stream)
  /\ ~torn => ~AtTear /\ frames = Whole.frames /\ buffer = Whole.buffer

LEMMA DrainNothing ==
  /\ Drain(<<>>) = [frames |-> <<>>, buffer |-> <<>>]
  /\ Drain(<<>>).frames = <<>> /\ Drain(<<>>).buffer = <<>>
<1> DEFINE t == <<>>
<1>1. t \in Seq(Pieces) /\ Len(t) = 0
  OBVIOUS
<1>2. PICK g : Drain(t) = g[1] /\ Drained(g, t)
  BY <1>1, DrainSteps
<1>3. 1 \in 1..(Len(t) + 1)
  BY <1>1
<1>4. Separator(t, 1) > Len(t)
  <2>1. Separator(t, 1) \in 1..(Len(t) + 1)
    BY <1>1, <1>3, SeparatorFacts
  <2> QED
    BY <1>1, <2>1
<1>5. SubSeq(t, 1, Len(t)) = <<>>
  <2>1. Len(t) < 1 /\ 1 \in Int /\ Len(t) \in Int
    BY <1>1
  <2> QED
    BY <2>1, SubSeqEmpty
<1> HIDE DEF t
<1>6. g[1] = [frames |-> <<>>, buffer |-> <<>>]
  BY <1>2, <1>3, <1>4, <1>5 DEF Drained, Stage
<1> QED
  BY <1>2, <1>6 DEF t

LEMMA ChunkInit ==
  ASSUME Init
  PROVE  ChunkInv
<1>1. stream \in Seq(Pieces) /\ received = 0 /\ frames = <<>> /\ buffer = <<>>
  BY FramesAssumption DEF Init
<1>2. Len(stream) \in Nat
  BY <1>1
<1>3. SubSeq(stream, 1, received) = <<>>
  BY <1>1, SubSeqEmpty
<1>4. NormalizeCrlf(<<>>) = <<>>
  BY <1>1, NormalizeIsText
<1>5. Whole.frames = <<>> /\ Whole.buffer = <<>>
  BY <1>3, <1>4, DrainNothing DEF Whole
<1>6. received \in 0..Len(stream) /\ ~AtTear
  BY <1>1, <1>2 DEF AtTear
<1> QED
  BY <1>1, <1>5, <1>6 DEF ChunkInv

LEMMA ChunkStep ==
  ASSUME ChunkInv, push
  PROVE  ChunkInv'
<1>1. PICK n \in 1..MaxPieces :
        /\ received + n <= Len(stream)
        /\ LET parsed == Parsed(SubSeq(stream, received + 1, received + n))
           IN  buffer' = parsed.buffer /\ frames' = frames \o parsed.frames
        /\ received' = received + n
        /\ torn' = (torn \/ (received' < Len(stream)
                             /\ stream[received'] = CR /\ stream[received' + 1] = LF))
        /\ stream' = stream
  BY DEF push
<1>2. /\ stream \in Seq(Pieces) /\ received \in 0..Len(stream) /\ Len(stream) \in Nat
      /\ n \in Nat /\ n >= 1 /\ received \in Nat
  BY FramesAssumption DEF ChunkInv
<1>3. stream' \in Seq(Pieces) /\ received' \in 0..Len(stream')
  BY <1>1, <1>2
<1> DEFINE p == SubSeq(stream, 1, received)
           c == SubSeq(stream, received + 1, received + n)
           t == NormalizeCrlf(p)
           m == NormalizeCrlf(c)
<1>4. ASSUME ~torn'
      PROVE  ~AtTear' /\ frames' = Whole'.frames /\ buffer' = Whole'.buffer
  <2>1. ~torn /\ ~(received' < Len(stream) /\ stream[received'] = CR /\ stream[received' + 1] = LF)
    BY <1>1, <1>4
  <2>2. ~AtTear'
    BY <1>1, <1>2, <2>1 DEF AtTear
  <2>3. ~AtTear /\ frames = Whole.frames /\ buffer = Whole.buffer
    BY <2>1 DEF ChunkInv
  <2>4. /\ p \in Seq(Pieces) /\ Len(p) = received
        /\ \A i \in 1..received : p[i] = stream[i]
    <3>1. \A i \in 1..received : stream[i] \in Pieces
      BY <1>2
    <3>2. /\ p \in Seq(Pieces) /\ Len(p) = IF 1 <= received THEN received - 1 + 1 ELSE 0
          /\ \A i \in 1..(received - 1 + 1) : p[i] = stream[1 + i - 1]
      BY <1>2, <3>1, SubSeqProperties
    <3> HIDE DEF p
    <3> QED
      BY <1>2, <3>2
  <2>5. /\ c \in Seq(Pieces) /\ Len(c) = n /\ c[1] = stream[received + 1]
    <3>1. \A i \in (received + 1)..(received + n) : stream[i] \in Pieces
      BY <1>1, <1>2
    <3>2. received + 1 \in Int /\ received + n \in Int
      BY <1>2
    <3>3. /\ c \in Seq(Pieces)
          /\ Len(c) = IF received + 1 <= received + n THEN (received + n) - (received + 1) + 1 ELSE 0
          /\ \A i \in 1..((received + n) - (received + 1) + 1) : c[i] = stream[(received + 1) + i - 1]
      BY <3>1, <3>2, SubSeqProperties
    <3>4. 1 \in 1..((received + n) - (received + 1) + 1) /\ (received + 1) + 1 - 1 = received + 1
      BY <1>2
    <3> HIDE DEF c
    <3> QED
      BY <1>2, <3>3, <3>4
  <2>6. p \o c = SubSeq(stream, 1, received + n)
    <3>1. /\ 1 \in 1..(Len(stream) + 1) /\ received \in (1 - 1)..Len(stream)
          /\ received + n \in received..Len(stream)
      BY <1>1, <1>2
    <3> QED
      BY <1>2, <3>1, ConcatAdjacentSubSeq
  <2> HIDE DEF p, c
  <2>7. ~Tears(p, c)
    <3>1. p # <<>> => received \in 1..(Len(stream) - 1)
      BY <1>1, <1>2, <2>4
    <3>2. p # <<>> => p[Len(p)] = stream[received]
      BY <2>4, <3>1
    <3> QED
      BY <2>3, <2>5, <3>1, <3>2 DEF Tears, AtTear
  <2>8. NormalizeCrlf(p \o c) = t \o m
    BY <2>4, <2>5, <2>7, NormalizeConcat
  <2>9. t \in Seq(Pieces) /\ m \in Seq(Pieces)
    BY <2>4, <2>5, NormalizeIsText
  <2>10. Whole = Drain(t)
    BY DEF Whole, p
  <2>11. Whole' = Drain(t \o m)
    <3>1. Whole' = Drain(NormalizeCrlf(SubSeq(stream', 1, received')))
      BY DEF Whole
    <3> HIDE DEF t, m
    <3> QED
      BY <1>1, <2>6, <2>8, <3>1
  <2> HIDE DEF t, m
  <2> DEFINE before == Drain(t)
             after == Drain(before.buffer \o m)
  <2>12. Drain(t \o m) = [frames |-> before.frames \o after.frames, buffer |-> after.buffer]
    BY <2>9, DrainContinues
  <2>13. Parsed(c) = Drain(buffer \o m)
    BY DEF Parsed, m
  <2>14. Parsed(c) = after
    BY <2>3, <2>10, <2>13
  <2>15. buffer' = Parsed(c).buffer /\ frames' = frames \o Parsed(c).frames
    BY <1>1 DEF c
  <2>16. frames = before.frames
    BY <2>3, <2>10
  <2> HIDE DEF before, after
  <2> DEFINE x == before.frames \o after.frames
  <2>17. Whole' = [frames |-> x, buffer |-> after.buffer]
    BY <2>11, <2>12
  <2>18. frames' = x /\ buffer' = after.buffer
    BY <2>14, <2>15, <2>16
  <2> HIDE DEF x
  <2>19. Whole'.frames = x /\ Whole'.buffer = after.buffer
    BY <2>17
  <2> QED
    BY <2>2, <2>18, <2>19
<1> QED
  BY <1>3, <1>4 DEF ChunkInv

\* For any text, cut anywhere but inside a CRLF: what SseFrameParser.push has
\* returned, chunk after chunk, is what one push of all the text returns.
THEOREM CutsDoNotShow == Spec => []ChunksDoNotShow
<1>1. Init => ChunkInv
  BY ChunkInit
<1>2. ChunkInv /\ [push]_vars => ChunkInv'
  <2>1. ChunkInv /\ push => ChunkInv'
    BY ChunkStep
  <2>2. ChunkInv /\ UNCHANGED vars => ChunkInv'
    BY DEF ChunkInv, AtTear, Whole, vars
  <2> QED
    BY <2>1, <2>2
<1>3. ChunkInv => ChunksDoNotShow
  BY DEF ChunkInv, ChunksDoNotShow, AsOneChunk, Whole
<1> QED
  BY <1>1, <1>2, <1>3, PTL DEF Spec
=============================================================================
