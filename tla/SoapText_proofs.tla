-------------------------- MODULE SoapText_proofs --------------------------
(* SoapText for any values, names and addresses, in requests and lists of any *)
(* length: a parameter is read out of its envelope as it was given, and the   *)
(* hosts of a list are the ones listed, wherever the list was cut off.        *)
(*                                                                            *)
(* The scanners are recursive functions.  What they compute is proved by      *)
(* induction on sets of positions, from the well-foundedness of < on Nat.     *)
EXTENDS SoapText, SequenceTheorems, WellFoundedInduction, TLAPS

-----------------------------------------------------------------------------
(* Induction and the least element.                                          *)

LEMMA Least ==
    ASSUME NEW T, T \subseteq Nat, T # {}
    PROVE  \E x \in T : \A y \in T : x <= y
<1>1. IsWellFoundedOn(OpToRel(<, Nat), Nat)
  BY NatLessThanWellFounded
<1>2. \E x \in T : \A y \in T : ~ (<<y, x>> \in OpToRel(<, Nat))
  BY <1>1, WFMin
<1>3. \A x \in T : \A y \in T : <<y, x>> \in OpToRel(<, Nat) <=> y < x
  BY DEF OpToRel
<1>4. \E x \in T : \A y \in T : ~ (y < x)
  BY <1>2, <1>3, Zenon
<1>5. \A x \in T : \A y \in T : ~ (y < x) => x <= y
  OBVIOUS
<1> QED
  BY <1>4, <1>5

\* A set of numbers that has 0 and, with a number below n, the next one.
LEMMA Upwards ==
    ASSUME NEW n \in Nat, NEW P, 0 \in P, \A k \in 0 .. n - 1 : k \in P => k + 1 \in P
    PROVE  \A k \in 0 .. n : k \in P
<1> SUFFICES ASSUME NEW k \in 0 .. n, k \notin P
             PROVE  FALSE
  OBVIOUS
<1> DEFINE T == {m \in 0 .. n : m \notin P}
<1>1. PICK x \in T : \A y \in T : x <= y
  <2>1. T \subseteq Nat /\ T # {}
    OBVIOUS
  <2> HIDE DEF T
  <2> QED
    BY <2>1, Least
<1>2. x - 1 \in 0 .. n - 1
  BY <1>1
<1>3. x - 1 \in P
  BY <1>1, <1>2
<1> QED
  BY <1>1, <1>2, <1>3

LEMMA MinOf ==
    ASSUME NEW T, T \subseteq Nat, T # {}
    PROVE  Min(T) \in T /\ \A y \in T : Min(T) <= y
<1>1. \E x \in T : \A y \in T : x <= y
  BY Least
<1> QED
  BY <1>1 DEF Min

LEMMA MaxOf ==
    ASSUME NEW n \in Nat, NEW T, T \subseteq 1 .. n, T # {}
    PROVE  Max(T) \in T /\ \A y \in T : Max(T) >= y
<1> DEFINE U == {m \in 0 .. n : n - m \in T}
<1>1. PICK u \in U : \A y \in U : u <= y
  <2>1. U \subseteq Nat
    OBVIOUS
  <2>2. PICK x \in T : TRUE
    OBVIOUS
  <2>3. n - x \in U
    OBVIOUS
  <2> HIDE DEF U
  <2> QED
    BY <2>1, <2>3, Least
<1>2. n - u \in T
  BY <1>1
<1>3. ASSUME NEW y \in T
      PROVE  n - u >= y
  <2>1. n - y \in U
    OBVIOUS
  <2>2. u <= n - y
    BY <1>1, <2>1
  <2> QED
    BY <2>2
<1>4. \E z \in T : \A y \in T : z >= y
  BY <1>2, <1>3
<1> QED
  BY <1>4 DEF Max

\* What a scan takes from each place on.
Scan(f, n, stop, piece, next) ==
    f = [i \in 1 .. n |-> IF i \in stop THEN <<>> ELSE piece[i] \o f[next[i]]]

\* A scan whose steps go forward is well defined.
LEMMA ScanExists ==
    ASSUME NEW n \in Nat, NEW stop, NEW piece, NEW next,
           \A i \in (1 .. n) \ stop : next[i] \in i + 1 .. n
    PROVE  \E f : Scan(f, n, stop, piece, next)
<1> DEFINE Part(k, g) == g = [i \in n - k + 1 .. n |->
               IF i \in stop THEN <<>> ELSE piece[i] \o g[next[i]]]
           P == {k \in 0 .. n : \E g : Part(k, g)}
<1>1. 0 \in P
  <2> DEFINE g == [i \in n - 0 + 1 .. n |-> <<>>]
  <2>1. n - 0 + 1 .. n = {}
    OBVIOUS
  <2>2. g = [i \in n - 0 + 1 .. n |-> g[i]]
    OBVIOUS
  <2>3. Part(0, g)
    <3> HIDE DEF g
    <3> QED
      BY <2>1, <2>2
  <2>4. 0 \in 0 .. n
    OBVIOUS
  <2> HIDE DEF g, Part
  <2> QED
    BY <2>3, <2>4
<1>2. ASSUME NEW k \in 0 .. n - 1, k \in P
      PROVE  k + 1 \in P
  <2>1. PICK g : Part(k, g)
    BY <1>2
  <2> DEFINE h == [i \in n - (k + 1) + 1 .. n |->
                 IF i = n - k
                 THEN IF i \in stop THEN <<>> ELSE piece[i] \o g[next[i]]
                 ELSE g[i]]
  <2>2. ASSUME NEW i \in n - (k + 1) + 1 .. n
        PROVE  h[i] = IF i \in stop THEN <<>> ELSE piece[i] \o h[next[i]]
    <3>1. CASE i \in stop
      BY <2>1, <3>1
    <3>2. CASE i \notin stop
      <4>1. next[i] \in n - k + 1 .. n /\ next[i] # n - k
        BY <3>2
      <4>2. h[next[i]] = g[next[i]]
        BY <4>1
      <4>3. i # n - k => i \in n - k + 1 .. n /\ g[i] = piece[i] \o g[next[i]]
        <5>1. i # n - k => i \in n - k + 1 .. n
          OBVIOUS
        <5> QED
          BY <2>1, <3>2, <5>1
      <4>4. h[i] = piece[i] \o g[next[i]]
        BY <3>2, <4>3
      <4> QED
        BY <3>2, <4>2, <4>4
    <3> QED
      BY <3>1, <3>2
  <2>3. Part(k + 1, h)
    <3>1. h = [i \in n - (k + 1) + 1 .. n |-> h[i]]
      OBVIOUS
    <3> HIDE DEF h
    <3> QED
      BY <2>2, <3>1
  <2> HIDE DEF h, Part
  <2> QED
    BY <2>3
<1>3. n \in P
  <2> HIDE DEF P
  <2> QED
    BY <1>1, <1>2, Upwards
<1>4. PICK g : Part(n, g)
  BY <1>3
<1>5. n - n + 1 = 1
  OBVIOUS
<1> QED
  BY <1>4, <1>5 DEF Scan

-----------------------------------------------------------------------------
(* A text that is put together from pieces.                                  *)

LEMMA CatAt ==
    ASSUME NEW S, NEW a \in Seq(S), NEW b \in Seq(S)
    PROVE  /\ a \o b \in Seq(S) /\ Len(a \o b) = Len(a) + Len(b)
           /\ \A x \in 1 .. Len(a) : (a \o b)[x] = a[x]
           /\ \A x \in 1 .. Len(b) : (a \o b)[Len(a) + x] = b[x]
<1>1. Len(a) \in Nat /\ Len(b) \in Nat
  BY LenProperties
<1> DEFINE c == a \o b
<1>2. /\ c \in Seq(S) /\ Len(c) = Len(a) + Len(b)
      /\ \A i \in 1 .. Len(a) + Len(b) : c[i] = IF i <= Len(a) THEN a[i] ELSE b[i - Len(a)]
  BY ConcatProperties, Zenon
<1> HIDE DEF c
<1>3. ASSUME NEW x \in 1 .. Len(a)
      PROVE  c[x] = a[x]
  BY <1>1, <1>2
<1>4. ASSUME NEW x \in 1 .. Len(b)
      PROVE  c[Len(a) + x] = b[x]
  <2> DEFINE i == Len(a) + x
  <2>1. i \in 1 .. Len(a) + Len(b) /\ ~ (i <= Len(a)) /\ i - Len(a) = x
    BY <1>1
  <2> HIDE DEF i
  <2>2. c[i] = b[x]
    BY <1>2, <2>1
  <2> QED
    BY <2>2 DEF i
<1> QED
  BY <1>2, <1>3, <1>4 DEF c

\* The pieces stand in the text one after the other, the j-th after off[j].
Laid(text, seqs, off) ==
    /\ off \in [1 .. Len(seqs) + 1 -> Nat] /\ off[1] = 0
    /\ \A j \in 1 .. Len(seqs) :
          /\ off[j + 1] = off[j] + Len(seqs[j])
          /\ \A x \in 1 .. Len(seqs[j]) : text[off[j] + x] = seqs[j][x]
    /\ Len(text) = off[Len(seqs) + 1]

\* FlattenSeq is put together from the front.
LEMMA FlattenExists ==
    ASSUME NEW n \in Nat, NEW seqs
    PROVE  \E f : f = [i \in 1 .. n |-> IF i = 1 THEN seqs[i] ELSE f[i - 1] \o seqs[i]]
<1> DEFINE Part(k, g) ==
               g = [i \in 1 .. k |-> IF i = 1 THEN seqs[i] ELSE g[i - 1] \o seqs[i]]
           P == {k \in 0 .. n : \E g : Part(k, g)}
<1>1. 0 \in P
  <2> DEFINE g == [i \in 1 .. 0 |-> <<>>]
  <2>1. 1 .. 0 = {} /\ 0 \in 0 .. n
    OBVIOUS
  <2>2. g = [i \in 1 .. 0 |-> g[i]]
    OBVIOUS
  <2>3. Part(0, g)
    <3> HIDE DEF g
    <3> QED
      BY <2>1, <2>2
  <2> HIDE DEF g, Part
  <2> QED
    BY <2>1, <2>3
<1>2. ASSUME NEW k \in 0 .. n - 1, k \in P
      PROVE  k + 1 \in P
  <2>1. PICK g : Part(k, g)
    BY <1>2
  <2> DEFINE h == [i \in 1 .. k + 1 |->
                 IF i = k + 1
                 THEN IF i = 1 THEN seqs[i] ELSE g[i - 1] \o seqs[i]
                 ELSE g[i]]
  <2>2. ASSUME NEW i \in 1 .. k + 1
        PROVE  h[i] = IF i = 1 THEN seqs[i] ELSE h[i - 1] \o seqs[i]
    <3>1. i # 1 => h[i - 1] = g[i - 1]
      OBVIOUS
    <3>2. i # k + 1 => i \in 1 .. k /\ g[i] = IF i = 1 THEN seqs[i] ELSE g[i - 1] \o seqs[i]
      <4>1. i # k + 1 => i \in 1 .. k
        OBVIOUS
      <4> QED
        BY <2>1, <4>1
    <3>3. h[i] = IF i = 1 THEN seqs[i] ELSE g[i - 1] \o seqs[i]
      BY <3>2
    <3> QED
      BY <3>1, <3>3
  <2>3. Part(k + 1, h)
    <3>1. h = [i \in 1 .. k + 1 |-> h[i]]
      OBVIOUS
    <3> HIDE DEF h
    <3> QED
      BY <2>2, <3>1
  <2> HIDE DEF h, Part
  <2> QED
    BY <2>3
<1>3. n \in P
  <2> HIDE DEF P
  <2> QED
    BY <1>1, <1>2, Upwards
<1> QED
  BY <1>3

LEMMA FlattenEquation ==
    ASSUME NEW seqs, Len(seqs) \in Nat, Len(seqs) # 0
    PROVE  \E f :
             /\ f = [i \in 1 .. Len(seqs) |-> IF i = 1 THEN seqs[i] ELSE f[i - 1] \o seqs[i]]
             /\ FlattenSeq(seqs) = f[Len(seqs)]
<1>1. \E f : f = [i \in 1 .. Len(seqs) |-> IF i = 1 THEN seqs[i] ELSE f[i - 1] \o seqs[i]]
  BY FlattenExists
<1> QED
  BY <1>1, Zenon DEF FlattenSeq

LEMMA FlattenLaid ==
    ASSUME NEW S, NEW seqs \in Seq(Seq(S))
    PROVE  FlattenSeq(seqs) \in Seq(S) /\ \E off : Laid(FlattenSeq(seqs), seqs, off)
<1> DEFINE n == Len(seqs)
<1>1. n \in Nat /\ \A j \in 1 .. n : seqs[j] \in Seq(S) /\ Len(seqs[j]) \in Nat
  BY ElementOfSeq, LenProperties
<1>2. CASE n = 0
  <2>1. FlattenSeq(seqs) = <<>>
    BY <1>2, EmptySeq DEF FlattenSeq
  <2>2. Laid(<<>>, seqs, [j \in 1 .. n + 1 |-> 0])
    BY <1>2, EmptySeq DEF Laid
  <2> QED
    BY <2>1, <2>2, EmptySeq
<1>3. CASE n # 0
  <2>1. PICK f : /\ f = [i \in 1 .. n |-> IF i = 1 THEN seqs[i] ELSE f[i - 1] \o seqs[i]]
                 /\ FlattenSeq(seqs) = f[n]
    BY <1>1, <1>3, FlattenEquation
  <2> DEFINE off == [j \in 1 .. n + 1 |-> IF j = 1 THEN 0 ELSE Len(f[j - 1])]
             Upto(k) == \A j \in 1 .. k :
                            /\ off[j + 1] = off[j] + Len(seqs[j])
                            /\ \A x \in 1 .. Len(seqs[j]) : f[k][off[j] + x] = seqs[j][x]
             P == {k \in 0 .. n :
                      /\ \A j \in 1 .. k + 1 : off[j] \in Nat /\ off[j] <= off[k + 1]
                      /\ k # 0 => f[k] \in Seq(S) /\ Upto(k)}
  <2>0. n \in Nat /\ n # 0
    BY <1>1, <1>3
  <2> HIDE DEF n
  <2>2. 0 \in P
    BY <2>0
  <2>3. ASSUME NEW k \in 0 .. n - 1, k \in P
        PROVE  k + 1 \in P
    <3>1. seqs[k + 1] \in Seq(S) /\ Len(seqs[k + 1]) \in Nat /\ k + 1 \in 1 .. n
      BY <1>1, <2>0
    <3>2. off[1] = 0 /\ \A j \in 1 .. n : off[j + 1] = Len(f[j])
      BY <2>0
    <3>3. CASE k = 0
      <4>1. f[1] = seqs[1]
        BY <2>1, <3>1, <3>3
      <4>2. off[2] = Len(seqs[1]) /\ off[1] = 0
        BY <3>1, <3>2, <3>3, <4>1
      <4> HIDE DEF off
      <4>3. Upto(1)
        BY <3>1, <3>3, <4>1, <4>2
      <4>4. \A j \in 1 .. 2 : off[j] \in Nat /\ off[j] <= off[2]
        BY <3>1, <3>3, <4>2
      <4> HIDE DEF Upto
      <4> QED
        BY <2>0, <3>1, <3>3, <4>1, <4>3, <4>4
    <3>4. CASE k # 0
      <4>1. f[k] \in Seq(S) /\ Upto(k) /\ k \in 1 .. n
        <5> HIDE DEF off, Upto
        <5> QED
          BY <2>0, <2>3, <3>4
      <4>2. f[k + 1] = f[k] \o seqs[k + 1]
        <5>1. \A i \in 1 .. n, m \in 1 .. n : i = m + 1 => f[i] = f[m] \o seqs[i]
          <6> SUFFICES ASSUME NEW i \in 1 .. n, NEW m \in 1 .. n, i = m + 1
                       PROVE  f[i] = f[m] \o seqs[i]
            OBVIOUS
          <6>1. i # 1 /\ i - 1 = m
            OBVIOUS
          <6> QED
            BY <2>1, <6>1
        <5> QED
          BY <3>1, <4>1, <5>1
      <4>3. off[k + 1] = Len(f[k]) /\ off[k + 2] = Len(f[k + 1])
        BY <3>1, <3>2, <4>1
      <4>4. \A j \in 1 .. k + 1 : off[j] \in Nat /\ off[j] <= off[k + 1]
        BY <2>3
      <4> HIDE DEF off
      <4>5. /\ f[k + 1] \in Seq(S)
            /\ off[k + 2] = off[k + 1] + Len(seqs[k + 1])
            /\ \A x \in 1 .. off[k + 1] : f[k + 1][x] = f[k][x]
            /\ \A x \in 1 .. Len(seqs[k + 1]) : f[k + 1][off[k + 1] + x] = seqs[k + 1][x]
        <5> DEFINE a == f[k]
                   b == seqs[k + 1]
        <5>1. a \in Seq(S) /\ b \in Seq(S) /\ Len(a) \in Nat /\ Len(b) \in Nat
          BY <3>1, <4>1, LenProperties
        <5>2. f[k + 1] = a \o b /\ off[k + 1] = Len(a) /\ off[k + 2] = Len(a \o b)
          BY <4>2, <4>3
        <5>3. a = f[k] /\ b = seqs[k + 1]
          OBVIOUS
        <5> HIDE DEF a, b
        <5>4. /\ a \o b \in Seq(S) /\ Len(a \o b) = Len(a) + Len(b)
              /\ \A x \in 1 .. Len(a) : (a \o b)[x] = a[x]
              /\ \A x \in 1 .. Len(b) : (a \o b)[Len(a) + x] = b[x]
          BY <5>1, CatAt
        <5> QED
          BY <5>1, <5>2, <5>3, <5>4
      <4>6. Upto(k + 1)
        <5> SUFFICES ASSUME NEW j \in 1 .. k + 1
                     PROVE  /\ off[j + 1] = off[j] + Len(seqs[j])
                            /\ \A x \in 1 .. Len(seqs[j]) : f[k + 1][off[j] + x] = seqs[j][x]
          BY DEF Upto
        <5>1. CASE j = k + 1
          BY <4>5, <5>1
        <5>2. CASE j # k + 1
          <6>1. /\ j \in 1 .. k /\ off[j + 1] = off[j] + Len(seqs[j])
                /\ \A x \in 1 .. Len(seqs[j]) : f[k][off[j] + x] = seqs[j][x]
            BY <4>1, <5>2
          <6>2. off[j] \in Nat /\ off[j + 1] <= off[k + 1] /\ off[k + 1] \in Nat
            BY <4>4, <6>1
          <6>3. Len(seqs[j]) \in Nat
            BY <1>1, <2>0, <6>1
          <6>4. \A x \in 1 .. Len(seqs[j]) : off[j] + x \in 1 .. off[k + 1]
            BY <6>1, <6>2, <6>3, SMTT(30)
          <6> QED
            BY <4>5, <6>1, <6>4
        <5> QED
          BY <5>1, <5>2
      <4>7. \A j \in 1 .. k + 2 : off[j] \in Nat /\ off[j] <= off[k + 2]
        BY <3>1, <4>4, <4>5, SMTT(30)
      <4> HIDE DEF Upto
      <4>8. k + 1 + 1 = k + 2 /\ k + 1 \in 0 .. n
        BY <2>0
      <4> QED
        BY <4>5, <4>6, <4>7, <4>8
    <3> QED
      BY <3>3, <3>4
  <2>4. n \in P
    <3>1. \A k \in 0 .. n - 1 : k \in P => k + 1 \in P
      BY <2>3
    <3> HIDE DEF P
    <3>2. \A k \in 0 .. n : k \in P
      BY <2>0, <2>2, <3>1, Upwards
    <3> QED
      BY <2>0, <3>2
  <2>5. f[n] \in Seq(S) /\ Upto(n) /\ \A j \in 1 .. n + 1 : off[j] \in Nat
    BY <2>0, <2>4
  <2>6. off[1] = 0 /\ Len(f[n]) = off[n + 1] /\ off = [j \in 1 .. n + 1 |-> off[j]]
    BY <2>0
  <2>7. n = Len(seqs)
    BY DEF n
  <2> HIDE DEF off
  <2>8. off \in [1 .. n + 1 -> Nat]
    BY <2>5, <2>6
  <2>9. Laid(f[n], seqs, off)
    BY <2>5, <2>6, <2>7, <2>8 DEF Laid
  <2> QED
    BY <2>1, <2>5, <2>9
<1> QED
  BY <1>2, <1>3

LEMMA LaidOrdered ==
    ASSUME NEW S, NEW seqs \in Seq(Seq(S)), NEW text, NEW off, Laid(text, seqs, off)
    PROVE  \A j \in 1 .. Len(seqs) + 1 : \A i \in 1 .. j : off[i] <= off[j]
<1> DEFINE n == Len(seqs)
           P == {k \in 0 .. n : \A i \in 1 .. k + 1 : off[i] <= off[k + 1]}
<1>1. n \in Nat /\ \A j \in 1 .. n : Len(seqs[j]) \in Nat
  BY ElementOfSeq, LenProperties
<1>2. /\ \A j \in 1 .. n + 1 : off[j] \in Nat
      /\ \A j \in 1 .. n : off[j + 1] = off[j] + Len(seqs[j])
  BY DEF Laid
<1> HIDE DEF n
<1>3. 0 \in P
  BY <1>1, <1>2
<1>4. ASSUME NEW k \in 0 .. n - 1, k \in P
      PROVE  k + 1 \in P
  <2>1. off[k + 2] = off[k + 1] + Len(seqs[k + 1]) /\ Len(seqs[k + 1]) \in Nat
    BY <1>1, <1>2
  <2>2. ASSUME NEW i \in 1 .. k + 2
        PROVE  off[i] <= off[k + 2]
    <3>1. i \in 1 .. n + 1 /\ k + 1 \in 1 .. n + 1 /\ k + 2 \in 1 .. n + 1
      BY <1>1
    <3>2. off[i] \in Nat /\ off[k + 1] \in Nat /\ off[k + 2] \in Nat
      BY <1>2, <3>1
    <3>3. i # k + 2 => off[i] <= off[k + 1]
      BY <1>4
    <3> QED
      BY <2>1, <3>2, <3>3
  <2>3. k + 1 \in 0 .. n /\ k + 1 + 1 = k + 2
    BY <1>1
  <2> QED
    BY <2>2, <2>3
<1>5. \A k \in 0 .. n : k \in P
  <2> HIDE DEF P
  <2> QED
    BY <1>1, <1>3, <1>4, Upwards
<1>6. ASSUME NEW j \in 1 .. n + 1
      PROVE  \A i \in 1 .. j : off[i] <= off[j]
  <2>1. j - 1 \in 0 .. n /\ j - 1 + 1 = j
    BY <1>1
  <2>2. j - 1 \in P
    <3> HIDE DEF P
    <3> QED
      BY <1>5, <2>1
  <2> QED
    BY <2>1, <2>2
<1> QED
  BY <1>6 DEF n

\* Every symbol of the text is one of a piece.
LEMMA LaidCovers ==
    ASSUME NEW S, NEW seqs \in Seq(Seq(S)), NEW text, NEW off, Laid(text, seqs, off),
           NEW x \in 1 .. Len(text)
    PROVE  \E j \in 1 .. Len(seqs) : \E y \in 1 .. Len(seqs[j]) : x = off[j] + y
<1> DEFINE n == Len(seqs)
           T == {j \in 1 .. n : x <= off[j + 1]}
<1>1. n \in Nat /\ \A j \in 1 .. n : Len(seqs[j]) \in Nat
  BY ElementOfSeq, LenProperties
<1>2. /\ \A j \in 1 .. n + 1 : off[j] \in Nat
      /\ \A j \in 1 .. n : off[j + 1] = off[j] + Len(seqs[j])
      /\ off[1] = 0 /\ Len(text) = off[n + 1]
  BY DEF Laid
<1> HIDE DEF n
<1>3. PICK j \in T : \A k \in T : j <= k
  <2>1. n # 0
    BY <1>1, <1>2
  <2>2. n \in T /\ T \subseteq Nat
    BY <1>1, <1>2, <2>1
  <2> HIDE DEF T
  <2> QED
    BY <2>2, Least
<1>4. off[j] < x
  <2>1. CASE j = 1
    BY <1>1, <1>2, <2>1
  <2>2. CASE j # 1
    <3>1. j \in 1 .. n /\ j - 1 \in 1 .. n
      BY <1>1, <2>2
    <3>2. j - 1 \notin T
      <4> SUFFICES ASSUME j - 1 \in T
                   PROVE  FALSE
        OBVIOUS
      <4>1. j <= j - 1
        <5> HIDE DEF T
        <5> QED
          BY <1>3
      <4> QED
        BY <3>1, <4>1
    <3>3. j - 1 + 1 = j /\ j \in 1 .. n + 1
      BY <1>1, <3>1
    <3>4. off[j] \in Nat
      BY <1>2, <3>3
    <3> QED
      BY <3>1, <3>2, <3>3, <3>4
  <2> QED
    BY <2>1, <2>2
<1>5. j \in 1 .. n /\ x <= off[j + 1]
  OBVIOUS
<1>6. off[j] \in Nat /\ off[j + 1] = off[j] + Len(seqs[j]) /\ Len(seqs[j]) \in Nat
  BY <1>1, <1>2, <1>5
<1>7. x - off[j] \in 1 .. Len(seqs[j]) /\ x = off[j] + (x - off[j])
  BY <1>4, <1>5, <1>6, SMTT(30)
<1> QED
  BY <1>5, <1>7 DEF n

-----------------------------------------------------------------------------
(* Finding a tag.                                                            *)

\* The symbols of a text.  They are all strings, which the provers do not know
\* of a literal.
Symbol == STRING \cup
    {"<", ">", "/", "&", " ", "amp;", "lt;", "gt;", "action", "List", "Item", "MACAddress", "HostName"}

Stands(text, part, i) ==
    /\ i \in 1 .. Len(text) - Len(part) + 1
    /\ \A x \in 1 .. Len(part) : text[i + x - 1] = part[x]

LEMMA PartAt ==
    ASSUME NEW S, NEW text \in Seq(S), NEW i \in Nat \ {0}, NEW m \in Nat,
           i <= m + 1, m <= Len(text)
    PROVE  /\ SubSeq(text, i, m) \in Seq(S) /\ Len(SubSeq(text, i, m)) = m - i + 1
           /\ \A x \in 1 .. m - i + 1 : SubSeq(text, i, m)[x] = text[i + x - 1]
<1>1. \A x \in i .. m : text[x] \in S
  BY ElementOfSeq, LenProperties
<1>2. i \in Int /\ m \in Int
  OBVIOUS
<1>3. /\ SubSeq(text, i, m) \in Seq(S)
      /\ Len(SubSeq(text, i, m)) = IF i <= m THEN m - i + 1 ELSE 0
      /\ \A x \in 1 .. m - i + 1 : SubSeq(text, i, m)[x] = text[i + x - 1]
  BY <1>1, <1>2, SubSeqProperties, Z3
<1>4. ~ (i <= m) => m - i + 1 = 0
  OBVIOUS
<1> QED
  BY <1>3, <1>4

LEMMA Matches ==
    ASSUME NEW text \in Seq(Symbol), NEW part \in Seq(Symbol), part # <<>>,
           NEW i \in 1 .. Len(text) - Len(part) + 1
    PROVE  SubSeq(text, i, i + Len(part) - 1) = part <=> Stands(text, part, i)
<1> DEFINE n == Len(part)
           s == SubSeq(text, i, i + n - 1)
<1>1. n \in Nat /\ n # 0 /\ Len(text) \in Nat
  BY LenProperties, EmptySeq
<1>2. i \in 1 .. Len(text) - n + 1
  OBVIOUS
<1> HIDE DEF n
<1>4. /\ s \in Seq(Symbol) /\ Len(s) = n
      /\ \A x \in 1 .. n : s[x] = text[i + x - 1]
  <2> DEFINE m == i + n - 1
  <2>1. i \in Nat \ {0} /\ m \in Nat /\ i <= m + 1 /\ m <= Len(text) /\ m - i + 1 = n
    BY <1>1, <1>2
  <2>2. s = SubSeq(text, i, m)
    OBVIOUS
  <2> HIDE DEF m, s
  <2>3. /\ s \in Seq(Symbol) /\ Len(s) = m - i + 1
        /\ \A x \in 1 .. m - i + 1 : s[x] = text[i + x - 1]
    BY <2>1, <2>2, PartAt
  <2> QED
    BY <2>1, <2>3
<1> HIDE DEF s
<1>5. (\A x \in 1 .. n : s[x] = part[x]) => s = part
  <2>1. Len(part) = n
    BY DEF n
  <2> QED
    BY <1>4, <2>1, SeqEqual
<1>6. s = part <=> \A x \in 1 .. n : text[i + x - 1] = part[x]
  BY <1>4, <1>5
<1> QED
  BY <1>2, <1>6 DEF Stands, n, s

LEMMA FindFirst ==
    ASSUME NEW text \in Seq(Symbol), NEW part \in Seq(Symbol), part # <<>>,
           NEW from \in Nat \ {0}, NEW p \in Nat, p >= from, Stands(text, part, p),
           \A i \in from .. p - 1 : ~ Stands(text, part, i)
    PROVE  Find(text, part, from) = p
<1> DEFINE at == {i \in from .. Len(text) - Len(part) + 1 :
                     SubSeq(text, i, i + Len(part) - 1) = part}
<1>1. Len(part) \in Nat /\ Len(text) \in Nat
  BY LenProperties
<1>2. \A i \in from .. Len(text) - Len(part) + 1 : i \in at <=> Stands(text, part, i)
  <2>1. \A i \in from .. Len(text) - Len(part) + 1 : i \in 1 .. Len(text) - Len(part) + 1
    BY <1>1
  <2> QED
    BY <2>1, Matches
<1>3. p \in at
  BY <1>1, <1>2 DEF Stands
<1>4. at \subseteq from .. Len(text) - Len(part) + 1
  OBVIOUS
<1>5. Find(text, part, from) = Min(at)
  BY <1>3 DEF Find
<1> HIDE DEF at
<1>6. Min(at) \in at /\ \A y \in at : Min(at) <= y
  <2>1. at \subseteq Nat
    BY <1>1, <1>4
  <2> QED
    BY <1>3, <2>1, MinOf
<1>7. PICK m \in at : m = Min(at) /\ m <= p
  BY <1>3, <1>6
<1>8. m \in from .. Len(text) - Len(part) + 1 /\ Stands(text, part, m)
  BY <1>2, <1>4, <1>7
<1>9. m \notin from .. p - 1
  BY <1>8
<1> QED
  BY <1>1, <1>5, <1>7, <1>8, <1>9

\* What is found is there.
LEMMA FindStands ==
    ASSUME NEW text \in Seq(Symbol), NEW part \in Seq(Symbol), part # <<>>,
           NEW from \in Nat \ {0}, Find(text, part, from) # 0
    PROVE  /\ Find(text, part, from) \in Nat /\ Find(text, part, from) >= from
           /\ Stands(text, part, Find(text, part, from))
<1> DEFINE at == {i \in from .. Len(text) - Len(part) + 1 :
                     SubSeq(text, i, i + Len(part) - 1) = part}
<1>1. Len(part) \in Nat /\ Len(text) \in Nat
  BY LenProperties
<1>2. \A i \in at : i \in Nat /\ i >= from /\ Stands(text, part, i)
  <2>1. \A i \in at : /\ i \in 1 .. Len(text) - Len(part) + 1 /\ i >= from
                       /\ SubSeq(text, i, i + Len(part) - 1) = part
    BY <1>1
  <2> QED
    BY <2>1, Matches
<1>3. at # {} /\ Find(text, part, from) = Min(at)
  BY DEF Find
<1> HIDE DEF at
<1>4. Min(at) \in at
  BY <1>2, <1>3, MinOf
<1> QED
  BY <1>2, <1>3, <1>4

LEMMA Tags ==
    ASSUME NEW key \in Symbol
    PROVE  /\ Open(key) \in Seq(Symbol) /\ Len(Open(key)) = 3 /\ Open(key) # <<>>
           /\ Open(key)[1] = "<" /\ Open(key)[2] = key /\ Open(key)[3] = ">"
           /\ Close(key) \in Seq(Symbol) /\ Len(Close(key)) = 4 /\ Close(key) # <<>>
           /\ Close(key)[1] = "<" /\ Close(key)[2] = "/" /\ Close(key)[3] = key
           /\ Close(key)[4] = ">"
<1>1. /\ <<"<", key, ">">> \in Seq(Symbol) /\ Len(<<"<", key, ">">>) = 3
      /\ <<"<", "/", key, ">">> \in Seq(Symbol) /\ Len(<<"<", "/", key, ">">>) = 4
  <2>1. "<" \in Symbol /\ ">" \in Symbol /\ "/" \in Symbol
    BY DEF Symbol
  <2> QED
    BY <2>1
<1>2. Len(<<>>) = 0
  BY EmptySeq
<1> QED
  BY <1>1, <1>2 DEF Open, Close

LEMMA OpenStands ==
    ASSUME NEW text \in Seq(Symbol), NEW key \in Symbol, NEW i \in Nat
    PROVE  Stands(text, Open(key), i) <=>
               /\ i \in 1 .. Len(text) - 2
               /\ text[i] = "<" /\ text[i + 1] = key /\ text[i + 2] = ">"
<1> DEFINE part == Open(key)
<1>1. Len(part) = 3 /\ part[1] = "<" /\ part[2] = key /\ part[3] = ">"
  BY Tags
<1>2. Len(text) \in Nat /\ 1 .. 3 = {1, 2, 3}
  BY LenProperties
<1> HIDE DEF part
<1>3. (\A x \in 1 .. 3 : text[i + x - 1] = part[x]) <=>
          text[i] = part[1] /\ text[i + 1] = part[2] /\ text[i + 2] = part[3]
  <2>1. i + 1 - 1 = i /\ i + 2 - 1 = i + 1 /\ i + 3 - 1 = i + 2
    OBVIOUS
  <2> QED
    BY <1>2, <2>1
<1>4. Len(text) - 3 + 1 = Len(text) - 2
  BY <1>2
<1>5. Stands(text, part, i) <=>
          /\ i \in 1 .. Len(text) - 2
          /\ \A x \in 1 .. 3 : text[i + x - 1] = part[x]
  BY <1>1, <1>4 DEF Stands
<1> QED
  BY <1>1, <1>3, <1>5 DEF part

LEMMA CloseStands ==
    ASSUME NEW text \in Seq(Symbol), NEW key \in Symbol, NEW i \in Nat
    PROVE  Stands(text, Close(key), i) <=>
               /\ i \in 1 .. Len(text) - 3
               /\ text[i] = "<" /\ text[i + 1] = "/" /\ text[i + 2] = key /\ text[i + 3] = ">"
<1> DEFINE part == Close(key)
<1>1. Len(part) = 4 /\ part[1] = "<" /\ part[2] = "/" /\ part[3] = key /\ part[4] = ">"
  BY Tags
<1>2. Len(text) \in Nat /\ 1 .. 4 = {1, 2, 3, 4}
  BY LenProperties
<1> HIDE DEF part
<1>3. (\A x \in 1 .. 4 : text[i + x - 1] = part[x]) <=>
          /\ text[i] = part[1] /\ text[i + 1] = part[2] /\ text[i + 2] = part[3]
          /\ text[i + 3] = part[4]
  <2>1. i + 1 - 1 = i /\ i + 2 - 1 = i + 1 /\ i + 3 - 1 = i + 2 /\ i + 4 - 1 = i + 3
    OBVIOUS
  <2> QED
    BY <1>2, <2>1
<1>4. Len(text) - 4 + 1 = Len(text) - 3
  BY <1>2
<1>5. Stands(text, part, i) <=>
          /\ i \in 1 .. Len(text) - 3
          /\ \A x \in 1 .. 4 : text[i + x - 1] = part[x]
  BY <1>1, <1>4 DEF Stands
<1> QED
  BY <1>1, <1>3, <1>5 DEF part

LEMMA ItemStands ==
    ASSUME NEW text \in Seq(Symbol), NEW i \in Nat
    PROVE  Stands(text, <<"<", "Item">>, i) <=>
               i \in 1 .. Len(text) - 1 /\ text[i] = "<" /\ text[i + 1] = "Item"
<1> DEFINE part == <<"<", "Item">>
<1>1. Len(part) = 2 /\ part[1] = "<" /\ part[2] = "Item"
  OBVIOUS
<1>2. Len(text) \in Nat /\ 1 .. 2 = {1, 2}
  BY LenProperties
<1> HIDE DEF part
<1>3. (\A x \in 1 .. 2 : text[i + x - 1] = part[x]) <=>
          text[i] = part[1] /\ text[i + 1] = part[2]
  <2>1. i + 1 - 1 = i /\ i + 2 - 1 = i + 1
    OBVIOUS
  <2> QED
    BY <1>2, <2>1
<1>4. Len(text) - 2 + 1 = Len(text) - 1
  BY <1>2
<1>5. Stands(text, part, i) <=>
          /\ i \in 1 .. Len(text) - 1
          /\ \A x \in 1 .. 2 : text[i + x - 1] = part[x]
  BY <1>1, <1>4 DEF Stands
<1> QED
  BY <1>1, <1>3, <1>5 DEF part

LEMMA ElementAt ==
    ASSUME NEW key \in Symbol, NEW content \in Seq(Symbol)
    PROVE  LET e == Element(key, content)
               n == Len(content)
           IN  /\ e \in Seq(Symbol) /\ n \in Nat /\ Len(e) = n + 7
               /\ e[1] = "<" /\ e[2] = key /\ e[3] = ">"
               /\ \A x \in 1 .. n : e[3 + x] = content[x]
               /\ e[n + 4] = "<" /\ e[n + 5] = "/" /\ e[n + 6] = key /\ e[n + 7] = ">"
<1> DEFINE n == Len(content)
           o == Open(key)
           c == Close(key)
           front == o \o content
           e == front \o c
<1>1. n \in Nat
  BY LenProperties
<1>2. /\ o \in Seq(Symbol) /\ Len(o) = 3 /\ o[1] = "<" /\ o[2] = key /\ o[3] = ">"
      /\ c \in Seq(Symbol) /\ Len(c) = 4 /\ c[1] = "<" /\ c[2] = "/" /\ c[3] = key /\ c[4] = ">"
  BY Tags
<1>3. Element(key, content) = e /\ n = Len(content)
  BY DEF Element
<1> HIDE DEF n, o, c
<1>a. o \in Seq(Symbol)
  BY <1>2
<1>b. c \in Seq(Symbol)
  BY <1>2
<1>4. /\ front \in Seq(Symbol) /\ Len(front) = Len(o) + Len(content)
      /\ \A x \in 1 .. Len(o) : front[x] = o[x]
      /\ \A x \in 1 .. Len(content) : front[Len(o) + x] = content[x]
  BY <1>a, CatAt
<1> HIDE DEF front
<1>5. /\ e \in Seq(Symbol) /\ Len(e) = Len(front) + Len(c)
      /\ \A x \in 1 .. Len(front) : e[x] = front[x]
      /\ \A x \in 1 .. Len(c) : e[Len(front) + x] = c[x]
  <2>1. front \in Seq(Symbol)
    BY <1>4
  <2> QED
    BY <1>b, <2>1, CatAt
<1> HIDE DEF e
<1>6. Len(front) = n + 3 /\ Len(e) = n + 7
  BY <1>1, <1>2, <1>3, <1>4, <1>5
<1>7. e[1] = "<" /\ e[2] = key /\ e[3] = ">" /\ \A x \in 1 .. n : e[3 + x] = content[x]
  BY <1>1, <1>2, <1>3, <1>4, <1>5, <1>6
<1>8. e[n + 4] = "<" /\ e[n + 5] = "/" /\ e[n + 6] = key /\ e[n + 7] = ">"
  <2>1. \A x \in 1 .. 4 : e[n + 3 + x] = c[x]
    BY <1>2, <1>5, <1>6
  <2>2. n + 3 + 1 = n + 4 /\ n + 3 + 2 = n + 5 /\ n + 3 + 3 = n + 6 /\ n + 3 + 4 = n + 7
    BY <1>1
  <2> QED
    BY <1>2, <2>1, <2>2
<1> QED
  BY <1>1, <1>3, <1>5, <1>6, <1>7, <1>8

-----------------------------------------------------------------------------
(* Trimming.                                                                 *)

LEMMA TrimBlank ==
    ASSUME NEW text, \A x \in DOMAIN text : text[x] \in Blanks
    PROVE  Trim(text) = <<>>
BY DEF Trim

LEMMA TrimSolid ==
    ASSUME NEW text \in Seq(Symbol), NEW a \in 1 .. Len(text), NEW b \in 1 .. Len(text),
           text[a] \notin Blanks, text[b] \notin Blanks,
           \A x \in 1 .. a - 1 : text[x] \in Blanks,
           \A x \in b + 1 .. Len(text) : text[x] \in Blanks
    PROVE  Trim(text) = SubSeq(text, a, b)
<1> DEFINE solid == {i \in DOMAIN text : text[i] \notin Blanks}
<1>1. DOMAIN text = 1 .. Len(text) /\ Len(text) \in Nat
  BY LenProperties
<1>2. a \in solid /\ b \in solid
  BY <1>1
<1>3. solid \subseteq 1 .. Len(text)
  BY <1>1
<1>4. \A x \in solid : a <= x /\ x <= b
  BY <1>1
<1>5. Trim(text) = SubSeq(text, Min(solid), Max(solid))
  BY <1>2 DEF Trim
<1> HIDE DEF solid
<1>6. solid \subseteq Nat /\ solid # {}
  BY <1>1, <1>2, <1>3
<1>7. Min(solid) \in solid /\ \A x \in solid : Min(solid) <= x
  BY <1>6, MinOf
<1>8. Max(solid) \in solid /\ \A x \in solid : Max(solid) >= x
  BY <1>1, <1>3, <1>6, MaxOf
<1>9. Min(solid) = a
  <2>1. a \in Nat /\ Min(solid) \in Nat
    <3>1. a \in Nat
      BY <1>1
    <3>2. Min(solid) \in Nat
      BY <1>6, <1>7, Zenon
    <3> QED
      BY <3>1, <3>2
  <2>2. Min(solid) <= a /\ a <= Min(solid)
    BY <1>2, <1>4, <1>7
  <2> QED
    BY <2>1, <2>2
<1>10. Max(solid) = b
  <2>1. b \in Nat /\ Max(solid) \in Nat
    <3>1. b \in Nat
      BY <1>1
    <3>2. Max(solid) \in Nat
      BY <1>6, <1>8, Zenon
    <3> QED
      BY <3>1, <3>2
  <2>2. Max(solid) >= b /\ Max(solid) <= b
    BY <1>2, <1>4, <1>8
  <2> QED
    BY <2>1, <2>2
<1> QED
  BY <1>5, <1>9, <1>10

\* A text is all blank, or has a first and a last symbol that is not.
LEMMA BlankOrSolid ==
    ASSUME NEW text \in Seq(Symbol)
    PROVE  \/ \A x \in DOMAIN text : text[x] \in Blanks
           \/ \E a \in 1 .. Len(text), b \in 1 .. Len(text) :
                 /\ a <= b /\ text[a] \notin Blanks /\ text[b] \notin Blanks
                 /\ \A x \in 1 .. a - 1 : text[x] \in Blanks
                 /\ \A x \in b + 1 .. Len(text) : text[x] \in Blanks
<1> DEFINE solid == {i \in DOMAIN text : text[i] \notin Blanks}
<1>1. DOMAIN text = 1 .. Len(text) /\ Len(text) \in Nat
  BY LenProperties
<1>2. solid \subseteq 1 .. Len(text)
  BY <1>1
<1>3. CASE solid = {}
  BY <1>3
<1>4. CASE solid # {}
  <2> DEFINE a == Min(solid)
             b == Max(solid)
  <2>1. a \in solid /\ \A x \in solid : a <= x
    <3>1. solid \subseteq Nat
      BY <1>1, <1>2
    <3> HIDE DEF solid
    <3> QED
      BY <1>4, <3>1, MinOf
  <2>2. b \in solid /\ \A x \in solid : b >= x
    <3> HIDE DEF solid
    <3> QED
      BY <1>1, <1>2, <1>4, MaxOf
  <2> HIDE DEF a, b
  <2>3. a \in 1 .. Len(text) /\ b \in 1 .. Len(text) /\ a <= b
    <3>1. b >= a
      <4> HIDE DEF solid
      <4> QED
        BY <2>1, <2>2
    <3> QED
      BY <1>1, <2>1, <2>2, <3>1
  <2>4. text[a] \notin Blanks /\ text[b] \notin Blanks
    BY <2>1, <2>2
  <2>5. ASSUME NEW x \in 1 .. a - 1
        PROVE  text[x] \in Blanks
    <3>1. x \in DOMAIN text /\ ~ (a <= x)
      BY <1>1, <2>3
    <3>2. x \notin solid
      <4> HIDE DEF solid
      <4> QED
        BY <2>1, <3>1
    <3> QED
      BY <3>1, <3>2
  <2>6. ASSUME NEW x \in b + 1 .. Len(text)
        PROVE  text[x] \in Blanks
    <3>1. x \in DOMAIN text /\ ~ (b >= x)
      BY <1>1, <2>3
    <3>2. x \notin solid
      <4> HIDE DEF solid
      <4> QED
        BY <2>2, <3>1
    <3> QED
      BY <3>1, <3>2
  <2> QED
    BY <2>3, <2>4, <2>5, <2>6
<1> QED
  BY <1>3, <1>4

LEMMA TrimTwice ==
    ASSUME NEW text \in Seq(Symbol)
    PROVE  Trim(text) \in Seq(Symbol) /\ Trim(Trim(text)) = Trim(text)
<1>1. CASE \A x \in DOMAIN text : text[x] \in Blanks
  <2>1. Trim(text) = <<>>
    BY <1>1, TrimBlank
  <2>2. Trim(<<>>) = <<>>
    <3>1. DOMAIN <<>> = {}
      OBVIOUS
    <3> QED
      BY <3>1, TrimBlank
  <2> QED
    BY <2>1, <2>2, EmptySeq
<1>2. ASSUME NEW a \in 1 .. Len(text), NEW b \in 1 .. Len(text),
             a <= b, text[a] \notin Blanks, text[b] \notin Blanks,
             \A x \in 1 .. a - 1 : text[x] \in Blanks,
             \A x \in b + 1 .. Len(text) : text[x] \in Blanks
      PROVE  Trim(text) \in Seq(Symbol) /\ Trim(Trim(text)) = Trim(text)
  <2> DEFINE t == SubSeq(text, a, b)
  <2>1. Trim(text) = t
    BY <1>2, TrimSolid
  <2>2. /\ t \in Seq(Symbol) /\ Len(t) = b - a + 1
        /\ \A x \in 1 .. b - a + 1 : t[x] = text[a + x - 1]
    <3>1. a \in Nat \ {0} /\ b \in Nat /\ a <= b + 1 /\ b <= Len(text)
      BY <1>2, LenProperties
    <3> QED
      BY <3>1, PartAt
  <2> HIDE DEF t
  <2>3. 1 \in 1 .. Len(t) /\ Len(t) \in 1 .. Len(t) /\ a \in Nat /\ b \in Nat
    BY <1>2, <2>2
  <2>4. a + 1 - 1 = a /\ a + Len(t) - 1 = b
    BY <2>2, <2>3
  <2>5. t[1] = text[a] /\ t[Len(t)] = text[b]
    BY <2>2, <2>3, <2>4
  <2>6. Trim(t) = SubSeq(t, 1, Len(t))
    <3>1. \A x \in 1 .. 1 - 1 : t[x] \in Blanks
      OBVIOUS
    <3>2. \A x \in Len(t) + 1 .. Len(t) : t[x] \in Blanks
      BY <2>3
    <3>3. t[1] \notin Blanks /\ t[Len(t)] \notin Blanks
      BY <1>2, <2>5
    <3> QED
      BY <2>2, <2>3, <3>1, <3>2, <3>3, TrimSolid
  <2>7. SubSeq(t, 1, Len(t)) = t
    BY <2>2, SubSeqFull
  <2> QED
    BY <2>1, <2>2, <2>6, <2>7
<1> QED
  BY <1>1, <1>2, BlankOrSolid

-----------------------------------------------------------------------------
(* Escaping.                                                                 *)

EscapedSymbols(v) == [j \in DOMAIN v |-> EscapeSymbol(v[j])]

LEMMA Short ==
    ASSUME NEW S, NEW a \in S, NEW b \in S
    PROVE  /\ <<a>> \in Seq(S) /\ Len(<<a>>) = 1 /\ <<a>>[1] = a
           /\ <<a, b>> \in Seq(S) /\ Len(<<a, b>>) = 2 /\ <<a, b>>[1] = a /\ <<a, b>>[2] = b
OBVIOUS

LEMMA EscapeSymbolIs ==
    ASSUME NEW c \in Symbol, NEW e, e = EscapeSymbol(c)
    PROVE  /\ e \in Seq(Symbol) /\ Len(e) \in {1, 2}
           /\ Len(e) = 1 => e[1] = c /\ c \notin {"&", "<", ">"}
           /\ Len(e) = 2 => /\ e[1] = "&" /\ e[2] \in {"amp;", "lt;", "gt;"}
                            /\ Replaced[e[2]] = c /\ c \notin Blanks
<1>1. "&" \in Symbol /\ "amp;" \in Symbol /\ "lt;" \in Symbol /\ "gt;" \in Symbol
  BY DEF Symbol
<1>2. Replaced["amp;"] = "&" /\ Replaced["lt;"] = "<" /\ Replaced["gt;"] = ">"
  BY DEF Replaced
<1>3. ASSUME NEW r \in {"amp;", "lt;", "gt;"}, e = <<"&", r>>, Replaced[r] = c,
             c \in {"&", "<", ">"}
      PROVE  /\ e \in Seq(Symbol) /\ Len(e) = 2 /\ e[1] = "&" /\ e[2] \in {"amp;", "lt;", "gt;"}
             /\ Replaced[e[2]] = c /\ c \notin Blanks
  <2>1. r \in Symbol
    BY <1>1
  <2>2. e \in Seq(Symbol) /\ Len(e) = 2 /\ e[1] = "&" /\ e[2] = r
    <3>1. /\ <<"&", r>> \in Seq(Symbol) /\ Len(<<"&", r>>) = 2
          /\ <<"&", r>>[1] = "&" /\ <<"&", r>>[2] = r
      <4>1. "&" \in Symbol
        BY <1>1
      <4> QED
        BY <2>1, <4>1, Short
    <3> QED
      BY <1>3, <3>1, Zenon
  <2>3. c \notin Blanks
    BY <1>3 DEF Blanks
  <2> QED
    BY <1>3, <2>2, <2>3
<1>4. CASE c = "&"
  <2>1. e = <<"&", "amp;">>
    BY <1>4 DEF EscapeSymbol
  <2> QED
    BY <1>2, <1>3, <1>4, <2>1
<1>5. CASE c = "<"
  <2>1. e = <<"&", "lt;">>
    BY <1>5 DEF EscapeSymbol
  <2> QED
    BY <1>2, <1>3, <1>5, <2>1
<1>6. CASE c = ">"
  <2>1. e = <<"&", "gt;">>
    BY <1>6 DEF EscapeSymbol
  <2> QED
    BY <1>2, <1>3, <1>6, <2>1
<1>7. CASE c \notin {"&", "<", ">"}
  <2>1. e = <<c>>
    BY <1>7 DEF EscapeSymbol
  <2> QED
    BY <1>7, <2>1, Short
<1> QED
  BY <1>4, <1>5, <1>6, <1>7

LEMMA EscapedSymbolsAre ==
    ASSUME NEW v \in Seq(Symbol)
    PROVE  /\ EscapedSymbols(v) \in Seq(Seq(Symbol)) /\ Len(EscapedSymbols(v)) = Len(v)
           /\ Len(v) \in Nat
           /\ \A j \in 1 .. Len(v) : /\ v[j] \in Symbol
                                     /\ EscapedSymbols(v)[j] = EscapeSymbol(v[j])
                                     /\ EscapeSymbol(v[j]) \in Seq(Symbol)
<1>1. Len(v) \in Nat /\ DOMAIN v = 1 .. Len(v) /\ \A j \in 1 .. Len(v) : v[j] \in Symbol
  BY LenProperties, ElementOfSeq
<1>2. EscapedSymbols(v) = [j \in 1 .. Len(v) |-> EscapeSymbol(v[j])]
  BY <1>1 DEF EscapedSymbols
<1>3. \A j \in 1 .. Len(v) : EscapeSymbol(v[j]) \in Seq(Symbol)
  BY <1>1, EscapeSymbolIs
<1>4. EscapedSymbols(v) \in [1 .. Len(v) -> Seq(Symbol)]
  BY <1>2, <1>3
<1>5. EscapedSymbols(v) \in Seq(Seq(Symbol)) /\ Len(EscapedSymbols(v)) = Len(v)
  BY <1>1, <1>4
<1> QED
  BY <1>1, <1>2, <1>3, <1>5

LEMMA EscapeLaid ==
    ASSUME NEW v \in Seq(Symbol)
    PROVE  EscapeXml(v) \in Seq(Symbol) /\ \E off : Laid(EscapeXml(v), EscapedSymbols(v), off)
<1>1. EscapeXml(v) = FlattenSeq(EscapedSymbols(v))
  BY DEF EscapeXml, EscapedSymbols
<1> QED
  BY <1>1, EscapedSymbolsAre, FlattenLaid

\* No symbol of an escaped text begins or ends a tag.
LEMMA NoMarkup ==
    ASSUME NEW v \in Seq(Symbol), NEW x \in 1 .. Len(EscapeXml(v))
    PROVE  EscapeXml(v)[x] \notin {"<", ">"}
<1> DEFINE text == EscapeXml(v)
           seqs == EscapedSymbols(v)
<1>1. PICK off : Laid(text, seqs, off)
  BY EscapeLaid
<1>2. seqs \in Seq(Seq(Symbol)) /\ Len(seqs) = Len(v)
  BY EscapedSymbolsAre
<1>3. x \in 1 .. Len(text)
  OBVIOUS
<1> HIDE DEF text, seqs
<1>a. PICK j \in 1 .. Len(seqs) : \E y \in 1 .. Len(seqs[j]) : x = off[j] + y
  BY <1>1, <1>2, <1>3, LaidCovers
<1>4. PICK y \in 1 .. Len(seqs[j]) : x = off[j] + y
  BY <1>a
<1>5. text[x] = seqs[j][y]
  BY <1>1, <1>4 DEF Laid
<1>6. seqs[j] = EscapeSymbol(v[j]) /\ v[j] \in Symbol
  BY <1>2, EscapedSymbolsAre DEF seqs
<1>7. EscapeSymbol(v[j])[y] \notin {"<", ">"}
  <2> DEFINE e == EscapeSymbol(v[j])
  <2>1. y \in 1 .. Len(e) /\ e = EscapeSymbol(v[j])
    BY <1>6
  <2> HIDE DEF e
  <2>2. /\ Len(e) \in {1, 2}
        /\ Len(e) = 1 => e[1] = v[j] /\ v[j] \notin {"&", "<", ">"}
        /\ Len(e) = 2 => e[1] = "&" /\ e[2] \in {"amp;", "lt;", "gt;"}
    BY <1>6, <2>1, EscapeSymbolIs, ZenonT(30)
  <2>3. e[y] \notin {"<", ">"}
    <3>1. CASE Len(e) = 1
      BY <2>1, <2>2, <3>1
    <3>2. CASE Len(e) = 2
      <4>1. y = 1 \/ y = 2
        BY <2>1, <3>2
      <4> QED
        BY <2>2, <3>2, <4>1
    <3> QED
      BY <2>2, <3>1, <3>2
  <2> QED
    BY <2>1, <2>3
<1>8. text[x] \notin {"<", ">"}
  BY <1>5, <1>6, <1>7
<1> QED
  BY <1>8 DEF text

\* The text is v escaped: v[j] is what follows off[j].
Encodes(text, v, off) ==
    /\ off \in [1 .. Len(v) + 1 -> Nat] /\ off[1] = 0 /\ off[Len(v) + 1] = Len(text)
    /\ \A j \in 1 .. Len(v) :
          \/ /\ off[j + 1] = off[j] + 1
             /\ text[off[j] + 1] = v[j] /\ v[j] \notin {"&", "<", ">"}
          \/ /\ off[j + 1] = off[j] + 2
             /\ text[off[j] + 1] = "&" /\ text[off[j] + 2] \in {"amp;", "lt;", "gt;"}
             /\ Replaced[text[off[j] + 2]] = v[j] /\ v[j] \notin Blanks

LEMMA EscapeEncodes ==
    ASSUME NEW v \in Seq(Symbol)
    PROVE  /\ EscapeXml(v) \in Seq(Symbol)
           /\ \E off : /\ Encodes(EscapeXml(v), v, off)
                       /\ \A j \in 1 .. Len(v) + 1 : \A i \in 1 .. j : off[i] <= off[j]
                       /\ \A x \in 1 .. Len(EscapeXml(v)) :
                             \E j \in 1 .. Len(v) : off[j] < x /\ x <= off[j + 1]
<1> DEFINE text == EscapeXml(v)
           seqs == EscapedSymbols(v)
<1>1. text \in Seq(Symbol)
  BY EscapeLaid
<1>2. PICK off : Laid(text, seqs, off)
  BY EscapeLaid
<1>3. seqs \in Seq(Seq(Symbol)) /\ Len(seqs) = Len(v) /\ Len(v) \in Nat
  BY EscapedSymbolsAre
<1>4. \A j \in 1 .. Len(v) : v[j] \in Symbol /\ seqs[j] = EscapeSymbol(v[j])
  BY EscapedSymbolsAre
<1> HIDE DEF text, seqs
<1>5. /\ off \in [1 .. Len(v) + 1 -> Nat] /\ off[1] = 0 /\ off[Len(v) + 1] = Len(text)
      /\ \A j \in 1 .. Len(v) : /\ off[j + 1] = off[j] + Len(seqs[j])
                                /\ \A x \in 1 .. Len(seqs[j]) : text[off[j] + x] = seqs[j][x]
  BY <1>2, <1>3 DEF Laid
<1>6. ASSUME NEW j \in 1 .. Len(v)
      PROVE  \/ /\ off[j + 1] = off[j] + 1
                /\ text[off[j] + 1] = v[j] /\ v[j] \notin {"&", "<", ">"}
             \/ /\ off[j + 1] = off[j] + 2
                /\ text[off[j] + 1] = "&" /\ text[off[j] + 2] \in {"amp;", "lt;", "gt;"}
                /\ Replaced[text[off[j] + 2]] = v[j] /\ v[j] \notin Blanks
  <2> DEFINE e == seqs[j]
  <2>1. e = EscapeSymbol(v[j]) /\ v[j] \in Symbol
    BY <1>4
  <2>2. off[j + 1] = off[j] + Len(e) /\ \A x \in 1 .. Len(e) : text[off[j] + x] = e[x]
    BY <1>5
  <2> HIDE DEF e
  <2>3. /\ Len(e) \in {1, 2}
        /\ Len(e) = 1 => e[1] = v[j] /\ v[j] \notin {"&", "<", ">"}
        /\ Len(e) = 2 => /\ e[1] = "&" /\ e[2] \in {"amp;", "lt;", "gt;"}
                         /\ Replaced[e[2]] = v[j] /\ v[j] \notin Blanks
    BY <2>1, EscapeSymbolIs, ZenonT(30)
  <2>4. CASE Len(e) = 1
    <3>1. text[off[j] + 1] = e[1]
      BY <2>2, <2>4
    <3> QED
      BY <2>2, <2>3, <2>4, <3>1
  <2>5. CASE Len(e) = 2
    <3>1. text[off[j] + 1] = e[1] /\ text[off[j] + 2] = e[2]
      BY <2>2, <2>5
    <3> QED
      BY <2>2, <2>3, <2>5, <3>1
  <2> QED
    BY <2>3, <2>4, <2>5
<1>7. Encodes(text, v, off)
  BY <1>5, <1>6 DEF Encodes
<1>8. \A j \in 1 .. Len(v) + 1 : \A i \in 1 .. j : off[i] <= off[j]
  BY <1>2, <1>3, LaidOrdered
<1>9. ASSUME NEW x \in 1 .. Len(text)
      PROVE  \E j \in 1 .. Len(v) : off[j] < x /\ x <= off[j + 1]
  <2>1. PICK j \in 1 .. Len(seqs) : \E y \in 1 .. Len(seqs[j]) : x = off[j] + y
    BY <1>2, <1>3, LaidCovers, SMTT(30)
  <2>2. PICK y \in 1 .. Len(seqs[j]) : x = off[j] + y
    BY <2>1
  <2>3. j \in 1 .. Len(v) /\ j \in 1 .. Len(v) + 1
    BY <1>3
  <2>4. off[j + 1] = off[j] + Len(seqs[j]) /\ off[j] \in Nat
    BY <1>5, <2>3
  <2>5. Len(seqs[j]) \in Nat
    BY <1>3, ElementOfSeq, LenProperties
  <2>6. off[j] < x /\ x <= off[j + 1]
    BY <2>2, <2>4, <2>5
  <2> QED
    BY <2>3, <2>6
<1> QED
  BY <1>1, <1>7, <1>8, <1>9 DEF text

\* What is taken in one step goes on to the right.
LEMMA StepEndIs ==
    ASSUME NEW text \in Seq(Symbol), NEW i \in 1 .. Len(text)
    PROVE  StepEnd(text, i) \in i .. Len(text)
<1> DEFINE ends == {j \in i + 1 .. Len(text) : text[j] \in References}
<1>1. Len(text) \in Nat
  BY LenProperties
<1>2. Semicolon(text, i) = IF ends = {} \/ Min(ends) - i > Window THEN 0 ELSE Min(ends)
  BY DEF Semicolon
<1>3. ends \subseteq i + 1 .. Len(text)
  OBVIOUS
<1> HIDE DEF ends
<1>4. ends # {} => Min(ends) \in i + 1 .. Len(text)
  <2> SUFFICES ASSUME ends # {}
               PROVE  Min(ends) \in i + 1 .. Len(text)
    OBVIOUS
  <2>1. ends \subseteq Nat
    BY <1>1, <1>3
  <2>2. Min(ends) \in ends
    BY <2>1, MinOf
  <2> QED
    BY <1>3, <2>2
<1>5. Semicolon(text, i) = 0 \/ Semicolon(text, i) \in i + 1 .. Len(text)
  BY <1>2, <1>4
<1> QED
  BY <1>1, <1>5 DEF StepEnd

LEMMA UnescapeEquation ==
    ASSUME NEW text \in Seq(Symbol)
    PROVE  \E f :
             /\ f = [i \in 1 .. Len(text) + 1 |->
                       IF i > Len(text) THEN <<>>
                       ELSE Unescaped(text, i) \o f[StepEnd(text, i) + 1]]
             /\ UnescapeXml(text) = f[1]
<1> DEFINE n == Len(text) + 1
           stop == {n}
           piece == [i \in 1 .. n |-> Unescaped(text, i)]
           next == [i \in 1 .. n |-> StepEnd(text, i) + 1]
<1>1. Len(text) \in Nat /\ n \in Nat
  BY LenProperties
<1>2. \A i \in (1 .. n) \ stop : next[i] \in i + 1 .. n
  <2> SUFFICES ASSUME NEW i \in (1 .. n) \ stop
               PROVE  StepEnd(text, i) + 1 \in i + 1 .. n
    OBVIOUS
  <2>1. i \in 1 .. Len(text)
    BY <1>1
  <2>2. StepEnd(text, i) \in i .. Len(text)
    BY <2>1, StepEndIs
  <2> QED
    BY <1>1, <2>1, <2>2
<1>3. \E f : Scan(f, n, stop, piece, next)
  <2>1. n \in Nat
    BY <1>1
  <2> HIDE DEF n, stop, piece, next
  <2> QED
    BY <1>2, <2>1, ScanExists
<1>4. PICK f : f = [i \in 1 .. n |-> IF i \in stop THEN <<>> ELSE piece[i] \o f[next[i]]]
  BY <1>3 DEF Scan
<1>5. \A i \in 1 .. n :
          (IF i \in stop THEN <<>> ELSE piece[i] \o f[next[i]])
          = IF i > Len(text) THEN <<>> ELSE Unescaped(text, i) \o f[StepEnd(text, i) + 1]
  BY <1>1
<1>6. f = [i \in 1 .. n |-> IF i > Len(text) THEN <<>>
                            ELSE Unescaped(text, i) \o f[StepEnd(text, i) + 1]]
  <2> HIDE DEF n, stop, piece, next
  <2> QED
    BY <1>4, <1>5
<1>7. \E g : g = [i \in 1 .. Len(text) + 1 |->
                     IF i > Len(text) THEN <<>>
                     ELSE Unescaped(text, i) \o g[StepEnd(text, i) + 1]]
  BY <1>6
<1> QED
  BY <1>7, Zenon DEF UnescapeXml

LEMMA EncodedStep ==
    ASSUME NEW text \in Seq(Symbol), NEW v \in Seq(Symbol), NEW off, Encodes(text, v, off),
           NEW j \in 1 .. Len(v), off[j + 1] <= Len(text)
    PROVE  /\ off[j] + 1 \in 1 .. Len(text)
           /\ StepEnd(text, off[j] + 1) = off[j + 1]
           /\ Unescaped(text, off[j] + 1) = <<v[j]>>
<1> DEFINE i == off[j] + 1
<1>1. Len(text) \in Nat /\ Len(v) \in Nat /\ off[j] \in Nat /\ off[j + 1] \in Nat
  <2>1. Len(text) \in Nat /\ Len(v) \in Nat
    BY LenProperties
  <2>2. j \in 1 .. Len(v) + 1 /\ j + 1 \in 1 .. Len(v) + 1
    BY <2>1
  <2> QED
    BY <2>1, <2>2 DEF Encodes
<1>2. CASE /\ off[j + 1] = off[j] + 1
           /\ text[off[j] + 1] = v[j] /\ v[j] \notin {"&", "<", ">"}
  <2>1. i \in 1 .. Len(text) /\ off[j + 1] = i
    BY <1>1, <1>2
  <2>2. text[i] = v[j] /\ text[i] # "&"
    BY <1>2
  <2> HIDE DEF i
  <2>3. StepEnd(text, i) = i
    BY <2>2 DEF StepEnd
  <2>4. i # i + 1
    BY <2>1
  <2>5. Unescaped(text, i) = SubSeq(text, i, i)
    BY <2>3, <2>4 DEF Unescaped
  <2>6. SubSeq(text, i, i) = <<text[i]>>
    <3>1. SubSeq(text, i, i) = <<text[i]>> \o SubSeq(text, i + 1, i)
      BY <2>1, SubSeqRecursiveFirst
    <3>2. SubSeq(text, i + 1, i) = <<>>
      BY <2>1, SubSeqEmpty
    <3>3. text[i] \in Symbol
      BY <2>1, ElementOfSeq
    <3>4. <<text[i]>> \in Seq(Symbol)
      BY <3>3
    <3> QED
      BY <3>1, <3>2, <3>4, ConcatEmptySeq
  <2>7. i \in 1 .. Len(text) /\ StepEnd(text, i) = off[j + 1] /\ Unescaped(text, i) = <<v[j]>>
    BY <2>1, <2>2, <2>3, <2>5, <2>6
  <2> QED
    BY <2>7 DEF i
<1>3. CASE /\ off[j + 1] = off[j] + 2
           /\ text[off[j] + 1] = "&" /\ text[off[j] + 2] \in {"amp;", "lt;", "gt;"}
           /\ Replaced[text[off[j] + 2]] = v[j] /\ v[j] \notin Blanks
  <2>1. i \in 1 .. Len(text) /\ i + 1 \in 1 .. Len(text) /\ off[j + 1] = i + 1
    <3>1. off[j + 1] = off[j] + 2
      BY <1>3
    <3> QED
      BY <1>1, <3>1
  <2>2. text[i] = "&" /\ text[i + 1] \in {"amp;", "lt;", "gt;"} /\ Replaced[text[i + 1]] = v[j]
    <3>1. off[j] + 2 = i + 1
      BY <1>1
    <3> QED
      BY <1>3, <3>1
  <2> HIDE DEF i
  <2>3. text[i + 1] \in References /\ text[i + 1] \in DOMAIN Replaced
    BY <2>2 DEF References, Replaced
  <2>4. Semicolon(text, i) = i + 1
    <3> DEFINE ends == {k \in i + 1 .. Len(text) : text[k] \in References}
    <3>1. i + 1 \in ends /\ ends \subseteq i + 1 .. Len(text)
      BY <1>1, <2>1, <2>3
    <3>2. Semicolon(text, i) = IF ends = {} \/ Min(ends) - i > Window THEN 0 ELSE Min(ends)
      BY DEF Semicolon
    <3> HIDE DEF ends
    <3>3. Min(ends) \in ends /\ Min(ends) <= i + 1
      <4>1. ends \subseteq Nat
        BY <1>1, <2>1, <3>1
      <4> QED
        BY <3>1, <4>1, MinOf
    <3>4. Min(ends) \in i + 1 .. Len(text)
      BY <3>1, <3>3
    <3>5. Min(ends) = i + 1
      BY <1>1, <2>1, <3>3, <3>4
    <3>6. ends # {} /\ ~ (Min(ends) - i > Window)
      <4>1. \A m : m = i + 1 => ~ (m - i > Window)
        BY <2>1, WindowAssumption
      <4>2. ~ (Min(ends) - i > Window)
        BY <3>5, <4>1, Zenon
      <4> QED
        BY <3>1, <4>2
    <3>7. Semicolon(text, i) = Min(ends)
      BY <3>2, <3>6, Zenon
    <3> QED
      BY <3>5, <3>7
  <2>5. StepEnd(text, i) = i + 1
    <3>1. i + 1 # 0
      BY <2>1
    <3>2. Semicolon(text, i) # 0
      BY <2>4, <3>1
    <3> QED
      BY <2>2, <2>4, <3>2 DEF StepEnd
  <2>6. Unescaped(text, i) = <<v[j]>>
    BY <2>2, <2>3, <2>5 DEF Unescaped
  <2>7. i \in 1 .. Len(text) /\ StepEnd(text, i) = off[j + 1] /\ Unescaped(text, i) = <<v[j]>>
    BY <2>1, <2>5, <2>6
  <2> QED
    BY <2>7 DEF i
<1> QED
  BY <1>2, <1>3 DEF Encodes

\* Every offset is one in the text.
LEMMA EncodesBounded ==
    ASSUME NEW text \in Seq(Symbol), NEW v \in Seq(Symbol), NEW off, Encodes(text, v, off)
    PROVE  \A j \in 1 .. Len(v) + 1 : off[j] \in 0 .. Len(text)
<1> DEFINE n == Len(v)
           P == {k \in 0 .. n : off[n - k + 1] \in 0 .. Len(text)}
<1>1. n \in Nat /\ Len(text) \in Nat
  BY LenProperties
<1>2. /\ \A j \in 1 .. n + 1 : off[j] \in Nat
      /\ off[n + 1] = Len(text)
      /\ \A j \in 1 .. n : off[j + 1] = off[j] + 1 \/ off[j + 1] = off[j] + 2
  BY DEF Encodes
<1> HIDE DEF n
<1>3. 0 \in P
  <2>1. n - 0 + 1 = n + 1
    BY <1>1
  <2> QED
    BY <1>1, <1>2, <2>1
<1>4. ASSUME NEW k \in 0 .. n - 1, k \in P
      PROVE  k + 1 \in P
  <2> DEFINE j == n - k
  <2>1. /\ j \in 1 .. n /\ j \in 1 .. n + 1 /\ n - k + 1 = j + 1 /\ n - (k + 1) + 1 = j
        /\ k + 1 \in 0 .. n
    BY <1>1
  <2>2. off[j + 1] \in 0 .. Len(text)
    BY <1>4, <2>1
  <2> HIDE DEF j
  <2>3. off[j] \in 0 .. Len(text)
    BY <1>1, <1>2, <2>1, <2>2, SMTT(30)
  <2> QED
    BY <2>1, <2>3
<1>5. \A k \in 0 .. n : k \in P
  <2> HIDE DEF P
  <2> QED
    BY <1>1, <1>3, <1>4, Upwards
<1>6. ASSUME NEW j \in 1 .. n + 1
      PROVE  off[j] \in 0 .. Len(text)
  <2>1. n - j + 1 \in 0 .. n /\ n - (n - j + 1) + 1 = j
    BY <1>1
  <2>2. n - j + 1 \in P
    <3> HIDE DEF P
    <3> QED
      BY <1>5, <2>1
  <2> QED
    BY <2>1, <2>2
<1> QED
  BY <1>6 DEF n

LEMMA UnescapeEncoded ==
    ASSUME NEW text \in Seq(Symbol), NEW v \in Seq(Symbol), NEW off, Encodes(text, v, off)
    PROVE  UnescapeXml(text) = v
<1>1. PICK f : /\ f = [i \in 1 .. Len(text) + 1 |->
                         IF i > Len(text) THEN <<>>
                         ELSE Unescaped(text, i) \o f[StepEnd(text, i) + 1]]
               /\ UnescapeXml(text) = f[1]
  BY UnescapeEquation
<1> DEFINE n == Len(v)
           P == {k \in 0 .. n : f[off[n - k + 1] + 1] = SubSeq(v, n - k + 1, n)}
<1>2. n \in Nat /\ Len(text) \in Nat
  BY LenProperties
<1>3. off[1] = 0 /\ off[n + 1] = Len(text)
  BY DEF Encodes
<1>4. n = Len(v)
  OBVIOUS
<1> HIDE DEF n
<1>5. 0 \in P
  <2>1. n - 0 + 1 = n + 1 /\ Len(text) + 1 \in 1 .. Len(text) + 1 /\ Len(text) + 1 > Len(text)
    BY <1>2
  <2>2. f[Len(text) + 1] = <<>>
    BY <1>1, <2>1
  <2>3. SubSeq(v, n + 1, n) = <<>>
    BY <1>2, SubSeqEmpty
  <2>4. off[n - 0 + 1] + 1 = Len(text) + 1
    BY <1>3, <2>1
  <2>5. f[off[n - 0 + 1] + 1] = SubSeq(v, n - 0 + 1, n)
    BY <2>1, <2>2, <2>3, <2>4
  <2> QED
    BY <1>2, <2>5
<1>6. ASSUME NEW k \in 0 .. n - 1, k \in P
      PROVE  k + 1 \in P
  <2> DEFINE j == n - k
  <2>1. /\ j \in 1 .. n /\ j \in 1 .. n + 1 /\ n - k + 1 = j + 1 /\ n - (k + 1) + 1 = j
        /\ k + 1 \in 0 .. n /\ n \in j .. n /\ j + 1 \in 1 .. n + 1
    BY <1>2
  <2>2. f[off[j + 1] + 1] = SubSeq(v, j + 1, n)
    BY <1>6, <2>1
  <2> HIDE DEF j
  <2>3. off[j + 1] <= Len(text)
    BY <1>2, <1>4, <2>1, EncodesBounded
  <2>4. /\ off[j] + 1 \in 1 .. Len(text)
        /\ StepEnd(text, off[j] + 1) = off[j + 1]
        /\ Unescaped(text, off[j] + 1) = <<v[j]>>
    BY <1>4, <2>1, <2>3, EncodedStep
  <2>5. \A i \in 1 .. Len(text) : f[i] = Unescaped(text, i) \o f[StepEnd(text, i) + 1]
    <3> SUFFICES ASSUME NEW i \in 1 .. Len(text)
                 PROVE  f[i] = Unescaped(text, i) \o f[StepEnd(text, i) + 1]
      OBVIOUS
    <3>1. i \in 1 .. Len(text) + 1 /\ ~ (i > Len(text))
      BY <1>2
    <3> QED
      BY <1>1, <3>1
  <2>6. f[off[j] + 1] = <<v[j]>> \o SubSeq(v, j + 1, n)
    BY <2>2, <2>4, <2>5
  <2>7. SubSeq(v, j, n) = <<v[j]>> \o SubSeq(v, j + 1, n)
    BY <1>4, <2>1, SubSeqRecursiveFirst
  <2> QED
    BY <2>1, <2>6, <2>7
<1>7. n \in P
  <2>1. n \in 0 .. n
    BY <1>2
  <2>2. \A k \in 0 .. n : k \in P
    <3> HIDE DEF P
    <3> QED
      BY <1>2, <1>5, <1>6, Upwards
  <2> QED
    BY <2>1, <2>2
<1>8. n - n + 1 = 1 /\ off[1] + 1 = 1
  BY <1>2, <1>3
<1>9. f[1] = SubSeq(v, 1, n)
  BY <1>7, <1>8
<1>10. SubSeq(v, 1, n) = v
  BY <1>4, SubSeqFull
<1> QED
  BY <1>1, <1>9, <1>10

\* Trimming an escaped text is escaping the trimmed one.
LEMMA TrimEncoded ==
    ASSUME NEW v \in Seq(Symbol)
    PROVE  \E off : Encodes(Trim(EscapeXml(v)), Trim(v), off)
<1> DEFINE text == EscapeXml(v)
           n == Len(v)
<1>1. text \in Seq(Symbol)
  BY EscapeEncodes
<1>2. PICK off : /\ Encodes(text, v, off)
                 /\ \A j \in 1 .. n + 1 : \A i \in 1 .. j : off[i] <= off[j]
                 /\ \A x \in 1 .. Len(text) : \E j \in 1 .. n : off[j] < x /\ x <= off[j + 1]
  BY EscapeEncodes
<1>3. n \in Nat /\ n = Len(v) /\ DOMAIN v = 1 .. n
  BY LenProperties
<1>4. Len(text) \in Nat /\ DOMAIN text = 1 .. Len(text)
  BY <1>1, LenProperties
<1> HIDE DEF text, n
<1>5. \A j \in 1 .. n + 1 : off[j] \in 0 .. Len(text)
  BY <1>1, <1>2, <1>3, EncodesBounded
<1>6. ASSUME NEW j \in 1 .. n
      PROVE  \/ /\ off[j + 1] = off[j] + 1
                /\ text[off[j] + 1] = v[j] /\ v[j] \notin {"&", "<", ">"}
             \/ /\ off[j + 1] = off[j] + 2
                /\ text[off[j] + 1] = "&" /\ text[off[j] + 2] \in {"amp;", "lt;", "gt;"}
                /\ Replaced[text[off[j] + 2]] = v[j] /\ v[j] \notin Blanks
  BY <1>2, <1>3 DEF Encodes
<1>7. ASSUME NEW j \in 1 .. n, NEW x \in Nat, off[j] < x, x <= off[j + 1]
      PROVE  text[x] \in Blanks <=> v[j] \in Blanks
  <2>1. off[j] \in Nat
    BY <1>3, <1>4, <1>5
  <2>2. CASE /\ off[j + 1] = off[j] + 1 /\ text[off[j] + 1] = v[j]
    <3>1. x = off[j] + 1
      BY <1>7, <2>1, <2>2
    <3> QED
      BY <2>2, <3>1
  <2>3. CASE /\ off[j + 1] = off[j] + 2
             /\ text[off[j] + 1] = "&" /\ text[off[j] + 2] \in {"amp;", "lt;", "gt;"}
             /\ v[j] \notin Blanks
    <3>1. off[j + 1] = off[j] + 2
      BY <2>3
    <3>2. x = off[j] + 1 \/ x = off[j] + 2
      BY <1>7, <2>1, <3>1
    <3>3. text[x] \in {"&", "amp;", "lt;", "gt;"}
      BY <2>3, <3>2
    <3> QED
      BY <2>3, <3>3 DEF Blanks
  <2> QED
    BY <1>6, <2>2, <2>3
<1>8. CASE \A j \in DOMAIN v : v[j] \in Blanks
  <2>1. \A x \in DOMAIN text : text[x] \in Blanks
    <3> SUFFICES ASSUME NEW x \in 1 .. Len(text)
                 PROVE  text[x] \in Blanks
      BY <1>4
    <3>1. PICK j \in 1 .. n : off[j] < x /\ x <= off[j + 1]
      BY <1>2
    <3>2. v[j] \in Blanks
      BY <1>3, <1>8
    <3> QED
      BY <1>4, <1>7, <3>1, <3>2
  <2>2. Trim(text) = <<>> /\ Trim(v) = <<>>
    BY <1>8, <2>1, TrimBlank
  <2>3. Encodes(<<>>, <<>>, [j \in 1 .. 0 + 1 |-> 0])
    <3>1. Len(<<>>) = 0
      BY EmptySeq
    <3> QED
      BY <3>1 DEF Encodes
  <2> QED
    BY <2>2, <2>3 DEF text
<1>9. ASSUME NEW a \in 1 .. n, NEW b \in 1 .. n,
             a <= b, v[a] \notin Blanks, v[b] \notin Blanks,
             \A x \in 1 .. a - 1 : v[x] \in Blanks,
             \A x \in b + 1 .. n : v[x] \in Blanks
      PROVE  \E off2 : Encodes(Trim(text), Trim(v), off2)
  <2> DEFINE A == off[a] + 1
             B == off[b + 1]
             m == b - a + 1
             t == SubSeq(text, A, B)
             w == SubSeq(v, a, b)
             off2 == [j \in 1 .. m + 1 |-> off[a + j - 1] - off[a]]
  <2>1. /\ a \in Nat /\ b \in Nat /\ m \in Nat /\ a \in 1 .. n + 1 /\ a + 1 \in 1 .. n + 1
        /\ b \in 1 .. n + 1 /\ b + 1 \in 1 .. n + 1
    BY <1>3, <1>9
  <2>2. /\ off[a] \in Nat /\ off[a + 1] \in Nat /\ off[b] \in Nat /\ B \in Nat
        /\ B <= Len(text)
    BY <1>4, <1>5, <2>1
  <2>3. off[a] < A /\ A <= off[a + 1] /\ off[b] < B
    <3>1. off[a + 1] >= off[a] + 1 /\ off[b + 1] >= off[b] + 1
      <4>1. \A j \in 1 .. n : off[j + 1] = off[j] + 1 \/ off[j + 1] = off[j] + 2
        BY <1>6
      <4>2. /\ off[a + 1] = off[a] + 1 \/ off[a + 1] = off[a] + 2
            /\ off[b + 1] = off[b] + 1 \/ off[b + 1] = off[b] + 2
        BY <4>1
      <4> QED
        BY <2>2, <4>2, SMTT(30)
    <3> QED
      BY <2>2, <3>1, SMTT(30)
  <2>4. off[a + 1] <= B
    <3>1. a + 1 \in 1 .. b + 1
      BY <1>9, <2>1
    <3> QED
      BY <1>2, <2>1, <3>1
  <2>5. A \in 1 .. Len(text) /\ B \in 1 .. Len(text) /\ A <= B
    BY <1>4, <2>2, <2>3, <2>4, SMTT(30)
  <2>6. text[A] \notin Blanks
    BY <1>7, <1>9, <2>3, <2>5
  <2>7. text[B] \notin Blanks
    <3>1. off[b] < off[b + 1] /\ off[b + 1] <= off[b + 1] /\ off[b + 1] \in Nat
      BY <2>2, <2>3
    <3> QED
      BY <1>7, <1>9, <3>1
  <2>8. ASSUME NEW x \in 1 .. A - 1
        PROVE  text[x] \in Blanks
    <3>1. x \in 1 .. Len(text) /\ x \in Nat /\ x <= off[a]
      BY <1>4, <2>2, <2>5
    <3>2. PICK j \in 1 .. n : off[j] < x /\ x <= off[j + 1]
      BY <1>2, <3>1
    <3>3. off[j] \in Nat /\ j \in 1 .. n + 1
      BY <1>3, <1>4, <1>5
    <3>4. ~ (a \in 1 .. j)
      <4>1. ~ (off[a] <= off[j])
        BY <2>2, <3>1, <3>2, <3>3
      <4> QED
        BY <1>2, <3>3, <4>1
    <3>5. j \in 1 .. a - 1
      BY <1>3, <2>1, <3>4
    <3> QED
      BY <1>7, <1>9, <3>1, <3>2, <3>5
  <2>9. ASSUME NEW x \in B + 1 .. Len(text)
        PROVE  text[x] \in Blanks
    <3>1. x \in 1 .. Len(text) /\ x \in Nat /\ x > B
      BY <1>4, <2>2
    <3>2. PICK j \in 1 .. n : off[j] < x /\ x <= off[j + 1]
      BY <1>2, <3>1
    <3>3. off[j + 1] \in Nat /\ j + 1 \in 1 .. n + 1
      BY <1>3, <1>4, <1>5
    <3>4. ~ (j + 1 \in 1 .. b + 1)
      <4>1. ~ (off[j + 1] <= B)
        BY <2>2, <3>1, <3>2, <3>3
      <4> QED
        BY <1>2, <2>1, <4>1
    <3>5. j \in b + 1 .. n
      BY <1>3, <2>1, <3>3, <3>4
    <3> QED
      BY <1>7, <1>9, <3>1, <3>2, <3>5
  <2>10. Trim(text) = t /\ Trim(v) = w
    <3>1. Trim(text) = SubSeq(text, A, B)
      <4> HIDE DEF A, B
      <4> QED
        BY <1>1, <2>5, <2>6, <2>7, <2>8, <2>9, TrimSolid
    <3>2. Trim(v) = SubSeq(v, a, b)
      BY <1>3, <1>9, TrimSolid
    <3> QED
      BY <3>1, <3>2
  <2>11. /\ t \in Seq(Symbol) /\ Len(t) = B - A + 1
         /\ \A x \in 1 .. B - A + 1 : t[x] = text[A + x - 1]
    <3>1. A \in Nat \ {0} /\ B \in Nat /\ A <= B + 1 /\ B <= Len(text)
      BY <2>2, <2>5, SMTT(30)
    <3> HIDE DEF A, B
    <3> QED
      BY <1>1, <3>1, PartAt
  <2>12. w \in Seq(Symbol) /\ Len(w) = m /\ \A x \in 1 .. m : w[x] = v[a + x - 1]
    <3>1. a \in Nat \ {0} /\ b \in Nat /\ a <= b + 1 /\ b <= Len(v)
      BY <1>3, <1>9, <2>1
    <3> QED
      BY <3>1, PartAt
  <2>13. ASSUME NEW j \in 1 .. m + 1
         PROVE  /\ a + j - 1 \in 1 .. n + 1 /\ off[a + j - 1] \in Nat
                /\ off[a] <= off[a + j - 1] /\ off2[j] = off[a + j - 1] - off[a]
                /\ off2[j] \in Nat
    <3>1. a + j - 1 \in 1 .. n + 1 /\ a \in 1 .. a + j - 1
      BY <1>3, <2>1
    <3>2. off[a + j - 1] \in Nat /\ off[a] <= off[a + j - 1]
      BY <1>2, <1>4, <1>5, <3>1
    <3> QED
      BY <2>2, <3>1, <3>2
  <2>14. off2[1] = 0 /\ off2[m + 1] = Len(t)
    <3>1. 1 \in 1 .. m + 1 /\ m + 1 \in 1 .. m + 1 /\ a + 1 - 1 = a /\ a + (m + 1) - 1 = b + 1
      BY <1>9, <2>1
    <3> QED
      BY <2>2, <2>11, <3>1, SMTT(30)
  <2>15. ASSUME NEW j \in 1 .. m
         PROVE  \/ /\ off2[j + 1] = off2[j] + 1
                   /\ t[off2[j] + 1] = w[j] /\ w[j] \notin {"&", "<", ">"}
                \/ /\ off2[j + 1] = off2[j] + 2
                   /\ t[off2[j] + 1] = "&" /\ t[off2[j] + 2] \in {"amp;", "lt;", "gt;"}
                   /\ Replaced[t[off2[j] + 2]] = w[j] /\ w[j] \notin Blanks
    <3> DEFINE J == a + j - 1
    <3>1. J \in 1 .. n /\ J + 1 \in 1 .. b + 1 /\ J = a + j - 1 /\ J + 1 = a + (j + 1) - 1
      BY <1>3, <1>9, <2>1
    <3>2. off[J + 1] <= B
      BY <1>2, <2>1, <3>1
    <3>3. /\ off[J] \in Nat /\ off[J + 1] \in Nat /\ off[a] \in Nat /\ off[a] <= off[J]
          /\ off2[j] = off[J] - off[a] /\ off2[j + 1] = off[J + 1] - off[a]
      <4>1. j \in 1 .. m + 1 /\ j + 1 \in 1 .. m + 1
        BY <2>1
      <4> QED
        BY <2>2, <2>13, <3>1, <4>1
    <3>4. w[j] = v[J]
      BY <2>12
    <3>5. \A k \in Nat : k >= 1 /\ off[J] + k <= off[J + 1] => t[off2[j] + k] = text[off[J] + k]
      <4> SUFFICES ASSUME NEW k \in Nat, k >= 1, off[J] + k <= off[J + 1]
                   PROVE  t[off2[j] + k] = text[off[J] + k]
        OBVIOUS
      <4> HIDE DEF J, off2, t
      <4>1. off2[j] + k \in 1 .. B - A + 1 /\ A + (off2[j] + k) - 1 = off[J] + k
        <5>1. A = off[a] + 1 /\ B \in Nat
          BY <2>2
        <5>2. \A p, q, r, l \in Nat : q <= p /\ p + k <= r /\ r <= l =>
                  /\ (p - q) + k \in 1 .. l - (q + 1) + 1
                  /\ (q + 1) + ((p - q) + k) - 1 = p + k
          OBVIOUS
        <5> HIDE DEF A, B
        <5>3. /\ (off[J] - off[a]) + k \in 1 .. B - (off[a] + 1) + 1
              /\ (off[a] + 1) + ((off[J] - off[a]) + k) - 1 = off[J] + k
          BY <3>2, <3>3, <5>1, <5>2
        <5> QED
          BY <3>3, <5>1, <5>3
      <4> QED
        BY <2>11, <4>1
    <3>6. \/ /\ off[J + 1] = off[J] + 1
             /\ text[off[J] + 1] = v[J] /\ v[J] \notin {"&", "<", ">"}
          \/ /\ off[J + 1] = off[J] + 2
             /\ text[off[J] + 1] = "&" /\ text[off[J] + 2] \in {"amp;", "lt;", "gt;"}
             /\ Replaced[text[off[J] + 2]] = v[J] /\ v[J] \notin Blanks
      BY <1>6, <3>1
    <3> HIDE DEF J, off2, t, w, A, B, m
    <3>7. /\ off[J] + 1 <= off[J + 1] => t[off2[j] + 1] = text[off[J] + 1]
          /\ off[J] + 2 <= off[J + 1] => t[off2[j] + 2] = text[off[J] + 2]
      <4>1. 1 \in Nat /\ 1 >= 1 /\ 2 \in Nat /\ 2 >= 1
        OBVIOUS
      <4> QED
        BY <3>5, <4>1, Zenon
    <3>8. CASE /\ off[J + 1] = off[J] + 1
               /\ text[off[J] + 1] = v[J] /\ v[J] \notin {"&", "<", ">"}
      <4>1. off[J + 1] = off[J] + 1
        BY <3>8
      <4>2. off2[j + 1] = off2[j] + 1
        BY <3>3, <4>1, SMTT(30)
      <4>3. off[J] + 1 <= off[J + 1]
        BY <3>3, <4>1
      <4>4. t[off2[j] + 1] = text[off[J] + 1]
        BY <3>7, <4>3, Zenon
      <4> QED
        BY <3>4, <3>8, <4>2, <4>4
    <3>9. CASE /\ off[J + 1] = off[J] + 2
               /\ text[off[J] + 1] = "&" /\ text[off[J] + 2] \in {"amp;", "lt;", "gt;"}
               /\ Replaced[text[off[J] + 2]] = v[J] /\ v[J] \notin Blanks
      <4>1. off[J + 1] = off[J] + 2
        BY <3>9
      <4>2. off2[j + 1] = off2[j] + 2
        BY <3>3, <4>1, SMTT(30)
      <4>3. off[J] + 1 <= off[J + 1] /\ off[J] + 2 <= off[J + 1]
        BY <3>3, <4>1
      <4>4. t[off2[j] + 1] = text[off[J] + 1] /\ t[off2[j] + 2] = text[off[J] + 2]
        BY <3>7, <4>3, Zenon
      <4> QED
        BY <3>4, <3>9, <4>2, <4>4
    <3> QED
      BY <3>6, <3>8, <3>9
  <2>16. off2 \in [1 .. m + 1 -> Nat]
    BY <2>13
  <2> HIDE DEF off2, t, w, A, B, m
  <2>17. Encodes(t, w, off2)
    BY <2>12, <2>14, <2>15, <2>16 DEF Encodes
  <2> QED
    BY <2>10, <2>17
<1>10. v \in Seq(Symbol) /\ n = Len(v)
  BY DEF n
<1>11. CASE \E a \in 1 .. n, b \in 1 .. n :
              /\ a <= b /\ v[a] \notin Blanks /\ v[b] \notin Blanks
              /\ \A x \in 1 .. a - 1 : v[x] \in Blanks
              /\ \A x \in b + 1 .. n : v[x] \in Blanks
  BY <1>9, <1>11 DEF text
<1> QED
  BY <1>8, <1>10, <1>11, BlankOrSolid

\* escapeXml, trim and unescapeXml: an escaped text that was trimmed is read as
\* the text itself, trimmed; no reference it contains is read as one.
THEOREM UnescapeTrimmed ==
    ASSUME NEW v \in Seq(Symbol)
    PROVE  UnescapeXml(Trim(EscapeXml(v))) = Trim(v)
<1>1. PICK off : Encodes(Trim(EscapeXml(v)), Trim(v), off)
  BY TrimEncoded
<1>2. EscapeXml(v) \in Seq(Symbol)
  BY EscapeEncodes
<1>3. Trim(EscapeXml(v)) \in Seq(Symbol) /\ Trim(v) \in Seq(Symbol)
  BY <1>2, TrimTwice
<1> QED
  BY <1>1, <1>3, UnescapeEncoded

-----------------------------------------------------------------------------
(* Reading a value out of a document.                                        *)

NoneBefore(text, part, p) == \A i \in 1 .. p - 1 : ~ Stands(text, part, i)
NoTagIn(text, a, b) == \A x \in a .. b : text[x] # "<"

\* `part` is written into `text` behind its first p symbols.
Copied(text, p, part) ==
    p + Len(part) <= Len(text) /\ \A x \in 1 .. Len(part) : text[p + x] = part[x]
\* A content no tag begins in.
NoTags(content) == \A x \in 1 .. Len(content) : content[x] # "<"

LEMMA SoapValueAt ==
    ASSUME NEW text \in Seq(Symbol), NEW key \in Symbol, NEW p \in Nat \ {0}, NEW q \in Nat,
           Stands(text, Open(key), p), NoneBefore(text, Open(key), p),
           p + 3 <= q, Stands(text, Close(key), q),
           NEW a, a = p + 3, NEW b, b = q - 1, NoTagIn(text, a, b)
    PROVE  SoapValue(text, key) = UnescapeXml(Trim(SubSeq(text, a, b)))
<1>1. Find(text, Open(key), 1) = p
  BY Tags, FindFirst, SMTT(30) DEF NoneBefore
<1>2. \A i \in p + 3 .. q - 1 : ~ Stands(text, Close(key), i)
  <2> SUFFICES ASSUME NEW i \in p + 3 .. q - 1
               PROVE  ~ Stands(text, Close(key), i)
    OBVIOUS
  <2>1. i \in Nat /\ text[i] # "<"
    BY DEF NoTagIn
  <2> QED
    BY <2>1, CloseStands
<1>3. Find(text, Close(key), p + 3) = q
  BY <1>2, Tags, FindFirst
<1>4. p # 0 /\ q # 0
  OBVIOUS
<1> QED
  BY <1>1, <1>3, <1>4 DEF SoapValue

\* An element of the document that nothing before it is taken for.
LEMMA SoapValueOfElement ==
    ASSUME NEW text \in Seq(Symbol), NEW key \in Symbol, NEW content \in Seq(Symbol),
           NEW p \in Nat, Copied(text, p, Element(key, content)), NoTags(content),
           NEW first, first = p + 1, NoneBefore(text, Open(key), first)
    PROVE  SoapValue(text, key) = UnescapeXml(Trim(content))
<1> DEFINE n == Len(content)
           e == Element(key, content)
<1>1. /\ n \in Nat /\ e[1] = "<" /\ e[2] = key /\ e[3] = ">"
      /\ \A x \in 1 .. n : e[3 + x] = content[x]
      /\ e[n + 4] = "<" /\ e[n + 5] = "/" /\ e[n + 6] = key /\ e[n + 7] = ">"
  BY ElementAt
<1>2. n = Len(content) /\ Len(text) \in Nat
  BY LenProperties
<1>0. Len(e) = n + 7
  BY ElementAt
<1>3. \A x \in 1 .. n + 7 : text[p + x] = e[x]
  BY <1>0 DEF Copied
<1>4. p + n + 7 <= Len(text)
  BY <1>0, <1>1 DEF Copied
<1>c. \A x \in 1 .. n : content[x] # "<"
  BY DEF NoTags
<1> HIDE DEF n, e
<1>5. text[p + 1] = "<" /\ text[p + 2] = key /\ text[p + 3] = ">"
  BY <1>1, <1>3, SMTT(30)
<1>6. /\ text[p + n + 4] = "<" /\ text[p + n + 5] = "/" /\ text[p + n + 6] = key
      /\ text[p + n + 7] = ">"
  <2>1. /\ text[p + (n + 4)] = "<" /\ text[p + (n + 5)] = "/" /\ text[p + (n + 6)] = key
        /\ text[p + (n + 7)] = ">"
    <3>1. /\ n + 4 \in 1 .. n + 7 /\ n + 5 \in 1 .. n + 7 /\ n + 6 \in 1 .. n + 7
          /\ n + 7 \in 1 .. n + 7
      BY <1>1
    <3>2. /\ text[p + (n + 4)] = e[n + 4] /\ text[p + (n + 5)] = e[n + 5]
          /\ text[p + (n + 6)] = e[n + 6] /\ text[p + (n + 7)] = e[n + 7]
      BY <1>3, <3>1
    <3> QED
      BY <1>1, <3>2
  <2>2. /\ p + (n + 4) = p + n + 4 /\ p + (n + 5) = p + n + 5
        /\ p + (n + 6) = p + n + 6 /\ p + (n + 7) = p + n + 7
    <3>1. n \in Nat
      BY <1>1
    <3> QED
      BY <3>1
  <2> QED
    BY <2>1, <2>2
<1>7. Stands(text, Open(key), p + 1)
  <2>1. p + 1 \in Nat /\ p + 1 \in 1 .. Len(text) - 2 /\ p + 1 + 1 = p + 2 /\ p + 1 + 2 = p + 3
    BY <1>1, <1>2, <1>4
  <2> QED
    BY <1>5, <2>1, OpenStands
<1>8. Stands(text, Close(key), p + n + 4)
  <2>1. /\ p + n + 4 \in Nat /\ p + n + 4 \in 1 .. Len(text) - 3
        /\ p + n + 4 + 1 = p + n + 5 /\ p + n + 4 + 2 = p + n + 6 /\ p + n + 4 + 3 = p + n + 7
    BY <1>1, <1>2, <1>4
  <2> QED
    BY <1>6, <2>1, CloseStands, SMTT(30)
<1>9. \A x \in 1 .. n : text[p + 3 + x] = content[x]
  <2> SUFFICES ASSUME NEW x \in 1 .. n
               PROVE  text[p + 3 + x] = content[x]
    OBVIOUS
  <2>1. 3 + x \in 1 .. n + 7 /\ p + (3 + x) = p + 3 + x
    BY <1>1
  <2> QED
    BY <1>1, <1>3, <2>1
<1> DEFINE a == p + 4
           b == p + n + 3
<1>a. /\ a \in Nat \ {0} /\ b \in Nat /\ a <= b + 1 /\ b <= Len(text) /\ b - a + 1 = n
      /\ a = p + 1 + 3 /\ b = p + n + 4 - 1 /\ a = p + 4 /\ b = p + n + 3
  BY <1>1, <1>2, <1>4
<1> HIDE DEF a, b
<1>10. NoTagIn(text, a, b)
  <2> SUFFICES ASSUME NEW x \in a .. b
               PROVE  text[x] # "<"
    BY DEF NoTagIn
  <2>1. x - p - 3 \in 1 .. n /\ p + 3 + (x - p - 3) = x
    BY <1>1, <1>a
  <2> QED
    BY <1>c, <1>9, <2>1
<1>11. SubSeq(text, a, b) = content
  <2> DEFINE s == SubSeq(text, a, b)
  <2>1. \A x \in 1 .. n : a + x - 1 = p + 3 + x
    BY <1>1, <1>a
  <2>2. s \in Seq(Symbol) /\ Len(s) = n /\ \A x \in 1 .. n : s[x] = text[a + x - 1]
    BY <1>a, PartAt, SMTT(30)
  <2>3. \A x \in 1 .. n : s[x] = content[x]
    BY <1>9, <2>1, <2>2
  <2> HIDE DEF s
  <2>4. s = content
    BY <1>2, <2>2, <2>3, SeqEqual
  <2> QED
    BY <2>4 DEF s
<1>12. SoapValue(text, key) = UnescapeXml(Trim(SubSeq(text, a, b)))
  <2> DEFINE last == p + n + 4
  <2>1. /\ first \in Nat \ {0} /\ last \in Nat /\ first + 3 <= last
        /\ a = first + 3 /\ b = last - 1
    <3>1. n \in Nat
      BY <1>1
    <3>2. a = p + 4 /\ b = p + n + 3
      BY <1>a
    <3> QED
      BY <3>1, <3>2
  <2>2. NoneBefore(text, Open(key), first)
    OBVIOUS
  <2>3. Stands(text, Open(key), first) /\ Stands(text, Close(key), last)
    BY <1>7, <1>8
  <2> HIDE DEF last
  <2>4. first \in Nat \ {0}
    BY <2>1
  <2>5. last \in Nat
    BY <2>1
  <2>6. first + 3 <= last
    BY <2>1
  <2>7. a = first + 3
    BY <2>1
  <2>8. b = last - 1
    BY <2>1
  <2>9. Stands(text, Open(key), first)
    BY <2>3
  <2>10. Stands(text, Close(key), last)
    BY <2>3
  <2> QED
    BY <1>10, <2>2, <2>4, <2>5, <2>6, <2>7, <2>8, <2>9, <2>10, SoapValueAt
<1> QED
  BY <1>11, <1>12

\* Only the tags of an element are tags.
LEMMA TagsOfElement ==
    ASSUME NEW key \in Symbol \ {"<"}, NEW content \in Seq(Symbol), NoTags(content),
           NEW y \in 1 .. Len(content) + 7, Element(key, content)[y] = "<"
    PROVE  \/ y = 1 /\ Element(key, content)[y + 1] = key
           \/ y = Len(content) + 4 /\ Element(key, content)[y + 1] = "/"
<1> DEFINE n == Len(content)
           e == Element(key, content)
<1>1. /\ n \in Nat /\ e[1] = "<" /\ e[2] = key /\ e[3] = ">"
      /\ \A x \in 1 .. n : e[3 + x] = content[x]
      /\ e[n + 4] = "<" /\ e[n + 5] = "/" /\ e[n + 6] = key /\ e[n + 7] = ">"
  BY ElementAt
<1>2. n = Len(content) /\ e[y] = "<" /\ y \in 1 .. n + 7 /\ e = Element(key, content)
  OBVIOUS
<1> HIDE DEF n, e
<1>3. y \notin 4 .. n + 3
  <2> SUFFICES ASSUME y \in 4 .. n + 3
               PROVE  FALSE
    OBVIOUS
  <2>1. y - 3 \in 1 .. n /\ 3 + (y - 3) = y
    BY <1>1
  <2>2. e[y] = content[y - 3]
    BY <1>1, <2>1
  <2> QED
    BY <1>2, <2>1, <2>2 DEF NoTags
<1>4. y \in {1, 2, 3} \/ y \in {n + 4, n + 5, n + 6, n + 7}
  BY <1>1, <1>2, <1>3
<1>5. y # 2 /\ y # 3 /\ y # n + 5 /\ y # n + 6 /\ y # n + 7
  BY <1>1, <1>2
<1>6. CASE y = 1
  BY <1>1, <1>2, <1>6
<1>7. CASE y = n + 4
  <2>1. y + 1 = n + 5
    BY <1>1, <1>7
  <2> QED
    BY <1>1, <1>2, <1>7, <2>1
<1> QED
  BY <1>4, <1>5, <1>6, <1>7

-----------------------------------------------------------------------------
(* A request.                                                                *)

\* A parameter has one value.
RequestInv ==
    /\ request \in Seq([key : Param, value : Text])
    /\ \A i, j \in DOMAIN request : request[i].key = request[j].key => i = j

\* What the envelope is put together from.
Parameters == [i \in DOMAIN request |-> Element(request[i].key, EscapeXml(request[i].value))]

LEMMA TextIsSymbols == Text \subseteq Seq(Symbol)
<1>1. STRING \subseteq Symbol
  BY DEF Symbol
<1>2. Seq(STRING) \subseteq Seq(Symbol)
  BY <1>1, SeqMonotonic
<1> QED
  BY <1>2, TextAssumption

LEMMA ParameterAt ==
    ASSUME RequestInv, NEW i \in 1 .. Len(request)
    PROVE  /\ request[i].key \in Symbol \ {"<", "/", "action"}
           /\ EscapeXml(request[i].value) \in Seq(Symbol)
           /\ NoTags(EscapeXml(request[i].value))
           /\ UnescapeXml(Trim(EscapeXml(request[i].value))) = Trim(request[i].value)
<1>1. request[i] \in [key : Param, value : Text]
  BY ElementOfSeq DEF RequestInv
<1>2. request[i].key \in Symbol \ {"<", "/", "action"}
  BY <1>1, ParamAssumption DEF Symbol
<1>3. request[i].value \in Seq(Symbol)
  BY <1>1, TextIsSymbols
<1>4. NoTags(EscapeXml(request[i].value))
  BY <1>3, NoMarkup DEF NoTags
<1> QED
  BY <1>2, <1>3, <1>4, EscapeLaid, UnescapeTrimmed

LEMMA ParametersAre ==
    ASSUME RequestInv
    PROVE  /\ Parameters \in Seq(Seq(Symbol)) /\ Len(Parameters) = Len(request)
           /\ Len(request) \in Nat /\ DOMAIN request = 1 .. Len(request)
           /\ \A i \in 1 .. Len(request) :
                 Parameters[i] = Element(request[i].key, EscapeXml(request[i].value))
<1>1. Len(request) \in Nat /\ DOMAIN request = 1 .. Len(request)
  BY LenProperties DEF RequestInv
<1>2. \A i \in 1 .. Len(request) :
          Element(request[i].key, EscapeXml(request[i].value)) \in Seq(Symbol)
  BY ParameterAt, ElementAt
<1>3. Parameters = [i \in 1 .. Len(request) |->
                       Element(request[i].key, EscapeXml(request[i].value))]
  BY <1>1 DEF Parameters
<1>4. Parameters \in [1 .. Len(request) -> Seq(Symbol)]
  BY <1>2, <1>3
<1>5. Parameters \in Seq(Seq(Symbol)) /\ Len(Parameters) = Len(request)
  BY <1>1, <1>4, LenProperties
<1> QED
  BY <1>1, <1>3, <1>5

\* The tags and the content of an element, symbol by symbol.
Written(e, key, content, n) ==
    /\ e \in Seq(Symbol) /\ n \in Nat /\ n = Len(content) /\ Len(e) = n + 7
    /\ e[1] = "<" /\ e[2] = key /\ e[3] = ">"
    /\ \A x \in 1 .. n : e[3 + x] = content[x]
    /\ e[n + 4] = "<" /\ e[n + 5] = "/" /\ e[n + 6] = key /\ e[n + 7] = ">"

LEMMA ElementWritten ==
    ASSUME NEW key \in Symbol, NEW content \in Seq(Symbol)
    PROVE  Written(Element(key, content), key, content, Len(content))
<1> DEFINE m == Len(content)
           d == Element(key, content)
<1>1. /\ d \in Seq(Symbol) /\ m \in Nat /\ Len(d) = m + 7
      /\ d[1] = "<" /\ d[2] = key /\ d[3] = ">"
      /\ \A x \in 1 .. m : d[3 + x] = content[x]
      /\ d[m + 4] = "<" /\ d[m + 5] = "/" /\ d[m + 6] = key /\ d[m + 7] = ">"
  BY ElementAt
<1>2. m = Len(content)
  OBVIOUS
<1> HIDE DEF m, d
<1>3. Written(d, key, content, m)
  BY <1>1, <1>2 DEF Written
<1> QED
  BY <1>3 DEF m, d

\* What is in the envelope is of one of the parameters.
LEMMA ParameterCovers ==
    ASSUME RequestInv, NEW body, NEW off, Laid(body, Parameters, off), NEW z \in 1 .. Len(body)
    PROVE  \E j \in 1 .. Len(request) : \E y \in 1 .. Len(Parameters[j]) : z = off[j] + y
<1>1. Parameters \in Seq(Seq(Symbol)) /\ Len(Parameters) = Len(request)
  BY ParametersAre
<1>2. \E j \in 1 .. Len(Parameters) : \E y \in 1 .. Len(Parameters[j]) : z = off[j] + y
  BY <1>1, LaidCovers, SMTT(30)
<1> QED
  BY <1>1, <1>2, Zenon

\* The element of a parameter is where its name first is a tag: the elements
\* before it have tags of other names.
LEMMA ParameterFirst ==
    ASSUME RequestInv, NEW body \in Seq(Symbol), NEW off, Laid(body, Parameters, off),
           NEW text, text = Element("action", body), NEW i \in 1 .. Len(request),
           NEW x \in 1 .. 3 + off[i], Stands(text, Open(request[i].key), x)
    PROVE  FALSE
<1> DEFINE n == Len(body)
           key == request[i].key
<1>1. /\ text \in Seq(Symbol) /\ n \in Nat /\ Len(text) = n + 7
      /\ text[1] = "<" /\ text[2] = "action" /\ text[3] = ">"
      /\ \A y \in 1 .. n : text[3 + y] = body[y]
  <2>1. "action" \in Symbol
    BY DEF Symbol
  <2>2. n = Len(body)
    OBVIOUS
  <2>3. Written(text, "action", body, n)
    BY <2>1, ElementWritten
  <2> HIDE DEF n
  <2> QED
    BY <2>3 DEF Written
<1>2. key \in Symbol \ {"<", "/", "action"}
  BY ParameterAt
<1>3. off \in [1 .. Len(request) + 1 -> Nat] /\ n = off[Len(request) + 1]
  BY ParametersAre DEF Laid
<1>a. Len(request) \in Nat /\ i \in 1 .. Len(request) + 1 /\ i \in Nat
  <2>1. Len(request) \in Nat
    BY ParametersAre
  <2> QED
    BY <2>1
<1>b. off[i] \in Nat
  BY <1>3, <1>a
<1>4. x \in Nat /\ text[x] = "<" /\ text[x + 1] = key
  <2>1. x \in Nat
    BY <1>3
  <2> QED
    BY <1>1, <1>2, <2>1, OpenStands
<1>5. x # 1 /\ x # 2 /\ x # 3
  BY <1>1, <1>2, <1>4
<1>6. off[i] <= n
  <2>1. \A b \in 1 .. Len(request) + 1 : \A a \in 1 .. b : off[a] <= off[b]
    BY ParametersAre, LaidOrdered
  <2>2. Len(request) + 1 \in 1 .. Len(request) + 1 /\ i \in 1 .. Len(request) + 1
    BY ParametersAre
  <2> QED
    BY <1>3, <2>1, <2>2
<1>7. PICK z \in 1 .. off[i] : x = 3 + z
  <2>2. x - 3 \in 1 .. off[i] /\ x = 3 + (x - 3)
    BY <1>4, <1>5, <1>b
  <2> QED
    BY <2>2
<1>8. z \in 1 .. n
  BY <1>1, <1>6, <1>7, <1>b
<1>9. PICK j \in 1 .. Len(request) : \E y \in 1 .. Len(Parameters[j]) : z = off[j] + y
  <2>1. z \in 1 .. Len(body)
    BY <1>8
  <2> QED
    BY <2>1, ParameterCovers
<1>10. PICK y \in 1 .. Len(Parameters[j]) : z = off[j] + y
  BY <1>9
<1> DEFINE content == EscapeXml(request[j].value)
<1>11. /\ Parameters[j] = Element(request[j].key, content)
       /\ request[j].key \in Symbol \ {"<", "/", "action"}
       /\ content \in Seq(Symbol) /\ NoTags(content)
  BY ParametersAre, ParameterAt
<1>12. Len(Parameters[j]) = Len(content) + 7 /\ Len(content) \in Nat
  BY <1>11, ElementAt
<1>c. off[j] \in Nat /\ y \in Nat /\ y >= 1 /\ z \in Nat /\ z <= off[i] /\ j \in Nat
  <2>1. j \in 1 .. Len(request) + 1
    BY <1>a
  <2> HIDE DEF content
  <2> QED
    BY <1>3, <1>10, <1>12, <1>7, <1>b, <2>1, SMTT(30)
<1>13. j # i
  <2>1. off[j] < off[i]
    BY <1>10, <1>b, <1>c
  <2> QED
    BY <1>b, <2>1
<1>14. request[j].key # key
  BY <1>13, ParametersAre DEF RequestInv
<1>15. \A w \in 1 .. Len(content) + 7 : body[off[j] + w] = Parameters[j][w]
  BY <1>12, ParametersAre DEF Laid
<1>16. Parameters[j][y] = "<"
  BY <1>1, <1>4, <1>7, <1>8, <1>10, <1>12, <1>15
<1>17. /\ y \in 1 .. Len(content) + 6
       /\ Parameters[j][y + 1] = request[j].key \/ Parameters[j][y + 1] = "/"
  <2> HIDE DEF content
  <2>1. \/ y = 1 /\ Element(request[j].key, content)[y + 1] = request[j].key
        \/ y = Len(content) + 4 /\ Element(request[j].key, content)[y + 1] = "/"
    BY <1>10, <1>11, <1>12, <1>16, TagsOfElement, SMTT(30)
  <2> QED
    BY <1>11, <1>12, <2>1
<1>18. off[Len(request) + 1] >= off[j + 1] /\ off[j + 1] = off[j] + Len(Parameters[j])
  <2>1. \A b \in 1 .. Len(request) + 1 : \A a \in 1 .. b : off[a] <= off[b]
    BY ParametersAre, LaidOrdered
  <2>2. Len(request) + 1 \in 1 .. Len(request) + 1 /\ j + 1 \in 1 .. Len(request) + 1
    BY ParametersAre
  <2>3. off[j + 1] = off[j] + Len(Parameters[j])
    BY ParametersAre DEF Laid
  <2> QED
    BY <1>3, <2>1, <2>2, <2>3
<1>19. text[x + 1] = Parameters[j][y + 1]
  <2> HIDE DEF content
  <2>a. off[j] + (y + 1) = z + 1
    BY <1>10, <1>c, SMTT(30)
  <2>b. y + 1 \in 1 .. Len(content) + 7
    BY <1>12, <1>17, <1>c
  <2>2. y + 1 \in 1 .. Len(content) + 7 /\ off[j] + (y + 1) = z + 1
    BY <2>a, <2>b
  <2>3. z + 1 \in 1 .. n
    BY <1>3, <1>12, <1>18, <1>c, <2>2, SMTT(30)
  <2>4. body[z + 1] = Parameters[j][y + 1]
    BY <1>15, <2>2, SMTT(30)
  <2>5. x + 1 = 3 + (z + 1)
    BY <1>7, <1>c
  <2>6. text[3 + (z + 1)] = body[z + 1]
    BY <1>1, <2>3
  <2> QED
    BY <2>4, <2>5, <2>6
<1> QED
  BY <1>2, <1>4, <1>14, <1>17, <1>19

\* An element that is laid into a text is copied into it.
LEMMA LaidCopied ==
    ASSUME NEW S, NEW seqs \in Seq(Seq(S)), NEW text, NEW off, Laid(text, seqs, off),
           NEW j \in 1 .. Len(seqs)
    PROVE  /\ off[j] \in Nat /\ off[j + 1] \in Nat /\ off[j + 1] = off[j] + Len(seqs[j])
           /\ off[j + 1] <= Len(text) /\ Copied(text, off[j], seqs[j])
<1>1. Len(seqs) \in Nat
  BY LenProperties
<1>2. j \in 1 .. Len(seqs) + 1 /\ j + 1 \in 1 .. Len(seqs) + 1
      /\ Len(seqs) + 1 \in 1 .. Len(seqs) + 1
  BY <1>1
<1>3. /\ off[j] \in Nat /\ off[j + 1] \in Nat /\ off[j + 1] = off[j] + Len(seqs[j])
      /\ Len(text) = off[Len(seqs) + 1]
      /\ \A x \in 1 .. Len(seqs[j]) : text[off[j] + x] = seqs[j][x]
  BY <1>2 DEF Laid
<1>4. off[j + 1] <= off[Len(seqs) + 1]
  <2>1. \A b \in 1 .. Len(seqs) + 1 : \A a \in 1 .. b : off[a] <= off[b]
    BY LaidOrdered
  <2> QED
    BY <1>2, <2>1
<1> QED
  BY <1>3, <1>4 DEF Copied

LEMMA RequestReadBack ==
    ASSUME RequestInv
    PROVE  ReadBack
<1> SUFFICES ASSUME NEW i \in 1 .. Len(request)
             PROVE  SoapValue(BuildSoapEnvelope(request), request[i].key) = Trim(request[i].value)
  BY ParametersAre DEF ReadBack
<1> DEFINE body == FlattenSeq(Parameters)
           text == Element("action", body)
           key == request[i].key
           content == EscapeXml(request[i].value)
<1>1. BuildSoapEnvelope(request) = text
  BY DEF BuildSoapEnvelope, Parameters
<1>2. PICK off : body \in Seq(Symbol) /\ Laid(body, Parameters, off)
  BY ParametersAre, FlattenLaid
<1>3. Written(text, "action", body, Len(body))
  <2>1. "action" \in Symbol
    BY DEF Symbol
  <2> QED
    BY <1>2, <2>1, ElementWritten
<1>4. /\ key \in Symbol /\ content \in Seq(Symbol) /\ NoTags(content)
      /\ UnescapeXml(Trim(content)) = Trim(request[i].value)
  BY ParameterAt
<1>5. Parameters[i] = Element(key, content)
  BY ParametersAre
<1>6. /\ off[i] \in Nat /\ off[i + 1] = off[i] + Len(Parameters[i]) /\ off[i + 1] <= Len(body)
      /\ Copied(body, off[i], Parameters[i])
  <2>1. i \in 1 .. Len(Parameters) /\ Parameters \in Seq(Seq(Symbol))
    BY ParametersAre
  <2> QED
    BY <1>2, <2>1, LaidCopied
<1>7. Len(Parameters[i]) \in Nat
  BY <1>4, <1>5, ElementWritten DEF Written
<1> HIDE DEF body, text, key, content
<1> DEFINE p == 3 + off[i]
           first == p + 1
<1>8. Copied(text, p, Element(key, content))
  <2> DEFINE e == Element(key, content)
             o == off[i]
  <2>1. o \in Nat /\ Len(e) \in Nat /\ o + Len(e) <= Len(body) /\ Copied(body, o, e)
    BY <1>5, <1>6, <1>7
  <2>2. p = 3 + o
    OBVIOUS
  <2> HIDE DEF e, o, p
  <2>3. /\ Len(body) \in Nat /\ Len(text) = Len(body) + 7
        /\ \A x \in 1 .. Len(body) : text[3 + x] = body[x]
    BY <1>3 DEF Written
  <2>4. \A x \in 1 .. Len(e) : body[o + x] = e[x]
    BY <2>1 DEF Copied
  <2>5. \A x \in 1 .. Len(e) : text[p + x] = e[x]
    <3> SUFFICES ASSUME NEW x \in 1 .. Len(e)
                 PROVE  text[p + x] = e[x]
      OBVIOUS
    <3>1. o + x \in 1 .. Len(body) /\ 3 + (o + x) = p + x
      BY <2>1, <2>2, <2>3
    <3> QED
      BY <2>3, <2>4, <3>1
  <2>6. p + Len(e) <= Len(text)
    BY <2>1, <2>2, <2>3
  <2>7. Copied(text, p, e)
    BY <2>5, <2>6 DEF Copied
  <2> QED
    BY <2>7 DEF e
<1>9. NoneBefore(text, Open(key), first)
  <2> SUFFICES ASSUME NEW x \in 1 .. first - 1, Stands(text, Open(key), x)
               PROVE  FALSE
    BY DEF NoneBefore
  <2>1. x \in 1 .. 3 + off[i]
    BY <1>6
  <2>2. text = Element("action", body) /\ key = request[i].key
    BY DEF text, key
  <2> QED
    BY <1>2, <2>1, <2>2, ParameterFirst
<1>10. text \in Seq(Symbol) /\ p \in Nat /\ first = p + 1
  BY <1>3, <1>6 DEF Written
<1> HIDE DEF p, first
<1>11. SoapValue(text, key) = UnescapeXml(Trim(content))
  BY <1>4, <1>8, <1>9, <1>10, SoapValueOfElement
<1> QED
  BY <1>1, <1>4, <1>11 DEF key

\* "Values are escaped" (buildSoapEnvelope): whatever the values of a request
\* contain, each is read out of the envelope as it was given.
THEOREM ReadBackTheorem == SoapSpec => []ReadBack
<1>1. SoapInit => RequestInv
  BY DEF SoapInit, RequestInv
<1>2. RequestInv /\ [RequestNext \/ HostListNext]_soapVars => RequestInv'
  <2> SUFFICES ASSUME RequestInv, [RequestNext \/ HostListNext]_soapVars
               PROVE  RequestInv'
    OBVIOUS
  <2>1. ASSUME NEW key \in Param, NEW value \in Text, Give(key, value)
        PROVE  RequestInv'
    <3> DEFINE new == [key |-> key, value |-> value]
               n == Len(request)
    <3>1. /\ request \in Seq([key : Param, value : Text]) /\ new \in [key : Param, value : Text]
          /\ request' = Append(request, new) /\ n \in Nat /\ DOMAIN request = 1 .. n
      BY <2>1, LenProperties DEF RequestInv, Give
    <3>2. /\ request' \in Seq([key : Param, value : Text]) /\ DOMAIN request' = 1 .. n + 1
          /\ \A i \in 1 .. n : request'[i] = request[i]
          /\ request'[n + 1] = new
      BY <3>1, AppendProperties
    <3>3. /\ \A i \in 1 .. n : request[i].key # key
          /\ \A i, j \in 1 .. n : request[i].key = request[j].key => i = j
          /\ new.key = key
      BY <2>1, <3>1 DEF RequestInv, Give
    <3> HIDE DEF n, new
    <3>4. \A i, j \in 1 .. n + 1 : request'[i].key = request'[j].key => i = j
      <4> SUFFICES ASSUME NEW i \in 1 .. n + 1, NEW j \in 1 .. n + 1,
                          request'[i].key = request'[j].key
                   PROVE  i = j
        OBVIOUS
      <4>1. /\ i \in 1 .. n \/ i = n + 1
            /\ j \in 1 .. n \/ j = n + 1
        BY <3>1
      <4> QED
        BY <3>2, <3>3, <4>1
    <3> QED
      BY <3>2, <3>4 DEF RequestInv
  <2>2. CASE Send
    BY <2>2 DEF Send, RequestInv
  <2>3. CASE HostListNext
    BY <2>3 DEF HostListNext, ListOneMore, Refetch, CutOff, RequestInv
  <2>4. CASE UNCHANGED soapVars
    BY <2>4 DEF soapVars, RequestInv
  <2> QED
    BY <2>1, <2>2, <2>3, <2>4 DEF RequestNext
<1>3. RequestInv => ReadBack
  BY RequestReadBack
<1> QED
  BY <1>1, <1>2, <1>3, PTL DEF SoapSpec

-----------------------------------------------------------------------------
(* An item of the list.                                                      *)

\* A tag that begins in `e` is there whole, and has one of these names.
TagsOnly(e, names) ==
    \A y \in 1 .. Len(e) : e[y] = "<" =>
        /\ y + 2 <= Len(e)
        /\ \/ e[y + 1] \in names
           \/ e[y + 1] = "/" /\ e[y + 2] \in names

LEMMA ElementTags ==
    ASSUME NEW key \in Symbol \ {"<"}, NEW content \in Seq(Symbol), NoTags(content)
    PROVE  TagsOnly(Element(key, content), {key})
<1> DEFINE e == Element(key, content)
           n == Len(content)
<1>1. Written(e, key, content, n)
  BY ElementWritten
<1>2. ASSUME NEW y \in 1 .. Len(e), e[y] = "<"
      PROVE  y = 1 \/ y = n + 4
  BY <1>1, <1>2, TagsOfElement DEF Written
<1> HIDE DEF e, n
<1>3. ASSUME NEW y \in 1 .. Len(e), e[y] = "<"
      PROVE  y + 2 <= Len(e) /\ (e[y + 1] = key \/ (e[y + 1] = "/" /\ e[y + 2] = key))
  <2>1. /\ n \in Nat /\ Len(e) = n + 7 /\ e[2] = key /\ e[n + 5] = "/" /\ e[n + 6] = key
    BY <1>1 DEF Written
  <2>2. CASE y = 1
    BY <2>1, <2>2
  <2>3. CASE y = n + 4
    <3>1. y + 1 = n + 5 /\ y + 2 = n + 6
      BY <2>1, <2>3
    <3> QED
      BY <2>1, <3>1
  <2> QED
    BY <1>2, <1>3, <2>2, <2>3
<1>4. TagsOnly(e, {key})
  BY <1>3 DEF TagsOnly
<1> QED
  BY <1>4 DEF e

LEMMA CatTags ==
    ASSUME NEW a \in Seq(Symbol), NEW b \in Seq(Symbol), NEW M, NEW N,
           TagsOnly(a, M), TagsOnly(b, N)
    PROVE  TagsOnly(a \o b, M \cup N)
<1> DEFINE c == a \o b
           n == Len(a)
           m == Len(b)
<1>1. /\ n \in Nat /\ m \in Nat /\ Len(c) = n + m
      /\ \A x \in 1 .. n : c[x] = a[x]
      /\ \A x \in 1 .. m : c[n + x] = b[x]
  BY CatAt, LenProperties
<1>2. /\ \A y \in 1 .. n : a[y] = "<" =>
             y + 2 <= n /\ (a[y + 1] \in M \/ (a[y + 1] = "/" /\ a[y + 2] \in M))
      /\ \A y \in 1 .. m : b[y] = "<" =>
             y + 2 <= m /\ (b[y + 1] \in N \/ (b[y + 1] = "/" /\ b[y + 2] \in N))
  BY DEF TagsOnly
<1> HIDE DEF c, n, m
<1>3. ASSUME NEW y \in 1 .. Len(c), c[y] = "<"
      PROVE  /\ y + 2 <= Len(c)
             /\ \/ c[y + 1] \in M \cup N
                \/ c[y + 1] = "/" /\ c[y + 2] \in M \cup N
  <2>1. CASE y \in 1 .. n
    <3>1. y + 2 <= n /\ (a[y + 1] \in M \/ (a[y + 1] = "/" /\ a[y + 2] \in M))
      BY <1>1, <1>2, <1>3, <2>1
    <3>2. c[y + 1] = a[y + 1] /\ c[y + 2] = a[y + 2]
      BY <1>1, <2>1, <3>1
    <3> QED
      BY <1>1, <2>1, <3>1, <3>2
  <2>2. CASE y \notin 1 .. n
    <3>1. PICK z \in 1 .. m : y = n + z
      <4>1. y - n \in 1 .. m /\ y = n + (y - n)
        BY <1>1, <2>2
      <4> QED
        BY <4>1
    <3>2. z + 2 <= m /\ (b[z + 1] \in N \/ (b[z + 1] = "/" /\ b[z + 2] \in N))
      BY <1>1, <1>2, <1>3, <3>1
    <3>a. z + 1 \in 1 .. m /\ z + 2 \in 1 .. m
      BY <1>1, <3>1, <3>2
    <3>3. c[n + (z + 1)] = b[z + 1] /\ c[n + (z + 2)] = b[z + 2]
      BY <1>1, <3>a
    <3>4. n + (z + 1) = y + 1 /\ n + (z + 2) = y + 2
      BY <1>1, <3>1
    <3> QED
      BY <1>1, <3>1, <3>2, <3>3, <3>4
  <2> QED
    BY <2>1, <2>2
<1>4. TagsOnly(c, M \cup N)
  BY <1>3 DEF TagsOnly
<1> QED
  BY <1>4 DEF c

\* A host as it is listed: its address needs no escaping.
HostOK(host) ==
    /\ host.mac \in Seq(Symbol) /\ NoTags(host.mac) /\ UnescapeXml(Trim(host.mac)) = host.mac
    /\ host.name \in Seq(Symbol)

MacElement(host) == Element("MACAddress", host.mac)
NameElement(host) == Element("HostName", EscapeXml(host.name))
ItemContent(host) == MacElement(host) \o NameElement(host)
Item(host) == Element("Item", ItemContent(host))

LEMMA ElementsAre ==
    ASSUME NEW host, HostOK(host)
    PROVE  /\ Written(MacElement(host), "MACAddress", host.mac, Len(host.mac))
           /\ TagsOnly(MacElement(host), {"MACAddress"})
           /\ EscapeXml(host.name) \in Seq(Symbol) /\ NoTags(EscapeXml(host.name))
           /\ Written(NameElement(host), "HostName", EscapeXml(host.name), Len(EscapeXml(host.name)))
           /\ TagsOnly(NameElement(host), {"HostName"})
           /\ ItemContent(host) \in Seq(Symbol)
           /\ TagsOnly(ItemContent(host), {"MACAddress", "HostName"})
           /\ Len(ItemContent(host)) \in Nat
           /\ Written(Item(host), "Item", ItemContent(host), Len(ItemContent(host)))
<1>1. "MACAddress" \in Symbol \ {"<"} /\ "HostName" \in Symbol \ {"<"} /\ "Item" \in Symbol
  BY DEF Symbol
<1>2. /\ host.mac \in Seq(Symbol) /\ NoTags(host.mac)
      /\ EscapeXml(host.name) \in Seq(Symbol) /\ NoTags(EscapeXml(host.name))
  BY EscapeLaid, NoMarkup DEF HostOK, NoTags
<1>3. /\ Written(MacElement(host), "MACAddress", host.mac, Len(host.mac))
      /\ TagsOnly(MacElement(host), {"MACAddress"})
  BY <1>1, <1>2, ElementWritten, ElementTags DEF MacElement
<1>4. /\ Written(NameElement(host), "HostName", EscapeXml(host.name), Len(EscapeXml(host.name)))
      /\ TagsOnly(NameElement(host), {"HostName"})
  BY <1>1, <1>2, ElementWritten, ElementTags DEF NameElement
<1>5. MacElement(host) \in Seq(Symbol) /\ NameElement(host) \in Seq(Symbol)
  BY <1>3, <1>4 DEF Written
<1>6. ItemContent(host) \in Seq(Symbol)
  BY <1>5, CatAt DEF ItemContent
<1>7. TagsOnly(ItemContent(host), {"MACAddress"} \cup {"HostName"})
  BY <1>3, <1>4, <1>5, CatTags DEF ItemContent
<1>8. {"MACAddress"} \cup {"HostName"} = {"MACAddress", "HostName"}
  OBVIOUS
<1>9. Written(Item(host), "Item", ItemContent(host), Len(ItemContent(host)))
  BY <1>1, <1>6, ElementWritten DEF Item
<1> QED
  BY <1>2, <1>3, <1>4, <1>6, <1>7, <1>8, <1>9, LenProperties

\* The only tags of its name are the one an item begins with and the one it
\* ends with.
LEMMA ItemTags ==
    ASSUME NEW host, HostOK(host), NEW e, e = Item(host), NEW y \in 1 .. Len(e), e[y] = "<"
    PROVE  /\ y + 2 <= Len(e)
           /\ e[y + 1] = "Item" => y = 1
           /\ e[y + 1] = "/" /\ e[y + 2] = "Item" => y = Len(e) - 3
<1> DEFINE c == ItemContent(host)
           n == Len(c)
<1>1. Written(e, "Item", c, n) /\ TagsOnly(c, {"MACAddress", "HostName"})
  BY ElementsAre
<1> HIDE DEF c, n
<1>2. CASE y \in 1 .. 3
  <2>1. y = 1
    BY <1>1, <1>2 DEF Written
  <2> QED
    BY <1>1, <2>1 DEF Written
<1>3. CASE y \in 4 .. n + 3
  <2>1. PICK w \in 1 .. n : y = 3 + w
    <3>1. y - 3 \in 1 .. n /\ y = 3 + (y - 3)
      BY <1>1, <1>3 DEF Written
    <3> QED
      BY <3>1
  <2>2. n \in Nat /\ n = Len(c) /\ \A x \in 1 .. n : e[3 + x] = c[x]
    BY <1>1 DEF Written
  <2>3. c[w] = "<"
    BY <2>1, <2>2
  <2>4. /\ w + 2 <= n
        /\ \/ c[w + 1] \in {"MACAddress", "HostName"}
           \/ c[w + 1] = "/" /\ c[w + 2] \in {"MACAddress", "HostName"}
    BY <1>1, <2>1, <2>2, <2>3 DEF TagsOnly
  <2>5. e[3 + (w + 1)] = c[w + 1] /\ e[3 + (w + 2)] = c[w + 2]
    BY <2>1, <2>2, <2>4
  <2>6. 3 + (w + 1) = y + 1 /\ 3 + (w + 2) = y + 2
    BY <2>1
  <2>7. Len(e) = n + 7
    BY <1>1 DEF Written
  <2>8. y + 2 <= Len(e)
    BY <2>1, <2>2, <2>4, <2>7
  <2> QED
    BY <2>4, <2>5, <2>6, <2>8
<1>4. CASE y \in n + 4 .. n + 7
  <2>1. y = n + 4
    BY <1>1, <1>4 DEF Written
  <2>2. n \in Nat /\ Len(e) = n + 7 /\ e[n + 5] = "/" /\ y + 1 = n + 5
    BY <1>1, <2>1 DEF Written
  <2> QED
    BY <2>1, <2>2
<1> QED
  BY <1>1, <1>2, <1>3, <1>4 DEF Written

LEMMA CopiedTwice ==
    ASSUME NEW text, NEW c, NEW e, Len(text) \in Nat, Len(c) \in Nat, Len(e) \in Nat,
           NEW p \in Nat, NEW o \in Nat, NEW q, q = p + o, Copied(text, p, c), Copied(c, o, e)
    PROVE  Copied(text, q, e)
<1>1. /\ p + Len(c) <= Len(text) /\ \A x \in 1 .. Len(c) : text[p + x] = c[x]
      /\ o + Len(e) <= Len(c) /\ \A x \in 1 .. Len(e) : c[o + x] = e[x]
  BY DEF Copied
<1>2. ASSUME NEW x \in 1 .. Len(e)
      PROVE  text[q + x] = e[x]
  <2>1. o + x \in 1 .. Len(c) /\ p + (o + x) = q + x
    BY <1>1
  <2> QED
    BY <1>1, <2>1
<1>3. q + Len(e) <= Len(text)
  BY <1>1
<1> QED
  BY <1>2, <1>3 DEF Copied

LEMMA CatCopied ==
    ASSUME NEW S, NEW a \in Seq(S), NEW b \in Seq(S)
    PROVE  Copied(a \o b, 0, a) /\ Copied(a \o b, Len(a), b)
<1> DEFINE c == a \o b
<1>1. /\ Len(a) \in Nat /\ Len(b) \in Nat /\ Len(c) = Len(a) + Len(b)
      /\ \A x \in 1 .. Len(a) : c[x] = a[x]
      /\ \A x \in 1 .. Len(b) : c[Len(a) + x] = b[x]
  BY CatAt, LenProperties
<1> HIDE DEF c
<1>2. \A x \in 1 .. Len(a) : c[0 + x] = a[x]
  BY <1>1
<1>3. Copied(c, 0, a)
  BY <1>1, <1>2 DEF Copied
<1>4. Copied(c, Len(a), b)
  BY <1>1 DEF Copied
<1> QED
  BY <1>3, <1>4 DEF c

\* An item that was cut out of a list is read as the host it was written for.
LEMMA ParseOfItem ==
    ASSUME NEW host, HostOK(host), NEW t \in Seq(Symbol),
           t[1] = "<", t[2] = "Item", t[3] = ">", Copied(t, 3, ItemContent(host))
    PROVE  ParseItem(t) = [mac |-> host.mac, name |-> Trim(host.name)]
<1> DEFINE c == ItemContent(host)
           a == MacElement(host)
           b == NameElement(host)
           m == Len(host.mac)
           name == EscapeXml(host.name)
<1>1. /\ Written(a, "MACAddress", host.mac, m) /\ TagsOnly(a, {"MACAddress"})
      /\ name \in Seq(Symbol) /\ NoTags(name)
      /\ Written(b, "HostName", name, Len(name))
      /\ c \in Seq(Symbol)
  BY ElementsAre
<1>2. /\ a \in Seq(Symbol) /\ m \in Nat /\ Len(a) = m + 7
      /\ b \in Seq(Symbol) /\ Len(b) \in Nat
  <2>1. a \in Seq(Symbol) /\ m \in Nat /\ Len(a) = m + 7
    BY <1>1 DEF Written
  <2>2. b \in Seq(Symbol)
    BY <1>1 DEF Written
  <2> QED
    BY <2>1, <2>2, LenProperties
<1>3. Copied(c, 0, a) /\ Copied(c, Len(a), b)
  BY <1>2, CatCopied DEF ItemContent
<1>4. Len(t) \in Nat /\ Len(c) \in Nat
  BY <1>1, LenProperties
<1>5. "MACAddress" \in Symbol /\ "HostName" \in Symbol
  BY DEF Symbol
<1>6. a = Element("MACAddress", host.mac) /\ b = Element("HostName", name)
  BY DEF MacElement, NameElement
<1> DEFINE p == m + 10
<1>7. p \in Nat /\ p = 3 + Len(a) /\ 3 = 3 + 0
  BY <1>2
<1>8. host.mac \in Seq(Symbol) /\ NoTags(host.mac) /\ host.name \in Seq(Symbol)
      /\ UnescapeXml(Trim(host.mac)) = host.mac
  BY DEF HostOK
<1>9. Copied(t, 3, c)
  OBVIOUS
<1> HIDE DEF a, b, c, m, name, p
<1>10. Copied(t, 3, a) /\ Copied(t, p, b)
  <2>1. Len(a) \in Nat
    BY <1>2
  <2>2. Copied(t, 3, a)
    BY <1>2, <1>3, <1>4, <1>7, <1>9, <2>1, CopiedTwice
  <2>3. Copied(t, p, b)
    BY <1>2, <1>3, <1>4, <1>7, <1>9, <2>1, CopiedTwice
  <2> QED
    BY <2>2, <2>3
<1>11. SoapValue(t, "MACAddress") = host.mac
  <2>1. NoneBefore(t, Open("MACAddress"), 4)
    <3> SUFFICES ASSUME NEW x \in 1 .. 4 - 1, Stands(t, Open("MACAddress"), x)
                 PROVE  FALSE
      BY DEF NoneBefore
    <3>1. x \in Nat /\ x \in {1, 2, 3}
      OBVIOUS
    <3>2. t[x] = "<" /\ t[x + 1] = "MACAddress"
      BY <1>5, <3>1, OpenStands
    <3> QED
      BY <3>1, <3>2
  <2>2. 4 = 3 + 1 /\ Copied(t, 3, Element("MACAddress", host.mac))
    BY <1>6, <1>10
  <2>3. SoapValue(t, "MACAddress") = UnescapeXml(Trim(host.mac))
    BY <1>5, <1>8, <2>1, <2>2, SoapValueOfElement
  <2> QED
    BY <1>8, <2>3
<1>12. Trim(SoapValue(t, "HostName")) = Trim(host.name)
  <2> DEFINE first == p + 1
  <2>1. NoneBefore(t, Open("HostName"), first)
    <3> SUFFICES ASSUME NEW x \in 1 .. first - 1, Stands(t, Open("HostName"), x)
                 PROVE  FALSE
      BY DEF NoneBefore
    <3>1. x \in Nat /\ x \in 1 .. p
      BY <1>7
    <3>2. t[x] = "<" /\ t[x + 1] = "HostName"
      BY <1>5, <3>1, OpenStands
    <3>3. x # 1 /\ x # 2 /\ x # 3
      BY <3>2
    <3>4. PICK z \in 1 .. Len(a) : x = 3 + z
      <4>1. x - 3 \in 1 .. Len(a) /\ x = 3 + (x - 3)
        BY <1>2, <1>7, <3>1, <3>3
      <4> QED
        BY <4>1
    <3>5. \A y \in 1 .. Len(a) : t[3 + y] = a[y]
      BY <1>10 DEF Copied
    <3>6. a[z] = "<"
      BY <3>2, <3>4, <3>5
    <3>7. /\ z + 2 <= Len(a)
          /\ a[z + 1] \in {"MACAddress"} \/ (a[z + 1] = "/" /\ a[z + 2] \in {"MACAddress"})
      BY <1>1, <3>4, <3>6 DEF TagsOnly
    <3>8. z + 1 \in 1 .. Len(a) /\ 3 + (z + 1) = x + 1
      BY <1>2, <3>4, <3>7
    <3>9. t[x + 1] = a[z + 1]
      BY <3>5, <3>8
    <3> QED
      BY <3>2, <3>7, <3>9
  <2>2. first = p + 1
    OBVIOUS
  <2> HIDE DEF first
  <2>3. SoapValue(t, "HostName") = UnescapeXml(Trim(name))
    BY <1>1, <1>5, <1>6, <1>7, <1>10, <2>1, <2>2, SoapValueOfElement
  <2>4. UnescapeXml(Trim(name)) = Trim(host.name)
    BY <1>8, UnescapeTrimmed DEF name
  <2> QED
    BY <1>8, <2>3, <2>4, TrimTwice
<1> QED
  BY <1>11, <1>12 DEF ParseItem

-----------------------------------------------------------------------------
(* The list.                                                                 *)

HostsOK(hosts) ==
    /\ Len(hosts) \in Nat /\ DOMAIN hosts = 1 .. Len(hosts)
    /\ \A i \in 1 .. Len(hosts) : HostOK(hosts[i])

Items(hosts) == [i \in DOMAIN hosts |-> Item(hosts[i])]

LEMMA ItemsAre ==
    ASSUME NEW hosts, HostsOK(hosts)
    PROVE  /\ Items(hosts) \in Seq(Seq(Symbol)) /\ Len(Items(hosts)) = Len(hosts)
           /\ \A i \in 1 .. Len(hosts) : Items(hosts)[i] = Item(hosts[i])
<1>1. Len(hosts) \in Nat /\ DOMAIN hosts = 1 .. Len(hosts)
  BY DEF HostsOK
<1>2. \A i \in 1 .. Len(hosts) : Item(hosts[i]) \in Seq(Symbol)
  BY ElementsAre DEF HostsOK, Written
<1>3. Items(hosts) = [i \in 1 .. Len(hosts) |-> Item(hosts[i])]
  BY <1>1 DEF Items
<1>4. Items(hosts) \in [1 .. Len(hosts) -> Seq(Symbol)]
  BY <1>2, <1>3
<1>5. Items(hosts) \in Seq(Seq(Symbol)) /\ Len(Items(hosts)) = Len(hosts)
  BY <1>1, <1>4, LenProperties
<1> QED
  BY <1>3, <1>5

\* Where the items of a list are: the one at i is behind the first 3 + off[i]
\* symbols.
Listing(doc, hosts, off) ==
    /\ doc \in Seq(Symbol) /\ Len(doc) \in Nat
    /\ Len(hosts) \in Nat /\ off \in [1 .. Len(hosts) + 1 -> Nat] /\ off[1] = 0
    /\ Len(doc) = off[Len(hosts) + 1] + 7
    /\ \A j \in 1 .. Len(hosts) + 1 : \A i \in 1 .. j : off[i] <= off[j]
    /\ \A i \in 1 .. Len(hosts) :
          /\ Len(Item(hosts[i])) \in Nat /\ Len(Item(hosts[i])) >= 7
          /\ off[i + 1] = off[i] + Len(Item(hosts[i]))
          /\ \A y \in 1 .. Len(Item(hosts[i])) : doc[3 + (off[i] + y)] = Item(hosts[i])[y]

\* In a whole list a tag named Item is the beginning or the end of an item.
ItemTagsOnly(doc, hosts, off) ==
    \A x \in 1 .. Len(doc) : doc[x] = "<" =>
        \/ doc[x + 1] # "Item" /\ (doc[x + 1] = "/" => doc[x + 2] # "Item")
        \/ \E i \in 1 .. Len(hosts) :
              /\ doc[x + 1] = "Item" => x = off[i] + 4
              /\ doc[x + 1] = "/" /\ doc[x + 2] = "Item" => x = off[i + 1]

LEMMA DocumentListing ==
    ASSUME NEW hosts, HostsOK(hosts)
    PROVE  \E off : /\ Listing(HostListDocument(hosts), hosts, off)
                    /\ ItemTagsOnly(HostListDocument(hosts), hosts, off)
<1> DEFINE body == FlattenSeq(Items(hosts))
           doc == Element("List", body)
           N == Len(hosts)
           n == Len(body)
<1>1. HostListDocument(hosts) = doc
  BY DEF HostListDocument, Items, Item, ItemContent, MacElement, NameElement
<1>2. PICK off : body \in Seq(Symbol) /\ Laid(body, Items(hosts), off)
  BY ItemsAre, FlattenLaid
<1>3. Written(doc, "List", body, n)
  <2>1. "List" \in Symbol
    BY DEF Symbol
  <2> QED
    BY <1>2, <2>1, ElementWritten
<1>4. N \in Nat /\ Len(Items(hosts)) = N /\ Items(hosts) \in Seq(Seq(Symbol))
  BY ItemsAre DEF HostsOK
<1>5. off \in [1 .. N + 1 -> Nat] /\ off[1] = 0 /\ n = off[N + 1]
  BY <1>2, <1>4 DEF Laid
<1>6. \A j \in 1 .. N + 1 : \A i \in 1 .. j : off[i] <= off[j]
  BY <1>2, <1>4, LaidOrdered
<1>7. /\ n \in Nat /\ doc \in Seq(Symbol) /\ Len(doc) = n + 7
      /\ doc[1] = "<" /\ doc[2] = "List" /\ doc[3] = ">"
      /\ \A x \in 1 .. n : doc[3 + x] = body[x]
      /\ doc[n + 4] = "<" /\ doc[n + 5] = "/" /\ doc[n + 6] = "List" /\ doc[n + 7] = ">"
  BY <1>3 DEF Written
<1> HIDE DEF doc, body, N, n
<1>8. ASSUME NEW i \in 1 .. N
      PROVE  /\ Len(Item(hosts[i])) \in Nat /\ Len(Item(hosts[i])) >= 7
             /\ off[i] \in Nat /\ off[i + 1] = off[i] + Len(Item(hosts[i])) /\ off[i + 1] <= n
             /\ \A y \in 1 .. Len(Item(hosts[i])) : doc[3 + (off[i] + y)] = Item(hosts[i])[y]
  <2> DEFINE e == Item(hosts[i])
  <2>1. HostOK(hosts[i])
    BY DEF HostsOK, N
  <2>2. Items(hosts)[i] = e
    BY ItemsAre DEF N
  <2>3. /\ off[i] \in Nat /\ off[i + 1] = off[i] + Len(e) /\ off[i + 1] <= n
        /\ Copied(body, off[i], e)
    BY <1>2, <1>4, <2>2, LaidCopied DEF n
  <2>4. Len(e) \in Nat /\ Len(e) >= 7
    <3>1. Written(e, "Item", ItemContent(hosts[i]), Len(ItemContent(hosts[i])))
      BY <2>1, ElementsAre
    <3> DEFINE k == Len(ItemContent(hosts[i]))
    <3>2. k \in Nat /\ Len(e) = k + 7
      BY <3>1 DEF Written
    <3> HIDE DEF k, e
    <3> QED
      BY <3>2
  <2> HIDE DEF e
  <2>5. ASSUME NEW y \in 1 .. Len(e)
        PROVE  doc[3 + (off[i] + y)] = e[y]
    <3>1. body[off[i] + y] = e[y]
      BY <2>3 DEF Copied
    <3>a. off[i] \in Nat /\ Len(e) \in Nat /\ off[i] + Len(e) <= n /\ n \in Nat /\ y \in 1 .. Len(e)
      BY <1>7, <2>3, <2>4
    <3>2. off[i] + y \in 1 .. n
      BY <3>a
    <3> QED
      BY <1>7, <3>1, <3>2
  <2> QED
    BY <2>3, <2>4, <2>5 DEF e
<1>9. Listing(doc, hosts, off)
  <2>1. Len(doc) \in Nat /\ Len(doc) = off[N + 1] + 7
    BY <1>5, <1>7
  <2> QED
    BY <1>4, <1>5, <1>6, <1>7, <1>8, <2>1 DEF Listing, N
<1>10. ASSUME NEW x \in 1 .. Len(doc), doc[x] = "<"
       PROVE  \/ doc[x + 1] # "Item" /\ (doc[x + 1] = "/" => doc[x + 2] # "Item")
              \/ \E i \in 1 .. N :
                    /\ doc[x + 1] = "Item" => x = off[i] + 4
                    /\ doc[x + 1] = "/" /\ doc[x + 2] = "Item" => x = off[i + 1]
  <2>1. CASE x \in 1 .. 3
    <3>1. x = 1
      BY <1>7, <1>10, <2>1
    <3> QED
      BY <1>7, <3>1
  <2>2. CASE x \in n + 4 .. n + 7
    <3>1. x = n + 4
      BY <1>7, <1>10, <2>2
    <3>2. x + 1 = n + 5 /\ x + 2 = n + 6
      BY <1>7, <3>1
    <3> QED
      BY <1>7, <3>2
  <2>3. CASE x \in 4 .. n + 3
    <3>1. PICK z \in 1 .. n : x = 3 + z
      <4>1. x - 3 \in 1 .. n /\ x = 3 + (x - 3)
        BY <1>7, <2>3
      <4> QED
        BY <4>1
    <3>2. PICK i \in 1 .. N : \E y \in 1 .. Len(Items(hosts)[i]) : z = off[i] + y
      <4>1. z \in 1 .. Len(body)
        BY DEF n
      <4>2. Items(hosts) \in Seq(Seq(Symbol)) /\ Laid(body, Items(hosts), off)
        BY <1>2, <1>4
      <4>3. \E i \in 1 .. Len(Items(hosts)) : \E y \in 1 .. Len(Items(hosts)[i]) : z = off[i] + y
        BY <4>1, <4>2, LaidCovers
      <4> QED
        BY <1>4, <4>3
    <3> DEFINE e == Item(hosts[i])
    <3>3. PICK y \in 1 .. Len(e) : z = off[i] + y
      BY <3>2, ItemsAre DEF N
    <3>4. /\ Len(e) \in Nat /\ Len(e) >= 7
          /\ off[i] \in Nat /\ off[i + 1] = off[i] + Len(e)
          /\ \A w \in 1 .. Len(e) : doc[3 + (off[i] + w)] = e[w]
      BY <1>8
    <3>5. HostOK(hosts[i])
      BY DEF HostsOK, N
    <3>6. e = Item(hosts[i])
      OBVIOUS
    <3> HIDE DEF e
    <3>7. x = 3 + (off[i] + y) /\ e[y] = "<"
      BY <1>10, <3>1, <3>3, <3>4
    <3>8. /\ y + 2 <= Len(e)
          /\ e[y + 1] = "Item" => y = 1
          /\ e[y + 1] = "/" /\ e[y + 2] = "Item" => y = Len(e) - 3
      BY <3>5, <3>6, <3>7, ItemTags
    <3>9. y + 1 \in 1 .. Len(e) /\ y + 2 \in 1 .. Len(e)
      BY <3>4, <3>8
    <3>10. /\ 3 + (off[i] + (y + 1)) = x + 1 /\ 3 + (off[i] + (y + 2)) = x + 2
      <4>1. off[i] \in Nat /\ y \in Nat /\ x = 3 + (off[i] + y)
        BY <3>4, <3>7
      <4> QED
        BY <4>1, SMTT(30)
    <3>11. doc[x + 1] = e[y + 1] /\ doc[x + 2] = e[y + 2]
      <4>1. doc[3 + (off[i] + (y + 1))] = e[y + 1] /\ doc[3 + (off[i] + (y + 2))] = e[y + 2]
        BY <3>4, <3>9
      <4> QED
        BY <3>10, <4>1
    <3>12. y = 1 => x = off[i] + 4
      BY <3>4, <3>7
    <3>13. y = Len(e) - 3 => x = off[i + 1]
      BY <3>4, <3>7
    <3> QED
      BY <3>8, <3>11, <3>12, <3>13
  <2> QED
    BY <1>7, <2>1, <2>2, <2>3
<1>11. ItemTagsOnly(doc, hosts, off)
  BY <1>10 DEF ItemTagsOnly, N
<1> QED
  BY <1>1, <1>9, <1>11

\* `d` is what has arrived of `doc`.
Begins(d, doc, m) ==
    /\ d \in Seq(Symbol) /\ m \in Nat /\ Len(d) = m /\ m <= Len(doc)
    /\ \A x \in 1 .. m : d[x] = doc[x]

\* The items that have arrived whole.
Arrived(hosts, off, m) == {i \in 1 .. Len(hosts) : off[i + 1] + 3 <= m}

ItemTag == <<"<", "Item">>

LEMMA ItemTagsAre ==
    /\ ItemTag \in Seq(Symbol) /\ ItemTag # <<>> /\ Len(ItemTag) = 2
    /\ "Item" \in Symbol
    /\ Close("Item") \in Seq(Symbol) /\ Close("Item") # <<>>
<1>1. "<" \in Symbol /\ "Item" \in Symbol
  BY DEF Symbol
<1>2. ItemTag \in Seq(Symbol) /\ Len(ItemTag) = 2
  BY <1>1 DEF ItemTag
<1>3. Len(<<>>) = 0
  BY EmptySeq
<1> QED
  BY <1>1, <1>2, <1>3, Tags

LEMMA StartIs ==
    ASSUME NEW hosts, NEW doc, NEW off, Listing(doc, hosts, off), ItemTagsOnly(doc, hosts, off),
           NEW d, NEW m, Begins(d, doc, m), NEW x \in Nat, Stands(d, ItemTag, x)
    PROVE  \E i \in 1 .. Len(hosts) : x = off[i] + 4
<1>1. x \in 1 .. m - 1 /\ d[x] = "<" /\ d[x + 1] = "Item"
  BY ItemStands DEF Begins, ItemTag
<1>2. x \in 1 .. Len(doc) /\ x + 1 \in 1 .. m /\ x \in 1 .. m
  BY <1>1 DEF Begins, Listing
<1>3. doc[x] = "<" /\ doc[x + 1] = "Item"
  BY <1>1, <1>2 DEF Begins
<1> QED
  BY <1>2, <1>3 DEF ItemTagsOnly

LEMMA EndIs ==
    ASSUME NEW hosts, NEW doc, NEW off, Listing(doc, hosts, off), ItemTagsOnly(doc, hosts, off),
           NEW d, NEW m, Begins(d, doc, m), NEW x \in Nat, Stands(d, Close("Item"), x)
    PROVE  \E i \in Arrived(hosts, off, m) : x = off[i + 1]
<1>1. x \in 1 .. m - 3 /\ d[x] = "<" /\ d[x + 1] = "/" /\ d[x + 2] = "Item"
  BY CloseStands, ItemTagsAre DEF Begins
<1>2. /\ x \in 1 .. Len(doc) /\ x + 1 \in 1 .. m /\ x + 2 \in 1 .. m /\ x \in 1 .. m
      /\ x + 3 <= m
  BY <1>1 DEF Begins, Listing
<1>3. doc[x] = "<" /\ doc[x + 1] = "/" /\ doc[x + 2] = "Item"
  BY <1>1, <1>2 DEF Begins
<1>4. \E i \in 1 .. Len(hosts) : x = off[i + 1]
  BY <1>2, <1>3 DEF ItemTagsOnly
<1> QED
  BY <1>2, <1>4 DEF Arrived

\* The numbers of an item that has arrived whole.
LEMMA ItemPlaces ==
    ASSUME NEW hosts, NEW doc, NEW off, Listing(doc, hosts, off),
           NEW m \in Nat, NEW i \in Arrived(hosts, off, m)
    PROVE  /\ i \in 1 .. Len(hosts) /\ i \in Nat /\ off[i] \in Nat /\ off[i + 1] \in Nat
           /\ Len(Item(hosts[i])) \in Nat /\ Len(Item(hosts[i])) >= 7
           /\ off[i + 1] = off[i] + Len(Item(hosts[i])) /\ off[i + 1] + 3 <= m
<1>1. i \in 1 .. Len(hosts) /\ off[i + 1] + 3 <= m /\ Len(hosts) \in Nat
  BY DEF Arrived, Listing
<1>2. i \in 1 .. Len(hosts) + 1 /\ i + 1 \in 1 .. Len(hosts) + 1 /\ i \in Nat
  BY <1>1
<1> QED
  BY <1>1, <1>2 DEF Listing

\* The tags of an item that has arrived whole, and what it is between them.
LEMMA ItemStandsThere ==
    ASSUME NEW hosts, HostsOK(hosts), NEW doc, NEW off, Listing(doc, hosts, off),
           NEW d, NEW m, Begins(d, doc, m), NEW i \in Arrived(hosts, off, m),
           NEW s, s = off[i] + 4, NEW e, e = off[i + 1]
    PROVE  /\ Stands(d, ItemTag, s) /\ Stands(d, Close("Item"), e)
           /\ ParseItem(SubSeq(d, s, e - 1)) = [mac |-> hosts[i].mac, name |-> Trim(hosts[i].name)]
<1> DEFINE item == Item(hosts[i])
           c == ItemContent(hosts[i])
           n == Len(c)
           o == off[i]
<1>1. m \in Nat /\ d \in Seq(Symbol) /\ Len(d) = m /\ Len(doc) \in Nat /\ m <= Len(doc)
      /\ \A x \in 1 .. m : d[x] = doc[x]
  BY DEF Begins, Listing
<1>2. /\ i \in 1 .. Len(hosts) /\ o \in Nat /\ Len(item) \in Nat /\ Len(item) >= 7
      /\ off[i + 1] = o + Len(item) /\ off[i + 1] + 3 <= m
  BY <1>1, ItemPlaces
<1>3. \A y \in 1 .. Len(item) : doc[3 + (o + y)] = item[y]
  BY <1>2 DEF Listing
<1>4. HostOK(hosts[i])
  BY <1>2 DEF HostsOK
<1>5. Written(item, "Item", c, n) /\ c \in Seq(Symbol)
  BY <1>4, ElementsAre
<1>6. /\ n \in Nat /\ Len(item) = n + 7 /\ n = Len(c)
      /\ item[1] = "<" /\ item[2] = "Item" /\ item[3] = ">"
      /\ \A x \in 1 .. n : item[3 + x] = c[x]
      /\ item[n + 4] = "<" /\ item[n + 5] = "/" /\ item[n + 6] = "Item" /\ item[n + 7] = ">"
  BY <1>5 DEF Written
<1>7. s = o + 4 /\ e = o + (n + 7) /\ o + n + 10 <= m
  <2>1. n \in Nat /\ o \in Nat /\ Len(item) = n + 7
        /\ off[i + 1] = o + Len(item) /\ off[i + 1] + 3 <= m
    BY <1>2, <1>6
  <2>2. s = o + 4 /\ e = off[i + 1]
    OBVIOUS
  <2> HIDE DEF o, n, item, c
  <2> QED
    BY <2>1, <2>2
<1> HIDE DEF item, c, n, o
<1>8. \A y \in 1 .. n + 7 : d[3 + (o + y)] = item[y]
  <2> SUFFICES ASSUME NEW y \in 1 .. n + 7
               PROVE  d[3 + (o + y)] = item[y]
    OBVIOUS
  <2>1. n \in Nat /\ o \in Nat /\ o + n + 10 <= m /\ m \in Nat
    BY <1>1, <1>2, <1>6, <1>7
  <2>2. 3 + (o + y) \in 1 .. m
    BY <2>1
  <2>3. doc[3 + (o + y)] = item[y]
    BY <1>3, <1>6
  <2> QED
    BY <1>1, <2>2, <2>3
<1>n. n \in Nat /\ o \in Nat /\ o + n + 10 <= m /\ m \in Nat
  BY <1>1, <1>2, <1>6, <1>7
<1>9. /\ d[3 + (o + 1)] = "<" /\ d[3 + (o + 2)] = "Item" /\ d[3 + (o + 3)] = ">"
      /\ d[3 + (o + (n + 4))] = "<" /\ d[3 + (o + (n + 5))] = "/"
      /\ d[3 + (o + (n + 6))] = "Item" /\ d[3 + (o + (n + 7))] = ">"
  <2>1. /\ 1 \in 1 .. n + 7 /\ 2 \in 1 .. n + 7 /\ 3 \in 1 .. n + 7 /\ n + 4 \in 1 .. n + 7
        /\ n + 5 \in 1 .. n + 7 /\ n + 6 \in 1 .. n + 7 /\ n + 7 \in 1 .. n + 7
    BY <1>n
  <2> QED
    BY <1>6, <1>8, <2>1
<1>10. /\ 3 + (o + 1) = s /\ 3 + (o + 2) = s + 1 /\ 3 + (o + 3) = s + 2
       /\ 3 + (o + (n + 4)) = e /\ 3 + (o + (n + 5)) = e + 1
       /\ 3 + (o + (n + 6)) = e + 2 /\ 3 + (o + (n + 7)) = e + 3
  BY <1>7, <1>n
<1>11. /\ d[s] = "<" /\ d[s + 1] = "Item" /\ d[s + 2] = ">"
       /\ d[e] = "<" /\ d[e + 1] = "/" /\ d[e + 2] = "Item" /\ d[e + 3] = ">"
  BY <1>9, <1>10
<1>12. s \in Nat \ {0} /\ e \in Nat /\ s \in 1 .. m - 1 /\ e \in 1 .. m - 3 /\ e - s = n + 3
  BY <1>7, <1>n
<1>13. Stands(d, ItemTag, s)
  BY <1>1, <1>11, <1>12, ItemStands DEF ItemTag
<1>14. Stands(d, Close("Item"), e)
  BY <1>1, <1>11, <1>12, CloseStands, ItemTagsAre
<1> DEFINE l == e - 1
           t == SubSeq(d, s, l)
<1>15. l \in Nat /\ s <= l + 1 /\ l <= Len(d) /\ l - s + 1 = n + 3
  <2>1. /\ e \in Nat /\ s \in Nat /\ e - s = n + 3 /\ e >= 1 /\ e <= m
        /\ n \in Nat /\ m \in Nat
    BY <1>12, <1>n
  <2>2. Len(d) = m /\ l = e - 1
    BY <1>1
  <2> HIDE DEF l
  <2>3. e - 1 \in Nat /\ e - 1 + 1 = e /\ e - 1 <= m
    BY <2>1
  <2>4. l - s + 1 = n + 3
    BY <2>1, <2>2
  <2>5. s <= l + 1
    BY <2>1, <2>2
  <2> QED
    BY <2>2, <2>3, <2>4, <2>5
<1> HIDE DEF l
<1>16. t \in Seq(Symbol) /\ Len(t) = n + 3 /\ \A x \in 1 .. n + 3 : t[x] = d[s + x - 1]
  <2>1. d \in Seq(Symbol)
    BY <1>1
  <2>2. s \in Nat \ {0}
    BY <1>12
  <2>3. l \in Nat /\ s <= l + 1 /\ l <= Len(d)
    BY <1>15
  <2>4. t \in Seq(Symbol) /\ Len(t) = l - s + 1 /\ \A x \in 1 .. l - s + 1 : t[x] = d[s + x - 1]
    BY <2>1, <2>2, <2>3, PartAt, SMTT(30)
  <2> HIDE DEF t
  <2> QED
    BY <1>15, <2>4
<1> HIDE DEF t
<1>17. t[1] = "<" /\ t[2] = "Item" /\ t[3] = ">"
  <2>1. 1 \in 1 .. n + 3 /\ 2 \in 1 .. n + 3 /\ 3 \in 1 .. n + 3
    BY <1>n
  <2>2. s + 1 - 1 = s /\ s + 2 - 1 = s + 1 /\ s + 3 - 1 = s + 2
    BY <1>12
  <2>3. t[1] = d[s + 1 - 1] /\ t[2] = d[s + 2 - 1] /\ t[3] = d[s + 3 - 1]
    BY <1>16, <2>1
  <2> QED
    BY <1>11, <2>2, <2>3
<1>18. Copied(t, 3, c)
  <2>1. ASSUME NEW x \in 1 .. n
        PROVE  t[3 + x] = c[x]
    <3>1. 3 + x \in 1 .. n + 3 /\ 3 + x \in 1 .. n + 7
      BY <1>n
    <3>2. t[3 + x] = d[s + (3 + x) - 1]
      BY <1>16, <3>1
    <3>3. s + (3 + x) - 1 = 3 + (o + (3 + x))
      BY <1>7, <1>n
    <3>4. d[3 + (o + (3 + x))] = item[3 + x] /\ item[3 + x] = c[x]
      BY <1>6, <1>8, <3>1
    <3> QED
      BY <3>2, <3>3, <3>4
  <2>2. Len(c) = n /\ 3 + Len(c) <= Len(t)
    BY <1>6, <1>16, <1>n
  <2> QED
    BY <2>1, <2>2 DEF Copied
<1>19. ParseItem(t) = [mac |-> hosts[i].mac, name |-> Trim(hosts[i].name)]
  BY <1>4, <1>16, <1>17, <1>18, ParseOfItem DEF c
<1> QED
  BY <1>13, <1>14, <1>19 DEF t, l

LEMMA ItemOrder ==
    ASSUME NEW hosts, NEW doc, NEW off, Listing(doc, hosts, off),
           NEW i \in 1 .. Len(hosts), NEW k \in 1 .. Len(hosts)
    PROVE  /\ off[i] \in Nat /\ off[k] \in Nat /\ off[i + 1] \in Nat /\ off[k + 1] \in Nat
           /\ off[k] + 7 <= off[k + 1]
           /\ k < i => off[k + 1] <= off[i]
           /\ i <= k => off[i] <= off[k] /\ off[i + 1] <= off[k + 1]
<1>1. Len(hosts) \in Nat
  BY DEF Listing
<1>2. /\ i \in 1 .. Len(hosts) + 1 /\ i + 1 \in 1 .. Len(hosts) + 1
      /\ k \in 1 .. Len(hosts) + 1 /\ k + 1 \in 1 .. Len(hosts) + 1 /\ i \in Nat /\ k \in Nat
  BY <1>1
<1>3. /\ off[i] \in Nat /\ off[k] \in Nat /\ off[i + 1] \in Nat /\ off[k + 1] \in Nat
      /\ \A b \in 1 .. Len(hosts) + 1 : \A a \in 1 .. b : off[a] <= off[b]
      /\ Len(Item(hosts[k])) \in Nat /\ Len(Item(hosts[k])) >= 7
      /\ off[k + 1] = off[k] + Len(Item(hosts[k]))
  BY <1>2 DEF Listing
<1>4. k < i => k + 1 \in 1 .. i
  BY <1>2
<1>5. i <= k => i \in 1 .. k /\ i + 1 \in 1 .. k + 1
  BY <1>2
<1>6. off[k] + 7 <= off[k + 1]
  BY <1>3
<1> QED
  BY <1>2, <1>3, <1>4, <1>5, <1>6

\* The next item, when it has arrived whole.
LEMMA NextWhole ==
    ASSUME NEW hosts, HostsOK(hosts), NEW doc, NEW off,
           Listing(doc, hosts, off), ItemTagsOnly(doc, hosts, off),
           NEW d, NEW m, Begins(d, doc, m), NEW i \in Arrived(hosts, off, m),
           NEW pos \in Nat, off[i] + 1 <= pos, pos <= off[i] + 4
    PROVE  /\ NextEnd(d, pos) = off[i + 1]
           /\ NextHost(d, pos) = Addressed([mac |-> hosts[i].mac, name |-> Trim(hosts[i].name)])
<1> DEFINE s == off[i] + 4
           e == off[i + 1]
<1>1. /\ Stands(d, ItemTag, s) /\ Stands(d, Close("Item"), e)
      /\ ParseItem(SubSeq(d, s, e - 1)) = [mac |-> hosts[i].mac, name |-> Trim(hosts[i].name)]
  BY ItemStandsThere
<1>2. m \in Nat /\ d \in Seq(Symbol)
  BY DEF Begins
<1>3. /\ i \in 1 .. Len(hosts) /\ off[i] \in Nat /\ e \in Nat /\ off[i] + 7 <= e
  <2>1. i \in 1 .. Len(hosts)
    BY DEF Arrived
  <2> QED
    BY <2>1, ItemOrder
<1>4. s \in Nat \ {0} /\ pos \in Nat \ {0} /\ s = off[i] + 4 /\ e = off[i + 1] /\ pos <= s /\ s <= e
      /\ off[i] < pos
  BY <1>3, SMTT(30)
<1> HIDE DEF s, e
<1>5. ASSUME NEW x \in pos .. s - 1, Stands(d, ItemTag, x)
      PROVE  FALSE
  <2>1. x \in Nat /\ pos <= x /\ x < s
    BY <1>4
  <2>2. PICK k \in 1 .. Len(hosts) : x = off[k] + 4
    BY <1>5, <2>1, StartIs
  <2>3. /\ off[k] \in Nat /\ off[k + 1] \in Nat /\ off[k] + 7 <= off[k + 1]
        /\ k < i => off[k + 1] <= off[i]
        /\ i <= k => off[i] <= off[k]
    BY <1>3, ItemOrder
  <2>4. k \in Int /\ i \in Int
    BY <1>3
  <2>n. off[i] \in Nat /\ off[k] \in Nat /\ pos \in Nat /\ off[k + 1] \in Nat
    BY <1>3, <2>3
  <2>a. off[k] + 4 < off[i] + 4 /\ pos <= off[k] + 4 /\ off[i] < pos
    BY <1>4, <2>1, <2>2
  <2>5. CASE k < i
    <3>1. off[k] + 7 <= off[k + 1] /\ off[k + 1] <= off[i]
      BY <2>3, <2>5
    <3> QED
      BY <2>n, <2>a, <3>1, SMTT(30)
  <2>6. CASE i <= k
    <3>1. off[i] <= off[k]
      BY <2>3, <2>6
    <3> QED
      BY <2>n, <2>a, <3>1
  <2> QED
    BY <2>4, <2>5, <2>6
<1>6. ASSUME NEW x \in s .. e - 1, Stands(d, Close("Item"), x)
      PROVE  FALSE
  <2>1. x \in Nat /\ s <= x /\ x < e
    BY <1>3, <1>4, SMTT(30)
  <2>2. PICK k \in 1 .. Len(hosts) : x = off[k + 1]
    BY <1>6, <2>1, EndIs DEF Arrived
  <2>3. /\ off[k] \in Nat /\ off[k + 1] \in Nat
        /\ k < i => off[k + 1] <= off[i]
        /\ i <= k => off[i + 1] <= off[k + 1]
    BY <1>3, ItemOrder
  <2>4. k \in Int /\ i \in Int
    BY <1>3
  <2>5. CASE k < i
    BY <1>3, <1>4, <2>1, <2>2, <2>3, <2>5, SMTT(30)
  <2>6. CASE i <= k
    BY <1>3, <1>4, <2>1, <2>2, <2>3, <2>6
  <2> QED
    BY <2>4, <2>5, <2>6
<1>7. Find(d, ItemTag, pos) = s
  BY <1>1, <1>2, <1>4, <1>5, ItemTagsAre, FindFirst
<1>8. Find(d, Close("Item"), s) = e
  BY <1>1, <1>2, <1>3, <1>4, <1>6, ItemTagsAre, FindFirst
<1>9. NextEnd(d, pos) = e
  BY <1>4, <1>7, <1>8 DEF NextEnd, ItemEnd, ItemTag
<1> QED
  BY <1>1, <1>4, <1>7, <1>9 DEF NextHost, ItemTag

\* After the items that have arrived whole no item ends.
LEMMA NextCutOff ==
    ASSUME NEW hosts, NEW doc, NEW off,
           Listing(doc, hosts, off), ItemTagsOnly(doc, hosts, off),
           NEW d, NEW m, Begins(d, doc, m), NEW c \in 0 .. Len(hosts),
           Arrived(hosts, off, m) = 1 .. c,
           NEW pos \in Nat, off[c + 1] + 1 <= pos
    PROVE  NextEnd(d, pos) = 0
<1> SUFFICES ASSUME NextEnd(d, pos) # 0
             PROVE  FALSE
  OBVIOUS
<1> DEFINE s == Find(d, ItemTag, pos)
           e == Find(d, Close("Item"), s)
<1>1. s # 0 /\ e # 0
  BY DEF NextEnd, ItemEnd, ItemTag
<1>2. d \in Seq(Symbol)
  BY DEF Begins
<1>3. Len(hosts) \in Nat /\ c + 1 \in 1 .. Len(hosts) + 1
  BY DEF Listing
<1>4. off[c + 1] \in Nat /\ pos \in Nat \ {0}
  BY <1>3 DEF Listing
<1>5. s \in Nat \ {0} /\ s >= pos
  BY <1>1, <1>2, <1>4, ItemTagsAre, FindStands
<1> HIDE DEF s
<1>6. e \in Nat /\ e >= s /\ Stands(d, Close("Item"), e)
  BY <1>1, <1>2, <1>5, ItemTagsAre, FindStands
<1> HIDE DEF e
<1>7. PICK k \in 1 .. c : e = off[k + 1]
  BY <1>6, EndIs
<1>8. off[k + 1] <= off[c + 1]
  <2>1. k + 1 \in 1 .. c + 1
    BY <1>3
  <2> QED
    BY <1>3, <2>1 DEF Listing
<1> QED
  BY <1>4, <1>5, <1>6, <1>7, <1>8

\* The items that have arrived whole are the first ones.
LEMMA ArrivedFirst ==
    ASSUME NEW hosts, NEW doc, NEW off, Listing(doc, hosts, off), NEW m \in Nat
    PROVE  \E c \in 0 .. Len(hosts) : Arrived(hosts, off, m) = 1 .. c
<1> DEFINE A == Arrived(hosts, off, m)
           N == Len(hosts)
<1>1. N \in Nat /\ A \subseteq 1 .. N
  BY DEF Listing, Arrived
<1>2. ASSUME NEW i \in A, NEW k \in 1 .. i
      PROVE  k \in A
  <2>1. i \in 1 .. N /\ off[i + 1] + 3 <= m
    BY DEF Arrived
  <2>2. k \in 1 .. N /\ k <= i
    BY <1>1, <2>1
  <2>3. off[k + 1] <= off[i + 1] /\ off[k + 1] \in Nat /\ off[i + 1] \in Nat
    BY <2>1, <2>2, ItemOrder
  <2>4. off[k + 1] + 3 <= m
    BY <2>1, <2>3
  <2> QED
    BY <2>2, <2>4 DEF Arrived
<1>3. CASE A = {}
  <2>1. 0 \in 0 .. N /\ A = 1 .. 0
    BY <1>1, <1>3
  <2> QED
    BY <2>1
<1>4. CASE A # {}
  <2> HIDE DEF A, N
  <2>1. Max(A) \in A /\ \A y \in A : Max(A) >= y
    BY <1>1, <1>4, MaxOf
  <2>2. PICK c \in A : \A y \in A : c >= y
    BY <2>1
  <2>3. c \in 0 .. N /\ c \in Nat
    BY <1>1
  <2>4. \A y \in A : y \in 1 .. c
    BY <1>1, <2>2
  <2>5. \A y \in 1 .. c : y \in A
    BY <1>2
  <2>6. A = 1 .. c
    BY <2>4, <2>5
  <2> QED
    BY <2>3, <2>6 DEF A, N
<1> QED
  BY <1>3, <1>4

LEMMA NextEndIs ==
    ASSUME NEW d \in Seq(Symbol), NEW pos \in Nat \ {0}, NextEnd(d, pos) # 0
    PROVE  NextEnd(d, pos) + 4 \in pos + 1 .. Len(d) + 5
<1> DEFINE s == Find(d, ItemTag, pos)
           e == Find(d, Close("Item"), s)
<1>1. s # 0 /\ e # 0 /\ NextEnd(d, pos) = e
  BY DEF NextEnd, ItemEnd, ItemTag
<1>2. s \in Nat \ {0} /\ s >= pos
  BY <1>1, ItemTagsAre, FindStands
<1> HIDE DEF s
<1>3. e \in Nat /\ e >= s /\ Stands(d, Close("Item"), e)
  BY <1>1, <1>2, ItemTagsAre, FindStands
<1> HIDE DEF e
<1>4. e \in 1 .. Len(d) - 3 /\ Len(d) \in Nat
  BY <1>3, CloseStands, ItemTagsAre, LenProperties
<1>5. e + 4 \in pos + 1 .. Len(d) + 5
  BY <1>2, <1>3, <1>4
<1> QED
  BY <1>1, <1>5

LEMMA ParseEquation ==
    ASSUME NEW d \in Seq(Symbol)
    PROVE  \E f :
             /\ f = [pos \in 1 .. Len(d) + 5 |->
                       IF NextEnd(d, pos) = 0 THEN <<>>
                       ELSE NextHost(d, pos) \o f[NextEnd(d, pos) + 4]]
             /\ ParseHostList(d) = f[1]
<1> DEFINE n == Len(d) + 5
           stop == {i \in 1 .. n : NextEnd(d, i) = 0}
           piece == [i \in 1 .. n |-> NextHost(d, i)]
           next == [i \in 1 .. n |-> NextEnd(d, i) + 4]
<1>1. Len(d) \in Nat /\ n \in Nat
  BY LenProperties
<1>2. \A i \in (1 .. n) \ stop : next[i] \in i + 1 .. n
  <2> SUFFICES ASSUME NEW i \in (1 .. n) \ stop
               PROVE  NextEnd(d, i) + 4 \in i + 1 .. n
    OBVIOUS
  <2>1. i \in Nat \ {0} /\ NextEnd(d, i) # 0
    BY <1>1
  <2> QED
    BY <2>1, NextEndIs
<1>3. \E f : Scan(f, n, stop, piece, next)
  <2>1. n \in Nat
    BY <1>1
  <2> HIDE DEF n, stop, piece, next
  <2> QED
    BY <1>2, <2>1, ScanExists
<1>4. PICK f : f = [i \in 1 .. n |-> IF i \in stop THEN <<>> ELSE piece[i] \o f[next[i]]]
  BY <1>3 DEF Scan
<1>5. \A i \in 1 .. n :
          (IF i \in stop THEN <<>> ELSE piece[i] \o f[next[i]])
          = IF NextEnd(d, i) = 0 THEN <<>> ELSE NextHost(d, i) \o f[NextEnd(d, i) + 4]
  OBVIOUS
<1>6. f = [i \in 1 .. n |-> IF NextEnd(d, i) = 0 THEN <<>>
                            ELSE NextHost(d, i) \o f[NextEnd(d, i) + 4]]
  <2> HIDE DEF n, stop, piece, next
  <2> QED
    BY <1>4, <1>5
<1>7. \E g : g = [pos \in 1 .. Len(d) + 5 |->
                     IF NextEnd(d, pos) = 0 THEN <<>>
                     ELSE NextHost(d, pos) \o g[NextEnd(d, pos) + 4]]
  BY <1>6
<1> QED
  BY <1>7, Zenon DEF ParseHostList

\* What is laid into a text from the j-th part on, up to `last`.
Rest(all, at, j, last) == SubSeq(all, at[j] + 1, last)
Within(all, at, j, last) == last \in Nat /\ at[j] <= last /\ last <= Len(all)

LEMMA LaidRest ==
    ASSUME NEW S, NEW all \in Seq(S), NEW read \in Seq(Seq(S)), NEW at, Laid(all, read, at),
           NEW last
    PROVE  \A j \in 1 .. Len(read) : Within(all, at, j + 1, last) =>
               read[j] \o Rest(all, at, j + 1, last) = Rest(all, at, j, last)
<1> SUFFICES ASSUME NEW j \in 1 .. Len(read), NEW k, k = j + 1, Within(all, at, k, last)
             PROVE  read[j] \o Rest(all, at, k, last) = Rest(all, at, j, last)
  OBVIOUS
<1> DEFINE a == at[j]
           b == at[j + 1]
           r == read[j]
<1>1. a \in Nat /\ b \in Nat /\ b = a + Len(r) /\ Copied(all, a, r)
  BY LaidCopied
<1>2. r \in Seq(S) /\ Len(r) \in Nat /\ Len(all) \in Nat
  <2>1. r \in Seq(S)
    BY ElementOfSeq
  <2> QED
    BY <2>1, LenProperties
<1>3. b <= last /\ last \in Nat /\ last <= Len(all)
  BY DEF Within
<1> HIDE DEF a, b, r
<1> DEFINE i == a + 1
           s == SubSeq(all, i, b)
<1>4. i \in Nat \ {0} /\ i <= b + 1 /\ b <= Len(all) /\ i = a + 1 /\ b - i + 1 = Len(r) /\ b >= a
  BY <1>1, <1>2, <1>3
<1> HIDE DEF i
<1>5. s \in Seq(S) /\ Len(s) = b - i + 1 /\ \A x \in 1 .. b - i + 1 : s[x] = all[i + x - 1]
  <2>1. b \in Nat
    BY <1>1
  <2>2. i \in Nat \ {0}
    BY <1>4
  <2>3. i <= b + 1
    BY <1>4
  <2>4. b <= Len(all)
    BY <1>4
  <2> QED
    BY <2>1, <2>2, <2>3, <2>4, PartAt, SMTT(30)
<1> HIDE DEF s
<1>6. ASSUME NEW x \in 1 .. Len(r)
      PROVE  s[x] = r[x]
  <2>1. x \in 1 .. b - i + 1 /\ i + x - 1 = a + x
    BY <1>1, <1>2, <1>4
  <2>2. s[x] = all[i + x - 1]
    BY <1>5, <2>1
  <2>3. all[a + x] = r[x]
    BY <1>1 DEF Copied
  <2> QED
    BY <2>1, <2>2, <2>3
<1>7. s = r
  BY <1>2, <1>4, <1>5, <1>6, SeqEqual
<1>8. SubSeq(all, i, b) \o SubSeq(all, b + 1, last) = SubSeq(all, i, last)
  <2>1. i \in 1 .. Len(all) + 1 /\ b \in i - 1 .. Len(all) /\ last \in b .. Len(all)
    BY <1>1, <1>2, <1>3, <1>4
  <2> QED
    BY <2>1, ConcatAdjacentSubSeq
<1> QED
  <2>1. Rest(all, at, j, last) = SubSeq(all, i, last)
    BY DEF Rest, a, i
  <2>2. Rest(all, at, k, last) = SubSeq(all, b + 1, last)
    BY DEF Rest, b
  <2> QED
    BY <1>7, <1>8, <2>1, <2>2 DEF r, s

\* What a host is read as.
HostRead(hosts, i) == Addressed([mac |-> hosts[i].mac, name |-> Trim(hosts[i].name)])

\* parseHostList(), its recursion.
Parses(f, d, m) ==
    f = [pos \in 1 .. m + 5 |-> IF NextEnd(d, pos) = 0 THEN <<>>
                                ELSE NextHost(d, pos) \o f[NextEnd(d, pos) + 4]]

\* The reader is in front of the i-th item.
AtItem(off, i, m, pos) == pos \in 1 .. m + 5 /\ off[i] + 1 <= pos /\ pos <= off[i] + 4

After(off, i, next) == next = off[i + 1] + 4

LEMMA ReadNext ==
    ASSUME NEW hosts, HostsOK(hosts), NEW doc, NEW off,
           Listing(doc, hosts, off), ItemTagsOnly(doc, hosts, off),
           NEW d, NEW m, Begins(d, doc, m), NEW f, Parses(f, d, m),
           NEW i \in 1 .. Len(hosts), i \in Arrived(hosts, off, m),
           NEW pos, AtItem(off, i, m, pos),
           NEW next, After(off, i, next)
    PROVE  f[pos] = HostRead(hosts, i) \o f[next]
<1>1. m \in Nat
  BY DEF Begins
<1>2. off[i] \in Nat /\ off[i + 1] \in Nat /\ off[i + 1] # 0
  <2>1. /\ off[i] \in Nat /\ Len(Item(hosts[i])) \in Nat /\ Len(Item(hosts[i])) >= 7
        /\ off[i + 1] = off[i] + Len(Item(hosts[i]))
    BY <1>1, ItemPlaces
  <2> QED
    BY <2>1
<1>3. pos \in Nat /\ pos \in 1 .. m + 5
  BY <1>1 DEF AtItem
<1>a. off[i] + 1 <= pos /\ pos <= off[i] + 4
  BY DEF AtItem
<1>4. /\ NextEnd(d, pos) = off[i + 1]
      /\ NextHost(d, pos) = HostRead(hosts, i)
  BY <1>3, <1>a, NextWhole DEF HostRead
<1>5. f[pos] = NextHost(d, pos) \o f[NextEnd(d, pos) + 4]
  BY <1>2, <1>3, <1>4 DEF Parses
<1> QED
  BY <1>4, <1>5 DEF After

\* Exactly the first c items have arrived whole.
FirstArrived(hosts, off, m, c) == Arrived(hosts, off, m) = 1 .. c

\* What the hosts are read as, one by one.
ReadAs(read, hosts) ==
    \A i \in 1 .. Len(hosts) :
        read[i] = HostRead(hosts, i)

\* What is read of the list is what the items that have arrived whole say.
LEMMA ListRead ==
    ASSUME NEW hosts, HostsOK(hosts), NEW doc, NEW off,
           Listing(doc, hosts, off), ItemTagsOnly(doc, hosts, off),
           NEW d, NEW m, Begins(d, doc, m), NEW c \in 0 .. Len(hosts),
           FirstArrived(hosts, off, m, c),
           NEW S, NEW read \in Seq(Seq(S)), Len(read) = Len(hosts),
           ReadAs(read, hosts),
           NEW all \in Seq(S), NEW at, Laid(all, read, at)
    PROVE  /\ at[c + 1] \in 0 .. Len(all) /\ ParseHostList(d) = SubSeq(all, 1, at[c + 1])
           /\ c = Len(hosts) => at[c + 1] = Len(all)
<1> DEFINE N == Len(hosts)
           last == at[c + 1]
           place(k) == IF k = 0 THEN 1 ELSE off[k + 1] + 4
<1>1. m \in Nat /\ d \in Seq(Symbol) /\ Len(d) = m
  BY DEF Begins
<1>2. N \in Nat /\ c \in Nat /\ c <= N /\ off \in [1 .. N + 1 -> Nat] /\ off[1] = 0
  BY DEF Listing
<1>3. /\ at \in [1 .. N + 1 -> Nat] /\ at[1] = 0 /\ at[N + 1] = Len(all)
      /\ \A j \in 1 .. N + 1 : \A i \in 1 .. j : at[i] <= at[j]
  <2>1. /\ at \in [1 .. Len(read) + 1 -> Nat] /\ at[1] = 0
        /\ at[Len(read) + 1] = Len(all)
    BY DEF Laid
  <2>2. \A j \in 1 .. Len(read) + 1 : \A i \in 1 .. j : at[i] <= at[j]
    BY LaidOrdered
  <2>3. Len(read) = N
    OBVIOUS
  <2> QED
    BY <2>1, <2>2, <2>3
<1>4. PICK f : Parses(f, d, m) /\ ParseHostList(d) = f[1]
  BY <1>1, ParseEquation DEF Parses
<1>5. ASSUME NEW k \in 0 .. c, NEW i, i = k + 1
      PROVE  AtItem(off, i, m, place(k))
  <2>1. CASE k = 0
    <3>1. place(k) = 1 /\ i = 1
      BY <1>5, <2>1
    <3>2. 1 \in 1 .. m + 5 /\ off[1] = 0
      BY <1>1, <1>2
    <3> HIDE DEF place
    <3> QED
      BY <3>1, <3>2 DEF AtItem
  <2>2. CASE k # 0
    <3>1. k \in 1 .. c /\ place(k) = off[i] + 4
      BY <1>2, <1>5, <2>2
    <3>2. k \in Arrived(hosts, off, m) /\ m \in Nat
      BY <1>1, <3>1 DEF FirstArrived
    <3>3. off[k + 1] \in Nat /\ off[k + 1] + 3 <= m
      BY <3>2, ItemPlaces
    <3>4. off[i] \in Nat /\ off[i] + 3 <= m
      BY <1>5, <3>3
    <3>5. off[i] + 4 \in 1 .. m + 5
      BY <3>2, <3>4
    <3> HIDE DEF place
    <3> QED
      BY <3>1, <3>4, <3>5, SMTT(30) DEF AtItem
  <2> QED
    BY <2>1, <2>2
<1>6. f[place(c)] = <<>>
  <2>1. c \in 0 .. c
    BY <1>2
  <2>2. /\ place(c) \in 1 .. m + 5 /\ place(c) \in Nat /\ off[c + 1] + 1 <= place(c)
    <3>1. AtItem(off, c + 1, m, place(c))
      BY <1>5, <2>1
    <3> HIDE DEF place
    <3> QED
      BY <3>1 DEF AtItem
  <2> HIDE DEF place
  <2>3. NextEnd(d, place(c)) = 0
    BY <2>2, NextCutOff DEF FirstArrived
  <2> QED
    BY <1>4, <2>2, <2>3 DEF Parses
<1>r. ASSUME NEW i \in 1 .. N, i \in Arrived(hosts, off, m), NEW pos, AtItem(off, i, m, pos),
             NEW next, After(off, i, next)
      PROVE  f[pos] = HostRead(hosts, i) \o f[next]
  <2>1. Parses(f, d, m)
    BY <1>4
  <2> HIDE DEF place, last
  <2> QED
    BY <1>r, <2>1, ReadNext
<1>7. ASSUME NEW k \in 0 .. c - 1, NEW i, i = k + 1
      PROVE  f[place(k)] = read[i] \o f[place(i)]
  <2>1. k \in 0 .. c /\ i \in 1 .. c /\ i # 0 /\ i \in 1 .. N
    BY <1>2, <1>7
  <2>2. AtItem(off, i, m, place(k))
    BY <1>5, <1>7, <2>1
  <2>3. After(off, i, place(i))
    BY <2>1 DEF After
  <2>4. i \in Arrived(hosts, off, m)
    BY <2>1 DEF FirstArrived
  <2> HIDE DEF place
  <2>5. f[place(k)] = HostRead(hosts, i) \o f[place(i)]
    BY <1>r, <2>1, <2>2, <2>3, <2>4
  <2> QED
    BY <2>1, <2>5 DEF ReadAs
<1>s. \A i \in 1 .. N : Within(all, at, i + 1, last) =>
          read[i] \o Rest(all, at, i + 1, last) = Rest(all, at, i, last)
  <2> HIDE DEF last
  <2> QED
    BY LaidRest
<1>8. ASSUME NEW k \in 0 .. c, NEW i, i = k + 1
      PROVE  Within(all, at, i, last)
  <2>1. k + 1 \in 1 .. c + 1 /\ k + 1 \in 1 .. N + 1 /\ c + 1 \in 1 .. N + 1
        /\ N + 1 \in 1 .. N + 1
    BY <1>2
  <2>2. at[k + 1] <= last /\ last \in Nat /\ last <= Len(all)
    BY <1>3, <2>1
  <2> QED
    BY <1>8, <2>2 DEF Within
<1> HIDE DEF place
<1> DEFINE P == {j \in 0 .. c : f[place(c - j)] = Rest(all, at, c - j + 1, last)}
<1>9. 0 \in P
  <2>1. c \in 0 .. c /\ 0 \in 0 .. c /\ c - 0 = c
    BY <1>2
  <2>2. last \in Nat
    BY <1>8, <2>1 DEF Within
  <2>3. Rest(all, at, c + 1, last) = <<>>
    BY <2>2, SubSeqEmpty DEF Rest
  <2> QED
    BY <1>6, <2>1, <2>3
<1>10. ASSUME NEW j \in 0 .. c - 1, j \in P
       PROVE  j + 1 \in P
  <2> DEFINE k == c - j - 1
             i == c - j
             h == i + 1
  <2>1. /\ k \in 0 .. c - 1 /\ i = k + 1 /\ i \in 0 .. c /\ h = i + 1 /\ i \in 1 .. N
        /\ c - (j + 1) = k /\ j + 1 \in 0 .. c
    BY <1>2
  <2>2. f[place(i)] = Rest(all, at, h, last)
    BY <1>10
  <2> HIDE DEF k, i, h, P, last
  <2>3. f[place(k)] = read[i] \o f[place(i)]
    BY <1>7, <2>1
  <2>4. Within(all, at, h, last)
    BY <1>8, <2>1
  <2>6. read[i] \o Rest(all, at, h, last) = Rest(all, at, i, last)
    BY <1>s, <2>1, <2>4
  <2>7. f[place(k)] = Rest(all, at, k + 1, last)
    BY <2>1, <2>2, <2>3, <2>6
  <2> QED
    BY <2>1, <2>7 DEF P
<1>11. c \in P
  <2> HIDE DEF P
  <2>1. \A j \in 0 .. c - 1 : j \in P => j + 1 \in P
    BY <1>10
  <2>2. \A j \in 0 .. c : j \in P
    BY <1>2, <1>9, <2>1, Upwards
  <2>3. c \in 0 .. c
    BY <1>2
  <2> QED
    BY <2>2, <2>3
<1>12. f[place(0)] = Rest(all, at, 1, last)
  <2>1. c - c = 0 /\ c - c + 1 = 1
    BY <1>2
  <2> QED
    BY <1>11, <2>1
<1>13. ParseHostList(d) = SubSeq(all, 1, last)
  <2>1. place(0) = 1 /\ at[1] + 1 = 1
    BY <1>3 DEF place
  <2> QED
    BY <1>4, <1>12, <2>1 DEF Rest
<1>14. last \in Nat /\ last <= Len(all)
  <2>1. c \in 0 .. c
    BY <1>2
  <2> QED
    BY <1>8, <2>1 DEF Within
<1> QED
  BY <1>3, <1>13, <1>14

LEMMA SymbolEncodesItself ==
    ASSUME NEW mac \in Seq(Symbol), \A x \in 1 .. Len(mac) : mac[x] \notin {"&", "<", ">"}
    PROVE  UnescapeXml(mac) = mac
<1> DEFINE n == Len(mac)
           off == [j \in 1 .. n + 1 |-> j - 1]
<1>1. n \in Nat /\ n = Len(mac)
  BY LenProperties
<1>2. \A x \in 1 .. n : mac[x] \notin {"&", "<", ">"}
  OBVIOUS
<1> HIDE DEF n
<1>3. /\ off \in [1 .. n + 1 -> Nat] /\ off[1] = 0 /\ off[n + 1] = n
      /\ \A j \in 1 .. n : off[j] = j - 1 /\ off[j + 1] = j
  BY <1>1
<1> HIDE DEF off
<1>4. ASSUME NEW j \in 1 .. n
      PROVE  off[j + 1] = off[j] + 1 /\ mac[off[j] + 1] = mac[j] /\ mac[j] \notin {"&", "<", ">"}
  <2>1. off[j] = j - 1 /\ off[j + 1] = j /\ j - 1 + 1 = j
    BY <1>3
  <2> QED
    BY <1>2, <2>1
<1>5. Encodes(mac, mac, off)
  BY <1>1, <1>3, <1>4 DEF Encodes
<1> QED
  BY <1>5, UnescapeEncoded

\* One symbol that is neither markup nor blank.
OneSolid(mac) == Len(mac) = 1 /\ \A x \in {1} : mac[x] \notin {"<", ">", "&", " "}

LEMMA OneSymbolRead ==
    ASSUME NEW mac \in Seq(Symbol), OneSolid(mac)
    PROVE  NoTags(mac) /\ UnescapeXml(Trim(mac)) = mac
<1>1. 1 .. Len(mac) = {1} /\ DOMAIN mac = 1 .. Len(mac)
  <2>1. \A k \in Nat : k = 1 => 1 .. k = {1}
    OBVIOUS
  <2>2. Len(mac) \in Nat /\ DOMAIN mac = 1 .. Len(mac)
    BY LenProperties
  <2>3. Len(mac) = 1
    BY DEF OneSolid
  <2> QED
    BY <2>1, <2>2, <2>3, Zenon
<1>2. \A x \in 1 .. Len(mac) : mac[x] \notin {"<", ">", "&", " "}
  BY <1>1, Zenon DEF OneSolid
<1>3. NoTags(mac) /\ UnescapeXml(mac) = mac
  BY <1>1, <1>2, SymbolEncodesItself, Zenon DEF NoTags
<1>4. Trim(mac) = SubSeq(mac, 1, Len(mac))
  <2>1. 1 \in 1 .. Len(mac) /\ Len(mac) \in 1 .. Len(mac)
    BY <1>1, Zenon DEF OneSolid
  <2>2. mac[1] \notin Blanks /\ mac[Len(mac)] \notin Blanks
    BY <1>2, <2>1, Zenon DEF Blanks
  <2>3. /\ \A y \in 1 .. 1 - 1 : mac[y] \in Blanks
        /\ \A y \in Len(mac) + 1 .. Len(mac) : mac[y] \in Blanks
    <3>1. \A k \in Nat : (1 .. 1 - 1) = {} /\ (k + 1 .. k) = {}
      OBVIOUS
    <3>2. Len(mac) \in Nat
      BY LenProperties
    <3> QED
      BY <3>1, <3>2, Zenon
  <2> QED
    BY <2>1, <2>2, <2>3, TrimSolid, Zenon
<1>5. SubSeq(mac, 1, Len(mac)) = mac
  BY SubSeqFull
<1> QED
  BY <1>3, <1>4, <1>5, Zenon

\* An address, or none.
Macs == {<<>>} \cup {<<x>> : x \in STRING \ {"<", ">", "&", " "}}

LEMMA MacRead ==
    ASSUME NEW mac \in Macs
    PROVE  mac \in Seq(Symbol) /\ NoTags(mac) /\ UnescapeXml(Trim(mac)) = mac
<1>1. <<>> \in Seq(Symbol) /\ NoTags(<<>>) /\ UnescapeXml(Trim(<<>>)) = <<>>
  <2>1. <<>> \in Seq(Symbol) /\ Len(<<>>) = 0 /\ DOMAIN <<>> = {}
    BY EmptySeq
  <2>2. NoTags(<<>>)
    BY <2>1 DEF NoTags
  <2>3. Trim(<<>>) = <<>>
    BY <2>1, TrimBlank
  <2>4. \A x \in 1 .. Len(<<>>) : <<>>[x] \notin {"&", "<", ">"}
    BY <2>1
  <2>5. UnescapeXml(<<>>) = <<>>
    BY <2>1, <2>4, SymbolEncodesItself, Zenon
  <2> QED
    BY <2>1, <2>2, <2>3, <2>5
<1>2. ASSUME NEW x \in STRING \ {"<", ">", "&", " "}, NEW s, s = <<x>>
      PROVE  s \in Seq(Symbol) /\ NoTags(s) /\ UnescapeXml(Trim(s)) = s
  <2>1. x \in Symbol
    BY <1>2 DEF Symbol
  <2>2. s \in Seq(Symbol) /\ Len(s) = 1 /\ s[1] = x
    BY <1>2, <2>1, Short, Zenon
  <2>3. OneSolid(s)
    BY <1>2, <2>2, Zenon DEF OneSolid
  <2> QED
    BY <2>2, <2>3, OneSymbolRead, Zenon
<1> QED
  BY <1>1, <1>2 DEF Macs

\* The hosts are listed with an address of one symbol or none, and what has
\* arrived of the document is its beginning.
HostListInv ==
    /\ hostList \in Seq([mac : Macs, name : Text])
    /\ Len(document) \in 0 .. Len(HostListDocument(hostList))
    /\ document = SubSeq(HostListDocument(hostList), 1, Len(document))

LEMMA ListedHosts ==
    ASSUME NEW hosts \in Seq([mac : Macs, name : Text])
    PROVE  /\ HostsOK(hosts)
           /\ \A i \in 1 .. Len(hosts) : hosts[i] \in [mac : Macs, name : Text]
           /\ HostListDocument(hosts) \in Seq(Symbol) /\ Len(HostListDocument(hosts)) \in Nat
<1>1. Len(hosts) \in Nat /\ DOMAIN hosts = 1 .. Len(hosts)
  BY LenProperties
<1>2. ASSUME NEW i \in 1 .. Len(hosts)
      PROVE  hosts[i] \in [mac : Macs, name : Text] /\ HostOK(hosts[i])
  <2>1. hosts[i] \in [mac : Macs, name : Text]
    BY ElementOfSeq
  <2>2. hosts[i].mac \in Macs /\ hosts[i].name \in Seq(Symbol)
    BY <2>1, TextIsSymbols
  <2> QED
    BY <2>1, <2>2, MacRead DEF HostOK
<1>3. HostsOK(hosts)
  BY <1>1, <1>2 DEF HostsOK
<1> QED
  BY <1>2, <1>3, DocumentListing DEF Listing

\* What hostList is to be read as.
Reads == [i \in DOMAIN hostList |-> Addressed([hostList[i] EXCEPT !.name = Trim(@)])]

LEMMA ReadsAre ==
    ASSUME hostList \in Seq([mac : Macs, name : Text])
    PROVE  \E S : Reads \in Seq(Seq(S)) /\ Len(Reads) = Len(hostList) /\ ReadAs(Reads, hostList)
<1> DEFINE N == Len(hostList)
           S == {[mac |-> hostList[i].mac, name |-> Trim(hostList[i].name)] : i \in 1 .. N}
<1>1. N \in Nat /\ DOMAIN hostList = 1 .. N
  BY LenProperties
<1>2. ASSUME NEW i \in 1 .. N
      PROVE  /\ [hostList[i] EXCEPT !.name = Trim(@)]
                  = [mac |-> hostList[i].mac, name |-> Trim(hostList[i].name)]
             /\ HostRead(hostList, i) \in Seq(S)
  <2>1. hostList[i] \in [mac : Macs, name : Text]
    BY ElementOfSeq
  <2> DEFINE h == [mac |-> hostList[i].mac, name |-> Trim(hostList[i].name)]
  <2>2. [hostList[i] EXCEPT !.name = Trim(@)] = h
    BY <2>1
  <2>3. h \in S
    OBVIOUS
  <2> HIDE DEF h, S
  <2>4. <<h>> \in Seq(S) /\ <<>> \in Seq(S)
    BY <2>3, EmptySeq
  <2>5. Addressed(h) \in Seq(S)
    BY <2>4 DEF Addressed
  <2> QED
    BY <2>2, <2>5 DEF HostRead, h
<1> HIDE DEF S
<1>3. Reads = [i \in 1 .. N |-> HostRead(hostList, i)]
  BY <1>1, <1>2 DEF Reads, HostRead
<1>4. Reads \in [1 .. N -> Seq(S)]
  BY <1>2, <1>3
<1>5. Reads \in Seq(Seq(S)) /\ Len(Reads) = N
  BY <1>1, <1>4, LenProperties
<1>6. ReadAs(Reads, hostList)
  BY <1>3 DEF ReadAs
<1> QED
  BY <1>5, <1>6

LEMMA ListHostsAsListed ==
    ASSUME HostListInv
    PROVE  HostsAsListed
<1> DEFINE doc == HostListDocument(hostList)
           m == Len(document)
           all == FlattenSeq(Reads)
<1>1. hostList \in Seq([mac : Macs, name : Text]) /\ m \in 0 .. Len(doc) /\ document = SubSeq(doc, 1, m)
  BY DEF HostListInv
<1>2. HostsOK(hostList) /\ doc \in Seq(Symbol) /\ Len(doc) \in Nat
  BY <1>1, ListedHosts
<1>3. PICK off : Listing(doc, hostList, off) /\ ItemTagsOnly(doc, hostList, off)
  BY <1>2, DocumentListing
<1>4. PICK S : Reads \in Seq(Seq(S)) /\ Len(Reads) = Len(hostList) /\ ReadAs(Reads, hostList)
  BY <1>1, ReadsAre
<1>5. all \in Seq(S) /\ \E at : Laid(all, Reads, at)
  BY <1>4, FlattenLaid
<1>6. PICK at : Laid(all, Reads, at)
  BY <1>5
<1> HIDE DEF doc, m, all
<1>7. Begins(document, doc, m)
  <2>1. m \in Nat /\ m <= Len(doc)
    BY <1>1, <1>2
  <2>2. 1 \in Nat \ {0} /\ 1 <= m + 1 /\ m - 1 + 1 = m
    BY <2>1
  <2>3. /\ document \in Seq(Symbol)
        /\ \A x \in 1 .. m - 1 + 1 : document[x] = doc[1 + x - 1]
    BY <1>1, <1>2, <2>1, <2>2, PartAt
  <2>4. \A x \in 1 .. m : document[x] = doc[x]
    <3> SUFFICES ASSUME NEW x \in 1 .. m
                 PROVE  document[x] = doc[x]
      OBVIOUS
    <3>1. x \in 1 .. m - 1 + 1 /\ 1 + x - 1 = x
      BY <2>1, <2>2
    <3> QED
      BY <2>3, <3>1
  <2>5. Len(document) = m
    BY DEF m
  <2> QED
    BY <2>1, <2>3, <2>4, <2>5 DEF Begins
<1>8. m \in Nat
  BY <1>1, <1>2
<1>9. PICK c \in 0 .. Len(hostList) : FirstArrived(hostList, off, m, c)
  BY <1>3, <1>8, ArrivedFirst DEF FirstArrived
<1>10. /\ at[c + 1] \in 0 .. Len(all) /\ ParseHostList(document) = SubSeq(all, 1, at[c + 1])
       /\ c = Len(hostList) => at[c + 1] = Len(all)
  BY <1>2, <1>3, <1>4, <1>5, <1>6, <1>7, <1>9, ListRead
<1>11. Len(all) \in Nat
  BY <1>5, LenProperties
<1>12. IsPrefix(ParseHostList(document), all)
  <2> DEFINE l == at[c + 1]
             s == SubSeq(all, 1, l)
  <2>1. l \in Nat /\ l <= Len(all) /\ 1 \in Nat \ {0} /\ 1 <= l + 1 /\ l - 1 + 1 = l
    BY <1>10, <1>11
  <2> HIDE DEF l
  <2>2. s \in Seq(S) /\ Len(s) = l - 1 + 1
    BY <1>5, <2>1, PartAt
  <2>3. Len(s) = l
    BY <2>1, <2>2
  <2>4. SubSeq(s, 1, Len(s)) = s
    BY <2>2, SubSeqFull
  <2>5. SubSeq(s, 1, Len(s)) = SubSeq(all, 1, Len(s))
    BY <2>3, <2>4
  <2>6. ParseHostList(document) = s
    BY <1>10 DEF l
  <2> HIDE DEF s
  <2>7. IsPrefix(s, all)
    BY <2>1, <2>3, <2>5 DEF IsPrefix
  <2> QED
    BY <2>6, <2>7
<1>13. ASSUME document = doc
       PROVE  ParseHostList(document) = all
  <2>1. m = Len(doc)
    BY <1>13 DEF m
  <2>2. c = Len(hostList)
    <3>1. Len(hostList) \in Nat
      BY <1>3 DEF Listing
    <3>2. CASE Len(hostList) = 0
      BY <3>2
    <3>3. CASE Len(hostList) # 0
      <4> DEFINE N == Len(hostList)
      <4>1. N \in 1 .. N /\ N + 1 \in 1 .. N + 1
        BY <3>1, <3>3
      <4>2. Len(doc) = off[N + 1] + 7 /\ off[N + 1] \in Nat
        BY <1>3, <4>1 DEF Listing
      <4>3. off[N + 1] + 3 <= m
        BY <2>1, <4>2
      <4>4. N \in 1 .. c
        BY <1>9, <4>1, <4>3 DEF Arrived, FirstArrived
      <4> QED
        BY <3>1, <4>4
    <3> QED
      BY <3>2, <3>3
  <2>3. ParseHostList(document) = SubSeq(all, 1, Len(all))
    BY <1>10, <2>2
  <2> QED
    BY <1>5, <2>3, SubSeqFull
<1> QED
  BY <1>12, <1>13 DEF HostsAsListed, Reads, all, doc

\* parseHostList and parseItem: the hosts read are the ones listed, in their
\* order, of a list cut off the first ones, and none is made up of two.
THEOREM HostsAsListedTheorem == SoapSpec => []HostsAsListed
<1>1. SoapInit => HostListInv
  <2> SUFFICES ASSUME SoapInit
               PROVE  HostListInv
    OBVIOUS
  <2>1. hostList = <<>> /\ document = <<>> /\ Len(<<>>) = 0
    BY EmptySeq DEF SoapInit
  <2>2. hostList \in Seq([mac : Macs, name : Text])
    BY <2>1, EmptySeq
  <2>3. Len(HostListDocument(hostList)) \in Nat
    BY <2>2, ListedHosts
  <2>4. SubSeq(HostListDocument(hostList), 1, 0) = <<>>
    BY SubSeqEmpty
  <2> QED
    BY <2>1, <2>2, <2>3, <2>4 DEF HostListInv
<1>2. HostListInv /\ [RequestNext \/ HostListNext]_soapVars => HostListInv'
  <2> SUFFICES ASSUME HostListInv, [RequestNext \/ HostListNext]_soapVars
               PROVE  HostListInv'
    OBVIOUS
  <2> DEFINE doc == HostListDocument(hostList)
  <2>1. hostList \in Seq([mac : Macs, name : Text]) /\ doc \in Seq(Symbol) /\ Len(doc) \in Nat
    BY ListedHosts DEF HostListInv
  <2>2. CASE RequestNext
    BY <2>2 DEF RequestNext, Give, Send, HostListInv
  <2>3. ASSUME NEW addressed \in BOOLEAN, NEW name \in Text, ListOneMore(addressed, name)
        PROVE  HostListInv'
    <3> DEFINE mac == IF addressed THEN <<ListMac[Len(hostList) + 1]>> ELSE <<>>
               new == [mac |-> mac, name |-> name]
               doc2 == HostListDocument(hostList')
    <3>1. mac \in Macs
      <4>1. Len(hostList) + 1 \in 1 .. Len(ListMac)
        <5>1. Len(hostList) \in Nat
          BY <2>1, LenProperties
        <5>2. Len(ListMac) \in Nat
          BY ListMacAssumption, LenProperties
        <5>3. Len(hostList) < Len(ListMac)
          BY <2>3 DEF ListOneMore
        <5> QED
          BY <5>1, <5>2, <5>3
      <4>2. ListMac[Len(hostList) + 1] \in STRING \ {"<", ">", "&", " "}
        BY <4>1, ListMacAssumption, ElementOfSeq
      <4> QED
        BY <4>2 DEF Macs
    <3> HIDE DEF mac
    <3>2. new \in [mac : Macs, name : Text]
      BY <3>1
    <3>3. hostList' = Append(hostList, new) /\ document' = doc2
      BY <2>3 DEF ListOneMore, mac
    <3> HIDE DEF new
    <3>4. hostList' \in Seq([mac : Macs, name : Text])
      BY <2>1, <3>2, <3>3, AppendProperties
    <3>5. doc2 \in Seq(Symbol) /\ Len(doc2) \in Nat
      BY <3>4, ListedHosts
    <3>6. SubSeq(doc2, 1, Len(doc2)) = doc2
      BY <3>5, SubSeqFull
    <3> QED
      BY <3>3, <3>4, <3>5, <3>6 DEF HostListInv
  <2>4. CASE Refetch
    <3>1. hostList' = hostList /\ document' = doc
      BY <2>4 DEF Refetch
    <3>2. SubSeq(doc, 1, Len(doc)) = doc
      BY <2>1, SubSeqFull
    <3>3. HostListDocument(hostList') = doc
      BY <3>1
    <3> HIDE DEF doc
    <3> QED
      BY <2>1, <3>1, <3>2, <3>3 DEF HostListInv
  <2>5. ASSUME NEW n \in 0 .. Len(document) - 1, CutOff(n)
        PROVE  HostListInv'
    <3>1. hostList' = hostList /\ document = doc /\ document' = SubSeq(document, 1, n)
      BY <2>5 DEF CutOff
    <3>2. HostListDocument(hostList') = doc
      BY <3>1
    <3> HIDE DEF doc
    <3>3. n \in Nat /\ n <= Len(doc) /\ n \in 0 .. Len(doc)
      BY <2>1, <3>1
    <3>4. Len(SubSeq(doc, 1, n)) = n
      <4>1. 1 \in Nat \ {0} /\ 1 <= n + 1 /\ n - 1 + 1 = n
        BY <3>3
      <4> QED
        BY <2>1, <3>3, <4>1, PartAt
    <3> QED
      BY <2>1, <3>1, <3>2, <3>3, <3>4 DEF HostListInv
  <2>6. CASE UNCHANGED soapVars
    BY <2>6 DEF soapVars, HostListInv
  <2> QED
    BY <2>2, <2>3, <2>4, <2>5, <2>6 DEF HostListNext
<1>3. HostListInv => HostsAsListed
  BY ListHostsAsListed
<1> QED
  BY <1>1, <1>2, <1>3, PTL DEF SoapSpec
=============================================================================
