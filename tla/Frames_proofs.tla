---------------------------- MODULE Frames_proofs ----------------------------
(***************************************************************************)
(* What the operators of Frames do, for all bytes: that the replacements   *)
(* of slip.go are the stuffing of RFC 1055 and are undone by it, that the  *)
(* first packet of a stream is found and no part of one, where each value  *)
(* stands in a payload, that a frame that is built is accepted and one     *)
(* with another checksum is not.                                           *)
(*                                                                         *)
(* Sequences are compared element by element; induction over them is over  *)
(* sets of sequences (SeqInduction).                                       *)
(***************************************************************************)
EXTENDS Frames, SequenceTheorems, FiniteSetTheorems, WellFoundedInduction, TLAPS

-----------------------------------------------------------------------------
(* Induction.                                                              *)

(* The order of the numbers as a set of pairs.                             *)
LEMMA NatOrder ==
  \E R : IsWellFoundedOn(R, Nat) /\ \A m, n \in Nat : m < n => <<m, n>> \in R
<1> DEFINE R == OpToRel(<, Nat)
<1>1. IsWellFoundedOn(R, Nat)
  BY NatLessThanWellFounded, Zenon
<1>2. \A m, n \in Nat : m < n => <<m, n>> \in R
  BY DEF OpToRel
<1> HIDE DEF R
<1> QED BY <1>1, <1>2

(* A set of numbers that has 0, and with each number the next, has all.    *)
LEMMA Induction ==
  ASSUME NEW T, 0 \in T, \A n \in Nat : n \in T => n + 1 \in T
  PROVE  \A n \in Nat : n \in T
<1> SUFFICES ASSUME NEW k \in Nat, k \notin T PROVE FALSE
  OBVIOUS
<1> DEFINE U == {n \in Nat : n \notin T}
<1>1. U \subseteq Nat /\ U # {}
  OBVIOUS
<1>2. PICK R : IsWellFoundedOn(R, Nat) /\ \A m, n \in Nat : m < n => <<m, n>> \in R
  BY NatOrder
<1> HIDE DEF U
<1>3. PICK m \in U : \A n \in U : <<n, m>> \notin R
  BY <1>1, <1>2, WFMin
<1>4. m \in Nat /\ m \notin T
  BY <1>3 DEF U
<1>5. m # 0 /\ m - 1 \in Nat /\ m - 1 < m
  BY <1>4
<1>6. m - 1 \notin U
  BY <1>2, <1>3, <1>4, <1>5
<1>7. m - 1 \in T
  BY <1>5, <1>6 DEF U
<1>8. m - 1 + 1 = m
  BY <1>4
<1> QED BY <1>4, <1>5, <1>7, <1>8

-----------------------------------------------------------------------------
(* Where the elements of joined and cut sequences stand.                   *)

(* The elements of two sequences joined.                                   *)
LEMMA Joined ==
  ASSUME NEW S, NEW s \in Seq(S), NEW t \in Seq(S)
  PROVE  /\ s \o t \in Seq(S) /\ Len(s) \in Nat /\ Len(t) \in Nat
         /\ Len(s \o t) = Len(s) + Len(t)
         /\ \A i \in 1 .. Len(s) : (s \o t)[i] = s[i]
         /\ \A i \in 1 .. Len(t) : (s \o t)[Len(s) + i] = t[i]
<1> DEFINE m == Len(s)
           n == Len(t)
           r == s \o t
<1>1. m \in Nat /\ n \in Nat
  OBVIOUS
<1>2. r \in Seq(S) /\ Len(r) = m + n
      /\ \A i \in 1 .. m + n : r[i] = IF i <= m THEN s[i] ELSE t[i - m]
  BY ConcatProperties
<1> HIDE DEF m, n, r
<1>3. ASSUME NEW i \in 1 .. m PROVE r[i] = s[i]
  <2>1. i \in 1 .. m + n /\ i <= m
    BY <1>1
  <2> QED BY <1>2, <2>1
<1>4. ASSUME NEW i \in 1 .. n PROVE r[m + i] = t[i]
  <2> DEFINE j == m + i
  <2>1. j \in 1 .. m + n /\ ~(j <= m) /\ j - m = i
    BY <1>1
  <2> HIDE DEF j
  <2>2. r[j] = t[i]
    BY <1>2, <2>1
  <2> QED BY <2>2 DEF j
<1> QED BY <1>1, <1>2, <1>3, <1>4 DEF m, n, r

(* The elements of a part that is cut out.                                 *)
LEMMA Cut ==
  ASSUME NEW S, NEW s \in Seq(S), NEW m \in Nat, NEW k \in Nat, m + k <= Len(s)
  PROVE  /\ SubSeq(s, m + 1, m + k) \in Seq(S)
         /\ Len(SubSeq(s, m + 1, m + k)) = k
         /\ \A i \in 1 .. k : SubSeq(s, m + 1, m + k)[i] = s[m + i]
<1> DEFINE t == SubSeq(s, m + 1, m + k)
           a == m + 1
           b == m + k
<1>1. a \in Int /\ b \in Int /\ b - a + 1 = k /\ (a <= b <=> k # 0)
      /\ \A i \in 1 .. k : a + i - 1 = m + i
  OBVIOUS
<1>2. \A i \in a .. b : s[i] \in S
  OBVIOUS
<1>3. t = SubSeq(s, a, b)
  OBVIOUS
<1> HIDE DEF t, a, b
<1>4. t \in Seq(S) /\ Len(t) = (IF a <= b THEN b - a + 1 ELSE 0)
      /\ \A i \in 1 .. b - a + 1 : t[i] = s[a + i - 1]
  BY <1>1, <1>2, <1>3, SubSeqProperties
<1>5. Len(t) = k /\ \A i \in 1 .. k : t[i] = s[m + i]
  BY <1>1, <1>4
<1> QED BY <1>4, <1>5 DEF t, a, b

(* Behind the first of two joined sequences stands the second.             *)
LEMMA CutRight ==
  ASSUME NEW S, NEW s \in Seq(S), NEW t \in Seq(S)
  PROVE  SubSeq(s \o t, Len(s) + 1, Len(s \o t)) = t
<1> DEFINE r == s \o t
           m == Len(s)
           n == Len(t)
           u == SubSeq(r, m + 1, m + n)
<1>1. r \in Seq(S) /\ m \in Nat /\ n \in Nat /\ Len(r) = m + n /\ m + n <= Len(r)
      /\ \A i \in 1 .. n : r[m + i] = t[i]
  BY Joined
<1> HIDE DEF r, m
<1>2. u \in Seq(S) /\ Len(u) = n /\ \A i \in 1 .. n : u[i] = r[m + i]
  BY <1>1, Cut
<1> HIDE DEF u
<1>3. u = t
  BY <1>1, <1>2, SeqEqual
<1> QED BY <1>1, <1>3 DEF u, r, m

(* Between the first and the last of three stands the second.              *)
LEMMA CutMiddle ==
  ASSUME NEW S, NEW a \in Seq(S), NEW b \in Seq(S), NEW c \in Seq(S)
  PROVE  SubSeq(a \o b \o c, Len(a) + 1, Len(a) + Len(b)) = b
<1> DEFINE q == a \o b
           r == q \o c
           m == Len(a)
           n == Len(b)
           u == SubSeq(r, m + 1, m + n)
<1>0. q \in Seq(S)
  OBVIOUS
<1>1. m \in Nat /\ n \in Nat /\ Len(q) = m + n /\ \A i \in 1 .. n : q[m + i] = b[i]
  BY Joined
<1> HIDE DEF q
<1>2. r \in Seq(S) /\ Len(c) \in Nat /\ Len(r) = Len(q) + Len(c)
      /\ \A i \in 1 .. Len(q) : r[i] = q[i]
  BY <1>0, Joined
<1> HIDE DEF r, m
<1>3. m + n <= Len(r) /\ \A i \in 1 .. n : r[m + i] = b[i]
  <2>1. \A i \in 1 .. n : m + i \in 1 .. Len(q)
    BY <1>1
  <2> QED BY <1>1, <1>2, <2>1
<1>4. u \in Seq(S) /\ Len(u) = n /\ \A i \in 1 .. n : u[i] = r[m + i]
  BY <1>1, <1>2, <1>3, Cut
<1> HIDE DEF u
<1>5. u = b
  BY <1>3, <1>4, SeqEqual
<1> QED BY <1>5 DEF u, r, m, q

(* The first of two joined sequences is cut out again.                     *)
LEMMA CutLeft ==
  ASSUME NEW S, NEW s \in Seq(S), NEW t \in Seq(S)
  PROVE  SubSeq(s \o t, 1, Len(s)) = s
<1>1. <<>> \in Seq(S) /\ Len(<<>>) = 0 /\ <<>> \o s = s /\ Len(s) \in Nat
  OBVIOUS
<1>2. SubSeq(<<>> \o s \o t, Len(<<>>) + 1, Len(<<>>) + Len(s)) = s
  BY <1>1, CutMiddle
<1> QED BY <1>1, <1>2

(* Two ways to cut the same sequence, the first of them after the second.  *)
CutAfter(s, more, p, rest) == s \o more = p \o rest /\ Len(s) >= Len(p)

(* A packet p ends within s: t is what of s is behind it.                  *)
Between(t, s, more, p, rest) == s = p \o t /\ t \o more = rest

(* A longer beginning has what the shorter one leaves.                     *)
LEMMA Longer ==
  ASSUME NEW S, NEW p \in Seq(S), NEW rest \in Seq(S), NEW s \in Seq(S), NEW more \in Seq(S),
         CutAfter(s, more, p, rest)
  PROVE  \E t \in Seq(S) : Between(t, s, more, p, rest)
<1>a. s \o more = p \o rest /\ Len(s) >= Len(p)
  BY DEF CutAfter
<1> DEFINE n == Len(p)
           k == Len(s) - Len(p)
           t == SubSeq(s, n + 1, n + k)
<1>1. n \in Nat /\ k \in Nat /\ Len(s) = n + k /\ n + k <= Len(s)
  BY <1>a
<1> HIDE DEF n, k
<1>2. Len(t) = k /\ \A i \in 1 .. k : t[i] = s[n + i]
  BY <1>1, Cut
<1>0. t \in Seq(S)
  BY <1>1, Cut
<1> HIDE DEF t
<1>3. /\ p \o t \in Seq(S) /\ Len(p \o t) = n + k
      /\ \A i \in 1 .. n : (p \o t)[i] = p[i]
      /\ \A i \in 1 .. k : (p \o t)[n + i] = t[i]
  <2>1. /\ p \o t \in Seq(S) /\ Len(p \o t) = Len(p) + Len(t)
        /\ \A i \in 1 .. Len(p) : (p \o t)[i] = p[i]
        /\ \A i \in 1 .. Len(t) : (p \o t)[Len(p) + i] = t[i]
    BY <1>0, Joined
  <2> QED BY <1>2, <2>1 DEF n
<1>4. \A i \in 1 .. n : s[i] = p[i]
  <2>1. \A i \in 1 .. n : (p \o rest)[i] = p[i]
    BY Joined DEF n
  <2>2. \A i \in 1 .. Len(s) : (s \o more)[i] = s[i]
    BY Joined
  <2>3. \A i \in 1 .. n : i \in 1 .. Len(s)
    BY <1>1
  <2> QED BY <1>a, <2>1, <2>2, <2>3
<1>5. s = p \o t
  <2>1. ASSUME NEW i \in 1 .. Len(s) PROVE s[i] = (p \o t)[i]
    <3>1. CASE i \in 1 .. n
      BY <1>3, <1>4, <3>1
    <3>2. CASE i \notin 1 .. n
      <4>1. i - n \in 1 .. k /\ n + (i - n) = i
        BY <1>1, <3>2
      <4> QED BY <1>2, <1>3, <4>1
    <3> QED BY <3>1, <3>2
  <2> QED BY <1>1, <1>3, <2>1, SeqEqual
<1>6. t \o more = rest
  <2> DEFINE u == t \o more
             w == s \o more
             l == Len(more)
  <2>1. l \in Nat /\ u \in Seq(S) /\ w \in Seq(S)
    BY <1>0
  <2>2. /\ Len(u) = k + l
        /\ \A i \in 1 .. k : u[i] = t[i]
        /\ \A i \in 1 .. l : u[k + i] = more[i]
    <3>1. /\ Len(u) = Len(t) + l
          /\ \A i \in 1 .. Len(t) : u[i] = t[i]
          /\ \A i \in 1 .. l : u[Len(t) + i] = more[i]
      BY <1>0, Joined
    <3> QED BY <1>2, <3>1
  <2>3. /\ Len(w) = (n + k) + l
        /\ \A i \in 1 .. n + k : w[i] = s[i]
        /\ \A i \in 1 .. l : w[(n + k) + i] = more[i]
    <3>1. /\ Len(w) = Len(s) + l
          /\ \A i \in 1 .. Len(s) : w[i] = s[i]
          /\ \A i \in 1 .. l : w[Len(s) + i] = more[i]
      BY Joined
    <3> QED BY <1>1, <3>1
  <2>4. /\ Len(rest) \in Nat /\ Len(w) = n + Len(rest)
        /\ \A i \in 1 .. Len(rest) : w[n + i] = rest[i]
    <3>1. /\ Len(p \o rest) = n + Len(rest)
          /\ \A i \in 1 .. Len(rest) : (p \o rest)[n + i] = rest[i]
      BY Joined DEF n
    <3>2. w = p \o rest /\ Len(rest) \in Nat
      BY <1>a
    <3> HIDE DEF w, n
    <3> QED BY <3>1, <3>2
  <2> HIDE DEF u, w, l
  <2>5. Len(rest) = k + l
    BY <1>1, <2>1, <2>3, <2>4
  <2>6. ASSUME NEW i \in 1 .. k + l PROVE u[i] = rest[i]
    <3>1. w[n + i] = rest[i]
      BY <2>4, <2>5
    <3>2. CASE i \in 1 .. k
      <4>1. n + i \in 1 .. n + k
        BY <1>1, <3>2
      <4> QED BY <1>2, <2>2, <2>3, <3>1, <3>2, <4>1
    <3>3. CASE i \notin 1 .. k
      <4>1. i - k \in 1 .. l /\ k + (i - k) = i /\ (n + k) + (i - k) = n + i
        BY <1>1, <2>1, <3>3
      <4>2. u[i] = more[i - k]
        BY <2>2, <4>1
      <4>3. w[n + i] = more[i - k]
        BY <2>3, <4>1
      <4> QED BY <3>1, <4>2, <4>3
    <3> QED BY <3>2, <3>3
  <2>7. u = rest
    BY <2>1, <2>2, <2>5, <2>6, SeqEqual
  <2> QED BY <2>7 DEF u
<1> QED BY <1>0, <1>5, <1>6 DEF Between

-----------------------------------------------------------------------------
(* FlattenSeq.                                                             *)

(* The concatenations of the first i of n sequences, for every i.          *)
IsFlat(g, s, n) ==
  /\ n > 0 => g[1] = s[1]
  /\ \A i \in Nat : 0 < i /\ i < n => g[i + 1] = g[i] \o s[i + 1]

(* A flattening, step by step, exists.                                     *)
LEMMA FlatExists ==
  ASSUME NEW S, NEW s \in Seq(Seq(S))
  PROVE  \E g \in [1 .. Len(s) -> Seq(S)] : IsFlat(g, s, Len(s))
<1> DEFINE P(n) == n <= Len(s) => \E g \in [1 .. n -> Seq(S)] : IsFlat(g, s, n)
           T == {n \in Nat : P(n)}
<1>1. Len(s) \in Nat /\ \A i \in 1 .. Len(s) : s[i] \in Seq(S)
  OBVIOUS
<1>2. P(0)
  <2> DEFINE e == [i \in 1 .. 0 |-> <<>>]
  <2>1. e \in [1 .. 0 -> Seq(S)]
    OBVIOUS
  <2>2. IsFlat(e, s, 0)
    BY DEF IsFlat
  <2> HIDE DEF e
  <2> QED BY <2>1, <2>2
<1>3. ASSUME NEW n \in Nat, P(n) PROVE P(n + 1)
  <2> SUFFICES ASSUME n + 1 <= Len(s)
               PROVE  \E g \in [1 .. n + 1 -> Seq(S)] : IsFlat(g, s, n + 1)
    OBVIOUS
  <2>1. n <= Len(s)
    BY <1>1
  <2>2. PICK g \in [1 .. n -> Seq(S)] : IsFlat(g, s, n)
    BY <1>3, <2>1
  <2> DEFINE last == IF n = 0 THEN s[1] ELSE g[n] \o s[n + 1]
             h == [i \in 1 .. n + 1 |-> IF i = n + 1 THEN last ELSE g[i]]
  <2>3. s[n + 1] \in Seq(S) /\ (n # 0 => g[n] \in Seq(S))
    BY <1>1, <2>2
  <2>4. last \in Seq(S)
    BY <2>3
  <2> HIDE DEF last
  <2>5. h \in [1 .. n + 1 -> Seq(S)] /\ h[n + 1] = last /\ \A i \in 1 .. n : h[i] = g[i]
    BY <2>4
  <2> HIDE DEF h
  <2>6. h[1] = s[1]
    <3>1. CASE n = 0
      BY <2>5, <3>1 DEF last
    <3>2. CASE n # 0
      <4>1. 1 \in 1 .. n /\ n > 0
        BY <3>2
      <4> QED BY <2>2, <2>5, <4>1 DEF IsFlat
    <3> QED BY <3>1, <3>2
  <2>7. ASSUME NEW i \in Nat, 0 < i, i < n + 1 PROVE h[i + 1] = h[i] \o s[i + 1]
    <3>1. i \in 1 .. n /\ h[i] = g[i] /\ n # 0
      BY <2>5, <2>7
    <3>2. CASE i = n
      BY <2>5, <3>1, <3>2 DEF last
    <3>3. CASE i # n
      <4>1. i < n /\ i + 1 \in 1 .. n
        BY <2>7, <3>1, <3>3
      <4> QED BY <2>2, <2>5, <2>7, <3>1, <4>1 DEF IsFlat
    <3> QED BY <3>2, <3>3
  <2>8. IsFlat(h, s, n + 1)
    BY <2>6, <2>7 DEF IsFlat
  <2> QED BY <2>5, <2>8
<1> HIDE DEF P
<1>4. 0 \in T /\ \A n \in Nat : n \in T => n + 1 \in T
  BY <1>2, <1>3
<1> HIDE DEF T
<1>5. \A n \in Nat : n \in T
  BY <1>4, Induction
<1>6. P(Len(s))
  BY <1>1, <1>5 DEF T
<1> QED BY <1>1, <1>6 DEF P

(* They depend on the first i sequences only.                              *)
LEMMA FlatAgree ==
  ASSUME NEW n \in Nat, NEW s, NEW t, NEW g, NEW h, IsFlat(g, s, n), IsFlat(h, t, n),
         \A i \in 1 .. n : s[i] = t[i]
  PROVE  \A i \in 1 .. n : g[i] = h[i]
<1> DEFINE T == {i \in Nat : i \in 1 .. n => g[i] = h[i]}
<1>1. 0 \in T
  OBVIOUS
<1>2. ASSUME NEW i \in Nat, i \in T PROVE i + 1 \in T
  <2> SUFFICES ASSUME i + 1 \in 1 .. n PROVE g[i + 1] = h[i + 1]
    OBVIOUS
  <2>1. CASE i = 0
    <3>1. n > 0 /\ s[1] = t[1]
      BY <2>1
    <3> QED BY <2>1, <3>1 DEF IsFlat
  <2>2. CASE i # 0
    <3>1. i \in 1 .. n /\ 0 < i /\ i < n /\ s[i + 1] = t[i + 1]
      BY <2>2
    <3>2. g[i] = h[i]
      BY <1>2, <3>1
    <3> QED BY <3>1, <3>2 DEF IsFlat
  <2> QED BY <2>1, <2>2
<1> HIDE DEF T
<1>3. \A i \in Nat : i \in T
  BY <1>1, <1>2, Induction
<1> QED BY <1>3 DEF T

(* One that is good for n + 1 steps is good for n.                         *)
LEMMA FlatLess ==
  ASSUME NEW n \in Nat, NEW s, NEW g, IsFlat(g, s, n + 1)
  PROVE  IsFlat(g, s, n)
<1>1. n > 0 => g[1] = s[1]
  BY DEF IsFlat
<1>2. ASSUME NEW i \in Nat, 0 < i, i < n PROVE g[i + 1] = g[i] \o s[i + 1]
  <2>1. i < n + 1
    BY <1>2
  <2> QED BY <1>2, <2>1 DEF IsFlat
<1> QED BY <1>1, <1>2 DEF IsFlat

(* The library's FlattenSeq is the last step of such a one.                *)
LEMMA FlattenIs ==
  ASSUME NEW S, NEW s \in Seq(Seq(S)), NEW n \in Nat \ {0}, n = Len(s)
  PROVE  \E g : IsFlat(g, s, n) /\ FlattenSeq(s) = g[n] /\ \A i \in 1 .. n : g[i] \in Seq(S)
<1> DEFINE Body(g) == [i \in 1 .. n |-> IF i = 1 THEN s[i] ELSE g[i - 1] \o s[i]]
<1>1. FlattenSeq(s) = (CHOOSE g : g = Body(g))[n]
  BY DEF FlattenSeq
<1>2. PICK f \in [1 .. n -> Seq(S)] : IsFlat(f, s, n)
  BY FlatExists
<1>3. ASSUME NEW i \in 1 .. n PROVE f[i] = Body(f)[i]
  <2>1. CASE i = 1
    BY <1>2, <2>1 DEF IsFlat
  <2>2. CASE i # 1
    <3>1. i - 1 \in Nat /\ 0 < i - 1 /\ i - 1 < n /\ i - 1 + 1 = i
      BY <2>2
    <3>2. f[i] = f[i - 1] \o s[i]
      BY <1>2, <3>1 DEF IsFlat
    <3> QED BY <2>2, <3>2
  <2> QED BY <2>1, <2>2
<1>4. f = Body(f)
  BY <1>2, <1>3
<1> DEFINE h == CHOOSE g : g = Body(g)
<1>5. h = Body(h)
  BY <1>4
<1> HIDE DEF h
<1>6. IsFlat(h, s, n)
  <2>1. h[1] = s[1]
    BY <1>5
  <2>2. ASSUME NEW i \in Nat, 0 < i, i < n PROVE h[i + 1] = h[i] \o s[i + 1]
    <3> DEFINE j == i + 1
    <3>1. j \in 1 .. n /\ j # 1 /\ j - 1 = i
      BY <2>2
    <3> HIDE DEF j
    <3>2. Body(h)[j] = h[j - 1] \o s[j]
      BY <3>1
    <3>3. h[j] = h[i] \o s[j]
      BY <1>5, <3>1, <3>2
    <3> QED BY <3>3 DEF j
  <2> QED BY <2>1, <2>2 DEF IsFlat
<1>7. \A i \in 1 .. n : h[i] = f[i]
  <2>1. n \in Nat /\ \A i \in 1 .. n : s[i] = s[i]
    OBVIOUS
  <2>2. IsFlat(f, s, n)
    BY <1>2
  <2> QED BY <1>6, <2>1, <2>2, FlatAgree
<1>8. h[n] = f[n]
  BY <1>7
<1>9. FlattenSeq(s) = f[n]
  BY <1>1, <1>8 DEF h
<1>10. \A i \in 1 .. n : f[i] \in Seq(S)
  BY <1>2
<1> QED BY <1>2, <1>9, <1>10

(* Of nothing, nothing.                                                    *)
LEMMA FlattenEmpty == FlattenSeq(<<>>) = <<>>
  BY DEF FlattenSeq

(* One sequence more.                                                      *)
LEMMA FlattenStep ==
  ASSUME NEW S, NEW n \in Nat, NEW F \in [1 .. n + 1 -> Seq(S)],
         NEW G \in [1 .. n -> Seq(S)], \A i \in 1 .. n : G[i] = F[i]
  PROVE  /\ FlattenSeq(G) \in Seq(S)
         /\ FlattenSeq(F) \in Seq(S)
         /\ FlattenSeq(F) = FlattenSeq(G) \o F[n + 1]
<1>1. F \in Seq(Seq(S)) /\ n + 1 = Len(F) /\ n + 1 \in Nat \ {0} /\ F[n + 1] \in Seq(S)
  OBVIOUS
<1>2. G \in Seq(Seq(S)) /\ n = Len(G) /\ \A i \in 1 .. n : G[i] = F[i]
  OBVIOUS
<1>3. PICK f : /\ IsFlat(f, F, n + 1) /\ FlattenSeq(F) = f[n + 1]
               /\ \A i \in 1 .. n + 1 : f[i] \in Seq(S)
  BY <1>1, FlattenIs
<1>4. f[n + 1] \in Seq(S)
  BY <1>3
<1>5. CASE n = 0
  <2>1. G = <<>>
    BY <1>2, <1>5
  <2>2. f[n + 1] = F[n + 1]
    BY <1>3, <1>5 DEF IsFlat
  <2>3. <<>> \o F[n + 1] = F[n + 1] /\ <<>> \in Seq(S)
    BY <1>1
  <2> QED BY <1>1, <1>3, <2>1, <2>2, <2>3, FlattenEmpty
<1>6. CASE n # 0
  <2>1. PICK g : /\ IsFlat(g, G, n) /\ FlattenSeq(G) = g[n]
                 /\ \A i \in 1 .. n : g[i] \in Seq(S)
    BY <1>2, <1>6, FlattenIs
  <2>2. \A i \in 1 .. n : g[i] = f[i]
    <3>1. IsFlat(f, F, n)
      BY <1>3, FlatLess
    <3>2. IsFlat(g, G, n) /\ \A i \in 1 .. n : G[i] = F[i]
      BY <1>2, <2>1
    <3> QED BY <3>1, <3>2, FlatAgree
  <2>3. n \in 1 .. n /\ n \in 1 .. n + 1 /\ 0 < n /\ n < n + 1
    BY <1>6
  <2>4. f[n + 1] = f[n] \o F[n + 1]
    BY <1>3, <2>3 DEF IsFlat
  <2>5. FlattenSeq(G) = f[n] /\ f[n] \in Seq(S)
    BY <1>3, <2>1, <2>2, <2>3
  <2> QED BY <1>3, <1>4, <2>4, <2>5
<1> QED BY <1>5, <1>6

(* Sequences by their length: the empty one, and one element more.         *)
LEMMA SeqInduction ==
  ASSUME NEW S, NEW T, <<>> \in T,
         \A s \in Seq(S) : \A x \in S : s \in T => Append(s, x) \in T
  PROVE  \A s \in Seq(S) : s \in T
<1> DEFINE P(n) == \A s \in Seq(S) : Len(s) = n => s \in T
           U == {n \in Nat : P(n)}
<1>1. P(0)
  BY EmptySeq
<1>2. ASSUME NEW n \in Nat, P(n) PROVE P(n + 1)
  <2> SUFFICES ASSUME NEW s \in Seq(S), Len(s) = n + 1 PROVE s \in T
    OBVIOUS
  <2>1. s # <<>>
    OBVIOUS
  <2>2. PICK r \in Seq(S), x \in S : s = Append(r, x)
    BY <2>1, SequenceEmptyOrAppend
  <2>3. Len(r) = n
    BY <2>2
  <2> QED BY <1>2, <2>2, <2>3
<1> HIDE DEF P
<1>3. 0 \in U /\ \A n \in Nat : n \in U => n + 1 \in U
  BY <1>1, <1>2
<1> HIDE DEF U
<1>4. \A n \in Nat : n \in U
  BY <1>3, Induction
<1>5. ASSUME NEW s \in Seq(S) PROVE s \in T
  <2>1. Len(s) \in Nat /\ P(Len(s))
    BY <1>4 DEF U
  <2> QED BY <2>1 DEF P
<1> QED BY <1>5

(* A last sequence stands behind the others.                               *)
LEMMA FlattenAppend ==
  ASSUME NEW S, NEW s \in Seq(Seq(S)), NEW x \in Seq(S)
  PROVE  /\ FlattenSeq(s) \in Seq(S)
         /\ FlattenSeq(Append(s, x)) \in Seq(S)
         /\ FlattenSeq(Append(s, x)) = FlattenSeq(s) \o x
<1> DEFINE n == Len(s)
           F == Append(s, x)
<1>1. n \in Nat /\ s \in [1 .. n -> Seq(S)]
  OBVIOUS
<1>2. F \in [1 .. n + 1 -> Seq(S)] /\ F[n + 1] = x /\ \A i \in 1 .. n : s[i] = F[i]
  <2>1. F \in Seq(Seq(S)) /\ Len(F) = n + 1 /\ F[n + 1] = x /\ \A i \in 1 .. n : F[i] = s[i]
    BY AppendProperties
  <2>2. F \in [1 .. Len(F) -> Seq(S)]
    BY <2>1, LenProperties
  <2> QED BY <2>1, <2>2
<1> HIDE DEF n, F
<1>3. /\ FlattenSeq(s) \in Seq(S) /\ FlattenSeq(F) \in Seq(S)
      /\ FlattenSeq(F) = FlattenSeq(s) \o F[n + 1]
  BY <1>1, <1>2, FlattenStep
<1> QED BY <1>2, <1>3 DEF F

(* What the sequences are of, the flat one is of.                          *)
LEMMA FlattenType ==
  ASSUME NEW S, NEW s \in Seq(Seq(S)) PROVE FlattenSeq(s) \in Seq(S)
<1>1. <<>> \in Seq(S)
  OBVIOUS
<1> QED BY <1>1, FlattenAppend

(* The flattening of a joined sequence is the flattenings, joined.         *)
LEMMA FlattenConcat ==
  ASSUME NEW S, NEW s \in Seq(Seq(S))
  PROVE  \A t \in Seq(Seq(S)) : FlattenSeq(s \o t) = FlattenSeq(s) \o FlattenSeq(t)
<1> DEFINE T == {t \in Seq(Seq(S)) : FlattenSeq(s \o t) = FlattenSeq(s) \o FlattenSeq(t)}
<1>1. <<>> \in T
  <2>1. s \o <<>> = s /\ <<>> \in Seq(Seq(S)) /\ FlattenSeq(s) \o <<>> = FlattenSeq(s)
    BY FlattenType
  <2> QED BY <2>1, FlattenEmpty
<1>2. ASSUME NEW t \in Seq(Seq(S)), NEW x \in Seq(S), t \in T PROVE Append(t, x) \in T
  <2>1. s \o Append(t, x) = Append(s \o t, x) /\ s \o t \in Seq(Seq(S)) /\ Append(t, x) \in Seq(Seq(S))
    OBVIOUS
  <2>2. FlattenSeq(Append(s \o t, x)) = FlattenSeq(s \o t) \o x
    BY <2>1, FlattenAppend
  <2>3. FlattenSeq(Append(t, x)) = FlattenSeq(t) \o x
    BY FlattenAppend
  <2>4. FlattenSeq(s) \in Seq(S) /\ FlattenSeq(t) \in Seq(S)
    BY FlattenType
  <2>5. (FlattenSeq(s) \o FlattenSeq(t)) \o x = FlattenSeq(s) \o (FlattenSeq(t) \o x)
    BY <2>4, ConcatAssociative
  <2> QED BY <1>2, <2>1, <2>2, <2>3, <2>5
<1> HIDE DEF T
<1>3. \A t \in Seq(Seq(S)) : t \in T
  BY <1>1, <1>2, SeqInduction
<1> QED BY <1>3 DEF T

(* A single sequence is left as it is.                                     *)
LEMMA FlattenOne ==
  ASSUME NEW S, NEW x \in Seq(S) PROVE FlattenSeq(<<x>>) = x
<1>1. <<>> \in Seq(Seq(S)) /\ <<x>> = Append(<<>>, x) /\ <<>> \o x = x
  OBVIOUS
<1>2. FlattenSeq(Append(<<>>, x)) = FlattenSeq(<<>>) \o x
  BY <1>1, FlattenAppend
<1> QED BY <1>1, <1>2, FlattenEmpty

-----------------------------------------------------------------------------
(* Replacements.                                                           *)

(* A byte by a pair: each byte by itself, whatever is in front of it.      *)
LEMMA PairedAppend ==
  ASSUME NEW S, NEW s \in Seq(S), NEW x \in S, NEW b, NEW p \in Seq(S)
  PROVE  /\ Paired(s, b, p) \in Seq(S)
         /\ Paired(Append(s, x), b, p) \in Seq(S)
         /\ Paired(Append(s, x), b, p) = Paired(s, b, p) \o (IF x = b THEN p ELSE <<x>>)
<1> DEFINE n == Len(s)
           r == Append(s, x)
           F == [i \in DOMAIN r |-> IF r[i] = b THEN p ELSE <<r[i]>>]
           G == [i \in DOMAIN s |-> IF s[i] = b THEN p ELSE <<s[i]>>]
<1>1. n \in Nat /\ DOMAIN s = 1 .. n /\ DOMAIN r = 1 .. n + 1
      /\ r[n + 1] = x /\ \A i \in 1 .. n : s[i] = r[i]
  OBVIOUS
<1>2. F \in [1 .. n + 1 -> Seq(S)] /\ G \in [1 .. n -> Seq(S)]
  OBVIOUS
<1>3. F[n + 1] = (IF x = b THEN p ELSE <<x>>) /\ \A i \in 1 .. n : G[i] = F[i]
  BY <1>1
<1>4. Paired(s, b, p) = FlattenSeq(G) /\ Paired(r, b, p) = FlattenSeq(F)
  BY DEF Paired
<1> HIDE DEF n, r, F, G
<1>5. /\ FlattenSeq(G) \in Seq(S) /\ FlattenSeq(F) \in Seq(S)
      /\ FlattenSeq(F) = FlattenSeq(G) \o F[n + 1]
  BY <1>1, <1>2, <1>3, FlattenStep
<1> QED BY <1>3, <1>4, <1>5 DEF r

(* Nothing to replace.                                                     *)
LEMMA NothingPaired ==
  ASSUME NEW b, NEW p PROVE Paired(<<>>, b, p) = <<>>
<1>1. [i \in DOMAIN <<>> |-> IF <<>>[i] = b THEN p ELSE << <<>>[i] >>] = <<>>
  OBVIOUS
<1> QED BY <1>1, FlattenEmpty DEF Paired

(* A byte that does not complete a pair stays.                             *)
LEMMA UnpairedAppend ==
  ASSUME NEW S, NEW s \in Seq(S), NEW x \in S, NEW f, NEW g, NEW b \in S,
         x # g \/ s = <<>> \/ s[Len(s)] # f
  PROVE  /\ Unpaired(s, f, g, b) \in Seq(S)
         /\ Unpaired(Append(s, x), f, g, b) \in Seq(S)
         /\ Unpaired(Append(s, x), f, g, b) = Append(Unpaired(s, f, g, b), x)
<1> DEFINE n == Len(s)
           r == Append(s, x)
           E(q, i) == IF Pair(q, f, g, i) THEN <<b>>
                      ELSE IF Pair(q, f, g, i - 1) THEN <<>> ELSE <<q[i]>>
           F == [i \in DOMAIN r |-> E(r, i)]
           G == [i \in DOMAIN s |-> E(s, i)]
<1>1. n \in Nat /\ DOMAIN s = 1 .. n /\ DOMAIN r = 1 .. n + 1 /\ Len(r) = n + 1
      /\ r[n + 1] = x /\ \A i \in 1 .. n : s[i] = r[i] /\ s[i] \in S
  OBVIOUS
<1>0. x # g \/ n = 0 \/ r[n] # f
  <2>1. CASE n # 0
    <3>1. n \in 1 .. n /\ s # <<>>
      BY <1>1, <2>1
    <3> QED BY <1>1, <3>1
  <2> QED BY <2>1
<1>11. Len(s) = n
  OBVIOUS
<1> HIDE DEF n, r
<1>2. ~Pair(r, f, g, n) /\ ~Pair(r, f, g, n + 1)
  BY <1>0, <1>1 DEF Pair
<1>3. ASSUME NEW i \in 0 .. n PROVE Pair(s, f, g, i) <=> Pair(r, f, g, i)
  <2>1. CASE i = n
    BY <1>1, <1>2, <1>11, <2>1 DEF Pair
  <2>2. CASE i # n
    <3>1. i \in 0 .. n - 1 /\ (i # 0 => s[i] = r[i]) /\ s[i + 1] = r[i + 1]
      BY <1>1, <2>2
    <3> QED BY <1>1, <1>11, <3>1 DEF Pair
  <2> QED BY <2>1, <2>2
<1>4. ASSUME NEW i \in 1 .. n PROVE G[i] = F[i] /\ G[i] \in Seq(S)
  <2>1. i - 1 \in 0 .. n /\ i \in 0 .. n /\ i \in DOMAIN s /\ i \in DOMAIN r
    BY <1>1
  <2>2. E(s, i) = E(r, i)
    BY <1>1, <1>3, <2>1
  <2>3. E(s, i) \in Seq(S)
    BY <1>1
  <2> QED BY <2>1, <2>2, <2>3
<1>5. F[n + 1] = <<x>> /\ <<x>> \in Seq(S)
  BY <1>1, <1>2
<1>6. F \in [1 .. n + 1 -> Seq(S)] /\ G \in [1 .. n -> Seq(S)]
  BY <1>1, <1>4, <1>5
<1>7. Unpaired(s, f, g, b) = FlattenSeq(G) /\ Unpaired(r, f, g, b) = FlattenSeq(F)
  BY DEF Unpaired
<1> HIDE DEF F, G, E
<1>8. /\ FlattenSeq(G) \in Seq(S) /\ FlattenSeq(F) \in Seq(S)
      /\ FlattenSeq(F) = FlattenSeq(G) \o F[n + 1]
  BY <1>1, <1>4, <1>6, FlattenStep
<1>9. FlattenSeq(G) \o <<x>> = Append(FlattenSeq(G), x)
  BY <1>8
<1> QED BY <1>5, <1>7, <1>8, <1>9 DEF r

(* A pair is replaced.                                                     *)
LEMMA UnpairedPair ==
  ASSUME NEW S, NEW s \in Seq(S), NEW f \in S, NEW g \in S, NEW b \in S, f # g
  PROVE  /\ Unpaired(s, f, g, b) \in Seq(S)
         /\ Unpaired(Append(Append(s, f), g), f, g, b) = Append(Unpaired(s, f, g, b), b)
<1> DEFINE n == Len(s)
           q == Append(s, f)
           r == Append(q, g)
           E(u, i) == IF Pair(u, f, g, i) THEN <<b>>
                      ELSE IF Pair(u, f, g, i - 1) THEN <<>> ELSE <<u[i]>>
           H == [i \in DOMAIN r |-> E(r, i)]
           F == [i \in 1 .. n + 1 |-> E(r, i)]
           G == [i \in DOMAIN s |-> E(s, i)]
<1>1. n \in Nat /\ DOMAIN s = 1 .. n /\ q \in Seq(S) /\ Len(q) = n + 1 /\ q[n + 1] = f
      /\ \A i \in 1 .. n : q[i] = s[i] /\ s[i] \in S
  OBVIOUS
<1>2. DOMAIN r = 1 .. n + 2 /\ Len(r) = n + 2 /\ r[n + 2] = g /\ \A i \in 1 .. n + 1 : r[i] = q[i]
  BY <1>1
<1>3. \A i \in 1 .. n : r[i] = s[i]
  BY <1>1, <1>2
<1>4. r[n + 1] = f
  BY <1>1, <1>2
<1> HIDE DEF r, q, n
<1>5. Pair(r, f, g, n + 1) /\ ~Pair(r, f, g, n) /\ ~Pair(r, f, g, n + 2)
  BY <1>1, <1>2, <1>4 DEF Pair
<1>6. \A i \in 0 .. n : Pair(s, f, g, i) <=> Pair(r, f, g, i)
  BY <1>1, <1>2, <1>3, <1>5 DEF Pair, n
<1>7. ASSUME NEW i \in 1 .. n PROVE G[i] = F[i] /\ G[i] \in Seq(S)
  <2>1. i - 1 \in 0 .. n /\ i \in 0 .. n /\ i \in DOMAIN s /\ i \in 1 .. n + 1
    BY <1>1
  <2>2. E(s, i) = E(r, i)
    BY <1>3, <1>6, <2>1
  <2>3. E(s, i) \in Seq(S)
    BY <1>1
  <2> QED BY <2>1, <2>2, <2>3
<1>8. F[n + 1] = <<b>>
  <2>1. n + 1 \in 1 .. n + 1
    BY <1>1
  <2> QED BY <1>5, <2>1
<1>9. H[n + 2] = <<>>
  <2> DEFINE m == n + 2
  <2>1. m \in DOMAIN r /\ m - 1 = n + 1
    BY <1>1, <1>2
  <2>2. ~Pair(r, f, g, m) /\ Pair(r, f, g, m - 1)
    BY <1>5, <2>1
  <2> HIDE DEF m
  <2>3. H[m] = <<>>
    BY <2>1, <2>2
  <2> QED BY <2>3 DEF m
<1>10. \A i \in 1 .. n + 1 : F[i] = H[i]
  <2>1. \A i \in 1 .. n + 1 : i \in DOMAIN r
    BY <1>1, <1>2
  <2> QED BY <2>1
<1>11. DOMAIN F = 1 .. n + 1 /\ DOMAIN G = 1 .. n /\ DOMAIN H = 1 .. n + 1 + 1
       /\ F = [i \in DOMAIN F |-> F[i]] /\ G = [i \in DOMAIN G |-> G[i]]
       /\ H = [i \in DOMAIN H |-> H[i]]
  BY <1>1, <1>2
<1>15. Unpaired(s, f, g, b) = FlattenSeq(G) /\ Unpaired(r, f, g, b) = FlattenSeq(H)
  BY DEF Unpaired
<1> HIDE DEF F, G, H, E
<1>16. G \in [1 .. n -> Seq(S)]
  BY <1>7, <1>11
<1>17. F \in [1 .. n + 1 -> Seq(S)]
  <2>1. \A i \in 1 .. n + 1 : i \in 1 .. n \/ i = n + 1
    BY <1>1
  <2>2. <<b>> \in Seq(S)
    OBVIOUS
  <2>3. \A i \in 1 .. n + 1 : F[i] \in Seq(S)
    BY <1>7, <1>8, <2>1, <2>2
  <2> QED BY <1>11, <2>3
<1>18. H \in [1 .. n + 1 + 1 -> Seq(S)]
  <2>1. \A i \in 1 .. n + 1 + 1 : i \in 1 .. n + 1 \/ i = n + 2
    BY <1>1
  <2>2. <<>> \in Seq(S) /\ \A i \in 1 .. n + 1 : F[i] \in Seq(S)
    BY <1>17
  <2>3. \A i \in 1 .. n + 1 + 1 : H[i] \in Seq(S)
    BY <1>9, <1>10, <2>1, <2>2
  <2> QED BY <1>11, <2>3
<1>12. /\ FlattenSeq(G) \in Seq(S) /\ FlattenSeq(F) \in Seq(S)
       /\ FlattenSeq(F) = FlattenSeq(G) \o F[n + 1]
  BY <1>1, <1>7, <1>16, <1>17, FlattenStep
<1>13. FlattenSeq(H) = FlattenSeq(F) \o H[n + 1 + 1]
  <2>1. n + 1 \in Nat
    BY <1>1
  <2> QED BY <1>10, <1>17, <1>18, <2>1, FlattenStep
<1>14. n + 1 + 1 = n + 2 /\ FlattenSeq(F) \o <<>> = FlattenSeq(F)
       /\ FlattenSeq(G) \o <<b>> = Append(FlattenSeq(G), b)
  BY <1>1, <1>12
<1> QED BY <1>8, <1>9, <1>12, <1>13, <1>14, <1>15 DEF r, q

-----------------------------------------------------------------------------
(* Packets: the replacements of slip.go are the stuffing of RFC 1055.      *)

(* The bytes of a packet between its two ENDs, by RFC 1055.                *)
Stuffing(raw) == FlattenSeq([i \in DOMAIN raw |-> Stuffed(raw[i])])

(* The four special bytes are different ones.                              *)
LEMMA Specials ==
  /\ END \in Byte /\ ESC \in Byte /\ ESC_END \in Byte /\ ESC_ESC \in Byte
  /\ END # ESC /\ END # ESC_END /\ END # ESC_ESC
  /\ ESC # ESC_END /\ ESC # ESC_ESC /\ ESC_END # ESC_ESC
BY DEF END, ESC, ESC_END, ESC_ESC, Byte

(* What stands for an END.                                                 *)
EndPair == <<ESC, ESC_END>>

(* What stands for an ESC.                                                 *)
EscPair == <<ESC, ESC_ESC>>

(* The bytes of the pairs.                                                 *)
LEMMA Pairs ==
  /\ EndPair \in Seq(Byte) /\ Len(EndPair) = 2 /\ EndPair[1] = ESC /\ EndPair[2] = ESC_END
  /\ EscPair \in Seq(Byte) /\ Len(EscPair) = 2 /\ EscPair[1] = ESC /\ EscPair[2] = ESC_ESC
BY Specials DEF EndPair, EscPair

(* To append a pair is to append its bytes.                                *)
LEMMA PairsAppend ==
  ASSUME NEW s \in Seq(Byte)
  PROVE  /\ s \o EndPair = Append(Append(s, ESC), ESC_END)
         /\ s \o EscPair = Append(Append(s, ESC), ESC_ESC)
BY Specials DEF EndPair, EscPair

(* What becomes of a byte.                                                 *)
LEMMA StuffedKinds ==
  ASSUME NEW x \in Byte
  PROVE  /\ Stuffed(x) \in Seq(Byte)
         /\ x = END => Stuffed(x) = EndPair
         /\ x = ESC => Stuffed(x) = EscPair
         /\ x \notin {END, ESC} => Stuffed(x) = <<x>>
<1>1. x = END => Stuffed(x) = EndPair
  BY Specials, Zenon DEF Stuffed, EndPair
<1>2. x = ESC => Stuffed(x) = EscPair
  BY Specials, Zenon DEF Stuffed, EscPair
<1>3. x \notin {END, ESC} => Stuffed(x) = <<x>>
  BY Zenon DEF Stuffed
<1>4. <<x>> \in Seq(Byte)
  OBVIOUS
<1> QED BY <1>1, <1>2, <1>3, <1>4, Pairs

(* A byte more: what becomes of it stands behind the rest.                 *)
LEMMA StuffingAppend ==
  ASSUME NEW raw \in Seq(Byte), NEW x \in Byte
  PROVE  /\ Stuffing(raw) \in Seq(Byte)
         /\ Stuffing(Append(raw, x)) = Stuffing(raw) \o Stuffed(x)
<1> DEFINE n == Len(raw)
           r == Append(raw, x)
           F == [i \in DOMAIN r |-> Stuffed(r[i])]
           G == [i \in DOMAIN raw |-> Stuffed(raw[i])]
<1>1. n \in Nat /\ DOMAIN raw = 1 .. n /\ DOMAIN r = 1 .. n + 1
      /\ r[n + 1] = x /\ \A i \in 1 .. n : raw[i] = r[i] /\ raw[i] \in Byte
  OBVIOUS
<1> HIDE DEF n, r
<1>2. \A i \in 1 .. n + 1 : r[i] \in Byte /\ Stuffed(r[i]) \in Seq(Byte)
  <2>1. \A i \in 1 .. n + 1 : i \in 1 .. n \/ i = n + 1
    BY <1>1
  <2>2. \A i \in 1 .. n + 1 : r[i] \in Byte
    BY <1>1, <2>1
  <2> QED BY <2>2, StuffedKinds
<1>3. F \in [1 .. n + 1 -> Seq(Byte)] /\ F[n + 1] = Stuffed(x) /\ \A i \in 1 .. n : G[i] = F[i]
  BY <1>1, <1>2
<1>4. G \in [1 .. n -> Seq(Byte)]
  BY <1>1, StuffedKinds
<1>5. Stuffing(raw) = FlattenSeq(G) /\ Stuffing(r) = FlattenSeq(F)
  BY DEF Stuffing
<1> HIDE DEF F, G
<1>6. /\ FlattenSeq(G) \in Seq(Byte) /\ FlattenSeq(F) \in Seq(Byte)
      /\ FlattenSeq(F) = FlattenSeq(G) \o F[n + 1]
  BY <1>1, <1>3, <1>4, FlattenStep
<1> QED BY <1>3, <1>5, <1>6 DEF r

(* The same, byte by byte.                                                 *)
LEMMA StuffingCases ==
  ASSUME NEW raw \in Seq(Byte), NEW x \in Byte
  PROVE  /\ Append(Stuffing(raw), ESC) \in Seq(Byte)
         /\ x = END => Stuffing(Append(raw, x)) = Append(Append(Stuffing(raw), ESC), ESC_END)
         /\ x = ESC => Stuffing(Append(raw, x)) = Append(Append(Stuffing(raw), ESC), ESC_ESC)
         /\ x \notin {END, ESC} => Stuffing(Append(raw, x)) = Append(Stuffing(raw), x)
<1> DEFINE s == Stuffing(raw)
           r == Append(raw, x)
<1>1. s \in Seq(Byte) /\ Stuffing(r) = s \o Stuffed(x)
  BY StuffingAppend
<1> HIDE DEF s, r
<1>2. Append(s, ESC) \in Seq(Byte)
  BY <1>1, Specials
<1>3. ASSUME x = END PROVE Stuffing(r) = Append(Append(s, ESC), ESC_END)
  <2>1. Stuffed(x) = EndPair
    BY <1>3, StuffedKinds
  <2> QED BY <1>1, <2>1, PairsAppend
<1>4. ASSUME x = ESC PROVE Stuffing(r) = Append(Append(s, ESC), ESC_ESC)
  <2>1. Stuffed(x) = EscPair
    BY <1>4, StuffedKinds
  <2> QED BY <1>1, <2>1, PairsAppend
<1>5. ASSUME x \notin {END, ESC} PROVE Stuffing(r) = Append(s, x)
  <2>1. Stuffed(x) = <<x>>
    BY <1>5, StuffedKinds
  <2> QED BY <1>1, <2>1
<1> QED BY <1>2, <1>3, <1>4, <1>5 DEF s, r

(* Of nothing, nothing.                                                    *)
LEMMA NothingStuffed == Stuffing(<<>>) = <<>>
<1>1. [i \in DOMAIN <<>> |-> Stuffed(<<>>[i])] = <<>>
  OBVIOUS
<1> QED BY <1>1, FlattenEmpty DEF Stuffing

(* Stuffing gives bytes.                                                   *)
LEMMA StuffingType ==
  ASSUME NEW raw \in Seq(Byte) PROVE Stuffing(raw) \in Seq(Byte)
BY StuffingAppend, Specials

(* bytes.ReplaceAll, twice, in this order, is the stuffing.                *)
THEOREM EncodeIsStuffing ==
  \A raw \in Seq(Byte) : SlipEncode(raw) = Stuffing(raw)
<1> DEFINE First(raw) == Paired(raw, ESC, EscPair)
           Second(s) == Paired(s, END, EndPair)
           T == {raw \in Seq(Byte) : SlipEncode(raw) = Stuffing(raw)}
<1>1. <<>> \in T
  BY NothingPaired, NothingStuffed DEF SlipEncode
<1>2. ASSUME NEW raw \in Seq(Byte), NEW x \in Byte, raw \in T PROVE Append(raw, x) \in T
  <2> DEFINE s == First(raw)
             r == Append(raw, x)
  <2>1. EscPair \in Seq(Byte) /\ EndPair \in Seq(Byte) /\ r \in Seq(Byte)
    BY Pairs
  <2>2. s \in Seq(Byte) /\ First(r) = s \o (IF x = ESC THEN EscPair ELSE <<x>>)
    <3>1. EscPair \in Seq(Byte)
      BY <2>1
    <3>2. s \in Seq(Byte)
      BY <3>1, PairedAppend
    <3>3. First(r) = s \o (IF x = ESC THEN EscPair ELSE <<x>>)
      BY <3>1, PairedAppend
    <3> QED BY <3>2, <3>3
  <2>3. SlipEncode(raw) = Second(s) /\ SlipEncode(r) = Second(First(r))
    BY DEF SlipEncode, EndPair, EscPair
  <2>4. ASSUME NEW q \in Seq(Byte), NEW y \in Byte
        PROVE  Second(Append(q, y)) = Second(q) \o (IF y = END THEN EndPair ELSE <<y>>)
               /\ Second(q) \in Seq(Byte)
    BY <2>1, PairedAppend
  <2> HIDE DEF s, First, Second
  <2>5. Second(First(r)) = Second(s) \o Stuffed(x)
    <3>1. CASE x = ESC
      <4>1. First(r) = Append(Append(s, ESC), ESC_ESC) /\ Append(s, ESC) \in Seq(Byte)
        BY <2>2, <3>1, PairsAppend, Specials
      <4>2. /\ Second(First(r)) = Append(Append(Second(s), ESC), ESC_ESC)
            /\ Second(s) \in Seq(Byte)
        <5>1. /\ Second(First(r)) = Second(Append(s, ESC)) \o <<ESC_ESC>>
              /\ Second(Append(s, ESC)) = Second(s) \o <<ESC>>
          BY <2>2, <2>4, <4>1, Specials
        <5>2. Second(s) \in Seq(Byte)
          BY <2>2, <2>4, Specials
        <5> QED BY <5>1, <5>2, Specials
      <4> QED BY <3>1, <4>2, PairsAppend, StuffedKinds
    <3>2. CASE x # ESC
      <4>1. First(r) = Append(s, x)
        BY <2>2, <3>2
      <4>2. Second(First(r)) = Second(s) \o (IF x = END THEN EndPair ELSE <<x>>)
        BY <2>2, <2>4, <4>1
      <4> QED BY <3>2, <4>2, StuffedKinds
    <3> QED BY <3>1, <3>2
  <2> QED BY <1>2, <2>1, <2>3, <2>5, StuffingAppend
<1> HIDE DEF T
<1>3. \A raw \in Seq(Byte) : raw \in T
  BY <1>1, <1>2, SeqInduction
<1> QED BY <1>3 DEF T

(* No ESC waits for its second byte.                                       *)
Calm(s) == s = <<>> \/ s[Len(s)] # ESC

(* SlipEncode after its first replacement.                                 *)
EscsDone(raw) == Paired(raw, ESC, EscPair)

(* SlipDecode after its first replacement.                                 *)
EndsUndone(s) == Unpaired(s, ESC, ESC_END, END)

(* The second replacement of SlipDecode.                                   *)
EscsUndone(s) == Unpaired(s, ESC, ESC_ESC, ESC)

(* A byte more in front of the first replacement.                          *)
LEMMA EscsDoneAppend ==
  ASSUME NEW raw \in Seq(Byte), NEW x \in Byte
  PROVE  /\ EscsDone(raw) \in Seq(Byte)
         /\ EscsDone(Append(raw, x)) = EscsDone(raw) \o (IF x = ESC THEN EscPair ELSE <<x>>)
<1>1. EscPair \in Seq(Byte)
  BY Pairs
<1>2. /\ Paired(raw, ESC, EscPair) \in Seq(Byte)
      /\ Paired(Append(raw, x), ESC, EscPair)
           = Paired(raw, ESC, EscPair) \o (IF x = ESC THEN EscPair ELSE <<x>>)
  BY <1>1, PairedAppend
<1> QED BY <1>2 DEF EscsDone

(* A byte that ends no pair stays.                                         *)
LEMMA UndoneStays ==
  ASSUME NEW q \in Seq(Byte), NEW y \in Byte
  PROVE  /\ y # ESC_END \/ Calm(q) => EndsUndone(Append(q, y)) = Append(EndsUndone(q), y)
         /\ y # ESC_ESC \/ Calm(q) => EscsUndone(Append(q, y)) = Append(EscsUndone(q), y)
<1>1. END \in Byte /\ ESC \in Byte
  BY Specials
<1>2. ASSUME y # ESC_END \/ Calm(q) PROVE EndsUndone(Append(q, y)) = Append(EndsUndone(q), y)
  <2>1. y # ESC_END \/ q = <<>> \/ q[Len(q)] # ESC
    BY <1>2 DEF Calm
  <2> QED BY <1>1, <2>1, UnpairedAppend DEF EndsUndone
<1>3. ASSUME y # ESC_ESC \/ Calm(q) PROVE EscsUndone(Append(q, y)) = Append(EscsUndone(q), y)
  <2>1. y # ESC_ESC \/ q = <<>> \/ q[Len(q)] # ESC
    BY <1>3 DEF Calm
  <2> QED BY <1>1, <2>1, UnpairedAppend DEF EscsUndone
<1> QED BY <1>2, <1>3

(* A pair becomes the byte it stands for.                                  *)
LEMMA UndonePair ==
  ASSUME NEW q \in Seq(Byte)
  PROVE  /\ EndsUndone(Append(Append(q, ESC), ESC_END)) = Append(EndsUndone(q), END)
         /\ EscsUndone(Append(Append(q, ESC), ESC_ESC)) = Append(EscsUndone(q), ESC)
<1>1. END \in Byte /\ ESC \in Byte /\ ESC_END \in Byte /\ ESC_ESC \in Byte
      /\ ESC # ESC_END /\ ESC # ESC_ESC
  BY Specials
<1>2. EndsUndone(Append(Append(q, ESC), ESC_END)) = Append(EndsUndone(q), END)
  BY <1>1, UnpairedPair DEF EndsUndone
<1>3. EscsUndone(Append(Append(q, ESC), ESC_ESC)) = Append(EscsUndone(q), ESC)
  BY <1>1, UnpairedPair DEF EscsUndone
<1> QED BY <1>2, <1>3

(* What was stuffed is found again.                                        *)
THEOREM StuffingInverse ==
  \A raw \in Seq(Byte) : SlipDecode(Stuffing(raw)) = raw
<1> DEFINE T == {raw \in Seq(Byte) :
                   /\ EndsUndone(Stuffing(raw)) = EscsDone(raw) /\ Calm(Stuffing(raw))
                   /\ EscsUndone(EscsDone(raw)) = raw /\ Calm(EscsDone(raw))}
<1>1. <<>> \in T
  <2>1. ASSUME NEW g, NEW b PROVE Unpaired(<<>>, ESC, g, b) = <<>>
    <3>1. [i \in DOMAIN <<>> |->
             IF Pair(<<>>, ESC, g, i) THEN <<b>>
             ELSE IF Pair(<<>>, ESC, g, i - 1) THEN <<>> ELSE << <<>>[i] >>] = <<>>
      OBVIOUS
    <3> QED BY <3>1, FlattenEmpty DEF Unpaired
  <2> QED BY <2>1, NothingPaired, NothingStuffed DEF Calm, EscsDone, EndsUndone, EscsUndone
<1>2. ASSUME NEW raw \in Seq(Byte), NEW x \in Byte, raw \in T PROVE Append(raw, x) \in T
  <2> DEFINE r == Append(raw, x)
             s == Stuffing(raw)
             m == EscsDone(raw)
  <2>1. s \in Seq(Byte) /\ Stuffing(r) = s \o Stuffed(x) /\ r \in Seq(Byte)
    BY StuffingAppend
  <2>4. /\ Append(s, ESC) \in Seq(Byte)
        /\ x = END => Stuffing(r) = Append(Append(s, ESC), ESC_END)
        /\ x = ESC => Stuffing(r) = Append(Append(s, ESC), ESC_ESC)
        /\ x \notin {END, ESC} => Stuffing(r) = Append(s, x)
    BY StuffingCases
  <2>2. m \in Seq(Byte) /\ EscsDone(r) = m \o (IF x = ESC THEN EscPair ELSE <<x>>)
    BY EscsDoneAppend
  <2>3. EndsUndone(s) = m /\ Calm(s) /\ EscsUndone(m) = raw /\ Calm(m)
    BY <1>2
  <2>7. ASSUME NEW q \in Seq(Byte), NEW y \in Byte, y # ESC PROVE Calm(Append(q, y))
    BY <2>7 DEF Calm
  <2> HIDE DEF s, m
  <2>8. CASE x = END
    <3>1. Stuffing(r) = Append(Append(s, ESC), ESC_END) /\ Append(s, ESC) \in Seq(Byte)
      BY <2>4, <2>8
    <3>2. EscsDone(r) = Append(m, END)
      BY <2>2, <2>8, Specials
    <3>3. EndsUndone(Stuffing(r)) = EscsDone(r) /\ Calm(Stuffing(r))
      BY <2>1, <2>3, UndonePair, <2>7, <3>1, <3>2, Specials
    <3>4. EscsUndone(EscsDone(r)) = r /\ Calm(EscsDone(r))
      BY <2>2, <2>3, UndoneStays, <2>7, <2>8, <3>2, Specials
    <3> QED BY <2>1, <3>3, <3>4
  <2>9. CASE x = ESC
    <3>1. Stuffing(r) = Append(Append(s, ESC), ESC_ESC) /\ Append(s, ESC) \in Seq(Byte)
      BY <2>4, <2>9
    <3>2. EscsDone(r) = Append(Append(m, ESC), ESC_ESC) /\ Append(m, ESC) \in Seq(Byte)
      BY <2>2, <2>9, PairsAppend, Specials
    <3>3. EndsUndone(Stuffing(r)) = EscsDone(r) /\ Calm(Stuffing(r))
      BY <2>1, <2>3, UndoneStays, <2>7, <3>1, <3>2, Specials
    <3>4. EscsUndone(EscsDone(r)) = r /\ Calm(EscsDone(r))
      BY <2>2, <2>3, UndonePair, <2>7, <2>9, <3>2, Specials
    <3> QED BY <2>1, <3>3, <3>4
  <2>10. CASE x \notin {END, ESC}
    <3>1. Stuffing(r) = Append(s, x) /\ EscsDone(r) = Append(m, x)
      <4>1. Stuffing(r) = Append(s, x)
        BY <2>4, <2>10
      <4>2. EscsDone(r) = m \o <<x>>
        BY <2>2, <2>10
      <4> QED BY <2>2, <4>1, <4>2
    <3>2. EndsUndone(Stuffing(r)) = EscsDone(r) /\ Calm(Stuffing(r))
      BY <2>1, <2>3, UndoneStays, <2>7, <2>10, <3>1
    <3>3. EscsUndone(EscsDone(r)) = r /\ Calm(EscsDone(r))
      BY <2>2, <2>3, UndoneStays, <2>7, <2>10, <3>1
    <3> QED BY <2>1, <3>2, <3>3
  <2> QED BY <2>8, <2>9, <2>10
<1> HIDE DEF T
<1>3. \A raw \in Seq(Byte) : raw \in T
  BY <1>1, <1>2, SeqInduction
<1> QED BY <1>3 DEF T, SlipDecode, EndsUndone, EscsUndone

(* No END is among stuffed bytes: an END ends the packet.                  *)
LEMMA NoEndInside ==
  \A raw \in Seq(Byte) : \A i \in 1 .. Len(Stuffing(raw)) : Stuffing(raw)[i] # END
<1> DEFINE T == {raw \in Seq(Byte) : \A i \in 1 .. Len(Stuffing(raw)) : Stuffing(raw)[i] # END}
<1>1. <<>> \in T
  BY NothingStuffed
<1>2. ASSUME NEW raw \in Seq(Byte), NEW x \in Byte, raw \in T PROVE Append(raw, x) \in T
  <2> DEFINE s == Stuffing(raw)
             t == Stuffed(x)
  <2>1. s \in Seq(Byte) /\ t \in Seq(Byte) /\ Stuffing(Append(raw, x)) = s \o t
        /\ Append(raw, x) \in Seq(Byte)
    BY StuffingAppend, StuffedKinds
  <2>2. \A i \in 1 .. Len(s) : s[i] # END
    BY <1>2
  <2>3. \A i \in 1 .. Len(t) : t[i] # END
    <3>1. CASE x = END
      <4>1. t = EndPair
        BY <3>1, StuffedKinds
      <4> QED BY <4>1, Pairs, Specials
    <3>2. CASE x = ESC
      <4>1. t = EscPair
        BY <3>2, StuffedKinds
      <4> QED BY <4>1, Pairs, Specials
    <3>3. CASE x \notin {END, ESC}
      BY <3>3, StuffedKinds
    <3> QED BY <3>1, <3>2, <3>3
  <2> HIDE DEF s, t
  <2>4. \A i \in 1 .. Len(s \o t) : (s \o t)[i] # END
    BY <2>1, <2>2, <2>3
  <2> QED BY <2>1, <2>4
<1> HIDE DEF T
<1>3. \A raw \in Seq(Byte) : raw \in T
  BY <1>1, <1>2, SeqInduction
<1> QED BY <1>3 DEF T

-----------------------------------------------------------------------------
(* The client's way through a stream.                                      *)

(* Where the bytes of a packet stand.                                      *)
LEMMA PackedBytes ==
  ASSUME NEW raw \in Seq(Byte), NEW e, e = Stuffing(raw), NEW p, p = RfcPack(raw)
  PROVE  /\ e \in Seq(Byte) /\ p \in Seq(Byte) /\ Len(p) = Len(e) + 2
         /\ p[1] = END /\ p[Len(e) + 2] = END
         /\ \A i \in 1 .. Len(e) : p[i + 1] = e[i] /\ e[i] # END
<1>1. e \in Seq(Byte) /\ \A i \in 1 .. Len(e) : e[i] # END
  BY StuffingType, NoEndInside
<1>2. p = <<END>> \o e \o <<END>>
  BY DEF RfcPack, Stuffing
<1> DEFINE q == <<END>> \o e
<1>3. /\ q \in Seq(Byte) /\ Len(q) = Len(e) + 1 /\ q[1] = END
      /\ \A i \in 1 .. Len(e) : q[i + 1] = e[i]
  BY <1>1, Specials
<1> HIDE DEF q
<1>4. p = Append(q, END)
  BY <1>2, <1>3 DEF q
<1>5. /\ p \in Seq(Byte) /\ Len(p) = Len(q) + 1 /\ p[Len(q) + 1] = END
      /\ \A i \in 1 .. Len(q) : p[i] = q[i]
  BY <1>3, <1>4, Specials, AppendProperties
<1>6. Len(e) \in Nat /\ 1 \in 1 .. Len(q) /\ \A i \in 1 .. Len(e) : i + 1 \in 1 .. Len(q)
  BY <1>1, <1>3
<1> QED BY <1>1, <1>3, <1>5, <1>6

(* A packet at the head of a stream is found there, and what follows it is *)
(* left.                                                                   *)
THEOREM NextPacket ==
  ASSUME NEW raw \in Seq(Byte), NEW rest \in Seq(Byte)
  PROVE  /\ IsSlip(RfcPack(raw) \o rest)
         /\ GetNextSlip(RfcPack(raw) \o rest).packet = raw
         /\ GetNextSlip(RfcPack(raw) \o rest).remaining = rest
<1> DEFINE e == Stuffing(raw)
           p == RfcPack(raw)
           s == p \o rest
           n == Len(e) + 2
           First(i) == i \in 2 .. Len(s) /\ s[i] = END /\ \A j \in 2 .. i - 1 : s[j] # END
           end == CHOOSE i \in 2 .. Len(s) : s[i] = END /\ \A j \in 2 .. i - 1 : s[j] # END
<1>1. /\ e \in Seq(Byte) /\ p \in Seq(Byte) /\ Len(p) = n /\ n \in Nat /\ n >= 2
      /\ p[1] = END /\ p[n] = END /\ Len(e) = n - 2
      /\ \A i \in 1 .. Len(e) : p[i + 1] = e[i] /\ e[i] # END
  BY PackedBytes
<1>01. e \in Seq(Byte)
  BY <1>1
<1>02. p \in Seq(Byte)
  BY <1>1
<1> HIDE DEF e, p, n
<1>2. /\ s \in Seq(Byte) /\ Len(s) = n + Len(rest) /\ Len(rest) \in Nat
      /\ \A i \in 1 .. n : s[i] = p[i]
  <2>1. /\ s \in Seq(Byte) /\ Len(s) = Len(p) + Len(rest) /\ Len(rest) \in Nat
        /\ \A i \in 1 .. Len(p) : s[i] = p[i]
    BY <1>02, Joined
  <2> QED BY <1>1, <2>1
<1>6. SubSeq(s, n + 1, Len(s)) = rest
  <2>1. SubSeq(s, Len(p) + 1, Len(s)) = rest
    BY <1>02, CutRight
  <2> QED BY <1>1, <2>1
<1>5. SubSeq(s, 2, n - 1) = e
  <2> DEFINE a == <<END>>
             c == <<END>> \o rest
  <2>1. a \in Seq(Byte) /\ Len(a) = 1 /\ c \in Seq(Byte)
    BY Specials
  <2>2. s = a \o e \o c
    <3>1. p = a \o e \o <<END>>
      BY DEF p, e, RfcPack, Stuffing
    <3>2. a \o e \in Seq(Byte) /\ <<END>> \in Seq(Byte)
      BY <1>1, <2>1, Specials
    <3> HIDE DEF a
    <3>3. a \o e \o <<END>> \o rest = a \o e \o (<<END>> \o rest)
      BY <3>2, ConcatAssociative
    <3> QED BY <3>1, <3>3
  <2> HIDE DEF a, c
  <2>3. SubSeq(a \o e \o c, 1 + 1, 1 + Len(e)) = e
    <3>1. a \in Seq(Byte)
      BY <2>1
    <3>2. c \in Seq(Byte)
      BY <2>1
    <3>3. SubSeq(a \o e \o c, Len(a) + 1, Len(a) + Len(e)) = e
      BY <3>1, <3>2, <1>01, CutMiddle
    <3> QED BY <2>1, <3>3
  <2>4. 1 + 1 = 2 /\ 1 + Len(e) = n - 1
    BY <1>1
  <2> QED BY <2>2, <2>3, <2>4
<1> HIDE DEF s
<1>3. s[1] = END /\ s[n] = END /\ n \in 2 .. Len(s) /\ \A j \in 2 .. n - 1 : s[j] # END
  <2>1. \A j \in 2 .. n - 1 : j - 1 \in 1 .. Len(e) /\ j - 1 + 1 = j /\ j \in 1 .. n
    BY <1>1
  <2>2. ASSUME NEW j \in 2 .. n - 1 PROVE p[j] # END
    <3>1. j - 1 \in 1 .. Len(e) /\ j - 1 + 1 = j
      BY <2>1
    <3> QED BY <1>1, <3>1
  <2>3. 1 \in 1 .. n /\ n \in 1 .. n /\ n \in 2 .. Len(s)
    BY <1>1, <1>2
  <2> QED BY <1>1, <1>2, <2>1, <2>2, <2>3
<1>4. end = n
  <2>1. First(n)
    BY <1>3
  <2>2. First(end)
    BY <2>1
  <2> HIDE DEF end
  <2>3. end \in Nat /\ ~(end < n) /\ ~(n < end)
    <3>1. ASSUME end < n PROVE FALSE
      <4>1. end \in 2 .. n - 1
        BY <1>1, <2>2, <3>1
      <4> QED BY <1>3, <2>2, <4>1
    <3>2. ASSUME n < end PROVE FALSE
      <4>1. n \in 2 .. end - 1
        BY <1>1, <2>2, <3>2
      <4> QED BY <1>3, <2>2, <4>1
    <3> QED BY <2>2, <3>1, <3>2
  <2> QED BY <1>1, <2>3
<1>7. IsSlip(s)
  BY <1>1, <1>2, <1>3 DEF IsSlip
<1>8. GetNextSlip(s) = [packet |-> SlipDecode(SubSeq(s, 2, end - 1)),
                        remaining |-> SubSeq(s, end + 1, Len(s))]
  BY DEF GetNextSlip
<1>9. SlipDecode(e) = raw
  BY StuffingInverse DEF e
<1>10. end - 1 = n - 1 /\ end + 1 = n + 1
  BY <1>4
<1> HIDE DEF end
<1>11. GetNextSlip(s) = [packet |-> raw, remaining |-> rest]
  BY <1>5, <1>6, <1>8, <1>9, <1>10
<1>12. IsSlip(s) /\ GetNextSlip(s).packet = raw /\ GetNextSlip(s).remaining = rest
  BY <1>7, <1>11
<1> QED BY <1>12 DEF s, p

(* A part of a packet is none.                                             *)
LEMMA NoPacketYet ==
  ASSUME NEW raw \in Seq(Byte), NEW rest \in Seq(Byte),
         NEW s \in Seq(Byte), NEW more \in Seq(Byte),
         s \o more = RfcPack(raw) \o rest, Len(s) < Len(RfcPack(raw))
  PROVE  ~IsSlip(s)
<1> DEFINE e == Stuffing(raw)
           p == RfcPack(raw)
<1>1. /\ e \in Seq(Byte) /\ p \in Seq(Byte) /\ Len(p) = Len(e) + 2 /\ Len(e) \in Nat
      /\ \A i \in 1 .. Len(e) : p[i + 1] = e[i] /\ e[i] # END
  BY PackedBytes
<1>2. \A i \in 1 .. Len(s) : s[i] = p[i]
  <2>1. \A i \in 1 .. Len(s) : (s \o more)[i] = s[i] /\ (p \o rest)[i] = p[i]
    BY <1>1
  <2> QED BY <2>1
<1>3. Len(s) < Len(e) + 2
  BY <1>1
<1> HIDE DEF e, p
<1>4. ASSUME NEW i \in 2 .. Len(s) PROVE s[i] # END
  <2>1. i - 1 \in 1 .. Len(e) /\ i - 1 + 1 = i /\ i \in 1 .. Len(s)
    BY <1>1, <1>3
  <2> QED BY <1>1, <1>2, <2>1
<1> QED BY <1>4 DEF IsSlip

(* A sequence is cut in two.                                               *)
LEMMA CutInTwo ==
  ASSUME NEW S, NEW s \in Seq(S), NEW n \in Nat, n <= Len(s)
  PROVE  /\ SubSeq(s, 1, n) \in Seq(S) /\ SubSeq(s, n + 1, Len(s)) \in Seq(S)
         /\ SubSeq(s, 1, n) \o SubSeq(s, n + 1, Len(s)) = s
         /\ Len(SubSeq(s, 1, n)) = n
<1> DEFINE k == Len(s) - n
           a == SubSeq(s, 1, n)
           b == SubSeq(s, n + 1, Len(s))
           r == a \o b
<1>1. k \in Nat /\ n + k = Len(s) /\ Len(s) \in Nat /\ 0 + 1 = 1 /\ 0 + n = n /\ 0 \in Nat
  OBVIOUS
<1>2. a \in Seq(S) /\ Len(a) = n /\ \A i \in 1 .. n : a[i] = s[i]
  <2>1. /\ SubSeq(s, 0 + 1, 0 + n) \in Seq(S) /\ Len(SubSeq(s, 0 + 1, 0 + n)) = n
        /\ \A i \in 1 .. n : SubSeq(s, 0 + 1, 0 + n)[i] = s[0 + i]
    BY <1>1, Cut
  <2>2. \A i \in 1 .. n : 0 + i = i
    OBVIOUS
  <2> QED BY <1>1, <2>1, <2>2
<1>3. b \in Seq(S) /\ Len(b) = k /\ \A i \in 1 .. k : b[i] = s[n + i]
  <2> HIDE DEF k
  <2>1. /\ SubSeq(s, n + 1, n + k) \in Seq(S) /\ Len(SubSeq(s, n + 1, n + k)) = k
        /\ \A i \in 1 .. k : SubSeq(s, n + 1, n + k)[i] = s[n + i]
    BY <1>1, Cut
  <2> QED BY <1>1, <2>1
<1> HIDE DEF k, a, b
<1>4. /\ r \in Seq(S) /\ Len(r) = n + k
      /\ \A i \in 1 .. n : r[i] = a[i]
      /\ \A i \in 1 .. k : r[n + i] = b[i]
  <2>1. a \in Seq(S)
    BY <1>2
  <2>2. b \in Seq(S)
    BY <1>3
  <2>3. /\ a \o b \in Seq(S) /\ Len(a \o b) = Len(a) + Len(b)
        /\ \A i \in 1 .. Len(a) : (a \o b)[i] = a[i]
        /\ \A i \in 1 .. Len(b) : (a \o b)[Len(a) + i] = b[i]
    BY <2>1, <2>2, Joined
  <2> QED BY <1>2, <1>3, <2>3
<1> HIDE DEF r
<1>5. ASSUME NEW i \in 1 .. n + k PROVE r[i] = s[i]
  <2>1. CASE i \in 1 .. n
    BY <1>2, <1>4, <2>1
  <2>2. CASE i \notin 1 .. n
    <3>1. i - n \in 1 .. k /\ n + (i - n) = i
      BY <1>1, <2>2
    <3> QED BY <1>3, <1>4, <3>1
  <2> QED BY <2>1, <2>2
<1>6. r = s
  BY <1>1, <1>4, <1>5, SeqEqual
<1> QED BY <1>2, <1>3, <1>6 DEF r, a, b

-----------------------------------------------------------------------------
(* Layouts: what stands where in a payload.                                *)

(* The bytes s stand in p behind its first i bytes.                        *)
Stands(p, i, s) == \A k \in 1 .. Len(s) : p[i + k] = s[k]

(* A payload stands at the start of itself.                                *)
LEMMA StandsWhole == \A p : Stands(p, 0, p)
<1> SUFFICES ASSUME NEW p, NEW k \in 1 .. Len(p) PROVE p[0 + k] = p[k]
  BY DEF Stands
<1>1. 0 + k = k
  OBVIOUS
<1> QED BY <1>1

(* What stands in a part stands in the whole.                              *)
LEMMA StandsIn ==
  ASSUME NEW p, NEW q \in Seq(Byte), NEW s \in Seq(Byte), NEW i \in Nat, NEW j \in Nat,
         Stands(p, i, q), Stands(q, j, s), j + Len(s) <= Len(q)
  PROVE  Stands(p, i + j, s)
<1> SUFFICES ASSUME NEW k \in 1 .. Len(s) PROVE p[i + j + k] = s[k]
  BY DEF Stands
<1>1. j + k \in 1 .. Len(q) /\ i + (j + k) = i + j + k
  OBVIOUS
<1>2. q[j + k] = s[k] /\ p[i + (j + k)] = q[j + k]
  BY <1>1 DEF Stands
<1> QED BY <1>1, <1>2

(* Of two joined, the second stands behind the first.                      *)
LEMMA Parts2 ==
  ASSUME NEW a \in Seq(Byte), NEW b \in Seq(Byte)
  PROVE  /\ a \o b \in Seq(Byte) /\ Len(a \o b) = Len(a) + Len(b)
         /\ Stands(a \o b, 0, a) /\ Stands(a \o b, Len(a), b)
<1> DEFINE q == a \o b
<1>1. /\ q \in Seq(Byte) /\ Len(q) = Len(a) + Len(b) /\ Len(a) \in Nat
      /\ \A i \in 1 .. Len(a) : q[i] = a[i]
      /\ \A i \in 1 .. Len(b) : q[Len(a) + i] = b[i]
  BY Joined
<1> HIDE DEF q
<1>2. \A k \in 1 .. Len(a) : q[0 + k] = a[k]
  <2> TAKE k \in 1 .. Len(a)
  <2>1. 0 + k = k
    OBVIOUS
  <2> QED BY <1>1, <2>1
<1>3. Stands(q, 0, a) /\ Stands(q, Len(a), b)
  <2>1. Stands(q, 0, a)
    BY <1>2 DEF Stands
  <2>2. Stands(q, Len(a), b)
    BY <1>1 DEF Stands
  <2> QED BY <2>1, <2>2
<1> QED BY <1>1, <1>3 DEF q

(* The parts a payload is made of.                                         *)

(* A number divided, and the remainder.                                    *)
LEMMA Divided ==
  \A n \in Nat : \A m \in Nat \ {0} :
    /\ n \div m \in Int /\ n % m \in Int /\ 0 <= n % m /\ n % m < m
    /\ n = m * (n \div m) + (n % m)
OBVIOUS

(* 65536 is a number.                                                      *)
LEMMA WrapType == Wrap \in Nat \ {0} /\ Wrap \in Int
BY SMT DEF Wrap

(* What a number in two bytes is.                                          *)
LEMMA InNumber == \A n : n \in Number <=> n \in Int /\ 0 <= n /\ n < Wrap
BY WrapType DEF Number

(* What a byte is.                                                         *)
LEMMA InByte == \A n : n \in Byte <=> n \in Int /\ 0 <= n /\ n <= 255
BY DEF Byte

(* The upper byte of a number in two bytes, from the division.             *)
LEMMA HighIsByte ==
  ASSUME NEW n \in Int, 0 <= n, n < Wrap, NEW q \in Int, NEW r \in Int, 0 <= r, r < 256,
         n = 256 * q + r
  PROVE  0 <= q /\ q <= 255 /\ q * 256 + r = n
BY SMT DEF Wrap

(* A number below the divisor is its own remainder.                        *)
LEMMA SmallRemainder ==
  ASSUME NEW n \in Int, 0 <= n, NEW q \in Int, NEW r \in Int, 0 <= r
  PROVE  /\ n < 256 /\ r < 256 /\ n = 256 * q + r => r = n
         /\ n < Wrap /\ r < Wrap /\ n = Wrap * q + r => r = n
BY SMT DEF Wrap

(* Bytes and numbers are not wrapped.                                      *)
LEMMA Remainders ==
  /\ \A n \in Byte : n % 256 = n
  /\ \A n \in Number : n % Wrap = n
<1>1. ASSUME NEW n \in Byte PROVE n % 256 = n
  <2> DEFINE q == n \div 256
             r == n % 256
  <2>1. n \in Int /\ 0 <= n /\ n <= 255
    BY InByte
  <2>2. n \in Nat /\ 256 \in Nat \ {0}
    BY <2>1
  <2>3. q \in Int /\ r \in Int /\ 0 <= r /\ r < 256 /\ n = 256 * q + r
    BY <2>2, Divided
  <2> HIDE DEF q, r
  <2>4. r = n
    BY <2>1, <2>3, SmallRemainder
  <2> QED BY <2>4 DEF r
<1>2. ASSUME NEW n \in Number PROVE n % Wrap = n
  <2> DEFINE q == n \div Wrap
             r == n % Wrap
  <2>1. n \in Int /\ 0 <= n /\ n < Wrap
    BY InNumber
  <2>2. n \in Nat /\ Wrap \in Nat \ {0}
    BY <2>1, WrapType
  <2>3. q \in Int /\ r \in Int /\ 0 <= r /\ r < Wrap /\ n = Wrap * q + r
    BY <2>2, Divided
  <2> HIDE DEF q, r
  <2>4. r = n
    BY <2>1, <2>3, WrapType, SmallRemainder
  <2> QED BY <2>4 DEF r
<1> QED BY <1>1, <1>2

(* The two bytes of a number.                                              *)
LEMMA HighByte ==
  \A n \in Number :
    /\ n \div 256 \in Byte /\ (n \div 256) % 256 = n \div 256 /\ n % 256 \in Byte
    /\ (n \div 256) * 256 + (n % 256) = n
<1> TAKE n \in Number
<1>1. n \in Int /\ 0 <= n /\ n < Wrap
  BY InNumber
<1>2. n \in Nat /\ 256 \in Nat \ {0}
  BY <1>1
<1> DEFINE q == n \div 256
           r == n % 256
<1>3. q \in Int /\ r \in Int /\ 0 <= r /\ r < 256 /\ n = 256 * q + r
  BY <1>2, Divided
<1> HIDE DEF q, r
<1>4. 0 <= q /\ q <= 255 /\ q * 256 + r = n
  BY <1>1, <1>3, HighIsByte
<1>5. q \in Byte /\ r \in Byte
  BY <1>3, <1>4, InByte
<1>6. q % 256 = q
  BY <1>5, Remainders
<1> QED BY <1>4, <1>5, <1>6 DEF q, r

(* Two bytes that are the number again.                                    *)
LEMMA TwoParts ==
  ASSUME NEW n \in Number
  PROVE  /\ Two(n) \in Seq(Byte) /\ Len(Two(n)) = 2
         /\ Two(n)[1] * 256 + Two(n)[2] = n
<1> DEFINE x == (n \div 256) % 256
           y == n % 256
<1>1. x \in Byte /\ y \in Byte /\ x * 256 + y = n
  BY HighByte
<1> HIDE DEF x, y
<1>2. Two(n) = <<x, y>>
  BY DEF Two, x, y
<1> QED BY <1>1, <1>2

(* A word is read where the two bytes of it stand.                         *)
LEMMA WordStands ==
  ASSUME NEW p, NEW i \in Nat, NEW n \in Number, Stands(p, i, Two(n))
  PROVE  Word(p, i) = n
<1> DEFINE s == Two(n)
<1>1. Len(s) = 2 /\ s[1] * 256 + s[2] = n
  BY TwoParts
<1> HIDE DEF s
<1>2. \A k \in 1 .. 2 : p[i + k] = s[k]
  BY <1>1 DEF Stands, s
<1>3. p[i + 1] = s[1] /\ p[i + 2] = s[2] /\ i + 1 + 1 = i + 2
  BY <1>2
<1> QED BY <1>1, <1>3 DEF Word, At

(* Four bytes are two numbers.                                             *)
LEMMA FourParts ==
  \A n \in Nat : n \div Wrap \in Number =>
    \E x, y \in Number :
      Four(n) = Two(x) \o Two(y) /\ x * Wrap + y = n
<1> TAKE n \in Nat
<1> DEFINE x == n \div Wrap
           y == n % Wrap
<1> SUFFICES ASSUME x \in Number
             PROVE  \E u, v \in Number : Four(n) = Two(u) \o Two(v) /\ u * Wrap + v = n
  OBVIOUS
<1>1. Wrap \in Nat \ {0}
  BY WrapType
<1>2. x \in Int /\ y \in Int /\ 0 <= y /\ y < Wrap /\ n = Wrap * x + y
  BY <1>1, Divided
<1>3. Four(n) = Two(x % Wrap) \o Two(y)
  BY DEF Four
<1> HIDE DEF x, y
<1>4. x % Wrap = x
  BY Remainders
<1>5. y \in Number /\ x * Wrap + y = n
  <2>1. y \in Number
    BY <1>2, InNumber
  <2>2. x * Wrap + y = n
    BY <1>2, WrapType
  <2> QED BY <2>1, <2>2
<1> QED BY <1>3, <1>4, <1>5

(* A long word is read where its four bytes stand.                         *)
LEMMA LongStands ==
  ASSUME NEW p, NEW i \in Nat, NEW n \in Nat
  PROVE  n \div Wrap \in Number =>
           /\ Four(n) \in Seq(Byte) /\ Len(Four(n)) = 4
           /\ Stands(p, i, Four(n)) => Long(p, i) = n
<1> HAVE n \div Wrap \in Number
<1>1. PICK x, y \in Number : Four(n) = Two(x) \o Two(y) /\ x * Wrap + y = n
  BY FourParts
<1> DEFINE a == Two(x)
           b == Two(y)
<1>2. a \in Seq(Byte)
  BY TwoParts
<1>3. b \in Seq(Byte)
  BY TwoParts
<1>4. Len(a) = 2 /\ Len(b) = 2
  BY TwoParts
<1>5. Four(n) = a \o b
  BY <1>1
<1> HIDE DEF a, b
<1>6. a \o b \in Seq(Byte)
  BY <1>2, <1>3
<1>7. Len(a \o b) = Len(a) + Len(b) /\ Stands(a \o b, 0, a) /\ Stands(a \o b, Len(a), b)
  BY <1>2, <1>3, Parts2
<1>8. ASSUME Stands(p, i, a \o b) PROVE Long(p, i) = n
  <2>1. Stands(a \o b, 2, b) /\ 0 + Len(a) <= Len(a \o b) /\ 2 + Len(b) <= Len(a \o b)
    BY <1>4, <1>7
  <2>0. 0 \in Nat /\ 2 \in Nat
    OBVIOUS
  <2>2. Stands(p, i + 0, a)
    BY <1>2, <1>6, <1>7, <1>8, <2>0, <2>1, StandsIn, Zenon
  <2>3. Stands(p, i + 2, b)
    BY <1>3, <1>6, <1>8, <2>0, <2>1, StandsIn, Zenon
  <2>4. i + 0 = i /\ i + 2 \in Nat
    OBVIOUS
  <2>5. Word(p, i) = x
    BY <2>2, <2>4, WordStands DEF a
  <2>6. Word(p, i + 2) = y
    BY <2>3, <2>4, WordStands DEF b
  <2> QED BY <1>1, <2>5, <2>6 DEF Long
<1> QED BY <1>4, <1>5, <1>6, <1>7, <1>8

(* Bytes are read where they stand.                                        *)
LEMMA BytesStand ==
  ASSUME NEW p, NEW i \in Nat, NEW x, NEW y, NEW z
  PROVE  /\ Stands(p, i, <<x>>) => At(p, i) = x
         /\ Stands(p, i, <<x, y>>) => At(p, i) = x /\ At(p, i + 1) = y
         /\ Stands(p, i, <<x, y, z>>) => At(p, i) = x /\ At(p, i + 1) = y /\ At(p, i + 2) = z
<1>1. i + 1 + 1 = i + 2 /\ i + 2 + 1 = i + 3
  OBVIOUS
<1>2. ASSUME Stands(p, i, <<x>>) PROVE p[i + 1] = x
  BY <1>2 DEF Stands
<1>3. ASSUME Stands(p, i, <<x, y>>) PROVE p[i + 1] = x /\ p[i + 2] = y
  BY <1>3 DEF Stands
<1>4. ASSUME Stands(p, i, <<x, y, z>>) PROVE p[i + 1] = x /\ p[i + 2] = y /\ p[i + 3] = z
  BY <1>4 DEF Stands
<1> QED BY <1>1, <1>2, <1>3, <1>4 DEF At

(* Zeros are bytes, as many as there should be.                            *)
LEMMA ZerosParts ==
  ASSUME NEW n \in Nat
  PROVE  Zeros(n) \in Seq(Byte) /\ Len(Zeros(n)) = n
<1>1. Zeros(n) \in [1 .. n -> Byte]
  BY DEF Zeros, Byte
<1>2. Zeros(n) \in Seq(Byte)
  BY <1>1
<1> QED BY <1>2 DEF Zeros

(* Up to three bytes in a row.                                             *)
LEMMA ByteParts ==
  ASSUME NEW x \in Byte, NEW y \in Byte, NEW z \in Byte
  PROVE  /\ <<x>> \in Seq(Byte) /\ Len(<<x>>) = 1
         /\ <<x, y>> \in Seq(Byte) /\ Len(<<x, y>>) = 2
         /\ <<x, y, z>> \in Seq(Byte) /\ Len(<<x, y, z>>) = 3
OBVIOUS

(* A sequence of n bytes, by itself and as a part.                         *)
Sized(s, n) == s \in Seq(Byte) /\ n \in Nat /\ Len(s) = n

(* Of two joined sequences of known lengths: how long they are, and where  *)
(* they stand.                                                             *)
LEMMA SizedPair ==
  \A a, b, p : \A k, n, i \in Nat :
    Sized(a, k) /\ Sized(b, n)
    => /\ Sized(a \o b, k + n)
       /\ Stands(p, i, a \o b) => Stands(p, i, a) /\ Stands(p, i + k, b)
<1> SUFFICES ASSUME NEW a, NEW b, NEW p, NEW k \in Nat, NEW n \in Nat, NEW i \in Nat,
                    Sized(a, k), Sized(b, n)
             PROVE  /\ Sized(a \o b, k + n)
                    /\ Stands(p, i, a \o b) => Stands(p, i, a) /\ Stands(p, i + k, b)
  OBVIOUS
<1>1. a \in Seq(Byte)
  BY DEF Sized
<1>2. b \in Seq(Byte)
  BY DEF Sized
<1>3. Len(a) = k /\ Len(b) = n
  BY DEF Sized
<1>4. a \o b \in Seq(Byte)
  BY <1>1, <1>2
<1>5. Len(a \o b) = Len(a) + Len(b) /\ Stands(a \o b, 0, a) /\ Stands(a \o b, Len(a), b)
  BY <1>1, <1>2, Parts2
<1>6. ASSUME Stands(p, i, a \o b) PROVE Stands(p, i, a) /\ Stands(p, i + k, b)
  <2>1. Stands(a \o b, k, b) /\ 0 + Len(a) <= Len(a \o b) /\ k + Len(b) <= Len(a \o b)
    BY <1>3, <1>5
  <2>2. 0 \in Nat /\ i + 0 = i
    OBVIOUS
  <2>3. Stands(p, i + 0, a)
    BY <1>1, <1>4, <1>5, <1>6, <2>1, <2>2, StandsIn, Zenon
  <2>4. Stands(p, i + k, b)
    BY <1>2, <1>4, <1>6, <2>1, StandsIn, Zenon
  <2> QED BY <2>2, <2>3, <2>4
<1>7. Sized(a \o b, k + n)
  BY <1>3, <1>4, <1>5 DEF Sized
<1> QED BY <1>6, <1>7

(* How long the parts of a payload are.                                    *)
LEMMA SizedParts ==
  /\ \A n \in Number : Sized(Two(n), 2)
  /\ \A n \in Nat : n \div Wrap \in Number => Sized(Four(n), 4)
  /\ \A n \in Nat : Sized(Zeros(n), n)
  /\ \A x \in Byte : Sized(<<x>>, 1)
  /\ \A x, y \in Byte : Sized(<<x, y>>, 2)
  /\ \A x, y, z \in Byte : Sized(<<x, y, z>>, 3)
<1>1. \A n \in Number : Sized(Two(n), 2)
  BY TwoParts DEF Sized
<1>2. \A n \in Nat : n \div Wrap \in Number => Sized(Four(n), 4)
  BY LongStands DEF Sized
<1>3. \A n \in Nat : Sized(Zeros(n), n)
  BY ZerosParts DEF Sized
<1>4. ASSUME NEW x \in Byte, NEW y \in Byte, NEW z \in Byte
      PROVE  Sized(<<x>>, 1) /\ Sized(<<x, y>>, 2) /\ Sized(<<x, y, z>>, 3)
  BY ByteParts DEF Sized
<1> QED BY <1>1, <1>2, <1>3, <1>4

(* A function from 1 to n is a sequence.                                   *)
LEMMA FunctionIsSeq ==
  \A S : \A n \in Nat : \A F \in [1 .. n -> S] : F \in Seq(S) /\ Len(F) = n
OBVIOUS

(* Pieces of one size, one after the other.                                *)
Pieces(piece, s) == FlattenSeq([i \in DOMAIN s |-> piece[s[i]]])

(* A piece more stands behind the rest.                                    *)
LEMMA PiecesAppend ==
  ASSUME NEW S, NEW piece \in [S -> Seq(Byte)], NEW s \in Seq(S), NEW x \in S
  PROVE  Pieces(piece, Append(s, x)) = Pieces(piece, s) \o piece[x]
<1> DEFINE n == Len(s)
           r == Append(s, x)
           F == [i \in DOMAIN s |-> piece[s[i]]]
           G == [i \in DOMAIN r |-> piece[r[i]]]
<1>1. r \in Seq(S) /\ Len(r) = n + 1 /\ n \in Nat /\ r[n + 1] = x
      /\ (\A i \in 1 .. n : r[i] = s[i] /\ s[i] \in S)
      /\ DOMAIN s = 1 .. n /\ DOMAIN r = 1 .. n + 1
  OBVIOUS
<1>2. F \in Seq(Seq(Byte)) /\ Len(F) = n
  <2>1. F \in [1 .. n -> Seq(Byte)]
    BY <1>1
  <2> QED BY <1>1, <2>1, FunctionIsSeq
<1>3. G = Append(F, piece[x])
  <2>1. piece[x] \in Seq(Byte)
    OBVIOUS
  <2>2. \A i \in 1 .. n : F[i] = piece[r[i]]
    BY <1>1
  <2> QED BY <1>1, <1>2, <2>1, <2>2
<1> HIDE DEF F, G, r
<1>4. FlattenSeq(Append(F, piece[x])) = FlattenSeq(F) \o piece[x]
  BY <1>2, FlattenAppend
<1> QED BY <1>3, <1>4 DEF Pieces, F, G, r

(* Offsets of pieces of the same length.                                   *)
LEMMA Multiples ==
  \A w, k, n \in Nat : 1 <= k /\ k <= n =>
    w * (k - 1) + w = w * k /\ w * k <= w * n /\ w * (k - 1) \in Nat
<1> TAKE w, k, n \in Nat
<1> HAVE 1 <= k /\ k <= n
<1>1. w * (k - 1) + w = w * k
  OBVIOUS
<1>2. k - 1 \in Nat /\ n - k \in Nat
  OBVIOUS
<1>3. w * (k - 1) \in Nat /\ w * (n - k) \in Nat
  BY <1>2
<1>4. w * n = w * k + w * (n - k)
  OBVIOUS
<1>5. w * k <= w * n
  BY <1>3, <1>4
<1> QED BY <1>1, <1>3, <1>5

(* Pieces of the same length: how long they are together, and where each   *)
(* stands.                                                                 *)
LEMMA PiecesParts ==
  ASSUME NEW S, NEW w \in Nat, NEW piece \in [S -> Seq(Byte)],
         \A x \in S : Sized(piece[x], w)
  PROVE  \A s \in Seq(S) :
           /\ Sized(Pieces(piece, s), w * Len(s))
           /\ \A k \in 1 .. Len(s) : Stands(Pieces(piece, s), w * (k - 1), piece[s[k]])
<1> DEFINE Good(s) ==
             /\ Sized(Pieces(piece, s), w * Len(s))
             /\ \A k \in 1 .. Len(s) : Stands(Pieces(piece, s), w * (k - 1), piece[s[k]])
           T == {s \in Seq(S) : Good(s)}
<1>1. <<>> \in T
  <2>1. [i \in DOMAIN <<>> |-> piece[<<>>[i]]] = <<>>
    OBVIOUS
  <2>2. Pieces(piece, <<>>) = <<>>
    BY <2>1, FlattenEmpty DEF Pieces
  <2>3. <<>> \in Seq(Byte) /\ Len(<<>>) = 0 /\ <<>> \in Seq(S) /\ w * 0 = 0
    OBVIOUS
  <2>4. Sized(<<>>, 0)
    BY <2>3 DEF Sized
  <2>5. \A k \in 1 .. 0 : Stands(<<>>, w * (k - 1), piece[<<>>[k]])
    OBVIOUS
  <2>6. Good(<<>>)
    BY <2>2, <2>3, <2>4, <2>5
  <2> QED BY <2>3, <2>6
<1>2. ASSUME NEW s \in Seq(S), NEW x \in S, s \in T PROVE Append(s, x) \in T
  <2> DEFINE n == Len(s)
             m == w * n
             r == Append(s, x)
             t == Pieces(piece, s)
             a == piece[x]
             u == t \o a
  <2>1. r \in Seq(S) /\ Len(r) = n + 1 /\ n \in Nat /\ r[n + 1] = x
        /\ (\A i \in 1 .. n : r[i] = s[i])
    OBVIOUS
  <2>2. Pieces(piece, r) = u
    BY PiecesAppend
  <2>3. Sized(t, m) /\ Sized(a, w) /\ m \in Nat
    BY <1>2
  <2>4. w * (n + 1) = m + w
    BY <2>1
  <2>5. \A k \in 1 .. n : Stands(t, w * (k - 1), piece[s[k]])
    BY <1>2
  <2>6. \A k \in 1 .. n : Sized(piece[s[k]], w) /\ w * (k - 1) \in Nat /\ w * (k - 1) + w <= m
    <3> TAKE k \in 1 .. n
    <3>1. s[k] \in S /\ k \in Nat /\ k >= 1 /\ k <= n
      OBVIOUS
    <3>2. w * (k - 1) + w = w * k /\ w * k <= w * n /\ w * (k - 1) \in Nat
      BY <2>1, <3>1, Multiples
    <3> QED BY <3>1, <3>2
  <2> HIDE DEF r, t, n, m, a
  <2>7. u = t \o a
    OBVIOUS
  <2> HIDE DEF u
  <2>8. Sized(u, m + w) /\ Stands(u, 0, t) /\ Stands(u, 0 + m, a)
    <3>1. 0 \in Nat /\ Stands(u, 0, u)
      BY StandsWhole
    <3> QED BY <2>3, <2>7, <3>1, SizedPair, Zenon
  <2>9. ASSUME NEW k \in 1 .. n + 1 PROVE Stands(u, w * (k - 1), piece[r[k]])
    <3>1. CASE k = n + 1
      <4>1. w * (k - 1) = 0 + m
        BY <2>1, <3>1 DEF m
      <4>2. piece[r[k]] = a
        BY <2>1, <3>1 DEF a
      <4> QED BY <2>8, <4>1, <4>2
    <3>2. CASE k # n + 1
      <4> DEFINE j == w * (k - 1)
                 b == piece[s[k]]
      <4>1. k \in 1 .. n
        BY <2>1, <3>2
      <4>2. Stands(t, j, b) /\ Sized(b, w) /\ j \in Nat /\ j + w <= m /\ r[k] = s[k]
        BY <2>1, <2>5, <2>6, <4>1
      <4> HIDE DEF j, b
      <4>3. t \in Seq(Byte) /\ b \in Seq(Byte) /\ Len(t) = m /\ Len(b) = w
        BY <2>3, <4>2 DEF Sized
      <4>4. j + Len(b) <= Len(t) /\ 0 \in Nat /\ 0 + j = j
        BY <4>2, <4>3
      <4>5. Stands(u, 0 + j, b)
        BY <2>8, <4>2, <4>3, <4>4, StandsIn, Zenon
      <4> QED BY <4>2, <4>4, <4>5 DEF j, b
    <3> QED BY <3>1, <3>2
  <2> QED BY <2>1, <2>2, <2>4, <2>8, <2>9 DEF r
<1> HIDE DEF T
<1>3. \A s \in Seq(S) : s \in T
  BY <1>1, <1>2, SeqInduction
<1> QED BY <1>3 DEF T

(* A piece of pieces that stand in a payload.                              *)
LEMMA PieceStands ==
  ASSUME NEW S, NEW w \in Nat, NEW piece \in [S -> Seq(Byte)],
         \A x \in S : Sized(piece[x], w),
         NEW s \in Seq(S), NEW p, NEW i \in Nat, Stands(p, i, Pieces(piece, s)),
         NEW k \in 1 .. Len(s)
  PROVE  Stands(p, i + w * (k - 1), piece[s[k]])
<1> DEFINE t == Pieces(piece, s)
           j == w * (k - 1)
           b == piece[s[k]]
           n == Len(s)
<1>1. n \in Nat /\ k \in Nat /\ k >= 1 /\ k <= n /\ s[k] \in S
  OBVIOUS
<1>2. Sized(t, w * n) /\ Stands(t, j, b)
  BY PiecesParts
<1>3. Sized(b, w) /\ Stands(p, i, t)
  BY <1>1
<1>4. j + w = w * k /\ w * k <= w * n /\ j \in Nat
  BY <1>1, Multiples
<1> HIDE DEF t, b, j
<1>5. t \in Seq(Byte) /\ b \in Seq(Byte) /\ Len(t) = w * n /\ Len(b) = w
  BY <1>2, <1>3 DEF Sized
<1>6. j + Len(b) <= Len(t)
  BY <1>4, <1>5
<1>7. Stands(p, i + j, b)
  BY <1>2, <1>3, <1>4, <1>5, <1>6, StandsIn, Zenon
<1> QED BY <1>7 DEF j, b

(* Numbers one after the other.                                            *)
LEMMA TwosParts ==
  \A s \in Seq(Number) :
    /\ Sized(Twos(s), 2 * Len(s))
    /\ \A p : \A i \in Nat : Stands(p, i, Twos(s)) =>
         \A k \in 1 .. Len(s) : Stands(p, i + 2 * (k - 1), Two(s[k]))
<1> TAKE s \in Seq(Number)
<1> DEFINE two == [n \in Number |-> Two(n)]
<1>1. two \in [Number -> Seq(Byte)] /\ \A n \in Number : two[n] = Two(n)
  BY TwoParts
<1>2. \A n \in Number : Sized(two[n], 2)
  BY <1>1, SizedParts
<1> HIDE DEF two
<1>3. \A k \in DOMAIN s : s[k] \in Number
  OBVIOUS
<1>4. [k \in DOMAIN s |-> two[s[k]]] = [k \in DOMAIN s |-> Two(s[k])]
  BY <1>1, <1>3
<1>5. Twos(s) = Pieces(two, s)
  BY <1>4 DEF Twos, Pieces
<1>6. 2 \in Nat
  OBVIOUS
<1>7. Sized(Pieces(two, s), 2 * Len(s))
  BY <1>1, <1>2, <1>6, PiecesParts
<1>8. ASSUME NEW p, NEW i \in Nat, Stands(p, i, Pieces(two, s)), NEW k \in 1 .. Len(s)
      PROVE  Stands(p, i + 2 * (k - 1), two[s[k]])
  BY <1>1, <1>2, <1>6, <1>8, PieceStands
<1>9. \A k \in 1 .. Len(s) : two[s[k]] = Two(s[k])
  BY <1>1
<1> QED BY <1>5, <1>7, <1>8, <1>9

(* What stands in a payload, read.                                         *)
LEMMA SizedConcat ==
  \A a, b : \A k, n \in Nat : Sized(a, k) /\ Sized(b, n) => Sized(a \o b, k + n)
BY SizedPair, Zenon

(* The same for StandsWhole: from the whole payload, its last part off.    *)
LEMMA StandsLast ==
  \A a, b, p, k, n :
    Sized(a, k) /\ Sized(b, n) /\ Stands(p, 0, a \o b) => Stands(p, 0, a) /\ Stands(p, k, b)
<1> TAKE a, b, p, k, n
<1> HAVE Sized(a, k) /\ Sized(b, n) /\ Stands(p, 0, a \o b)
<1>1. k \in Nat /\ n \in Nat /\ 0 \in Nat
  BY DEF Sized
<1>2. Stands(p, 0 + k, b) /\ Stands(p, 0, a)
  BY <1>1, SizedPair, Zenon
<1>3. 0 + k = k
  BY <1>1
<1> QED BY <1>2, <1>3

(* WordStands, with nothing typed outside.                                 *)
LEMMA ReadWord ==
  \A p, i, n : i \in Nat /\ n \in Number /\ Stands(p, i, Two(n)) => Word(p, i) = n
BY WordStands, Zenon

(* LongStands, with nothing typed outside.                                 *)
LEMMA ReadLong ==
  \A p, i, n : i \in Nat /\ n \in Nat /\ n \div Wrap \in Number /\ Stands(p, i, Four(n))
               => Long(p, i) = n
BY LongStands, Zenon

(* Words in a row, each read at its place.                                 *)
LEMMA ReadTwos ==
  \A p, i, s : i \in Nat /\ s \in Seq(Number) /\ Stands(p, i, Twos(s))
               => \A k \in 1 .. Len(s) : Word(p, i + 2 * (k - 1)) = s[k]
<1> TAKE p, i, s
<1> HAVE i \in Nat /\ s \in Seq(Number) /\ Stands(p, i, Twos(s))
<1> TAKE k \in 1 .. Len(s)
<1> DEFINE m == i + 2 * (k - 1)
           n == s[k]
<1>1. m \in Nat /\ n \in Number
  OBVIOUS
<1>2. Stands(p, m, Two(n))
  BY TwosParts
<1> HIDE DEF m, n
<1>3. Word(p, m) = n
  BY <1>1, <1>2, ReadWord
<1> QED BY <1>3 DEF m, n

(* BytesStand, with nothing typed outside.                                 *)
LEMMA ReadBytes ==
  /\ \A p, i, x : i \in Nat /\ Stands(p, i, <<x>>) => At(p, i) = x
  /\ \A p, i, x, y : i \in Nat /\ Stands(p, i, <<x, y>>) => At(p, i) = x /\ At(p, i + 1) = y
  /\ \A p, i, x, y, z :
       i \in Nat /\ Stands(p, i, <<x, y, z>>)
       => At(p, i) = x /\ At(p, i + 1) = y /\ At(p, i + 2) = z
BY BytesStand, Zenon

(* Constants in the payloads.                                              *)
LEMMA SmallBytes == 0 \in Byte /\ 1 \in Byte /\ 3 \in Byte
BY InByte

(* Where the parts of a payload stand.                                     *)
LEMMA PositionChangedLayout ==
  ASSUME NEW f, f.node \in Byte, f.state \in Byte, f.current \in Number, f.target \in Number,
         f.fps \in [1 .. 4 -> Number], f.remaining \in Number,
         f.timestamp \in Nat, f.timestamp \div Wrap \in Number,
         NEW p, p = MarshalPositionChanged(f)
  PROVE  /\ Sized(p, 20)
         /\ At(p, 0) = f.node /\ At(p, 1) = f.state
         /\ Word(p, 2) = f.current /\ Word(p, 4) = f.target
         /\ \A k \in 1 .. 4 : Word(p, 6 + 2 * (k - 1)) = f.fps[k]
         /\ Word(p, 14) = f.remaining /\ Long(p, 16) = f.timestamp
<1> DEFINE a == <<f.node, f.state>>
           b == Two(f.current)
           c == Two(f.target)
           d == Twos(f.fps)
           e == Two(f.remaining)
           g == Four(f.timestamp)
<1>0. f.fps \in Seq(Number) /\ Len(f.fps) = 4
  BY FunctionIsSeq
<1>1. Sized(a, 2) /\ Sized(b, 2) /\ Sized(c, 2) /\ Sized(e, 2) /\ Sized(g, 4)
  BY SizedParts
<1>2. Sized(d, 8)
  <2>1. Sized(d, 2 * Len(f.fps))
    BY <1>0, TwosParts
  <2> QED BY <1>0, <2>1
<1>3. p = a \o b \o c \o d \o e \o g
  BY DEF MarshalPositionChanged
<1> HIDE DEF a, b, c, d, e, g
<1>4. /\ Sized(a \o b, 4) /\ Sized(a \o b \o c, 6) /\ Sized(a \o b \o c \o d, 14)
      /\ Sized(a \o b \o c \o d \o e, 16) /\ Sized(p, 20)
  BY <1>1, <1>2, <1>3, SizedConcat
<1>5. Stands(p, 0, a \o b \o c \o d \o e \o g)
  BY <1>3, StandsWhole
<1>6. /\ Stands(p, 0, a) /\ Stands(p, 2, b) /\ Stands(p, 4, c) /\ Stands(p, 6, d)
      /\ Stands(p, 14, e) /\ Stands(p, 16, g)
  BY <1>1, <1>2, <1>4, <1>5, StandsLast
<1>7. At(p, 0) = f.node /\ At(p, 1) = f.state
  <2>1. At(p, 0 + 1) = f.state /\ At(p, 0) = f.node
    BY <1>6, ReadBytes DEF a
  <2> QED BY <2>1
<1>8. Word(p, 2) = f.current /\ Word(p, 4) = f.target /\ Word(p, 14) = f.remaining
  BY <1>6, ReadWord DEF b, c, e
<1>9. Long(p, 16) = f.timestamp
  BY <1>6, ReadLong DEF g
<1>10. \A k \in 1 .. 4 : Word(p, 6 + 2 * (k - 1)) = f.fps[k]
  <2>1. 6 \in Nat /\ Stands(p, 6, Twos(f.fps))
    BY <1>6 DEF d
  <2>2. \A k \in 1 .. Len(f.fps) : Word(p, 6 + 2 * (k - 1)) = f.fps[k]
    BY <1>0, <2>1, ReadTwos, SMT
  <2> QED BY <1>0, <2>2
<1> QED BY <1>4, <1>7, <1>8, <1>9, <1>10

(* A confirmation: session and status.                                     *)
LEMMA ConfirmationLayout ==
  ASSUME NEW f, f.session \in Number, f.status \in Byte, NEW p, p = MarshalConfirmation(f)
  PROVE  Sized(p, 3) /\ Word(p, 0) = f.session /\ At(p, 2) = f.status
<1> DEFINE a == Two(f.session)
           b == <<f.status>>
<1>1. Sized(a, 2) /\ Sized(b, 1)
  BY SizedParts
<1>2. p = a \o b
  BY DEF MarshalConfirmation
<1> HIDE DEF a, b
<1>3. Sized(p, 3)
  BY <1>1, <1>2, SizedConcat
<1>4. Stands(p, 0, a \o b)
  BY <1>2, StandsWhole
<1>5. Stands(p, 0, a) /\ Stands(p, 2, b)
  BY <1>1, <1>4, StandsLast
<1>6. Word(p, 0) = f.session
  BY <1>5, ReadWord DEF a
<1>7. At(p, 2) = f.status
  BY <1>5, ReadBytes DEF b
<1> QED BY <1>3, <1>6, <1>7

(* The end of a session: the session.                                      *)
LEMMA SessionFinishedLayout ==
  ASSUME NEW f, f.session \in Number, NEW p, p = MarshalSessionFinished(f)
  PROVE  Sized(p, 2) /\ Word(p, 0) = f.session
<1>1. p = Two(f.session) /\ Sized(Two(f.session), 2)
  BY SizedParts DEF MarshalSessionFinished
<1>2. Stands(p, 0, Two(f.session))
  BY <1>1, StandsWhole
<1>3. Word(p, 0) = f.session
  BY <1>2, ReadWord
<1> QED BY <1>1, <1>3

(* A run status: session, status, parameter and value.                     *)
LEMMA RunStatusLayout ==
  ASSUME NEW f, f.session \in Number, f.status \in Byte, f.parameter \in Byte,
         f.value \in Number, NEW p, p = MarshalRunStatus(f)
  PROVE  /\ Sized(p, 13)
         /\ Word(p, 0) = f.session /\ At(p, 2) = f.status /\ At(p, 4) = f.parameter
         /\ Word(p, 5) = f.value
<1> DEFINE a == Two(f.session)
           b == <<f.status, 0, f.parameter>>
           c == Two(f.value)
           d == Zeros(6)
<1>1. Sized(a, 2) /\ Sized(b, 3) /\ Sized(c, 2) /\ Sized(d, 6)
  BY SizedParts, SmallBytes
<1>2. p = a \o b \o c \o d
  BY DEF MarshalRunStatus
<1> HIDE DEF a, b, c, d
<1>3. Sized(a \o b, 5) /\ Sized(a \o b \o c, 7) /\ Sized(p, 13)
  BY <1>1, <1>2, SizedConcat
<1>4. Stands(p, 0, a \o b \o c \o d)
  BY <1>2, StandsWhole
<1>5. Stands(p, 0, a) /\ Stands(p, 2, b) /\ Stands(p, 5, c)
  BY <1>1, <1>3, <1>4, StandsLast
<1>6. Word(p, 0) = f.session /\ Word(p, 5) = f.value
  BY <1>5, ReadWord DEF a, c
<1>7. At(p, 2) = f.status /\ At(p, 2 + 2) = f.parameter
  BY <1>5, ReadBytes DEF b
<1> QED BY <1>3, <1>6, <1>7

(* A limitation: session, node, both bounds and the time.                  *)
LEMMA LimitationStatusLayout ==
  ASSUME NEW f, f.session \in Number, f.node \in Byte, f.min \in Number, f.max \in Number,
         f.time \in Byte, NEW p, p = MarshalLimitationStatus(f)
  PROVE  /\ Sized(p, 10)
         /\ Word(p, 0) = f.session /\ At(p, 2) = f.node
         /\ Word(p, 4) = f.min /\ Word(p, 6) = f.max /\ At(p, 9) = f.time
<1> DEFINE a == Two(f.session)
           b == <<f.node, 0>>
           c == Two(f.min)
           d == Two(f.max)
           e == <<1, f.time>>
<1>1. Sized(a, 2) /\ Sized(b, 2) /\ Sized(c, 2) /\ Sized(d, 2) /\ Sized(e, 2)
  BY SizedParts, SmallBytes
<1>2. p = a \o b \o c \o d \o e
  BY DEF MarshalLimitationStatus
<1> HIDE DEF a, b, c, d, e
<1>3. /\ Sized(a \o b, 4) /\ Sized(a \o b \o c, 6) /\ Sized(a \o b \o c \o d, 8)
      /\ Sized(p, 10)
  BY <1>1, <1>2, SizedConcat
<1>4. Stands(p, 0, a \o b \o c \o d \o e)
  BY <1>2, StandsWhole
<1>5. Stands(p, 0, a) /\ Stands(p, 2, b) /\ Stands(p, 4, c) /\ Stands(p, 6, d) /\ Stands(p, 8, e)
  BY <1>1, <1>3, <1>4, StandsLast
<1>6. Word(p, 0) = f.session /\ Word(p, 4) = f.min /\ Word(p, 6) = f.max
  BY <1>5, ReadWord DEF a, c, d
<1>7. At(p, 2) = f.node /\ At(p, 8 + 1) = f.time
  BY <1>5, ReadBytes DEF b, e
<1> QED BY <1>3, <1>6, <1>7

(* A parameter of a status: its number and its value.                      *)
LEMMA EntryParts ==
  \A d \in Byte \X Number :
    /\ Sized(Entry(d), 3)
    /\ \A p : \A i \in Nat : Stands(p, i, Entry(d)) => At(p, i) = d[1] /\ Word(p, i + 1) = d[2]
<1> TAKE d \in Byte \X Number
<1> DEFINE x == d[1]
           n == d[2]
           a == <<x>>
           b == Two(n)
<1>1. x \in Byte /\ n \in Number
  OBVIOUS
<1> HIDE DEF x, n
<1>2. Sized(a, 1) /\ Sized(b, 2)
  BY <1>1, SizedParts
<1>3. Entry(d) = a \o b
  BY DEF Entry, x, n
<1> HIDE DEF a, b
<1>4. Sized(a \o b, 3)
  BY <1>2, SizedConcat
<1>5. ASSUME NEW p, NEW i \in Nat, Stands(p, i, a \o b)
      PROVE  At(p, i) = x /\ Word(p, i + 1) = n
  <2>1. 1 \in Nat /\ 2 \in Nat /\ i + 1 \in Nat
    OBVIOUS
  <2>2. Stands(p, i, a) /\ Stands(p, i + 1, b)
    BY <1>2, <1>5, <2>1, SizedPair, Zenon
  <2>3. At(p, i) = x
    BY <2>2, ReadBytes, Zenon DEF a
  <2>4. Word(p, i + 1) = n
    BY <1>1, <2>1, <2>2, ReadWord, Zenon DEF b
  <2> QED BY <2>3, <2>4
<1> QED BY <1>3, <1>4, <1>5 DEF x, n

(* The parameters of a status, in a row.                                   *)
Entries(s) == FlattenSeq([i \in DOMAIN s |-> Entry(s[i])])

(* Where each of them stands.                                              *)
LEMMA EntriesParts ==
  \A s \in Seq(Byte \X Number) :
    /\ Sized(Entries(s), 3 * Len(s))
    /\ \A p : \A i \in Nat : Stands(p, i, Entries(s)) =>
         \A k \in 1 .. Len(s) : At(p, i + 3 * (k - 1)) = s[k][1] /\ Word(p, i + 3 * (k - 1) + 1) = s[k][2]
<1> DEFINE S == Byte \X Number
<1> TAKE s \in Seq(S)
<1> DEFINE entry == [d \in S |-> Entry(d)]
<1>1. \A d \in S : Entry(d) \in Seq(Byte) /\ Sized(Entry(d), 3)
  BY EntryParts DEF Sized
<1>2. \A d \in S : \A p : \A i \in Nat :
        Stands(p, i, Entry(d)) => At(p, i) = d[1] /\ Word(p, i + 1) = d[2]
  BY EntryParts
<1> HIDE DEF S
<1>3. entry \in [S -> Seq(Byte)] /\ \A d \in S : entry[d] = Entry(d)
  BY <1>1
<1>4. \A d \in S : Sized(entry[d], 3)
  BY <1>1, <1>3
<1> HIDE DEF entry
<1>5. \A k \in DOMAIN s : s[k] \in S
  OBVIOUS
<1>6. [k \in DOMAIN s |-> entry[s[k]]] = [k \in DOMAIN s |-> Entry(s[k])]
  BY <1>3, <1>5
<1>7. Entries(s) = Pieces(entry, s)
  BY <1>6 DEF Entries, Pieces
<1>8. 3 \in Nat
  OBVIOUS
<1>9. Sized(Pieces(entry, s), 3 * Len(s))
  BY <1>3, <1>4, <1>8, PiecesParts
<1>10. ASSUME NEW p, NEW i \in Nat, Stands(p, i, Pieces(entry, s)), NEW k \in 1 .. Len(s)
       PROVE  At(p, i + 3 * (k - 1)) = s[k][1] /\ Word(p, i + 3 * (k - 1) + 1) = s[k][2]
  <2> DEFINE m == i + 3 * (k - 1)
             d == s[k]
  <2>1. m \in Nat /\ d \in S
    OBVIOUS
  <2>2. Stands(p, m, entry[d])
    BY <1>3, <1>4, <1>8, <1>10, PieceStands
  <2> HIDE DEF m, d
  <2>3. Stands(p, m, Entry(d))
    BY <1>3, <2>1, <2>2
  <2>4. At(p, m) = d[1] /\ Word(p, m + 1) = d[2]
    BY <1>2, <2>1, <2>3
  <2> QED BY <2>4 DEF m, d
<1> QED BY <1>7, <1>9, <1>10

(* The head of a status behind its session.                                *)
LEMMA SixBytes ==
  \A x, y \in Byte :
    /\ Sized(<<0, x, 0, 0, 1, y>>, 6)
    /\ \A p, i : i \in Nat /\ Stands(p, i, <<0, x, 0, 0, 1, y>>) => At(p, i + 1) = x /\ At(p, i + 5) = y
<1> TAKE x, y \in Byte
<1> DEFINE s == <<0, x, 0, 0, 1, y>>
<1>1. s \in Seq(Byte) /\ Len(s) = 6 /\ s[2] = x /\ s[6] = y
  BY SmallBytes
<1> HIDE DEF s
<1>2. Sized(s, 6)
  BY <1>1 DEF Sized
<1>3. ASSUME NEW p, NEW i, i \in Nat, Stands(p, i, s) PROVE At(p, i + 1) = x /\ At(p, i + 5) = y
  <2>1. \A k \in 1 .. 6 : p[i + k] = s[k]
    BY <1>1, <1>3 DEF Stands
  <2>2. p[i + 2] = x /\ p[i + 6] = y /\ i + 1 + 1 = i + 2 /\ i + 5 + 1 = i + 6
    BY <1>1, <1>3, <2>1
  <2> QED BY <2>2 DEF At
<1> QED BY <1>2, <1>3 DEF s

(* A status: session, node, how many parameters, and these.                *)
LEMMA StatusLayout ==
  ASSUME NEW f, f.session \in Number, f.node \in Byte, f.data \in Seq(Byte \X Number),
         Len(f.data) <= 17, NEW p, p = MarshalStatus(f)
  PROVE  /\ Sized(p, 59)
         /\ Word(p, 0) = f.session /\ At(p, 3) = f.node /\ At(p, 7) = Len(f.data)
         /\ \A k \in 1 .. Len(f.data) :
              At(p, 8 + 3 * (k - 1)) = f.data[k][1] /\ Word(p, 8 + 3 * (k - 1) + 1) = f.data[k][2]
<1> DEFINE s == f.data
           n == Len(s)
           a == Two(f.session)
           b == <<0, f.node, 0, 0, 1, n>>
           c == Entries(s)
           d == Zeros(51 - 3 * n)
<1>1. n \in Nat /\ n <= 17 /\ s \in Seq(Byte \X Number)
  OBVIOUS
<1>2. p = a \o b \o c \o d
  BY DEF MarshalStatus, Entries
<1>3. n \in Byte /\ 51 - 3 * n \in Nat /\ 3 * n \in Nat /\ 8 + 3 * n \in Nat
      /\ 8 + 3 * n + (51 - 3 * n) = 59
  BY <1>1, InByte
<1>4. Sized(a, 2)
  BY SizedParts
<1>5. Sized(b, 6)
  BY <1>3, SixBytes
<1>6. Sized(c, 3 * n)
  BY <1>1, EntriesParts
<1>7. Sized(d, 51 - 3 * n)
  BY <1>3, SizedParts
<1> HIDE DEF a, b, c, d
<1>8. Sized(a \o b, 8)
  BY <1>4, <1>5, SizedConcat
<1>9. Sized(a \o b \o c, 8 + 3 * n)
  BY <1>3, <1>6, <1>8, SizedConcat
<1>10. Sized(a \o b \o c \o d, 8 + 3 * n + (51 - 3 * n))
  BY <1>3, <1>7, <1>9, SizedConcat
<1>11. Stands(p, 0, a \o b \o c \o d)
  BY <1>2, StandsWhole
<1>12. Stands(p, 0, a) /\ Stands(p, 2, b) /\ Stands(p, 8, c)
  <2>1. Stands(p, 0, a \o b \o c)
    BY <1>7, <1>9, <1>11, StandsLast, Zenon
  <2>2. Stands(p, 0, a \o b) /\ Stands(p, 8, c)
    BY <1>6, <1>8, <2>1, StandsLast, Zenon
  <2>3. Stands(p, 0, a) /\ Stands(p, 2, b)
    BY <1>4, <1>5, <2>2, StandsLast, Zenon
  <2> QED BY <2>2, <2>3
<1>13. Word(p, 0) = f.session
  BY <1>12, ReadWord DEF a
<1>14. At(p, 2 + 1) = f.node /\ At(p, 2 + 5) = n
  BY <1>3, <1>12, SixBytes DEF b
<1>15. \A k \in 1 .. n : At(p, 8 + 3 * (k - 1)) = s[k][1] /\ Word(p, 8 + 3 * (k - 1) + 1) = s[k][2]
  BY <1>1, <1>12, EntriesParts DEF c
<1> QED BY <1>2, <1>3, <1>10, <1>13, <1>14, <1>15

(* The first part of a list entry, to its state, and what follows that.    *)
IsNodeInfo(f) ==
  /\ f.node \in Byte /\ f.name \in Seq(Byte \ {0}) /\ Len(f.name) <= 64 /\ f.type \in Number
  /\ f.state \in Byte /\ f.current \in Number /\ f.target \in Number
  /\ f.fps \in [1 .. 4 -> Number] /\ f.remaining \in Number
  /\ f.timestamp \in Nat /\ f.timestamp \div Wrap \in Number
  /\ f.aliases \in Seq(Number) /\ Len(f.aliases) \in {0, 2, 4, 6, 8, 10}

(* The node information up to its state.                                   *)
NodeInfoHead(f) ==
  <<f.node>> \o Zeros(3) \o f.name \o Zeros(64 - Len(f.name)) \o <<0>> \o Two(f.type)
    \o Zeros(13) \o <<f.state>>

(* What stands there: id, name with zeros behind it, type, state.          *)
LEMMA NodeInfoHeadLayout ==
  ASSUME NEW f, IsNodeInfo(f), NEW x, x = NodeInfoHead(f)
  PROVE  /\ Sized(x, 85)
         /\ \A p : Stands(p, 0, x) =>
              /\ At(p, 0) = f.node /\ Word(p, 69) = f.type /\ At(p, 84) = f.state
              /\ Stands(p, 4, f.name) /\ Stands(p, 4 + Len(f.name), Zeros(64 - Len(f.name)))
<1> DEFINE n == Len(f.name)
           k == 64 - n
           a == <<f.node>>
           b == Zeros(3)
           c == f.name
           d == Zeros(k)
           e == <<0>>
           g == Two(f.type)
           h == Zeros(13)
           i == <<f.state>>
           j == 4 + n
<1>0. f.node \in Byte /\ c \in Seq(Byte) /\ n <= 64 /\ f.type \in Number /\ f.state \in Byte
  BY DEF IsNodeInfo
<1>1. n \in Nat /\ k \in Nat /\ j + k = 68 /\ j \in Nat /\ 4 + n = j
  BY <1>0
<1>2. x = a \o b \o c \o d \o e \o g \o h \o i
  BY DEF NodeInfoHead
<1>3. Sized(a, 1) /\ Sized(b, 3) /\ Sized(e, 1) /\ Sized(g, 2) /\ Sized(h, 13) /\ Sized(i, 1)
  BY <1>0, SizedParts, SmallBytes
<1>4. Sized(c, n)
  BY <1>0, <1>1 DEF Sized
<1> HIDE DEF n
<1>5. Sized(d, k)
  BY <1>1, SizedParts
<1> HIDE DEF a, b, c, d, e, g, h, i, k, j
<1> DEFINE q4 == a \o b
           qj == q4 \o c
           q68 == qj \o d
<1>6. Sized(q4, 4)
  BY <1>3, SizedConcat
<1> HIDE DEF q4
<1>7. Sized(qj, j)
  <2>1. Sized(qj, 4 + n)
    BY <1>1, <1>4, <1>6, SizedConcat
  <2> QED BY <1>1, <2>1
<1> HIDE DEF qj
<1>8. Sized(q68, 68)
  <2>1. Sized(q68, j + k)
    BY <1>1, <1>5, <1>7, SizedConcat
  <2> QED BY <1>1, <2>1
<1> HIDE DEF q68
<1>9. x = q68 \o e \o g \o h \o i
  BY <1>2 DEF q68, qj, q4
<1>10. /\ Sized(q68 \o e, 69) /\ Sized(q68 \o e \o g, 71) /\ Sized(q68 \o e \o g \o h, 84)
       /\ Sized(x, 85)
  BY <1>3, <1>8, <1>9, SizedConcat
<1>11. ASSUME NEW p, Stands(p, 0, x)
       PROVE  /\ At(p, 0) = f.node /\ Word(p, 69) = f.type /\ At(p, 84) = f.state
              /\ Stands(p, 4, c) /\ Stands(p, j, d)
  <2>1. Stands(p, 0, q68 \o e \o g \o h \o i)
    BY <1>9, <1>11
  <2>2. Stands(p, 0, q68) /\ Stands(p, 69, g) /\ Stands(p, 84, i)
    <3>1. Stands(p, 0, q68 \o e \o g \o h) /\ Stands(p, 84, i)
      BY <1>3, <1>10, <2>1, StandsLast, Zenon
    <3>2. Stands(p, 0, q68 \o e \o g)
      BY <1>3, <1>10, <3>1, StandsLast, Zenon
    <3>3. Stands(p, 0, q68 \o e) /\ Stands(p, 69, g)
      BY <1>3, <1>10, <3>2, StandsLast, Zenon
    <3>4. Stands(p, 0, q68)
      BY <1>3, <1>8, <3>3, StandsLast, Zenon
    <3> QED BY <3>1, <3>3, <3>4
  <2>3. Stands(p, 0, qj) /\ Stands(p, j, d)
    BY <1>5, <1>7, <2>2, StandsLast, Zenon DEF q68
  <2>4. Stands(p, 0, q4) /\ Stands(p, 4, c)
    BY <1>4, <1>6, <2>3, StandsLast, Zenon DEF qj
  <2>5. Stands(p, 0, a)
    BY <1>3, <2>4, StandsLast, Zenon DEF q4
  <2>6. At(p, 0) = f.node
    BY <2>5, ReadBytes DEF a
  <2>7. At(p, 84) = f.state
    BY <2>2, ReadBytes DEF i
  <2>8. Word(p, 69) = f.type
    BY <1>0, <2>2, ReadWord DEF g
  <2> QED BY <2>3, <2>4, <2>6, <2>7, <2>8
<1> QED BY <1>10, <1>11 DEF c, d, j, k, n

(* How many aliases there are, as the source counts them.                  *)
LEMMA AliasCount ==
  ASSUME NEW n \in {0, 2, 4, 6, 8, 10}
  PROVE  /\ n \div 2 \in Byte /\ 2 * (n \div 2) = n /\ n \div 2 <= 5
         /\ 2 * n \in Nat /\ 20 - 2 * n \in Nat
<1> DEFINE q == n \div 2
           r == n % 2
<1>1. n \in Nat /\ 2 \in Nat \ {0}
  OBVIOUS
<1>2. q \in Int /\ r \in Int /\ 0 <= r /\ r < 2 /\ n = 2 * q + r
  BY <1>1, Divided
<1> HIDE DEF q, r
<1>3. 2 * q = n /\ 0 <= q /\ q <= 5
  BY <1>2
<1>4. q \in Byte
  BY <1>2, <1>3, InByte
<1> QED BY <1>3, <1>4 DEF q

(* The node information, all of it.                                        *)
LEMMA NodeInfoLayout ==
  ASSUME NEW f, IsNodeInfo(f),
         NEW p, p = MarshalNodeInfo(f)
  PROVE  /\ Sized(p, 124)
         /\ At(p, 0) = f.node /\ Word(p, 69) = f.type /\ At(p, 84) = f.state
         /\ Stands(p, 4, f.name) /\ Stands(p, 4 + Len(f.name), Zeros(64 - Len(f.name)))
         /\ Word(p, 85) = f.current /\ Word(p, 87) = f.target
         /\ \A k \in 1 .. 4 : Word(p, 89 + 2 * (k - 1)) = f.fps[k]
         /\ Word(p, 97) = f.remaining /\ Long(p, 99) = f.timestamp
         /\ At(p, 103) = Len(f.aliases) \div 2
         /\ \A k \in 1 .. Len(f.aliases) : Word(p, 104 + 2 * (k - 1)) = f.aliases[k]
<1> DEFINE n == Len(f.aliases)
           q == NodeInfoHead(f)
           a == Two(f.current)
           b == Two(f.target)
           c == Twos(f.fps)
           d == Two(f.remaining)
           e == Four(f.timestamp)
           g == <<n \div 2>>
           h == Twos(f.aliases)
           i == Zeros(20 - 2 * n)
           m == 2 * n
           k == 20 - 2 * n
<1>0. /\ f.current \in Number /\ f.target \in Number
      /\ f.fps \in [1 .. 4 -> Number] /\ f.remaining \in Number
      /\ f.timestamp \in Nat /\ f.timestamp \div Wrap \in Number
      /\ f.aliases \in Seq(Number) /\ n \in {0, 2, 4, 6, 8, 10}
  BY DEF IsNodeInfo
<1>1. f.fps \in Seq(Number) /\ Len(f.fps) = 4
  <2>1. f.fps \in [1 .. 4 -> Number] /\ 4 \in Nat
    BY <1>0
  <2> QED BY <2>1, FunctionIsSeq
<1>2. n \div 2 \in Byte /\ m \in Nat /\ k \in Nat /\ 104 + m + k = 124
  <2>1. n \in {0, 2, 4, 6, 8, 10}
    BY <1>0
  <2> HIDE DEF n
  <2>2. n \div 2 \in Byte /\ m \in Nat /\ k \in Nat
    BY <2>1, AliasCount
  <2>3. 104 + m + k = 124
    BY <2>1
  <2> QED BY <2>2, <2>3
<1>3. Sized(a, 2) /\ Sized(b, 2) /\ Sized(d, 2)
  BY <1>0, SizedParts
<1>4. Sized(e, 4)
  BY <1>0, SizedParts
<1>5. Sized(g, 1)
  BY <1>2, SizedParts
<1>6. Sized(i, k)
  BY <1>2, SizedParts
<1>7. Sized(c, 8)
  <2>1. Sized(c, 2 * Len(f.fps))
    BY <1>1, TwosParts
  <2> QED BY <1>1, <2>1
<1>8. Sized(h, m)
  BY <1>0, TwosParts
<1>9. p = q \o a \o b \o c \o d \o e \o g \o h \o i
  BY DEF MarshalNodeInfo, NodeInfoHead
<1>10. Sized(q, 85)
  BY NodeInfoHeadLayout
<1> HIDE DEF q, a, b, c, d, e, g, h, i, m, k
<1> DEFINE r == q \o a \o b \o c \o d \o e \o g
<1>11. /\ Sized(q \o a, 87) /\ Sized(q \o a \o b, 89) /\ Sized(q \o a \o b \o c, 97)
       /\ Sized(q \o a \o b \o c \o d, 99) /\ Sized(q \o a \o b \o c \o d \o e, 103)
       /\ Sized(r, 104)
  BY <1>3, <1>4, <1>5, <1>7, <1>10, SizedConcat
<1>12. p = r \o h \o i
  BY <1>9
<1> HIDE DEF r
<1>13. Sized(r \o h, 104 + m) /\ 104 + m \in Nat
  BY <1>2, <1>8, <1>11, SizedConcat
<1>14. Sized(r \o h \o i, 104 + m + k)
  BY <1>2, <1>6, <1>13, SizedConcat
<1>15. Sized(p, 124)
  BY <1>2, <1>12, <1>14
<1>16. Stands(p, 0, r \o h \o i)
  BY <1>12, StandsWhole
<1>17. Stands(p, 0, r \o h)
  BY <1>6, <1>13, <1>16, StandsLast, Zenon
<1>18. Stands(p, 0, r) /\ Stands(p, 104, h)
  <2>1. Sized(r, 104)
    BY <1>11
  <2> QED BY <1>8, <1>17, <2>1, StandsLast, Zenon
<1>19. Stands(p, 0, q \o a \o b \o c \o d \o e \o g)
  BY <1>18 DEF r
<1>20. /\ Stands(p, 0, q) /\ Stands(p, 85, a) /\ Stands(p, 87, b) /\ Stands(p, 89, c)
       /\ Stands(p, 97, d) /\ Stands(p, 99, e) /\ Stands(p, 103, g)
  BY <1>3, <1>4, <1>5, <1>7, <1>10, <1>11, <1>19, StandsLast
<1>21. Word(p, 85) = f.current /\ Word(p, 87) = f.target /\ Word(p, 97) = f.remaining
  BY <1>0, <1>20, ReadWord DEF a, b, d
<1>22. Long(p, 99) = f.timestamp
  BY <1>0, <1>20, ReadLong DEF e
<1>23. At(p, 103) = n \div 2
  BY <1>20, ReadBytes DEF g
<1>24. \A j \in 1 .. 4 : Word(p, 89 + 2 * (j - 1)) = f.fps[j]
  <2>1. 89 \in Nat /\ Stands(p, 89, Twos(f.fps))
    BY <1>20 DEF c
  <2>2. \A j \in 1 .. Len(f.fps) : Word(p, 89 + 2 * (j - 1)) = f.fps[j]
    BY <1>1, <2>1, ReadTwos, SMT
  <2> QED BY <1>1, <2>2
<1>25. \A j \in 1 .. n : Word(p, 104 + 2 * (j - 1)) = f.aliases[j]
  <2>1. 104 \in Nat /\ Stands(p, 104, Twos(f.aliases))
    BY <1>18 DEF h
  <2> QED BY <1>0, <2>1, ReadTwos, SMT
<1>26. /\ At(p, 0) = f.node /\ Word(p, 69) = f.type /\ At(p, 84) = f.state
       /\ Stands(p, 4, f.name) /\ Stands(p, 4 + Len(f.name), Zeros(64 - Len(f.name)))
  <2>1. q = NodeInfoHead(f)
    BY DEF q
  <2> QED BY <1>20, <2>1, NodeInfoHeadLayout
<1> QED BY <1>15, <1>21, <1>22, <1>23, <1>24, <1>25, <1>26 DEF n

(* The checksum is a byte, whatever it is taken of.                        *)
LEMMA ChecksumIsByte ==
  ASSUME NEW raw \in Seq(Byte)
  PROVE  CalcCRC(raw) \in Byte
<1> DEFINE Ones(n) == Cardinality({i \in DOMAIN raw : (raw[i] \div n) % 2 = 1})
           Odd(n) == Ones(n) % 2
<1>1. ASSUME NEW n PROVE Odd(n) \in {0, 1}
  <2> DEFINE I == {i \in DOMAIN raw : (raw[i] \div n) % 2 = 1}
             k == Cardinality(I)
  <2>1. IsFiniteSet(1 .. Len(raw))
    <3>1. 1 \in Int /\ Len(raw) \in Int
      OBVIOUS
    <3> QED BY <3>1, FS_Interval
  <2>2. I \subseteq 1 .. Len(raw)
    OBVIOUS
  <2> HIDE DEF I
  <2>3. k \in Nat
    BY <2>1, <2>2, FS_Subset, FS_CardinalityType
  <2> HIDE DEF k
  <2>4. k % 2 \in {0, 1}
    BY <2>3
  <2> QED BY <2>4 DEF k, I
<1>2. CalcCRC(raw) = 128 * Odd(128) + 64 * Odd(64) + 32 * Odd(32) + 16 * Odd(16)
                       + 8 * Odd(8) + 4 * Odd(4) + 2 * Odd(2) + 1 * Odd(1)
  BY DEF CalcCRC
<1> HIDE DEF Odd
<1>4. \A n : Odd(n) \in Int /\ 0 <= Odd(n) /\ Odd(n) <= 1
  BY <1>1
<1> DEFINE a == Odd(128)
           b == Odd(64)
           c == Odd(32)
           d == Odd(16)
           e == Odd(8)
           f == Odd(4)
           g == Odd(2)
           h == Odd(1)
<1>5. /\ a \in Int /\ 0 <= a /\ a <= 1 /\ b \in Int /\ 0 <= b /\ b <= 1
      /\ c \in Int /\ 0 <= c /\ c <= 1 /\ d \in Int /\ 0 <= d /\ d <= 1
      /\ e \in Int /\ 0 <= e /\ e <= 1 /\ f \in Int /\ 0 <= f /\ f <= 1
      /\ g \in Int /\ 0 <= g /\ g <= 1 /\ h \in Int /\ 0 <= h /\ h <= 1
  BY <1>4
<1>6. CalcCRC(raw) = 128 * a + 64 * b + 32 * c + 16 * d + 8 * e + 4 * f + 2 * g + 1 * h
  BY <1>2
<1> HIDE DEF a, b, c, d, e, f, g, h
<1> QED BY <1>5, <1>6 DEF Byte

(* A frame that is built is sound and has in it what it was built of.      *)
FrameBody(command, p) == <<0, 3 + Len(p)>> \o Two(command) \o p

(* A frame is its body and one byte of checksum, and its length fits in a  *)
(* byte: payloads have at most 252.                                        *)
LEMMA BuiltFrame ==
  ASSUME NEW command \in Number, NEW p \in Seq(Byte), Len(p) <= 252
  PROVE  /\ BuildFrame(command, p)
              = FrameBody(command, p) \o <<CalcCRC(FrameBody(command, p))>>
         /\ Sized(FrameBody(command, p), 4 + Len(p))
<1> DEFINE n == Len(p)
           a == <<0, 3 + n>>
           b == Two(command)
<1>1. n \in Nat /\ n <= 252
  OBVIOUS
<1>2. 3 + n \in Byte /\ (3 + n) % 256 = 3 + n
  <2> HIDE DEF n
  <2>1. 3 + n \in Byte
    BY <1>1, InByte
  <2>2. 3 + n \in Nat /\ 3 + n < 256
    BY <1>1
  <2> QED BY <2>1, <2>2, SmallRemainder
<1>3. Sized(a, 2) /\ Sized(b, 2)
  BY <1>2, SizedParts, SmallBytes
<1>4. Sized(p, n)
  BY <1>1 DEF Sized
<1>5. FrameBody(command, p) = a \o b \o p
  BY DEF FrameBody
<1>6. BuildFrame(command, p) = Append(a \o b \o p, CalcCRC(a \o b \o p))
  BY <1>2 DEF BuildFrame
<1> HIDE DEF a, b, n
<1>7. Sized(a \o b, 4)
  BY <1>3, SizedConcat
<1>8. Sized(a \o b \o p, 4 + n)
  BY <1>1, <1>4, <1>7, SizedConcat
<1> DEFINE t == a \o b \o p
<1> HIDE DEF t
<1>9. t \in Seq(Byte)
  BY <1>8 DEF Sized, t
<1>10. CalcCRC(t) \in Byte
  BY <1>9, ChecksumIsByte
<1>11. Append(t, CalcCRC(t)) = t \o <<CalcCRC(t)>>
  BY <1>9, <1>10
<1> QED BY <1>5, <1>6, <1>8, <1>11 DEF t, n

(* A body with a last byte: what Sound and Extract make of it.             *)
LEMMA FrameParts ==
  ASSUME NEW command \in Number, NEW p \in Seq(Byte), Len(p) <= 252, NEW x \in Byte
  PROVE  LET body == FrameBody(command, p)
             raw  == body \o <<x>>
         IN  /\ raw \in Seq(Byte) /\ raw # <<>>
             /\ Front(raw) = body /\ Last(raw) = x
             /\ Sound(raw) <=> CalcCRC(body) = x
             /\ Extract(raw).command = command /\ Extract(raw).payload = p
<1> DEFINE n == Len(p)
           body == FrameBody(command, p)
           tail == <<x>>
           raw == body \o tail
           a == <<0, 3 + n>>
           b == Two(command)
<1>1. n \in Nat /\ n <= 252
  OBVIOUS
<1>2. 3 + n \in Byte
  <2> HIDE DEF n
  <2> QED BY <1>1, InByte
<1>3. Sized(a, 2) /\ Sized(b, 2)
  BY <1>2, SizedParts, SmallBytes
<1>4. Sized(p, n) /\ Sized(tail, 1)
  BY <1>1, SizedParts DEF Sized
<1>5. body = a \o b \o p
  BY DEF FrameBody
<1>6. Sized(body, 4 + n)
  BY BuiltFrame
<1> HIDE DEF a, b, n, body, tail
<1>7. Sized(a \o b, 4)
  BY <1>3, SizedConcat
<1>8. Sized(raw, 4 + n + 1)
  BY <1>1, <1>4, <1>6, SizedConcat
<1>9. Stands(raw, 0, body)
  BY <1>4, <1>6, StandsWhole, StandsLast, Zenon
<1>10. Stands(raw, 0, a \o b)
  BY <1>4, <1>5, <1>7, <1>9, StandsLast, Zenon
<1>11. Stands(raw, 0, a) /\ Stands(raw, 2, b)
  BY <1>3, <1>10, StandsLast, Zenon
<1>12. Word(raw, 2) = command
  BY <1>11, ReadWord DEF b
<1>13. At(raw, 0) = 0 /\ At(raw, 0 + 1) = 3 + n
  BY <1>11, ReadBytes DEF a
<1>14. Word(raw, 0) = 3 + n
  <2>1. At(raw, 0) * 256 + At(raw, 0 + 1) = 3 + n
    BY <1>1, <1>13
  <2> QED BY <2>1 DEF Word
<1>15. body \in Seq(Byte) /\ Len(body) = 4 + n /\ raw \in Seq(Byte) /\ Len(raw) = 5 + n
  BY <1>1, <1>6, <1>8 DEF Sized
<1>16. Front(raw) = body /\ Last(raw) = x
  <2>1. body \o tail = Append(body, x)
    BY <1>15 DEF tail
  <2>2. Len(raw) - 1 = Len(body)
    BY <1>1, <1>15
  <2>3. tail \in Seq(Byte)
    BY <1>4 DEF Sized
  <2>4. SubSeq(raw, 1, Len(body)) = body
    BY <1>15, <2>3, CutLeft
  <2>5. Last(raw) = x
    BY <1>15, <2>1, <2>2 DEF Last
  <2> QED BY <2>2, <2>4, <2>5 DEF Front
<1>17. Sound(raw) <=> CalcCRC(body) = x
  BY <1>1, <1>14, <1>15, <1>16 DEF Sound
<1>18. SubSeq(raw, 5, Len(raw) - 1) = p
  <2> DEFINE h == a \o b
  <2>1. h \in Seq(Byte) /\ Len(h) = 4 /\ tail \in Seq(Byte) /\ Len(h) + 1 = 5
        /\ Len(h) + Len(p) = Len(raw) - 1 /\ h \o p \o tail = raw
    BY <1>1, <1>4, <1>5, <1>7, <1>15 DEF Sized, n
  <2> HIDE DEF h
  <2>2. SubSeq(h \o p \o tail, Len(h) + 1, Len(h) + Len(p)) = p
    BY <2>1, CutMiddle
  <2> QED BY <2>1, <2>2
<1>19. Extract(raw).command = command /\ Extract(raw).payload = p
  BY <1>12, <1>18 DEF Extract
<1>20. raw # <<>>
  BY <1>1, <1>15
<1> QED BY <1>15, <1>16, <1>17, <1>19, <1>20 DEF body, tail

(* A frame on the wire, undamaged and with another checksum.               *)
THEOREM BuiltSound ==
  \A command \in Number : \A p \in Seq(Byte) : Len(p) <= 252 =>
    LET raw == BuildFrame(command, p)
    IN  /\ raw \in Seq(Byte) /\ raw # <<>> /\ Sound(raw)
        /\ Extract(raw).command = command /\ Extract(raw).payload = p
<1> SUFFICES ASSUME NEW command \in Number, NEW p \in Seq(Byte), Len(p) <= 252
             PROVE  LET raw == BuildFrame(command, p)
                    IN  /\ raw \in Seq(Byte) /\ raw # <<>> /\ Sound(raw)
                        /\ Extract(raw).command = command /\ Extract(raw).payload = p
  OBVIOUS
<1> DEFINE body == FrameBody(command, p)
           c == CalcCRC(body)
           raw == BuildFrame(command, p)
<1>1. raw = body \o <<c>> /\ Sized(body, 4 + Len(p))
  BY BuiltFrame
<1> HIDE DEF raw
<1>2. body \in Seq(Byte)
  BY <1>1 DEF Sized
<1> HIDE DEF body
<1>3. c \in Byte
  BY <1>2, ChecksumIsByte
<1> HIDE DEF c
<1>4. /\ raw \in Seq(Byte) /\ raw # <<>> /\ Sound(raw) <=> c = c
      /\ Extract(raw).command = command /\ Extract(raw).payload = p
  BY <1>1, <1>3, FrameParts DEF body, c
<1> QED BY <1>4 DEF raw

(* A frame of which the checksum is one more is refused.                   *)
(* (ExtractFromFrame)                                                      *)
LEMMA DamagedUnsound ==
  \A command \in Number : \A p \in Seq(Byte) : Len(p) <= 252 =>
    LET raw == BuildFrame(command, p)
        bad == Front(raw) \o <<(Last(raw) + 1) % 256>>
    IN  bad \in Seq(Byte) /\ bad # <<>> /\ ~Sound(bad)
<1> SUFFICES ASSUME NEW command \in Number, NEW p \in Seq(Byte), Len(p) <= 252
             PROVE  LET raw == BuildFrame(command, p)
                        bad == Front(raw) \o <<(Last(raw) + 1) % 256>>
                    IN  bad \in Seq(Byte) /\ bad # <<>> /\ ~Sound(bad)
  OBVIOUS
<1> DEFINE body == FrameBody(command, p)
           c == CalcCRC(body)
           d == (c + 1) % 256
           raw == BuildFrame(command, p)
<1>1. raw = body \o <<c>> /\ Sized(body, 4 + Len(p))
  BY BuiltFrame
<1> HIDE DEF raw
<1>2. body \in Seq(Byte)
  BY <1>1 DEF Sized
<1> HIDE DEF body
<1>3. c \in Byte
  BY <1>2, ChecksumIsByte
<1> HIDE DEF c
<1>4. d \in Byte /\ d # c
  <2> DEFINE q == (c + 1) \div 256
  <2>1. c + 1 \in Nat /\ 256 \in Nat \ {0} /\ c \in Int
    BY <1>3 DEF Byte
  <2>2. q \in Int /\ d \in Int /\ 0 <= d /\ d < 256 /\ c + 1 = 256 * q + d
    BY <2>1, Divided
  <2> HIDE DEF q, d
  <2>3. d # c
    BY <2>1, <2>2
  <2> QED BY <2>2, <2>3, InByte
<1> HIDE DEF d
<1>5. Front(raw) = body /\ Last(raw) = c
  BY <1>1, <1>3, FrameParts DEF body, c
<1>6. body \o <<d>> \in Seq(Byte) /\ body \o <<d>> # <<>> /\ ~Sound(body \o <<d>>)
  BY <1>4, FrameParts DEF body, c
<1> QED BY <1>5, <1>6 DEF d, raw

(* The codes.                                                              *)
LEMMA CodeValues ==
  /\ Code("NodeInformation") = 516 /\ Code("NodeStatePositionChanged") = 529
  /\ Code("CommandSendRequest") = 768 /\ Code("CommandSendConfirmation") = 769
  /\ Code("CommandRunStatus") = 770 /\ Code("SessionFinished") = 772
  /\ Code("StatusRequestRequest") = 773 /\ Code("StatusRequestNotification") = 775
  /\ Code("SetLimitationRequest") = 784 /\ Code("SetLimitationConfirmation") = 785
  /\ Code("GetLimitationRequest") = 786 /\ Code("LimitationStatus") = 788
BY DEF Codes, Code

(* The codes fit in two bytes.                                             *)
LEMMA CodesAreNumbers ==
  /\ \A n \in 0 .. 1000 : n \in Number
  /\ Code("NodeInformation") \in Number /\ Code("NodeStatePositionChanged") \in Number
  /\ Code("CommandSendRequest") \in Number /\ Code("CommandSendConfirmation") \in Number
  /\ Code("CommandRunStatus") \in Number /\ Code("SessionFinished") \in Number
  /\ Code("StatusRequestRequest") \in Number /\ Code("StatusRequestNotification") \in Number
  /\ Code("SetLimitationRequest") \in Number /\ Code("SetLimitationConfirmation") \in Number
  /\ Code("GetLimitationRequest") \in Number /\ Code("LimitationStatus") \in Number
<1>1. ASSUME NEW n \in 0 .. 1000 PROVE n \in Number
  <2>1. n \in Int /\ 0 <= n /\ n < 65536
    OBVIOUS
  <2> QED BY <2>1, InNumber DEF Wrap
<1> QED BY <1>1, CodeValues

(* The frames of the gateway have codes of their own, and 557 is none.     *)
LEMMA CodesDiffer ==
  \A c :
    /\ c = Code("NodeInformation") =>
       /\ c # Code("NodeStatePositionChanged") /\ c # Code("CommandSendConfirmation")
       /\ c # Code("SetLimitationConfirmation") /\ c # Code("CommandRunStatus")
       /\ c # Code("SessionFinished") /\ c # Code("LimitationStatus")
       /\ c # Code("StatusRequestNotification")
    /\ c = Code("NodeStatePositionChanged") =>
       /\ c # Code("NodeInformation") /\ c # Code("CommandSendConfirmation")
       /\ c # Code("SetLimitationConfirmation") /\ c # Code("CommandRunStatus")
       /\ c # Code("SessionFinished") /\ c # Code("LimitationStatus")
       /\ c # Code("StatusRequestNotification")
    /\ c = Code("CommandSendConfirmation") =>
       /\ c # Code("NodeInformation") /\ c # Code("NodeStatePositionChanged")
       /\ c # Code("SetLimitationConfirmation") /\ c # Code("CommandRunStatus")
       /\ c # Code("SessionFinished") /\ c # Code("LimitationStatus")
       /\ c # Code("StatusRequestNotification")
    /\ c = Code("SetLimitationConfirmation") =>
       /\ c # Code("NodeInformation") /\ c # Code("NodeStatePositionChanged")
       /\ c # Code("CommandSendConfirmation") /\ c # Code("CommandRunStatus")
       /\ c # Code("SessionFinished") /\ c # Code("LimitationStatus")
       /\ c # Code("StatusRequestNotification")
    /\ c = Code("CommandRunStatus") =>
       /\ c # Code("NodeInformation") /\ c # Code("NodeStatePositionChanged")
       /\ c # Code("CommandSendConfirmation") /\ c # Code("SetLimitationConfirmation")
       /\ c # Code("SessionFinished") /\ c # Code("LimitationStatus")
       /\ c # Code("StatusRequestNotification")
    /\ c = Code("SessionFinished") =>
       /\ c # Code("NodeInformation") /\ c # Code("NodeStatePositionChanged")
       /\ c # Code("CommandSendConfirmation") /\ c # Code("SetLimitationConfirmation")
       /\ c # Code("CommandRunStatus") /\ c # Code("LimitationStatus")
       /\ c # Code("StatusRequestNotification")
    /\ c = Code("LimitationStatus") =>
       /\ c # Code("NodeInformation") /\ c # Code("NodeStatePositionChanged")
       /\ c # Code("CommandSendConfirmation") /\ c # Code("SetLimitationConfirmation")
       /\ c # Code("CommandRunStatus") /\ c # Code("SessionFinished")
       /\ c # Code("StatusRequestNotification")
    /\ c = Code("StatusRequestNotification") =>
       /\ c # Code("NodeInformation") /\ c # Code("NodeStatePositionChanged")
       /\ c # Code("CommandSendConfirmation") /\ c # Code("SetLimitationConfirmation")
       /\ c # Code("CommandRunStatus") /\ c # Code("SessionFinished")
       /\ c # Code("LimitationStatus")
    /\ c = 557 =>
       /\ c # Code("NodeInformation") /\ c # Code("NodeStatePositionChanged")
       /\ c # Code("CommandSendConfirmation") /\ c # Code("SetLimitationConfirmation")
       /\ c # Code("CommandRunStatus") /\ c # Code("SessionFinished")
       /\ c # Code("LimitationStatus") /\ c # Code("StatusRequestNotification")
BY CodeValues, SMT

(* What is read in a payload of each type, and what is refused.            *)
LEMMA Unmarshals ==
  ASSUME NEW p
  PROVE  /\ Len(p) = 124 /\ At(p, 103) <= 5
            => Unmarshal(Code("NodeInformation"), p) = <<UnmarshalNodeInfo(p)>>
         /\ Len(p) = 20
            => Unmarshal(Code("NodeStatePositionChanged"), p) = <<UnmarshalPositionChanged(p)>>
         /\ Len(p) = 3
            => Unmarshal(Code("CommandSendConfirmation"), p) = <<UnmarshalConfirmation("CommandSendConfirmation", p)>>
         /\ Len(p) = 3
            => Unmarshal(Code("SetLimitationConfirmation"), p) = <<UnmarshalConfirmation("SetLimitationConfirmation", p)>>
         /\ Len(p) = 13
            => Unmarshal(Code("CommandRunStatus"), p) = <<UnmarshalRunStatus(p)>>
         /\ Len(p) = 2
            => Unmarshal(Code("SessionFinished"), p) = <<UnmarshalSessionFinished(p)>>
         /\ Len(p) = 10
            => Unmarshal(Code("LimitationStatus"), p) = <<UnmarshalLimitationStatus(p)>>
         /\ Len(p) >= 8 /\ Len(p) >= 8 + 3 * At(p, 7)
            => Unmarshal(Code("StatusRequestNotification"), p) = <<UnmarshalStatus(p)>>
<1>1. ASSUME Len(p) = 124 /\ At(p, 103) <= 5
      PROVE  Unmarshal(Code("NodeInformation"), p) = <<UnmarshalNodeInfo(p)>>
  <2>1. /\ Code("NodeInformation") # Code("NodeStatePositionChanged")
        /\ Code("NodeInformation") # Code("CommandSendConfirmation")
        /\ Code("NodeInformation") # Code("SetLimitationConfirmation")
        /\ Code("NodeInformation") # Code("CommandRunStatus")
        /\ Code("NodeInformation") # Code("SessionFinished")
        /\ Code("NodeInformation") # Code("LimitationStatus")
        /\ Code("NodeInformation") # Code("StatusRequestNotification")
    BY CodesDiffer, SMT
  <2> QED BY <1>1, <2>1, Zenon DEF Unmarshal
<1>2. ASSUME Len(p) = 20
      PROVE  Unmarshal(Code("NodeStatePositionChanged"), p) = <<UnmarshalPositionChanged(p)>>
  <2>1. /\ Code("NodeStatePositionChanged") # Code("NodeInformation")
        /\ Code("NodeStatePositionChanged") # Code("CommandSendConfirmation")
        /\ Code("NodeStatePositionChanged") # Code("SetLimitationConfirmation")
        /\ Code("NodeStatePositionChanged") # Code("CommandRunStatus")
        /\ Code("NodeStatePositionChanged") # Code("SessionFinished")
        /\ Code("NodeStatePositionChanged") # Code("LimitationStatus")
        /\ Code("NodeStatePositionChanged") # Code("StatusRequestNotification")
    BY CodesDiffer, SMT
  <2> QED BY <1>2, <2>1, Zenon DEF Unmarshal
<1>3. ASSUME Len(p) = 3
      PROVE  Unmarshal(Code("CommandSendConfirmation"), p) = <<UnmarshalConfirmation("CommandSendConfirmation", p)>>
  <2>1. /\ Code("CommandSendConfirmation") # Code("NodeInformation")
        /\ Code("CommandSendConfirmation") # Code("NodeStatePositionChanged")
        /\ Code("CommandSendConfirmation") # Code("SetLimitationConfirmation")
        /\ Code("CommandSendConfirmation") # Code("CommandRunStatus")
        /\ Code("CommandSendConfirmation") # Code("SessionFinished")
        /\ Code("CommandSendConfirmation") # Code("LimitationStatus")
        /\ Code("CommandSendConfirmation") # Code("StatusRequestNotification")
    BY CodesDiffer, SMT
  <2> QED BY <1>3, <2>1, Zenon DEF Unmarshal
<1>4. ASSUME Len(p) = 3
      PROVE  Unmarshal(Code("SetLimitationConfirmation"), p) = <<UnmarshalConfirmation("SetLimitationConfirmation", p)>>
  <2>1. /\ Code("SetLimitationConfirmation") # Code("NodeInformation")
        /\ Code("SetLimitationConfirmation") # Code("NodeStatePositionChanged")
        /\ Code("SetLimitationConfirmation") # Code("CommandSendConfirmation")
        /\ Code("SetLimitationConfirmation") # Code("CommandRunStatus")
        /\ Code("SetLimitationConfirmation") # Code("SessionFinished")
        /\ Code("SetLimitationConfirmation") # Code("LimitationStatus")
        /\ Code("SetLimitationConfirmation") # Code("StatusRequestNotification")
    BY CodesDiffer, SMT
  <2> QED BY <1>4, <2>1, Zenon DEF Unmarshal
<1>5. ASSUME Len(p) = 13
      PROVE  Unmarshal(Code("CommandRunStatus"), p) = <<UnmarshalRunStatus(p)>>
  <2>1. /\ Code("CommandRunStatus") # Code("NodeInformation")
        /\ Code("CommandRunStatus") # Code("NodeStatePositionChanged")
        /\ Code("CommandRunStatus") # Code("CommandSendConfirmation")
        /\ Code("CommandRunStatus") # Code("SetLimitationConfirmation")
        /\ Code("CommandRunStatus") # Code("SessionFinished")
        /\ Code("CommandRunStatus") # Code("LimitationStatus")
        /\ Code("CommandRunStatus") # Code("StatusRequestNotification")
    BY CodesDiffer, SMT
  <2> QED BY <1>5, <2>1, Zenon DEF Unmarshal
<1>6. ASSUME Len(p) = 2
      PROVE  Unmarshal(Code("SessionFinished"), p) = <<UnmarshalSessionFinished(p)>>
  <2>1. /\ Code("SessionFinished") # Code("NodeInformation")
        /\ Code("SessionFinished") # Code("NodeStatePositionChanged")
        /\ Code("SessionFinished") # Code("CommandSendConfirmation")
        /\ Code("SessionFinished") # Code("SetLimitationConfirmation")
        /\ Code("SessionFinished") # Code("CommandRunStatus")
        /\ Code("SessionFinished") # Code("LimitationStatus")
        /\ Code("SessionFinished") # Code("StatusRequestNotification")
    BY CodesDiffer, SMT
  <2> QED BY <1>6, <2>1, Zenon DEF Unmarshal
<1>7. ASSUME Len(p) = 10
      PROVE  Unmarshal(Code("LimitationStatus"), p) = <<UnmarshalLimitationStatus(p)>>
  <2>1. /\ Code("LimitationStatus") # Code("NodeInformation")
        /\ Code("LimitationStatus") # Code("NodeStatePositionChanged")
        /\ Code("LimitationStatus") # Code("CommandSendConfirmation")
        /\ Code("LimitationStatus") # Code("SetLimitationConfirmation")
        /\ Code("LimitationStatus") # Code("CommandRunStatus")
        /\ Code("LimitationStatus") # Code("SessionFinished")
        /\ Code("LimitationStatus") # Code("StatusRequestNotification")
    BY CodesDiffer, SMT
  <2> QED BY <1>7, <2>1, Zenon DEF Unmarshal
<1>8. ASSUME Len(p) >= 8 /\ Len(p) >= 8 + 3 * At(p, 7)
      PROVE  Unmarshal(Code("StatusRequestNotification"), p) = <<UnmarshalStatus(p)>>
  <2>1. /\ Code("StatusRequestNotification") # Code("NodeInformation")
        /\ Code("StatusRequestNotification") # Code("NodeStatePositionChanged")
        /\ Code("StatusRequestNotification") # Code("CommandSendConfirmation")
        /\ Code("StatusRequestNotification") # Code("SetLimitationConfirmation")
        /\ Code("StatusRequestNotification") # Code("CommandRunStatus")
        /\ Code("StatusRequestNotification") # Code("SessionFinished")
        /\ Code("StatusRequestNotification") # Code("LimitationStatus")
    BY CodesDiffer, SMT
  <2> QED BY <1>8, <2>1, Zenon DEF Unmarshal
<1> QED BY <1>1, <1>2, <1>3, <1>4, <1>5, <1>6, <1>7, <1>8

(* What no branch of Unmarshal takes is no frame.                          *)
LEMMA NothingUnmarshals ==
  ASSUME NEW c, NEW p,
         c # Code("NodeInformation") \/ Len(p) # 124,
         c # Code("NodeStatePositionChanged") \/ Len(p) # 20,
         c # Code("CommandSendConfirmation") \/ Len(p) # 3,
         c # Code("SetLimitationConfirmation") \/ Len(p) # 3,
         c # Code("CommandRunStatus") \/ Len(p) # 13,
         c # Code("SessionFinished") \/ Len(p) # 2,
         c # Code("LimitationStatus") \/ Len(p) # 10,
         c # Code("StatusRequestNotification")
  PROVE  Unmarshal(c, p) = <<>>
BY Zenon DEF Unmarshal

(* A payload that has another length than that of its type is no frame.    *)
LEMMA Refuses ==
  ASSUME NEW p
  PROVE  /\ Unmarshal(557, p) = <<>>
         /\ Len(p) # 124 => Unmarshal(Code("NodeInformation"), p) = <<>>
         /\ Len(p) # 20 => Unmarshal(Code("NodeStatePositionChanged"), p) = <<>>
         /\ Len(p) # 3 => Unmarshal(Code("CommandSendConfirmation"), p) = <<>>
         /\ Len(p) # 3 => Unmarshal(Code("SetLimitationConfirmation"), p) = <<>>
         /\ Len(p) # 13 => Unmarshal(Code("CommandRunStatus"), p) = <<>>
         /\ Len(p) # 2 => Unmarshal(Code("SessionFinished"), p) = <<>>
         /\ Len(p) # 10 => Unmarshal(Code("LimitationStatus"), p) = <<>>
BY CodesDiffer, NothingUnmarshals, SMT

-----------------------------------------------------------------------------
(* The packets of a complete stream.                                       *)

(* RFC 1055, unpacking what is between two ENDs.                           *)
Behind(e, k) == IF k = 1 THEN END ELSE e[k - 1]

(* The bytes of a packet again, by RFC 1055.                               *)
Unstuffing(e) == FlattenSeq([k \in DOMAIN e |-> Unstuffed(Behind(e, k), e[k])])

(* What is behind the last byte: that byte, or the END in front of all.    *)
LastByte(e) == IF Len(e) = 0 THEN END ELSE e[Len(e)]

(* What becomes of a byte.                                                 *)
LEMMA UnstuffedType == \A x, y \in Byte : Unstuffed(x, y) \in Seq(Byte)
<1> TAKE x, y \in Byte
<1>1. <<>> \in Seq(Byte) /\ <<y>> \in Seq(Byte) /\ <<END>> \in Seq(Byte) /\ <<ESC>> \in Seq(Byte)
  BY Specials
<1> QED BY <1>1 DEF Unstuffed

(* A byte more: what becomes of it depends on the one before it.           *)
LEMMA UnstuffingAppend ==
  ASSUME NEW e \in Seq(Byte), NEW y \in Byte
  PROVE  /\ Unstuffing(e) \in Seq(Byte)
         /\ Unstuffing(Append(e, y)) = Unstuffing(e) \o Unstuffed(LastByte(e), y)
         /\ LastByte(Append(e, y)) = y
<1> DEFINE n == Len(e)
           r == Append(e, y)
           F == [k \in DOMAIN r |-> Unstuffed(Behind(r, k), r[k])]
           G == [k \in DOMAIN e |-> Unstuffed(Behind(e, k), e[k])]
<1>1. /\ n \in Nat /\ DOMAIN e = 1 .. n /\ DOMAIN r = 1 .. n + 1 /\ Len(r) = n + 1
      /\ r[n + 1] = y
      /\ \A i \in 1 .. n : r[i] = e[i] /\ e[i] \in Byte
  OBVIOUS
<1>0. LastByte(e) = IF n = 0 THEN END ELSE e[n]
  BY DEF LastByte
<1>00. LastByte(r) = y
  BY <1>1 DEF LastByte
<1> HIDE DEF n, r
<1>2. \A i \in 1 .. n + 1 : i \in 1 .. n \/ i = n + 1
  BY <1>1
<1>3. \A i \in 1 .. n + 1 : r[i] \in Byte
  BY <1>1, <1>2
<1>4. \A i \in 1 .. n + 1 : i = 1 \/ i - 1 \in 1 .. n
  BY <1>1
<1>5. \A i \in 1 .. n + 1 : Behind(r, i) \in Byte
  BY <1>1, <1>4, Specials DEF Behind
<1>6. \A i \in 1 .. n : i \in 1 .. n + 1 /\ Behind(r, i) = Behind(e, i)
  BY <1>1, <1>4 DEF Behind
<1>7. Behind(r, n + 1) = LastByte(e)
  <2>1. n = 0 => n + 1 = 1
    OBVIOUS
  <2>2. n # 0 => n + 1 # 1 /\ n + 1 - 1 = n /\ n \in 1 .. n
    BY <1>1
  <2> QED BY <1>0, <1>1, <2>1, <2>2 DEF Behind
<1>8. F \in [1 .. n + 1 -> Seq(Byte)]
  BY <1>1, <1>3, <1>5, UnstuffedType
<1>9. /\ F[n + 1] = Unstuffed(LastByte(e), y)
      /\ \A i \in 1 .. n : G[i] = F[i]
  <2>1. n + 1 \in 1 .. n + 1
    BY <1>1
  <2>2. F[n + 1] = Unstuffed(LastByte(e), y)
    BY <1>1, <1>7, <2>1
  <2>3. \A i \in 1 .. n : G[i] = F[i]
    BY <1>1, <1>6
  <2> QED BY <2>2, <2>3
<1>10. G \in [1 .. n -> Seq(Byte)]
  <2>1. DOMAIN G = 1 .. n /\ G = [i \in 1 .. n |-> G[i]]
    BY <1>1
  <2>2. \A i \in 1 .. n : F[i] \in Seq(Byte)
    BY <1>6, <1>8
  <2> HIDE DEF F, G
  <2> QED BY <1>9, <2>1, <2>2
<1>11. Unstuffing(e) = FlattenSeq(G) /\ Unstuffing(r) = FlattenSeq(F)
  BY DEF Unstuffing
<1> HIDE DEF F, G
<1>12. /\ FlattenSeq(G) \in Seq(Byte) /\ FlattenSeq(F) \in Seq(Byte)
       /\ FlattenSeq(F) = FlattenSeq(G) \o F[n + 1]
  BY <1>1, <1>8, <1>9, <1>10, FlattenStep
<1> QED BY <1>00, <1>9, <1>11, <1>12 DEF r

(* Unpacking takes back the packing, and no stuffing ends amid a pair.     *)
LEMMA UnstuffingInverse ==
  \A raw \in Seq(Byte) :
    Unstuffing(Stuffing(raw)) = raw /\ LastByte(Stuffing(raw)) # ESC
<1> DEFINE T == {raw \in Seq(Byte) :
                   Unstuffing(Stuffing(raw)) = raw /\ LastByte(Stuffing(raw)) # ESC}
<1>1. <<>> \in T
  <2>1. Unstuffing(<<>>) = <<>>
    <3>1. [k \in DOMAIN <<>> |-> Unstuffed(Behind(<<>>, k), <<>>[k])] = <<>>
      OBVIOUS
    <3> QED BY <3>1, FlattenEmpty DEF Unstuffing
  <2>2. LastByte(<<>>) # ESC
    BY Specials DEF LastByte
  <2>3. <<>> \in Seq(Byte)
    OBVIOUS
  <2> QED BY <2>1, <2>2, <2>3, NothingStuffed
<1>2. ASSUME NEW raw \in Seq(Byte), NEW x \in Byte, raw \in T PROVE Append(raw, x) \in T
  <2> DEFINE s == Stuffing(raw)
             r == Append(raw, x)
             e == Stuffing(r)
             m == Append(s, ESC)
  <2>1. s \in Seq(Byte) /\ r \in Seq(Byte) /\ Unstuffing(s) = raw /\ LastByte(s) # ESC
    BY <1>2, StuffingType
  <2>2. /\ m \in Seq(Byte)
        /\ x = END => e = Append(m, ESC_END)
        /\ x = ESC => e = Append(m, ESC_ESC)
        /\ x \notin {END, ESC} => e = Append(s, x)
    BY StuffingCases
  <2> HIDE DEF s, e, m
  <2>3. Unstuffing(m) = raw /\ LastByte(m) = ESC
    <3>1. Unstuffing(m) = raw \o Unstuffed(LastByte(s), ESC) /\ LastByte(m) = ESC
      BY <2>1, Specials, UnstuffingAppend DEF m
    <3>2. Unstuffed(LastByte(s), ESC) = <<>>
      BY DEF Unstuffed
    <3>3. raw \o <<>> = raw
      OBVIOUS
    <3> QED BY <3>1, <3>2, <3>3
  <2>8. ASSUME NEW y \in Byte
        PROVE  Unstuffing(Append(m, y)) = raw \o Unstuffed(ESC, y) /\ LastByte(Append(m, y)) = y
    <3>1. m \in Seq(Byte)
      BY <2>2
    <3>2. Unstuffing(Append(m, y)) = Unstuffing(m) \o Unstuffed(LastByte(m), y)
          /\ LastByte(Append(m, y)) = y
      BY <3>1, UnstuffingAppend
    <3> QED BY <2>3, <3>2
  <2>4. raw \o <<x>> = r
    OBVIOUS
  <2> HIDE DEF r
  <2>5. CASE x = END
    <3>1. Unstuffing(e) = raw \o Unstuffed(ESC, ESC_END) /\ LastByte(e) = ESC_END
      BY <2>2, <2>8, <2>5, Specials
    <3>2. Unstuffed(ESC, ESC_END) = <<END>>
      BY Specials DEF Unstuffed
    <3> QED BY <2>1, <2>4, <2>5, <3>1, <3>2, Specials DEF e, r
  <2>6. CASE x = ESC
    <3>1. Unstuffing(e) = raw \o Unstuffed(ESC, ESC_ESC) /\ LastByte(e) = ESC_ESC
      BY <2>2, <2>8, <2>6, Specials
    <3>2. Unstuffed(ESC, ESC_ESC) = <<ESC>>
      BY Specials DEF Unstuffed
    <3> QED BY <2>1, <2>4, <2>6, <3>1, <3>2, Specials DEF e, r
  <2>7. CASE x \notin {END, ESC}
    <3>1. Unstuffing(e) = raw \o Unstuffed(LastByte(s), x) /\ LastByte(e) = x
      BY <2>1, <2>2, <2>7, UnstuffingAppend
    <3>2. Unstuffed(LastByte(s), x) = <<x>>
      BY <2>1, <2>7 DEF Unstuffed
    <3> QED BY <2>1, <2>4, <2>7, <3>1, <3>2 DEF e, r
  <2> QED BY <2>5, <2>6, <2>7
<1> HIDE DEF T
<1>3. \A raw \in Seq(Byte) : raw \in T
  BY <1>1, <1>2, SeqInduction
<1> QED BY <1>3 DEF T

(* A sequence of nothing but empty ones.                                   *)
LEMMA FlattenNothing ==
  ASSUME NEW S, NEW n \in Nat, NEW G \in [1 .. n -> Seq(S)], \A i \in 1 .. n : G[i] = <<>>
  PROVE  FlattenSeq(G) = <<>>
<1> DEFINE T == {s \in Seq({<<>>}) : FlattenSeq(s) = <<>>}
<1>1. <<>> \in T
  BY FlattenEmpty
<1>2. ASSUME NEW s \in Seq({<<>>}), NEW x \in {<<>>}, s \in T PROVE Append(s, x) \in T
  <2>1. s \in Seq(Seq({})) /\ x \in Seq({}) /\ x = <<>>
    OBVIOUS
  <2>2. FlattenSeq(Append(s, x)) = FlattenSeq(s) \o x
    BY <2>1, FlattenAppend
  <2>3. FlattenSeq(s) = <<>> /\ <<>> \o <<>> = <<>>
    BY <1>2
  <2> QED BY <2>1, <2>2, <2>3
<1> HIDE DEF T
<1>3. \A s \in Seq({<<>>}) : s \in T
  BY <1>1, <1>2, SeqInduction
<1>4. G \in Seq({<<>>})
  <2>1. G \in [1 .. n -> {<<>>}]
    OBVIOUS
  <2> QED BY <2>1, FunctionIsSeq
<1> QED BY <1>3, <1>4 DEF T

(* The last number before one that is not in a set.                        *)
LEMMA LastOf ==
  ASSUME NEW N \in Nat, NEW W, 0 \in W
  PROVE  \E n \in 0 .. N : n \in W /\ (n = N \/ n + 1 \notin W)
<1> SUFFICES ASSUME \A n \in 0 .. N : n \in W => n # N /\ n + 1 \in W PROVE FALSE
  OBVIOUS
<1> DEFINE T == {n \in Nat : n <= N => n \in W}
<1>1. 0 \in T
  OBVIOUS
<1>2. ASSUME NEW n \in Nat, n \in T PROVE n + 1 \in T
  <2>1. CASE n + 1 <= N
    <3>1. n \in 0 .. N
      BY <2>1
    <3> QED BY <1>2, <3>1
  <2> QED BY <2>1
<1> HIDE DEF T
<1>3. \A n \in Nat : n \in T
  BY <1>1, <1>2, Induction
<1>4. N \in W /\ N \in 0 .. N
  BY <1>3 DEF T
<1> QED BY <1>4

-----------------------------------------------------------------------------
(* Where a packet ends.                                                    *)
EndAt(s, i, j) ==
  j \in i + 1 .. Len(s) /\ s[j] = END /\ \A k \in i + 1 .. j - 1 : s[k] # END

(* Where a packet that starts at i ends.                                   *)
LEMMA EndsIs ==
  ASSUME NEW s \in Seq(Byte), NEW i \in Nat, NEW j, EndAt(s, i, j)
  PROVE  Ends(s, i) = j
<1> DEFINE end == CHOOSE x \in i + 1 .. Len(s) :
                    s[x] = END /\ \A k \in i + 1 .. x - 1 : s[k] # END
<1>0. Len(s) \in Nat
  OBVIOUS
<1>1. j \in i + 1 .. Len(s) /\ s[j] = END /\ \A k \in i + 1 .. j - 1 : s[k] # END
  BY DEF EndAt
<1>2. end \in i + 1 .. Len(s) /\ s[end] = END /\ \A k \in i + 1 .. end - 1 : s[k] # END
  BY <1>1
<1>3. Ends(s, i) = end
  BY DEF Ends
<1> HIDE DEF end
<1>4. ASSUME end < j PROVE FALSE
  <2>1. end \in i + 1 .. j - 1
    BY <1>0, <1>1, <1>2, <1>4
  <2> QED BY <1>1, <1>2, <2>1
<1>5. ASSUME j < end PROVE FALSE
  <2>1. j \in i + 1 .. end - 1
    BY <1>0, <1>1, <1>2, <1>5
  <2> QED BY <1>1, <1>2, <2>1
<1>6. end = j
  BY <1>0, <1>1, <1>2, <1>4, <1>5
<1> QED BY <1>3, <1>6

(* It ends somewhere, if an END is to come.                                *)
LEMMA EndExists ==
  ASSUME NEW s \in Seq(Byte), NEW i \in Nat, NEW m \in i + 1 .. Len(s), s[m] = END
  PROVE  \E j : EndAt(s, i, j)
<1> DEFINE N == m - (i + 1)
           W == {d \in Nat : \A k \in i + 1 .. i + d : s[k] # END}
<1>0. Len(s) \in Nat /\ m \in Nat /\ N \in Nat
  OBVIOUS
<1>1. 0 \in W
  OBVIOUS
<1> HIDE DEF W
<1>2. PICK n \in 0 .. N : n \in W /\ (n = N \/ n + 1 \notin W)
  BY <1>0, <1>1, LastOf
<1> DEFINE j == i + n + 1
<1>3. n \in Nat /\ j \in i + 1 .. Len(s) /\ i + n = j - 1 /\ i + (n + 1) = j
  BY <1>0, <1>2
<1>4. \A k \in i + 1 .. j - 1 : s[k] # END
  BY <1>2, <1>3 DEF W
<1>5. s[j] = END
  <2>1. CASE n = N
    <3>1. j = m
      BY <1>0, <2>1
    <3> QED BY <3>1
  <2>2. CASE n + 1 \notin W
    <3>1. n + 1 \in Nat
      BY <1>3
    <3>2. PICK k \in i + 1 .. i + (n + 1) : ~(s[k] # END)
      BY <2>2, <3>1 DEF W
    <3>3. k = j
      BY <1>3, <1>4, <3>2
    <3> QED BY <3>2, <3>3
  <2> QED BY <1>2, <2>1, <2>2
<1>6. EndAt(s, i, j)
  BY <1>3, <1>4, <1>5 DEF EndAt
<1> QED BY <1>6

(* What is between two positions, and what starts at one.                  *)
Inner(s, i, j) == FlattenSeq([k \in 1 .. j - i - 1 |-> Unstuffed(s[i + k - 1], s[i + k])])

(* What is found at i: a packet, or nothing.                               *)
Found(s, i) == IF Starts(s, i) THEN <<Inner(s, i, Ends(s, i))>> ELSE <<>>

(* RfcUnpack takes what is found, place by place.                          *)
LEMMA UnpackIsFound == \A s : RfcUnpack(s) = FlattenSeq([i \in DOMAIN s |-> Found(s, i)])
BY Zenon DEF RfcUnpack, Found, Inner

(* A packet is bytes.                                                      *)
LEMMA InnerType ==
  ASSUME NEW s \in Seq(Byte), NEW i \in Nat \ {0}, NEW j \in i + 1 .. Len(s)
  PROVE  Inner(s, i, j) \in Seq(Byte)
<1> DEFINE n == j - i - 1
           F == [k \in 1 .. n |-> Unstuffed(s[i + k - 1], s[i + k])]
<1>1. n \in Nat
  OBVIOUS
<1>2. \A k \in 1 .. n : i + k - 1 \in 1 .. Len(s) /\ i + k \in 1 .. Len(s)
  OBVIOUS
<1>3. \A k \in 1 .. n : s[i + k - 1] \in Byte /\ s[i + k] \in Byte
  BY <1>2
<1>4. \A k \in 1 .. n : Unstuffed(s[i + k - 1], s[i + k]) \in Seq(Byte)
  BY <1>3, UnstuffedType
<1> HIDE DEF n
<1>5. F \in [1 .. n -> Seq(Byte)]
  BY <1>4
<1> HIDE DEF F
<1>6. F \in Seq(Seq(Byte))
  BY <1>1, <1>5, FunctionIsSeq
<1>7. FlattenSeq(F) \in Seq(Byte)
  BY <1>6, FlattenType
<1> QED BY <1>7 DEF Inner, F, n

(* In a longer stream the same is found at the same place.                 *)
LEMMA FoundStays ==
  ASSUME NEW b \in Seq(Byte), NEW w \in Seq(Byte), Len(b) > 0, b[Len(b)] = END,
         Len(w) > Len(b), \A i \in 1 .. Len(b) : w[i] = b[i], w[Len(b) + 1] = END,
         NEW i \in 1 .. Len(b)
  PROVE  Found(w, i) = Found(b, i) /\ Found(b, i) \in Seq(Seq(Byte))
<1> DEFINE n == Len(b)
<1>1. n \in Nat /\ Len(w) \in Nat /\ i \in Nat \ {0} /\ i <= n /\ w[i] = b[i]
  OBVIOUS
<1>2. CASE i = n
  <2>1. ~Starts(b, i)
    BY <1>2 DEF Starts
  <2>2. ~Starts(w, i)
    BY <1>2 DEF Starts
  <2> QED BY <2>1, <2>2 DEF Found
<1>3. CASE i # n
  <2>1. i < n /\ i + 1 \in 1 .. n /\ n \in i + 1 .. Len(b)
    BY <1>1, <1>3
  <2>2. Starts(w, i) <=> Starts(b, i)
    BY <1>1, <2>1 DEF Starts
  <2>3. PICK j : EndAt(b, i, j)
    BY <1>1, <2>1, EndExists
  <2>4. j \in i + 1 .. n /\ b[j] = END /\ \A k \in i + 1 .. j - 1 : b[k] # END
    BY <2>3 DEF EndAt
  <2>5. \A k \in i + 1 .. j : k \in 1 .. n
    BY <1>1, <2>4
  <2>6. EndAt(w, i, j)
    <3>1. j \in i + 1 .. Len(w) /\ j \in i + 1 .. j
      BY <1>1, <2>4
    <3>2. w[j] = b[j]
      BY <2>4, <2>5, <3>1
    <3>3. \A k \in i + 1 .. j - 1 : k \in i + 1 .. j
      BY <2>4
    <3>4. \A k \in i + 1 .. j - 1 : w[k] # END
      BY <2>4, <2>5, <3>3
    <3> QED BY <2>4, <3>1, <3>2, <3>4 DEF EndAt
  <2>7. Ends(b, i) = j /\ Ends(w, i) = j
    BY <1>1, <2>3, <2>6, EndsIs
  <2>8. Inner(w, i, j) = Inner(b, i, j)
    <3>1. \A k \in 1 .. j - i - 1 : i + k - 1 \in 1 .. n /\ i + k \in 1 .. n
      BY <1>1, <2>4
    <3>2. \A k \in 1 .. j - i - 1 : w[i + k - 1] = b[i + k - 1] /\ w[i + k] = b[i + k]
      BY <3>1
    <3>3. [k \in 1 .. j - i - 1 |-> Unstuffed(w[i + k - 1], w[i + k])]
          = [k \in 1 .. j - i - 1 |-> Unstuffed(b[i + k - 1], b[i + k])]
      BY <3>2
    <3> QED BY <3>3 DEF Inner
  <2>9. Inner(b, i, j) \in Seq(Byte)
    BY <1>1, <2>4, InnerType
  <2> DEFINE x == Inner(b, i, j)
  <2>10. <<x>> \in Seq(Seq(Byte)) /\ <<>> \in Seq(Seq(Byte))
    <3> HIDE DEF x
    <3>1. x \in Seq(Byte)
      BY <2>9 DEF x
    <3> QED BY <3>1
  <2> QED BY <2>2, <2>7, <2>8, <2>10 DEF Found
<1> QED BY <1>2, <1>3

(* A stream that is complete: nothing, or it ends with an END.             *)
Complete(b) == b \in Seq(Byte) /\ (b = <<>> \/ (Len(b) > 0 /\ b[Len(b)] = END))

(* What is found in a packet behind a complete stream.                     *)
HasPacket(w, n, b, raw) ==
  /\ w \in Seq(Byte) /\ Len(w) \in Nat /\ Len(w) > n + 1
  /\ w[Len(w)] = END /\ w[n + 1] = END
  /\ \A i \in 1 .. n : w[i] = b[i]
  /\ Found(w, n + 1) = <<raw>>
  /\ \A i \in n + 2 .. Len(w) : Found(w, i) = <<>>

(* Behind a stream of bytes a packet is found, and at no place within it.  *)
LEMMA FoundPacket ==
  ASSUME NEW b \in Seq(Byte), NEW raw \in Seq(Byte), raw # <<>>
  PROVE  HasPacket(b \o RfcPack(raw), Len(b), b, raw)
<1> DEFINE n == Len(b)
           w == b \o RfcPack(raw)
<1>0. n = Len(b) /\ w = b \o RfcPack(raw)
  OBVIOUS
<1> HIDE DEF n, w
<1> DEFINE e == Stuffing(raw)
           p == RfcPack(raw)
           L == Len(e)
<1>1. /\ e \in Seq(Byte) /\ p \in Seq(Byte) /\ Len(p) = L + 2
      /\ p[1] = END /\ p[L + 2] = END
      /\ \A i \in 1 .. L : p[i + 1] = e[i] /\ e[i] # END
  BY PackedBytes
<1>2. Unstuffing(e) = raw
  BY UnstuffingInverse
<1>3. L \in Nat /\ L > 0
  <2>1. e # <<>>
    <3>1. [k \in DOMAIN <<>> |-> Unstuffed(Behind(<<>>, k), <<>>[k])] = <<>>
      OBVIOUS
    <3>2. Unstuffing(<<>>) = <<>>
      BY <3>1, FlattenEmpty DEF Unstuffing
    <3> HIDE DEF e
    <3> QED BY <1>2, <3>2
  <2> HIDE DEF e
  <2> QED BY <1>1, <2>1 DEF L
<1> HIDE DEF e, p, L
<1>4. /\ w \in Seq(Byte) /\ n \in Nat /\ Len(w) = n + (L + 2)
      /\ \A i \in 1 .. n : w[i] = b[i]
      /\ \A i \in 1 .. L + 2 : w[n + i] = p[i]
  <2>1. p \in Seq(Byte)
    BY <1>1
  <2>2. /\ b \o p \in Seq(Byte) /\ Len(b) \in Nat /\ Len(b \o p) = Len(b) + Len(p)
        /\ \A i \in 1 .. Len(b) : (b \o p)[i] = b[i]
        /\ \A i \in 1 .. Len(p) : (b \o p)[Len(b) + i] = p[i]
    BY <2>1, Joined
  <2>3. w = b \o p /\ n = Len(b)
    BY <1>0 DEF p
  <2> HIDE DEF p
  <2> QED BY <1>1, <2>2, <2>3
<1>40. n \in Nat /\ L \in Nat /\ Len(w) = n + (L + 2)
  BY <1>3, <1>4
<1>5. w[n + 1] = END /\ w[n + (L + 2)] = END
  <2>1. 1 \in 1 .. L + 2 /\ L + 2 \in 1 .. L + 2
    BY <1>3
  <2> QED BY <1>1, <1>4, <2>1
<1>6. \A k \in 1 .. L : w[n + 1 + k] = e[k] /\ w[n + 1 + k] # END
  <2> TAKE k \in 1 .. L
  <2>1. k + 1 \in 1 .. L + 2 /\ n + (k + 1) = n + 1 + k
    BY <1>3, <1>4
  <2> QED BY <1>1, <1>4, <2>1
<1>7. \A k \in 1 .. L : w[n + 1 + k - 1] = Behind(e, k)
  <2> TAKE k \in 1 .. L
  <2>1. CASE k = 1
    <3>1. n + 1 + k - 1 = n + 1
      BY <1>4, <2>1
    <3> QED BY <1>5, <2>1, <3>1 DEF Behind
  <2>2. CASE k # 1
    <3>1. k - 1 \in 1 .. L /\ n + 1 + (k - 1) = n + 1 + k - 1
      BY <1>3, <1>4, <2>2
    <3> QED BY <1>6, <2>2, <3>1 DEF Behind
  <2> QED BY <2>1, <2>2
<1> DEFINE i == n + 1
           j == n + (L + 2)
<1>8. i \in Nat /\ j \in i + 1 .. Len(w) /\ j - i - 1 = L /\ i < Len(w) /\ j = Len(w)
  BY <1>3, <1>4
<1>9. Found(w, i) = <<raw>>
  <2>1. Starts(w, i)
    <3>1. 1 \in 1 .. L
      BY <1>3
    <3> QED BY <1>5, <1>6, <1>8, <3>1 DEF Starts
  <2>2. Ends(w, i) = j
    <3>1. \A k \in i + 1 .. j - 1 : k - i \in 1 .. L /\ n + 1 + (k - i) = k
      BY <1>3, <1>4
    <3>2. \A k \in i + 1 .. j - 1 : w[k] # END
      BY <1>6, <3>1
    <3>3. w[j] = END /\ j \in i + 1 .. Len(w)
      BY <1>5, <1>8
    <3> HIDE DEF i, j
    <3>4. EndAt(w, i, j)
      BY <3>2, <3>3 DEF EndAt
    <3>5. i \in Nat /\ w \in Seq(Byte)
      BY <1>4, <1>8
    <3> QED BY <3>4, <3>5, EndsIs
  <2>3. Inner(w, i, j) = raw
    <3>1. \A k \in 1 .. L : Unstuffed(w[i + k - 1], w[i + k]) = Unstuffed(Behind(e, k), e[k])
      BY <1>6, <1>7
    <3>2. DOMAIN e = 1 .. L
      BY <1>1 DEF L
    <3>3. Inner(w, i, j) = FlattenSeq([k \in 1 .. L |-> Unstuffed(w[i + k - 1], w[i + k])])
      BY <1>8 DEF Inner
    <3>4. [k \in 1 .. L |-> Unstuffed(w[i + k - 1], w[i + k])]
          = [k \in DOMAIN e |-> Unstuffed(Behind(e, k), e[k])]
      BY <3>1, <3>2
    <3> QED BY <1>2, <3>3, <3>4 DEF Unstuffing
  <2> HIDE DEF i, j
  <2> QED BY <2>1, <2>2, <2>3 DEF Found
<1>10. ASSUME NEW k \in n + 2 .. Len(w) PROVE Found(w, k) = <<>>
  <2>1. ~Starts(w, k)
    <3>1. CASE k = Len(w)
      BY <1>4, <1>10, <3>1 DEF Starts
    <3>2. CASE k # Len(w)
      <4>0. k \in Int /\ n \in Int /\ L \in Int /\ n + 2 <= k /\ k < n + (L + 2)
        BY <1>40, <3>2
      <4>1. k - (n + 1) \in 1 .. L /\ n + 1 + (k - (n + 1)) = k
        BY <4>0
      <4>2. w[k] # END
        BY <1>6, <4>1
      <4> QED BY <4>2 DEF Starts
    <3> QED BY <3>1, <3>2
  <2> QED BY <2>1 DEF Found
<1>11. w[Len(w)] = END /\ Len(w) \in Nat /\ Len(w) > n + 1
  BY <1>3, <1>4, <1>5
<1>12. HasPacket(w, n, b, raw)
  BY <1>4, <1>5, <1>9, <1>10, <1>11 DEF HasPacket
<1> QED BY <1>12 DEF n, w

(* A packet behind a complete stream is one packet more.                   *)
THEOREM UnpackAppend ==
  ASSUME NEW b, Complete(b), NEW raw \in Seq(Byte), raw # <<>>
  PROVE  /\ Complete(b \o RfcPack(raw))
         /\ RfcUnpack(b) \in Seq(Seq(Byte))
         /\ RfcUnpack(b \o RfcPack(raw)) = RfcUnpack(b) \o <<raw>>
<1> DEFINE w == b \o RfcPack(raw)
           n == Len(b)
           m == Len(w)
           S == Seq(Byte)
           F == [i \in DOMAIN b |-> Found(b, i)]
           H == [i \in DOMAIN w |-> Found(w, i)]
           one == <<raw>>
           G == <<one>>
           Z == [i \in 1 .. m - (n + 1) |-> <<>>]
<1>1. b \in Seq(Byte) /\ n \in Nat /\ (n = 0 \/ (n > 0 /\ b[n] = END))
  BY DEF Complete
<1>2. /\ w \in Seq(Byte) /\ m \in Nat /\ m > n + 1
      /\ w[m] = END /\ w[n + 1] = END
      /\ \A i \in 1 .. n : w[i] = b[i]
      /\ Found(w, n + 1) = one
      /\ \A i \in n + 2 .. m : Found(w, i) = <<>>
  <2>1. HasPacket(w, n, b, raw)
    BY <1>1, FoundPacket
  <2>2. m = Len(w)
    OBVIOUS
  <2> HIDE DEF n, w, m
  <2> QED BY <2>1, <2>2 DEF HasPacket
<1>20. n \in Nat /\ m \in Nat
  BY <1>1, <1>2
<1>3. DOMAIN b = 1 .. n /\ DOMAIN w = 1 .. m
  BY <1>1, <1>2
<1> HIDE DEF w, m
<1>4. Complete(w)
  BY <1>2 DEF Complete, m
<1>5. \A i \in 1 .. n : Found(w, i) = Found(b, i) /\ Found(b, i) \in Seq(S)
  <2> TAKE i \in 1 .. n
  <2>1. n > 0 /\ b[n] = END
    BY <1>1
  <2>2. Len(w) > Len(b)
    BY <1>1, <1>2 DEF m
  <2>3. w \in Seq(Byte) /\ w[Len(b) + 1] = END
    BY <1>2
  <2> QED BY <1>1, <1>2, <2>1, <2>2, <2>3, FoundStays
<1>6. RfcUnpack(b) = FlattenSeq(F) /\ RfcUnpack(w) = FlattenSeq(H)
  BY UnpackIsFound
<1>7. one \in Seq(S)
  OBVIOUS
<1>8. F \in Seq(Seq(S)) /\ Len(F) = n
  <2>1. F \in [1 .. n -> Seq(S)]
    BY <1>3, <1>5
  <2> QED BY <1>1, <2>1, FunctionIsSeq
<1>9. Z \in Seq(Seq(S)) /\ Len(Z) = m - (n + 1) /\ FlattenSeq(Z) = <<>>
      /\ \A i \in 1 .. m - (n + 1) : Z[i] = <<>>
  <2> DEFINE l == m - (n + 1)
  <2>1. l \in Nat
    BY <1>1, <1>2
  <2> HIDE DEF l
  <2>2. Z \in [1 .. l -> Seq(S)] /\ \A i \in 1 .. l : Z[i] = <<>>
    BY DEF l
  <2> HIDE DEF Z
  <2>3. FlattenSeq(Z) = <<>>
    BY <2>1, <2>2, FlattenNothing
  <2>4. Z \in Seq(Seq(S)) /\ Len(Z) = l
    BY <2>1, <2>2, FunctionIsSeq
  <2> QED BY <2>2, <2>3, <2>4 DEF l
<1> HIDE DEF one, S
<1>10. G \in Seq(Seq(S)) /\ Len(G) = 1 /\ G[1] = one /\ FlattenSeq(G) = one
  <2>1. G \in Seq(Seq(S)) /\ Len(G) = 1 /\ G[1] = one
    BY <1>7
  <2>2. FlattenSeq(<<one>>) = one
    BY <1>7, FlattenOne
  <2> QED BY <2>1, <2>2
<1> DEFINE K == F \o G
           M == K \o Z
           U == Seq(S)
<1> HIDE DEF F, G, H, Z, U
<1>11. /\ K \in Seq(U) /\ Len(K) = n + 1
       /\ \A i \in 1 .. n : K[i] = F[i]
       /\ K[n + 1] = one
  <2>1. F \in Seq(U)
    BY <1>8 DEF U
  <2>2. G \in Seq(U)
    BY <1>10 DEF U
  <2>3. /\ K \in Seq(U) /\ Len(K) = Len(F) + Len(G)
        /\ \A i \in 1 .. Len(F) : K[i] = F[i]
        /\ \A i \in 1 .. Len(G) : K[Len(F) + i] = G[i]
    BY <2>1, <2>2, Joined
  <2>4. 1 \in 1 .. 1
    OBVIOUS
  <2> HIDE DEF K
  <2> QED BY <1>8, <1>10, <2>3, <2>4
<1> HIDE DEF K
<1>12. /\ M \in Seq(U) /\ Len(M) = m
       /\ \A i \in 1 .. n + 1 : M[i] = K[i]
       /\ \A i \in 1 .. m - (n + 1) : M[n + 1 + i] = <<>>
  <2>1. K \in Seq(U)
    BY <1>11
  <2>2. Z \in Seq(U)
    BY <1>9 DEF U
  <2>3. /\ M \in Seq(U) /\ Len(M) = Len(K) + Len(Z)
        /\ \A i \in 1 .. Len(K) : M[i] = K[i]
        /\ \A i \in 1 .. Len(Z) : M[Len(K) + i] = Z[i]
    BY <2>1, <2>2, Joined
  <2>4. n + 1 + (m - (n + 1)) = m
    BY <1>1, <1>2
  <2> HIDE DEF M
  <2> QED BY <1>9, <1>11, <2>3, <2>4
<1>13. H = M
  <2>1. \A i \in 1 .. m : H[i] = Found(w, i)
    BY <1>3 DEF H
  <2>2. ASSUME NEW i \in 1 .. m PROVE H[i] = M[i]
    <3>1. CASE i \in 1 .. n
      <4>1. i \in 1 .. n + 1
        BY <1>1, <3>1
      <4>2. F[i] = Found(b, i)
        BY <1>3, <3>1 DEF F
      <4>3. M[i] = F[i]
        BY <1>11, <1>12, <3>1, <4>1
      <4>4. Found(w, i) = Found(b, i)
        BY <1>5, <3>1
      <4> QED BY <2>1, <4>2, <4>3, <4>4
    <3>2. CASE i = n + 1
      <4>1. n + 1 \in 1 .. n + 1
        BY <1>1
      <4> HIDE DEF M
      <4> QED BY <1>2, <1>11, <1>12, <2>1, <3>2, <4>1
    <3>3. CASE i \notin 1 .. n /\ i # n + 1
      <4>0. i \in Int /\ n \in Int /\ m \in Int /\ n + 2 <= i /\ i <= m
        BY <1>20, <3>3
      <4> HIDE DEF n
      <4>1. i \in n + 2 .. m /\ i - (n + 1) \in 1 .. m - (n + 1) /\ n + 1 + (i - (n + 1)) = i
        BY <4>0
      <4>2. M[n + 1 + (i - (n + 1))] = <<>>
        BY <1>12, <4>1
      <4> HIDE DEF M
      <4> QED BY <1>2, <2>1, <4>1, <4>2
    <3> QED BY <3>1, <3>2, <3>3
  <2>3. H \in Seq(U) /\ Len(H) = m
    <3> HIDE DEF M
    <3>1. \A i \in 1 .. m : M[i] \in U
      BY <1>12
    <3>2. H \in [1 .. m -> U]
      <4>1. DOMAIN H = 1 .. m /\ H = [i \in DOMAIN H |-> H[i]]
        BY <1>3 DEF H
      <4> QED BY <2>2, <3>1, <4>1
    <3> QED BY <1>2, <3>2, FunctionIsSeq
  <2> HIDE DEF M
  <2> QED BY <1>12, <2>2, <2>3, SeqEqual
<1>14. FlattenSeq(M) = FlattenSeq(F) \o one
  <2>1. FlattenSeq(K) = FlattenSeq(F) \o FlattenSeq(G)
    BY <1>8, <1>10, FlattenConcat DEF K
  <2>2. K \in Seq(Seq(S)) /\ Z \in Seq(Seq(S))
    BY <1>9, <1>11 DEF U
  <2>3. FlattenSeq(M) = FlattenSeq(K) \o FlattenSeq(Z)
    BY <2>2, FlattenConcat
  <2>4. FlattenSeq(K) \in Seq(S) /\ FlattenSeq(K) \o <<>> = FlattenSeq(K)
    BY <2>2, FlattenType
  <2> QED BY <1>9, <1>10, <2>1, <2>3, <2>4
<1>15. RfcUnpack(b) \in Seq(S)
  BY <1>6, <1>8, FlattenType
<1>16. RfcUnpack(w) = RfcUnpack(b) \o one
  BY <1>6, <1>13, <1>14
<1> QED BY <1>4, <1>15, <1>16 DEF w, one, S

-----------------------------------------------------------------------------
(* The requests.                                                           *)

(* A list of one node.                                                     *)
LEMMA OneNode ==
  \A x \in Byte :
    /\ Sized(NodeList(<<x>>), 21)
    /\ \A p, i : p \in Seq(Byte) /\ i \in Nat /\ Stands(p, i, NodeList(<<x>>))
                 /\ i + 2 <= Len(p) => Nodes(p, i) = <<x>>
<1> TAKE x \in Byte
<1> DEFINE a == <<1>>
           b == <<x>>
           c == Zeros(19)
           s == NodeList(b)
<1>1. s = a \o b \o c
  <2>1. Len(b) = 1 /\ 20 - 1 = 19
    OBVIOUS
  <2> HIDE DEF b
  <2> QED BY <2>1 DEF NodeList
<1>2. Sized(a, 1) /\ Sized(b, 1) /\ Sized(c, 19)
  BY SizedParts, SmallBytes
<1>3. b[1] = x /\ Len(b) = 1
  OBVIOUS
<1> HIDE DEF a, b, c, s
<1>4. Sized(a \o b, 2) /\ Sized(s, 21)
  BY <1>1, <1>2, SizedConcat
<1>5. ASSUME NEW p \in Seq(Byte), NEW i \in Nat, Stands(p, i, s), i + 2 <= Len(p)
      PROVE  Nodes(p, i) = b
  <2>1. Stands(p, i, a) /\ Stands(p, i + 1, b)
    <3>1. Stands(p, i, a \o b)
      BY <1>1, <1>2, <1>4, <1>5, SizedPair, Zenon
    <3>2. 1 \in Nat
      OBVIOUS
    <3> QED BY <1>2, <3>1, <3>2, SizedPair, Zenon
  <2>2. At(p, i) = 1
    BY <2>1, ReadBytes DEF a
  <2>3. At(p, i + 1) = x
    <3>1. i + 1 \in Nat
      OBVIOUS
    <3> QED BY <2>1, <3>1, ReadBytes DEF b
  <2>4. Nodes(p, i) = SubSeq(p, (i + 1) + 1, (i + 1) + 1)
    <3>1. i + 2 = (i + 1) + 1 /\ i + 1 + 1 = (i + 1) + 1
      OBVIOUS
    <3> QED BY <2>2, <3>1 DEF Nodes
  <2> DEFINE m == i + 1
             t == SubSeq(p, m + 1, m + 1)
  <2>5. m \in Nat /\ m + 1 <= Len(p) /\ 1 \in Nat
    <3>1. i + 1 + 1 = i + 2 /\ i + 1 \in Nat
      OBVIOUS
    <3> QED BY <1>5, <3>1
  <2>6. t \in Seq(Byte) /\ Len(t) = 1 /\ \A k \in 1 .. 1 : t[k] = p[m + k]
    <3> HIDE DEF m
    <3> QED BY <2>5, Cut
  <2> HIDE DEF t
  <2>7. t[1] = x
    <3>1. p[m + 1] = x
      BY <2>3 DEF At
    <3>2. 1 \in 1 .. 1
      OBVIOUS
    <3>3. t[1] = p[m + 1]
      BY <2>6, <3>2, Zenon
    <3> QED BY <3>1, <3>3
  <2>8. t = b
    <3>1. b \in Seq(Byte)
      BY <1>2 DEF Sized
    <3>2. \A k \in 1 .. 1 : t[k] = b[k]
      BY <1>3, <2>7
    <3> QED BY <1>3, <2>6, <3>1, <3>2, SeqEqual
  <2> QED BY <2>4, <2>8 DEF t, m
<1> QED BY <1>4, <1>5 DEF s, b

(* The requests, where their parts stand.                                  *)
LEMMA GetLimitationLayout ==
  ASSUME NEW f, f.session \in Number, NEW x \in Byte, f.nodes = <<x>>, f.type \in Byte,
         NEW p, p = MarshalGetLimitation(f)
  PROVE  Sized(p, 25) /\ Word(p, 0) = f.session /\ Nodes(p, 2) = <<x>> /\ At(p, 24) = f.type
<1> DEFINE a == Two(f.session)
           n == NodeList(<<x>>)
           b == <<0, f.type>>
<1>1. Sized(a, 2) /\ Sized(n, 21) /\ Sized(b, 2)
  BY SizedParts, SmallBytes, OneNode
<1>2. p = a \o n \o b
  BY DEF MarshalGetLimitation
<1> HIDE DEF a, n, b
<1>3. Sized(a \o n, 23) /\ Sized(p, 25)
  BY <1>1, <1>2, SizedConcat
<1>4. Stands(p, 0, a \o n \o b)
  BY <1>2, StandsWhole
<1>5. Stands(p, 0, a) /\ Stands(p, 2, n) /\ Stands(p, 23, b)
  BY <1>1, <1>3, <1>4, StandsLast
<1>6. Word(p, 0) = f.session
  BY <1>5, ReadWord DEF a
<1>7. At(p, 23 + 1) = f.type
  BY <1>5, ReadBytes DEF b
<1>8. Nodes(p, 2) = <<x>>
  <2>1. p \in Seq(Byte) /\ 2 + 2 <= Len(p) /\ 2 \in Nat
    BY <1>3 DEF Sized
  <2> QED BY <1>5, <2>1, OneNode DEF n
<1> QED BY <1>3, <1>6, <1>7, <1>8

(* The request of a status: session and node.                              *)
LEMMA StatusRequestLayout ==
  ASSUME NEW f, f.session \in Number, NEW x \in Byte, f.nodes = <<x>>,
         NEW p, p = MarshalStatusRequest(f)
  PROVE  Sized(p, 26) /\ Word(p, 0) = f.session /\ Nodes(p, 2) = <<x>>
<1> DEFINE a == Two(f.session)
           n == NodeList(<<x>>)
           b == <<1, 254, 0>>
<1>0. 254 \in Byte
  BY InByte
<1>1. Sized(a, 2) /\ Sized(n, 21) /\ Sized(b, 3)
  BY <1>0, SizedParts, SmallBytes, OneNode
<1>2. p = a \o n \o b
  BY DEF MarshalStatusRequest
<1> HIDE DEF a, n, b
<1>3. Sized(a \o n, 23) /\ Sized(p, 26)
  BY <1>1, <1>2, SizedConcat
<1>4. Stands(p, 0, a \o n \o b)
  BY <1>2, StandsWhole
<1>5. Stands(p, 0, a) /\ Stands(p, 2, n)
  BY <1>1, <1>3, <1>4, StandsLast
<1>6. Word(p, 0) = f.session
  BY <1>5, ReadWord DEF a
<1>7. Nodes(p, 2) = <<x>>
  <2>1. p \in Seq(Byte) /\ 2 + 2 <= Len(p) /\ 2 \in Nat
    BY <1>3 DEF Sized
  <2> QED BY <1>5, <2>1, OneNode DEF n
<1> QED BY <1>3, <1>6, <1>7

(* The request of a limitation: session, node, bounds and time.            *)
LEMMA SetLimitationLayout ==
  ASSUME NEW f, f.session \in Number, NEW x \in Byte, f.nodes = <<x>>,
         f.min \in Number, f.max \in Number, f.time \in Byte,
         NEW p, p = MarshalSetLimitation(f)
  PROVE  /\ Sized(p, 31) /\ Word(p, 0) = f.session /\ Nodes(p, 4) = <<x>>
         /\ Word(p, 26) = f.min /\ Word(p, 28) = f.max /\ At(p, 30) = f.time
<1> DEFINE a == Two(f.session)
           b == <<1, 3>>
           n == NodeList(<<x>>)
           z == <<0>>
           c == Two(f.min)
           d == Two(f.max)
           e == <<f.time>>
<1>1. /\ Sized(a, 2) /\ Sized(b, 2) /\ Sized(n, 21) /\ Sized(z, 1) /\ Sized(c, 2)
      /\ Sized(d, 2) /\ Sized(e, 1)
  BY SizedParts, SmallBytes, OneNode
<1>2. p = a \o b \o n \o z \o c \o d \o e
  BY DEF MarshalSetLimitation
<1> HIDE DEF a, b, n, z, c, d, e
<1>3. /\ Sized(a \o b, 4) /\ Sized(a \o b \o n, 25) /\ Sized(a \o b \o n \o z, 26)
      /\ Sized(a \o b \o n \o z \o c, 28) /\ Sized(a \o b \o n \o z \o c \o d, 30)
      /\ Sized(p, 31)
  BY <1>1, <1>2, SizedConcat
<1>4. Stands(p, 0, a \o b \o n \o z \o c \o d \o e)
  BY <1>2, StandsWhole
<1>5. /\ Stands(p, 0, a) /\ Stands(p, 4, n) /\ Stands(p, 26, c) /\ Stands(p, 28, d)
      /\ Stands(p, 30, e)
  BY <1>1, <1>3, <1>4, StandsLast
<1>6. Word(p, 0) = f.session /\ Word(p, 26) = f.min /\ Word(p, 28) = f.max
  BY <1>5, ReadWord DEF a, c, d
<1>7. At(p, 30) = f.time
  BY <1>5, ReadBytes DEF e
<1>8. Nodes(p, 4) = <<x>>
  <2>1. p \in Seq(Byte) /\ 4 + 2 <= Len(p) /\ 4 \in Nat
    BY <1>3 DEF Sized
  <2> QED BY <1>5, <2>1, OneNode DEF n
<1> QED BY <1>3, <1>6, <1>7, <1>8

(* No functional parameter, or the third.                                  *)
LEMMA ThirdOnly ==
  \A fps : DOMAIN fps = {} \/ DOMAIN fps = {3} =>
    FPI(fps) = <<IF DOMAIN fps = {} THEN 0 ELSE 32, 0>>
<1> TAKE fps
<1> HAVE DOMAIN fps = {} \/ DOMAIN fps = {3}
<1>1. Weight[3] = 32
  BY DEF Weight
<1>2. CASE DOMAIN fps = {}
  BY <1>2 DEF FPI
<1>3. CASE DOMAIN fps = {3}
  BY <1>1, <1>3 DEF FPI
<1> QED BY <1>2, <1>3

(* What the bits of the functional parameters say.                         *)
LEMMA ThirdBit ==
  /\ {j \in 1 .. 3 : (0 \div Weight[j]) % 2 = 1} = {}
  /\ {j \in 1 .. 3 : (32 \div Weight[j]) % 2 = 1} = {3}
<1>1. Weight[1] = 128 /\ Weight[2] = 64 /\ Weight[3] = 32
  BY DEF Weight
<1>2. /\ 0 \div 128 = 0 /\ 0 \div 64 = 0 /\ 0 \div 32 = 0
      /\ 32 \div 128 = 0 /\ 32 \div 64 = 0 /\ 32 \div 32 = 1
      /\ 0 % 2 = 0 /\ 1 % 2 = 1
  OBVIOUS
<1>3. \A j \in 1 .. 3 : j = 1 \/ j = 2 \/ j = 3
  OBVIOUS
<1> QED BY <1>1, <1>2, <1>3

(* A command: session, node, its value, and the third functional parameter *)
(* if there is one.                                                        *)
LEMMA CommandSendLayout ==
  ASSUME NEW f, f.session \in Number, NEW x \in Byte, f.nodes = <<x>>,
         f.parameter \in Number, DOMAIN f.fps = {} \/ DOMAIN f.fps = {3},
         DOMAIN f.fps = {3} => f.fps[3] \in Number,
         NEW p, p = MarshalCommandSend(f)
  PROVE  /\ Sized(p, 66) /\ Word(p, 0) = f.session /\ Nodes(p, 41) = <<x>>
         /\ At(p, 5) = (IF DOMAIN f.fps = {} THEN 0 ELSE 32)
         /\ Word(p, 7) = f.parameter
         /\ DOMAIN f.fps = {3} => Word(p, 13) = f.fps[3]
<1> DEFINE FP(i) == Two(IF i \in DOMAIN f.fps THEN f.fps[i] ELSE 0)
           v == IF 3 \in DOMAIN f.fps THEN f.fps[3] ELSE 0
           k == IF DOMAIN f.fps = {} THEN 0 ELSE 32
           a == Two(f.session)
           b == <<1, 3, 0>>
           c == <<k, 0>>
           d == Two(f.parameter)
           e == Two(0)
           g == Two(v)
           z == Zeros(26)
           n == NodeList(<<x>>)
           y == Zeros(4)
<1>1. 0 \in Number /\ v \in Number /\ k \in Byte
  <2>1. 0 \in Number
    BY WrapType, InNumber
  <2>2. v \in Number
    BY <2>1
  <2>3. 0 \in Byte /\ 32 \in Byte
    BY InByte
  <2> QED BY <2>1, <2>2, <2>3
<1>2. /\ FP(1) = e /\ FP(2) = e /\ FP(3) = g
  OBVIOUS
<1>3. FPI(f.fps) = c
  BY ThirdOnly
<1>4. p = a \o b \o FPI(f.fps) \o d \o FP(1) \o FP(2) \o FP(3) \o z \o n \o y
  BY DEF MarshalCommandSend
<1> HIDE DEF FP, v, k
<1>5. p = a \o b \o c \o d \o e \o e \o g \o z \o n \o y
  BY <1>2, <1>3, <1>4
<1>6. /\ Sized(a, 2) /\ Sized(b, 3) /\ Sized(c, 2) /\ Sized(d, 2) /\ Sized(e, 2)
      /\ Sized(g, 2) /\ Sized(z, 26) /\ Sized(n, 21) /\ Sized(y, 4)
  BY <1>1, SizedParts, SmallBytes, OneNode
<1> HIDE DEF a, b, c, d, e, g, z, n, y
<1> DEFINE q1 == a \o b
           q2 == q1 \o c
           q3 == q2 \o d
           q4 == q3 \o e
           q5 == q4 \o e
           q6 == q5 \o g
           q7 == q6 \o z
           q8 == q7 \o n
<1>70. p = q8 \o y
  BY <1>5
<1> HIDE DEF q1, q2, q3, q4, q5, q6, q7, q8
<1>71. Sized(q1, 5)
  BY <1>6, SizedConcat DEF q1
<1>72. Sized(q2, 7)
  BY <1>6, <1>71, SizedConcat DEF q2
<1>73. Sized(q3, 9)
  BY <1>6, <1>72, SizedConcat DEF q3
<1>74. Sized(q4, 11)
  BY <1>6, <1>73, SizedConcat DEF q4
<1>75. Sized(q5, 13)
  BY <1>6, <1>74, SizedConcat DEF q5
<1>76. Sized(q6, 15)
  BY <1>6, <1>75, SizedConcat DEF q6
<1>77. Sized(q7, 41)
  BY <1>6, <1>76, SizedConcat DEF q7
<1>78. Sized(q8, 62)
  BY <1>6, <1>77, SizedConcat DEF q8
<1>7. Sized(p, 66)
  BY <1>6, <1>70, <1>78, SizedConcat
<1>8. Stands(p, 0, q8 \o y)
  BY <1>70, StandsWhole
<1>9. /\ Stands(p, 0, a) /\ Stands(p, 5, c) /\ Stands(p, 7, d) /\ Stands(p, 13, g)
      /\ Stands(p, 41, n)
  <2>1. Stands(p, 0, q8)
    BY <1>6, <1>78, <1>8, StandsLast
  <2>2. Stands(p, 0, q7) /\ Stands(p, 41, n)
    BY <1>6, <1>77, <2>1, StandsLast DEF q8
  <2>3. Stands(p, 0, q6)
    BY <1>6, <1>76, <2>2, StandsLast DEF q7
  <2>4. Stands(p, 0, q5) /\ Stands(p, 13, g)
    BY <1>6, <1>75, <2>3, StandsLast DEF q6
  <2>5. Stands(p, 0, q4)
    BY <1>6, <1>74, <2>4, StandsLast DEF q5
  <2>6. Stands(p, 0, q3)
    BY <1>6, <1>73, <2>5, StandsLast DEF q4
  <2>7. Stands(p, 0, q2) /\ Stands(p, 7, d)
    BY <1>6, <1>72, <2>6, StandsLast DEF q3
  <2>8. Stands(p, 0, q1) /\ Stands(p, 5, c)
    BY <1>6, <1>71, <2>7, StandsLast DEF q2
  <2>9. Stands(p, 0, a)
    BY <1>6, <2>8, StandsLast DEF q1
  <2> QED BY <2>2, <2>4, <2>7, <2>8, <2>9
<1>10. Word(p, 0) = f.session /\ Word(p, 7) = f.parameter /\ Word(p, 13) = v
  BY <1>1, <1>9, ReadWord DEF a, d, g
<1>11. At(p, 5) = k
  BY <1>9, ReadBytes DEF c
<1>12. Nodes(p, 41) = <<x>>
  <2>1. p \in Seq(Byte) /\ 41 + 2 <= Len(p) /\ 41 \in Nat
    BY <1>7 DEF Sized
  <2> QED BY <1>9, <2>1, OneNode DEF n
<1>13. DOMAIN f.fps = {3} => v = f.fps[3]
  BY DEF v
<1> QED BY <1>7, <1>10, <1>11, <1>12, <1>13 DEF k

(* The gateway reads the functional parameters that were sent.             *)
LEMMA ThirdRead ==
  ASSUME NEW p
  PROVE  /\ At(p, 5) = 0 => DOMAIN UnmarshalCommandSend(p).fps = {}
         /\ At(p, 5) = 32 => /\ DOMAIN UnmarshalCommandSend(p).fps = {3}
                             /\ UnmarshalCommandSend(p).fps[3] = Word(p, 13)
<1> DEFINE D(k) == {j \in 1 .. 3 : (k \div Weight[j]) % 2 = 1}
           fps == [i \in D(At(p, 5)) |-> Word(p, 7 + 2 * i)]
<1>1. UnmarshalCommandSend(p).fps = fps
  BY DEF UnmarshalCommandSend
<1>2. D(0) = {} /\ D(32) = {3}
  BY ThirdBit
<1>3. DOMAIN fps = D(At(p, 5)) /\ \A i \in D(At(p, 5)) : fps[i] = Word(p, 7 + 2 * i)
  OBVIOUS
<1>4. 7 + 2 * 3 = 13
  OBVIOUS
<1> HIDE DEF D, fps
<1> QED BY <1>1, <1>2, <1>3, <1>4

(* The first fields of a command.                                          *)
LEMMA CommandRead ==
  ASSUME NEW p
  PROVE  LET g == UnmarshalCommandSend(p)
         IN  /\ g.is = "CommandSendRequest" /\ g.session = Word(p, 0) /\ g.nodes = Nodes(p, 41)
             /\ g.parameter = Word(p, 7)
BY DEF UnmarshalCommandSend

(* Percentages go as they are.                                             *)
LEMMA PercentsFit ==
  \A n \in 0 .. 100 : FromPercent(n) \in Number /\ FromPercent(n) * 100 = n * MAX
<1> SUFFICES ASSUME NEW n \in 0 .. 100
             PROVE  FromPercent(n) \in Number /\ FromPercent(n) * 100 = n * MAX
  OBVIOUS
<1> DEFINE k == n * 2 * 256
<1>1. k \in Int /\ 0 <= k /\ k < 65536 /\ k * 100 = n * 51200
  BY SMT
<1> HIDE DEF k
<1>2. k \in Number
  BY <1>1, InNumber DEF Wrap
<1> QED BY <1>1, <1>2 DEF FromPercent, MAX, k

(* The values that are no percentages fit in two bytes.                    *)
LEMMA SpecialsFit == CURRENT \in Number /\ IGNORE \in Number /\ 0 \in Number
BY SMT DEF CURRENT, IGNORE, Number, Wrap

(* A limitation lasts as long as it was asked for, rounded up to half      *)
(* minutes.                                                                *)
LEMMA LimitationLasts ==
  \A s \in Nat \ {0} :
    /\ LimitationTime(s) \in Byte
    /\ IF s > 7590 THEN GetTimeSeconds(LimitationTime(s)) = 7590
       ELSE GetTimeSeconds(LimitationTime(s)) - s \in 0 .. 29
<1> TAKE s \in Nat \ {0}
<1>1. CASE s > 7590
  <2>1. LimitationTime(s) = 252
    BY <1>1 DEF LimitationTime
  <2> QED BY <1>1, <2>1, InByte DEF GetTimeSeconds
<1>2. CASE s <= 7590
  <2> DEFINE n == s + 29
             q == n \div 30
             r == n % 30
             t == q - 1
  <2>1. LimitationTime(s) = t % 256
    BY <1>2 DEF LimitationTime
  <2>2. n \in Nat /\ 30 \in Nat \ {0}
    OBVIOUS
  <2>3. q \in Int /\ r \in Int /\ 0 <= r /\ r < 30 /\ n = 30 * q + r
    BY <2>2, Divided
  <2> HIDE DEF q, r
  <2>4. t \in Int /\ 0 <= t /\ t <= 252
    BY <1>2, <2>3
  <2>5. (t + 1) * 30 - s \in 0 .. 29
    BY <1>2, <2>3
  <2> HIDE DEF t
  <2>6. t \in Byte
    BY <2>4, InByte
  <2>7. t % 256 = t
    BY <2>6, Remainders
  <2>8. LimitationTime(s) = t
    BY <2>1, <2>7
  <2>9. s > 7590 <=> FALSE
    BY <1>2
  <2> QED BY <2>5, <2>6, <2>8, <2>9 DEF GetTimeSeconds
<1> QED BY <1>1, <1>2

(* The requests have codes of their own.                                   *)
LEMMA RequestCodesDiffer ==
  /\ Code("StatusRequestRequest") # Code("CommandSendRequest")
  /\ Code("SetLimitationRequest") # Code("CommandSendRequest")
  /\ Code("SetLimitationRequest") # Code("StatusRequestRequest")
  /\ Code("GetLimitationRequest") # Code("CommandSendRequest")
  /\ Code("GetLimitationRequest") # Code("StatusRequestRequest")
  /\ Code("GetLimitationRequest") # Code("SetLimitationRequest")
BY CodeValues
=============================================================================
