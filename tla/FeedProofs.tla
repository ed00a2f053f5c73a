----------------------------- MODULE FeedProofs -----------------------------
(***************************************************************************)
(* Proofs about the feed as a whole: all its text in order, all changes in  *)
(* the summary, and that nothing in it moves.  What is shown is computed    *)
(* by folds, so the first part says what a fold is: one step more for one   *)
(* element more.                                                            *)
(***************************************************************************)
EXTENDS DisplayProofs, SequenceTheorems

-----------------------------------------------------------------------------
(* Folds. *)

\* Induction up to a bound, over the set of the numbers for which it is true.
LEMMA UpTo ==
  ASSUME NEW n \in Nat, NEW T, 0 \in T, \A k \in 1 .. n : k - 1 \in T => k \in T
  PROVE  n \in T /\ \A k \in 0 .. n : k \in T
<1>. DEFINE Bad == {k \in 0 .. n : k \notin T}
<1>1. SUFFICES ASSUME Bad # {} PROVE FALSE
  <2>1. n \in 0 .. n
    OBVIOUS
  <2>. QED BY <2>1
<1>2. PICK u \in Bad : \A w \in Bad : u <= w
  <2>1. Bad \in SUBSET Nat
    OBVIOUS
  <2>. HIDE DEF Bad
  <2>. QED BY <1>1, <2>1, LeastOf
<1>3. u \in 0 .. n /\ u # 0
  BY <1>2
<1>4. u - 1 \in 0 .. n /\ u \in 1 .. n /\ ~(u <= u - 1)
  BY <1>3
<1>5. u - 1 \in T
  BY <1>2, <1>4
<1>. QED BY <1>2, <1>4, <1>5

\* Induction over sequences: what is true of the empty one, and of each with one element more.
LEMMA OneMore ==
  ASSUME NEW S, NEW T, << >> \in T, \A s \in Seq(S) : s \in T => \A e \in S : Append(s, e) \in T
  PROVE  \A s \in Seq(S) : s \in T
<1>1. SUFFICES ASSUME NEW s \in Seq(S) PROVE s \in T
  OBVIOUS
<1>. DEFINE K == {k \in 0 .. Len(s) : \A t \in Seq(S) : Len(t) = k => t \in T}
<1>2. Len(s) \in Nat
  OBVIOUS
<1>3. 0 \in K
  <2>1. \A t \in Seq(S) : Len(t) = 0 => t = << >>
    OBVIOUS
  <2>. QED BY <1>2, <2>1
<1>4. ASSUME NEW k \in 1 .. Len(s), k - 1 \in K
      PROVE  k \in K
  <2>1. ASSUME NEW t \in Seq(S), Len(t) = k
        PROVE  t \in T
    <3>1. t # << >>
      BY <2>1
    <3>2. PICK u \in Seq(S), e \in S : t = Append(u, e)
      BY <3>1, SequenceEmptyOrAppend
    <3>3. Len(u) = k - 1
      BY <2>1, <3>2
    <3>. QED BY <1>4, <3>2, <3>3
  <2>. QED BY <2>1
<1>5. Len(s) \in K
  <2>. HIDE DEF K
  <2>. QED BY <1>2, <1>3, <1>4, UpTo
<1>. QED BY <1>2, <1>5

\* The greatest of some of the first numbers.
LEMMA MaxIs ==
  ASSUME NEW n \in Nat, NEW s \in SUBSET (1 .. n), s # {}
  PROVE  Max(s) \in s /\ \A y \in s : y <= Max(s)
<1>. DEFINE Bounds == {m \in Nat : \A y \in s : y <= m}
<1>1. n \in Bounds
  OBVIOUS
<1>2. PICK m \in Bounds : \A w \in Bounds : m <= w
  <2>1. Bounds \in SUBSET Nat /\ Bounds # {}
    BY <1>1
  <2>. HIDE DEF Bounds
  <2>. QED BY <2>1, LeastOf
<1>3. m \in s
  <2>1. SUFFICES ASSUME m \notin s PROVE FALSE
    OBVIOUS
  <2>2. PICK y \in s : TRUE
    OBVIOUS
  <2>3. m \in Nat /\ y \in 1 .. n /\ y <= m
    BY <1>2
  <2>4. m - 1 \in Nat /\ ~(m <= m - 1)
    BY <2>3
  <2>5. \A z \in s : z <= m - 1
    BY <1>2, <2>1
  <2>6. m - 1 \in Bounds
    BY <2>4, <2>5
  <2>. QED BY <1>2, <2>4, <2>6
<1>4. \A y \in s : y <= m
  BY <1>2
<1>5. \E x \in s : \A y \in s : x >= y
  BY <1>3, <1>4
<1>6. Max(s) \in s /\ \A y \in s : Max(s) >= y
  BY <1>5 DEF Max
<1>. QED BY <1>6

\* A fold: a function of the sets of places that takes the last place first.
IsFold(g, F, base, seq) ==
  g = [s \in SUBSET DOMAIN seq |->
         IF s = {} THEN base ELSE F[<<g[s \ {Max(s)}], seq[Max(s)]>>]]

\* There is one.
LEMMA FoldExists ==
  ASSUME NEW A, NEW B, NEW base \in A, NEW seq \in Seq(B), NEW F \in [A \X B -> A]
  PROVE  \E g \in [SUBSET DOMAIN seq -> A] : IsFold(g, F, base, seq)
<1>. DEFINE NextOf(g, s) == IF s = {} THEN base ELSE F[<<g[s \ {Max(s)}], seq[Max(s)]>>]
            Made(g, k) == \A s \in SUBSET (1 .. k) : g[s] = NextOf(g, s)
            Good(k) == \E g \in [SUBSET (1 .. k) -> A] : Made(g, k)
            K == {k \in 0 .. Len(seq) : Good(k)}
<1>1. Len(seq) \in Nat /\ DOMAIN seq = 1 .. Len(seq)
  OBVIOUS
<1>2. 0 \in K
  <2>1. SUBSET (1 .. 0) = {{}}
    OBVIOUS
  <2>. DEFINE g == [s \in {{}} |-> base]
  <2>2. g \in [SUBSET (1 .. 0) -> A] /\ Made(g, 0)
    BY <2>1
  <2>3. Good(0)
    <3>. HIDE DEF g
    <3>. QED BY <2>2
  <2>. HIDE DEF Good
  <2>. QED BY <1>1, <2>3
<1>3. ASSUME NEW k \in 1 .. Len(seq), k - 1 \in K
      PROVE  k \in K
  <2>0. k \in 0 .. Len(seq)
    BY <1>1
  <2>1. PICK g \in [SUBSET (1 .. k - 1) -> A] : Made(g, k - 1)
    BY <1>3
  <2>. DEFINE h == [s \in SUBSET (1 .. k) |->
                      IF k \in s THEN F[<<g[s \ {k}], seq[k]>>] ELSE g[s]]
  <2>2. seq[k] \in B /\ k \in Nat
    BY <1>1
  <2>3. ASSUME NEW s \in SUBSET (1 .. k), k \in s
        PROVE  s \ {k} \in SUBSET (1 .. k - 1) /\ Max(s) = k /\ s # {}
    <3>1. Max(s) \in s /\ \A y \in s : y <= Max(s)
      BY <2>2, <2>3, MaxIs
    <3>2. Max(s) \in 1 .. k /\ k <= Max(s)
      BY <2>3, <3>1
    <3>. QED BY <2>2, <2>3, <3>2
  <2>4. ASSUME NEW s \in SUBSET (1 .. k), k \notin s
        PROVE  s \in SUBSET (1 .. k - 1)
    BY <2>2, <2>4
  <2>5. h \in [SUBSET (1 .. k) -> A]
    BY <2>2, <2>3, <2>4
  <2>6. ASSUME NEW s \in SUBSET (1 .. k)
        PROVE  h[s] = NextOf(h, s)
    <3>1. CASE k \in s
      <4>1. s \ {k} \in SUBSET (1 .. k - 1) /\ s \ {k} \in SUBSET (1 .. k) /\ Max(s) = k /\ s # {}
        BY <2>3, <3>1
      <4>2. h[s \ {k}] = g[s \ {k}]
        BY <4>1
      <4>. QED BY <3>1, <4>1, <4>2
    <3>2. CASE k \notin s
      <4>1. s \in SUBSET (1 .. k - 1) /\ h[s] = g[s] /\ g[s] = NextOf(g, s)
        BY <2>1, <2>4, <3>2
      <4>2. CASE s = {}
        BY <4>1, <4>2
      <4>3. CASE s # {}
        <5>1. Max(s) \in s
          BY <2>2, <4>3, MaxIs
        <5>2. s \ {Max(s)} \in SUBSET (1 .. k) /\ k \notin s \ {Max(s)}
          BY <3>2
        <5>3. h[s \ {Max(s)}] = g[s \ {Max(s)}]
          BY <5>2
        <5>. QED BY <4>1, <4>3, <5>3
      <4>. QED BY <4>2, <4>3
    <3>. QED BY <3>1, <3>2
  <2>7. Good(k)
    <3>. HIDE DEF h, NextOf
    <3>. QED BY <2>5, <2>6
  <2>. HIDE DEF Good
  <2>. QED BY <2>0, <2>7
<1>4. Len(seq) \in K
  <2>. HIDE DEF K
  <2>. QED BY <1>1, <1>2, <1>3, UpTo
<1>5. PICK g \in [SUBSET (1 .. Len(seq)) -> A] : Made(g, Len(seq))
  BY <1>4
<1>6. g = [s \in SUBSET DOMAIN seq |-> NextOf(g, s)]
  BY <1>1, <1>5
<1>. QED BY <1>1, <1>5, <1>6 DEF IsFold

\* One after the other: the parts up to each place.
Trail(s, h) ==
  /\ DOMAIN h = 0 .. Len(s) /\ h[0] = << >>
  /\ \A k \in 1 .. Len(s) : h[k] = h[k - 1] \o s[k]

\* Sequences of sequences, ...
PartsOf(S) == Seq(Seq(S))

\* ... of which each is one.
LEMMA PartsAre ==
  ASSUME NEW S, NEW s \in PartsOf(S)
  PROVE  /\ Len(s) \in Nat /\ DOMAIN s = 1 .. Len(s) /\ (Len(s) = 0 => s = << >>)
         /\ \A i \in 1 .. Len(s) : s[i] \in Seq(S)
BY DEF PartsOf

\* Sequences put one after the other have a trail, and are its end.
LEMMA FlatTrail ==
  ASSUME NEW S, NEW s \in PartsOf(S)
  PROVE  \E h \in [0 .. Len(s) -> Seq(S)] : Trail(s, h) /\ FlattenSeq(s) = h[Len(s)]
<1>. DEFINE n == Len(s)
            Eq(g) == g = [i \in 1 .. n |-> IF i = 1 THEN s[i] ELSE g[i - 1] \o s[i]]
            Part(g, k) == \A i \in 1 .. k : g[i] = IF i = 1 THEN s[i] ELSE g[i - 1] \o s[i]
            Good(k) == \E g \in [1 .. k -> Seq(S)] : Part(g, k)
            K == {k \in 0 .. n : Good(k)}
<1>1. n \in Nat /\ DOMAIN s = 1 .. n /\ \A i \in 1 .. n : s[i] \in Seq(S)
  BY PartsAre
<1>. HIDE DEF n
<1>2. Good(0)
  <2>. DEFINE g == [i \in 1 .. 0 |-> << >>]
  <2>1. g \in [1 .. 0 -> Seq(S)] /\ Part(g, 0)
    OBVIOUS
  <2>. HIDE DEF g
  <2>. QED BY <2>1
<1>3. ASSUME NEW k \in 1 .. n, Good(k - 1)
      PROVE  Good(k)
  <2>1. PICK g \in [1 .. k - 1 -> Seq(S)] : Part(g, k - 1)
    BY <1>3
  <2>. DEFINE new == IF k = 1 THEN s[k] ELSE g[k - 1] \o s[k]
              h == [i \in 1 .. k |-> IF i = k THEN new ELSE g[i]]
  <2>2. k \in Nat /\ k >= 1 /\ s[k] \in Seq(S) /\ (k # 1 => k - 1 \in 1 .. k - 1)
    BY <1>1
  <2>3. new \in Seq(S)
    BY <2>2
  <2>. HIDE DEF new
  <2>4. h \in [1 .. k -> Seq(S)] /\ h[k] = new /\ \A i \in 1 .. k - 1 : h[i] = g[i]
    BY <2>2, <2>3
  <2>. HIDE DEF h
  <2>5. ASSUME NEW i \in 1 .. k
        PROVE  h[i] = IF i = 1 THEN s[i] ELSE h[i - 1] \o s[i]
    <3>1. CASE i = k
      BY <2>2, <2>4, <3>1 DEF new
    <3>2. CASE i # k
      <4>1. i \in 1 .. k - 1 /\ (i # 1 => i - 1 \in 1 .. k - 1)
        BY <2>2, <3>2
      <4>2. h[i] = g[i] /\ (i # 1 => h[i - 1] = g[i - 1])
        BY <2>4, <4>1
      <4>. QED BY <2>1, <4>1, <4>2
    <3>. QED BY <3>1, <3>2
  <2>. QED BY <2>4, <2>5
<1>. HIDE DEF Good
<1>4. n \in K
  <2>1. 0 \in K /\ \A k \in 1 .. n : k - 1 \in K => k \in K
    BY <1>1, <1>2, <1>3
  <2>. HIDE DEF K
  <2>. QED BY <1>1, <2>1, UpTo
<1>5. PICK g \in [1 .. n -> Seq(S)] : Part(g, n)
  BY <1>4 DEF Good
<1>6. Eq(g)
  BY <1>5
<1>7. PICK f : Eq(f) /\ f = (CHOOSE c : Eq(c))
  BY <1>6
<1>. DEFINE h == [k \in 0 .. n |-> IF k = 0 THEN << >> ELSE f[k]]
<1>8. ASSUME NEW k \in 1 .. n, h[k - 1] \in Seq(S)
      PROVE  h[k] = h[k - 1] \o s[k] /\ h[k] \in Seq(S)
  <2>1. f[k] = IF k = 1 THEN s[k] ELSE f[k - 1] \o s[k]
    BY <1>7
  <2>2. CASE k = 1
    <3>1. h[k - 1] = << >> /\ h[k] = s[k] /\ s[k] \in Seq(S)
      BY <1>1, <2>1, <2>2
    <3>. QED BY <3>1, ConcatEmptySeq
  <2>3. CASE k # 1
    <3>1. h[k - 1] = f[k - 1] /\ h[k] = f[k] /\ s[k] \in Seq(S)
      BY <1>1, <2>3
    <3>. HIDE DEF h
    <3>2. h[k] = h[k - 1] \o s[k]
      BY <2>1, <2>3, <3>1
    <3>. QED BY <1>8, <3>1, <3>2, ConcatProperties
  <2>. QED BY <2>2, <2>3
<1>. DEFINE T == {k \in 0 .. n : h[k] \in Seq(S)}
<1>9. 0 \in T
  BY <1>1
<1>10. \A k \in 1 .. n : k - 1 \in T => k \in T
  <2>. HIDE DEF h
  <2>. QED BY <1>1, <1>8
<1>11. \A k \in 0 .. n : h[k] \in Seq(S)
  <2>1. \A k \in 0 .. n : k \in T
    <3>. HIDE DEF T
    <3>. QED BY <1>1, <1>9, <1>10, UpTo
  <2>. QED BY <2>1
<1>12. Trail(s, h)
  <2>1. h[0] = << >> /\ DOMAIN h = 0 .. n
    BY <1>1
  <2>. HIDE DEF h
  <2>2. \A k \in 1 .. n : k - 1 \in 0 .. n
    BY <1>1
  <2>. QED BY <1>8, <1>11, <2>1, <2>2 DEF Trail, n
<1>13. FlattenSeq(s) = h[n]
  <2>1. FlattenSeq(s) = IF Len(s) = 0 THEN s ELSE (CHOOSE c : Eq(c))[Len(s)]
    BY DEF FlattenSeq, n
  <2>2. CASE n = 0
    <3>1. s = << >> /\ h[n] = << >>
      BY <1>1, <2>2, PartsAre DEF n
    <3>. QED BY <2>1, <2>2, <3>1 DEF n
  <2>3. CASE n # 0
    <3>1. h[n] = f[n]
      BY <1>1, <2>3
    <3>. QED BY <1>7, <2>1, <2>3, <3>1 DEF n
  <2>. QED BY <2>2, <2>3
<1>14. h \in [0 .. n -> Seq(S)]
  BY <1>11
<1>. HIDE DEF h
<1>. QED BY <1>12, <1>13, <1>14 DEF n

\* The first elements of two sequences are the same.
SameFirst(s, t, n) ==
  /\ n \in Nat /\ Len(s) \in Nat /\ Len(t) \in Nat /\ n <= Len(s) /\ n <= Len(t)
  /\ \A k \in 1 .. n : t[k] = s[k]

\* Trails of the same sequences are the same.
LEMMA SameTrail ==
  ASSUME NEW s, NEW t, NEW h, NEW g, NEW n, Trail(s, h), Trail(t, g), SameFirst(s, t, n)
  PROVE  \A k \in 0 .. n : g[k] = h[k]
<1>. DEFINE T == {k \in 0 .. n : g[k] = h[k]}
<1>0. /\ n \in Nat /\ Len(s) \in Nat /\ Len(t) \in Nat /\ n <= Len(s) /\ n <= Len(t)
      /\ \A k \in 1 .. n : t[k] = s[k]
  BY DEF SameFirst
<1>1. 0 \in T
  BY <1>0 DEF Trail
<1>2. ASSUME NEW k \in 1 .. n, k - 1 \in T
      PROVE  k \in T
  <2>1. k \in 1 .. Len(s) /\ k \in 1 .. Len(t)
    BY <1>0
  <2>2. g[k] = g[k - 1] \o t[k] /\ h[k] = h[k - 1] \o s[k]
    BY <2>1 DEF Trail
  <2>3. g[k - 1] = h[k - 1] /\ t[k] = s[k] /\ k \in 0 .. n
    BY <1>0, <1>2
  <2>. QED BY <2>2, <2>3
<1>. HIDE DEF T
<1>3. \A k \in 0 .. n : k \in T
  BY <1>0, <1>1, <1>2, UpTo
<1>. QED BY <1>3 DEF T

\* One sequence more comes last, ...
LEMMA FlatMore ==
  ASSUME NEW S, NEW s \in PartsOf(S), NEW t \in PartsOf(S), Len(t) = Len(s) + 1,
         \A k \in 1 .. Len(s) : t[k] = s[k]
  PROVE  FlattenSeq(t) = FlattenSeq(s) \o t[Len(t)]
<1>1. PICK h \in [0 .. Len(s) -> Seq(S)] : Trail(s, h) /\ FlattenSeq(s) = h[Len(s)]
  BY FlatTrail
<1>2. PICK g \in [0 .. Len(t) -> Seq(S)] : Trail(t, g) /\ FlattenSeq(t) = g[Len(t)]
  BY FlatTrail
<1>3. Len(s) \in Nat /\ Len(t) \in Nat /\ Len(t) - 1 = Len(s) /\ Len(t) \in 1 .. Len(t)
  BY PartsAre
<1>4. g[Len(s)] = h[Len(s)]
  <2>1. SameFirst(s, t, Len(s))
    BY <1>3 DEF SameFirst
  <2>2. \A k \in 0 .. Len(s) : g[k] = h[k]
    BY <1>1, <1>2, <2>1, SameTrail
  <2>. QED BY <1>3, <2>2
<1>. QED BY <1>1, <1>2, <1>3, <1>4 DEF Trail

\* ... the last one goes on, ...
LEMMA FlatLast ==
  ASSUME NEW S, NEW s \in PartsOf(S), NEW t \in PartsOf(S), Len(t) = Len(s), Len(s) # 0,
         \A k \in 1 .. Len(s) - 1 : t[k] = s[k],
         NEW more \in Seq(S), t[Len(s)] = s[Len(s)] \o more
  PROVE  FlattenSeq(t) = FlattenSeq(s) \o more
<1>1. PICK h \in [0 .. Len(s) -> Seq(S)] : Trail(s, h) /\ FlattenSeq(s) = h[Len(s)]
  BY FlatTrail
<1>2. PICK g \in [0 .. Len(t) -> Seq(S)] : Trail(t, g) /\ FlattenSeq(t) = g[Len(t)]
  BY FlatTrail
<1>3. Len(s) \in Nat /\ Len(s) - 1 \in Nat /\ Len(s) \in 1 .. Len(s) /\ Len(s) - 1 \in 0 .. Len(s)
  BY PartsAre
<1>4. g[Len(s) - 1] = h[Len(s) - 1]
  <2>1. SameFirst(s, t, Len(s) - 1)
    BY <1>3 DEF SameFirst
  <2>2. \A k \in 0 .. Len(s) - 1 : g[k] = h[k]
    BY <1>1, <1>2, <2>1, SameTrail
  <2>. QED BY <1>3, <2>2
<1>5. g[Len(s)] = h[Len(s) - 1] \o (s[Len(s)] \o more) /\ h[Len(s)] = h[Len(s) - 1] \o s[Len(s)]
  BY <1>1, <1>2, <1>3, <1>4 DEF Trail
<1>6. h[Len(s) - 1] \in Seq(S) /\ s[Len(s)] \in Seq(S)
  <2>1. \A k \in 0 .. Len(s) : h[k] \in Seq(S)
    OBVIOUS
  <2>2. \A k \in 1 .. Len(s) : s[k] \in Seq(S)
    BY PartsAre
  <2>. QED BY <1>3, <2>1, <2>2
<1>7. (h[Len(s) - 1] \o s[Len(s)]) \o more = h[Len(s) - 1] \o (s[Len(s)] \o more)
  <2>1. PICK a, b : a = h[Len(s) - 1] /\ b = s[Len(s)]
    OBVIOUS
  <2>2. a \in Seq(S) /\ b \in Seq(S)
    BY <1>6, <2>1
  <2>3. (a \o b) \o more = a \o (b \o more)
    BY <2>2, ConcatAssociative
  <2>. QED BY <2>1, <2>3
<1>. QED BY <1>1, <1>2, <1>5, <1>7

\* ... or an empty one comes in between.
LEMMA FlatInserted ==
  ASSUME NEW S, NEW s \in PartsOf(S), NEW t \in PartsOf(S), Len(t) = Len(s) + 1,
         NEW at \in 1 .. Len(s) + 1, \A k \in 1 .. at - 1 : t[k] = s[k], t[at] = << >>,
         \A k \in at .. Len(s) : t[k + 1] = s[k]
  PROVE  FlattenSeq(t) = FlattenSeq(s)
<1>1. PICK h \in [0 .. Len(s) -> Seq(S)] : Trail(s, h) /\ FlattenSeq(s) = h[Len(s)]
  BY FlatTrail
<1>2. PICK g \in [0 .. Len(t) -> Seq(S)] : Trail(t, g) /\ FlattenSeq(t) = g[Len(t)]
  BY FlatTrail
<1>. DEFINE n == Len(s)
<1>3. n \in Nat /\ at \in Nat /\ at >= 1 /\ at - 1 <= n /\ at - 1 \in Nat /\ Len(t) = n + 1
  BY PartsAre
<1>4. \A k \in 0 .. at - 1 : g[k] = h[k]
  <2>1. SameFirst(s, t, at - 1)
    BY <1>3 DEF SameFirst
  <2>. QED BY <1>1, <1>2, <2>1, SameTrail
<1>. HIDE DEF n
<1>5. g[at] = h[at - 1]
  <2>1. at \in 1 .. n + 1 /\ at - 1 \in 0 .. at - 1 /\ at - 1 \in 0 .. n
    BY <1>3
  <2>2. g[at] = g[at - 1] \o << >> /\ g[at - 1] = h[at - 1]
    BY <1>2, <1>3, <1>4, <2>1 DEF Trail
  <2>3. h[at - 1] \in Seq(S)
    BY <1>1, <2>1 DEF n
  <2>. QED BY <2>2, <2>3
<1>. DEFINE T == {k \in 0 .. n : k >= at - 1 => g[k + 1] = h[k]}
<1>6. 0 \in T
  BY <1>3, <1>5
<1>7. ASSUME NEW k \in 1 .. n, k - 1 \in T
      PROVE  k \in T
  <2>1. CASE k < at - 1
    BY <1>3, <2>1
  <2>2. CASE k = at - 1
    BY <1>3, <1>5, <2>2
  <2>3. CASE k >= at
    <3>1. g[k] = h[k - 1]
      <4>1. k - 1 >= at - 1 /\ k - 1 + 1 = k
        BY <1>3, <2>3
      <4>. QED BY <1>7, <4>1
    <3>2. k \in at .. n /\ k + 1 \in 1 .. n + 1 /\ k + 1 - 1 = k /\ k \in 0 .. n
      BY <1>3, <2>3
    <3>3. \A i \in 1 .. n + 1 : g[i] = g[i - 1] \o t[i]
      BY <1>2, <1>3 DEF Trail
    <3>4. \A i \in 1 .. n : h[i] = h[i - 1] \o s[i]
      BY <1>1 DEF Trail, n
    <3>5. \A i \in at .. n : t[i + 1] = s[i]
      BY DEF n
    <3>6. g[k + 1] = g[k] \o t[k + 1]
      <4>1. PICK i : i = k + 1 /\ i \in 1 .. n + 1 /\ i - 1 = k
        BY <3>2
      <4>2. g[i] = g[i - 1] \o t[i]
        BY <3>3, <4>1
      <4>. QED BY <4>1, <4>2
    <3>7. h[k] = h[k - 1] \o s[k] /\ t[k + 1] = s[k]
      BY <3>2, <3>4, <3>5, Zenon
    <3>. QED BY <3>1, <3>2, <3>6, <3>7
  <2>. QED BY <1>3, <2>1, <2>2, <2>3
<1>8. n \in T
  <2>. HIDE DEF T
  <2>. QED BY <1>3, <1>6, <1>7, UpTo
<1>9. g[n + 1] = h[n]
  BY <1>3, <1>8
<1>. QED BY <1>1, <1>2, <1>3, <1>9 DEF n

\* The first ones, the last of them, and those before it.
LEMMA FirstOnes ==
  ASSUME NEW n \in Nat, NEW k \in 1 .. n
  PROVE  /\ 1 .. k \in SUBSET (1 .. n) /\ 1 .. k # {} /\ Max(1 .. k) = k
         /\ (1 .. k) \ {Max(1 .. k)} = 1 .. k - 1
<1>1. k \in Nat /\ k >= 1 /\ k <= n /\ k \in 1 .. k
  OBVIOUS
<1>2. 1 .. k \in SUBSET (1 .. k) /\ 1 .. k # {}
  BY <1>1
<1>3. Max(1 .. k) \in 1 .. k /\ \A y \in 1 .. k : y <= Max(1 .. k)
  <2>1. PICK s : s = 1 .. k
    OBVIOUS
  <2>2. s \in SUBSET (1 .. k) /\ s # {}
    BY <1>2, <2>1
  <2>3. Max(s) \in s /\ \A y \in s : y <= Max(s)
    BY <1>1, <2>2, MaxIs
  <2>. QED BY <2>1, <2>3
<1>4. Max(1 .. k) = k
  BY <1>1, <1>3
<1>. QED BY <1>1, <1>2, <1>4

-----------------------------------------------------------------------------
(* Groups. *)

\* A group of lines, ...
Group ==
  [key : {<<"work", b.key[1], b.key[2]>> : b \in Block}, kind : {"work"}, items : Seq(Block)]

\* ... and what is shown: blocks and groups.
Entry == Block \cup Group

\* The last entry is a group.
EndsInGroup(groups) == Len(groups) > 0 /\ groups[Len(groups)].kind = "work"

\* What a block or a group is.
LEMMA EntryIs ==
  ASSUME NEW e \in Entry
  PROVE  /\ e.kind = "work" => e \in Group
         /\ e.kind # "work" => e \in Block
<1>1. \A b \in Block : b.kind # "work"
  BY BlockIs
<1>2. \A g \in Group : g.kind = "work"
  BY DEF Group
<1>. QED BY <1>1, <1>2 DEF Entry

\* Lines are shown.
LEMMA WorkIsVisible ==
  ASSUME NEW b, IsWork(b)
  PROVE  Visible(b)
BY DEF IsWork, Visible

\* A line goes to the group that is last, or begins one; all else that is shown stands alone.
LEMMA GroupedIs ==
  ASSUME NEW g \in Seq(Entry), NEW b \in Block
  PROVE  /\ Grouped(g, b) \in Seq(Entry)
         /\ ~Visible(b) => Grouped(g, b) = g
         /\ Visible(b) /\ ~IsWork(b) => Grouped(g, b) = Append(g, b)
         /\ IsWork(b) /\ EndsInGroup(g) =>
              \E e \in Group : /\ e.key = g[Len(g)].key
                               /\ e.items = Append(g[Len(g)].items, b)
                               /\ g[Len(g)] \in Group
                               /\ Grouped(g, b) = [g EXCEPT ![Len(g)] = e]
         /\ IsWork(b) /\ ~EndsInGroup(g) =>
              \E e \in Group : /\ e.key = <<"work", b.key[1], b.key[2]>>
                               /\ e.items = <<b>>
                               /\ Grouped(g, b) = Append(g, e)
<1>1. Len(g) \in Nat /\ \A i \in 1 .. Len(g) : g[i] \in Entry
  OBVIOUS
<1>0. CASE ~Visible(b)
  BY <1>0, WorkIsVisible DEF Grouped
<1>2. CASE Visible(b) /\ ~IsWork(b)
  <2>1. Grouped(g, b) = Append(g, b)
    BY <1>2 DEF Grouped
  <2>2. b \in Entry
    BY DEF Entry
  <2>. QED BY <1>2, <2>1, <2>2
<1>3. CASE IsWork(b) /\ EndsInGroup(g)
  <2>0. Visible(b)
    BY <1>3, WorkIsVisible
  <2>. DEFINE n == Len(g)
              e == [g[n] EXCEPT !.items = Append(g[n].items, b)]
  <2>1. n \in 1 .. Len(g) /\ g[n].kind = "work"
    BY <1>1, <1>3 DEF EndsInGroup
  <2>2. g[n] \in Group
    BY <1>1, <2>1, EntryIs
  <2>3. e \in Group /\ e.key = g[n].key /\ e.items = Append(g[n].items, b)
    <3>1. g[n].items \in Seq(Block)
      BY <2>2 DEF Group
    <3>2. Append(g[n].items, b) \in Seq(Block)
      BY <3>1
    <3>. QED BY <2>2, <3>2 DEF Group
  <2>4. Grouped(g, b) = [g EXCEPT ![n] = e]
    BY <1>3, <2>0, <2>1 DEF Grouped
  <2>. HIDE DEF e
  <2>5. Grouped(g, b) \in Seq(Entry)
    BY <2>1, <2>3, <2>4, ExceptSeq DEF Entry
  <2>. QED BY <1>3, <2>0, <2>2, <2>3, <2>4, <2>5
<1>4. CASE IsWork(b) /\ ~EndsInGroup(g)
  <2>. DEFINE e == [key |-> <<"work", b.key[1], b.key[2]>>, kind |-> "work", items |-> <<b>>]
  <2>1. e \in Group /\ e.key = <<"work", b.key[1], b.key[2]>> /\ e.items = <<b>>
    BY DEF Group
  <2>0. Visible(b)
    BY <1>4, WorkIsVisible
  <2>2. Grouped(g, b) = Append(g, e)
    BY <1>4, <2>0 DEF Grouped, EndsInGroup
  <2>. HIDE DEF e
  <2>3. Append(g, e) \in Seq(Entry)
    BY <2>1 DEF Entry
  <2>. QED BY <1>4, <2>0, <2>1, <2>2, <2>3
<1>. QED BY <1>0, <1>2, <1>3, <1>4

\* A line goes to the group that is last, ...
LEMMA JoinsGroup ==
  ASSUME NEW g \in Seq(Entry), NEW b \in Block, IsWork(b), EndsInGroup(g)
  PROVE  \E e \in Group : /\ e.key = g[Len(g)].key
                          /\ e.items = Append(g[Len(g)].items, b)
                          /\ g[Len(g)] \in Group
                          /\ Grouped(g, b) = [g EXCEPT ![Len(g)] = e]
BY GroupedIs

\* ... or begins one.
LEMMA BeginsGroup ==
  ASSUME NEW g \in Seq(Entry), NEW b \in Block, IsWork(b), ~EndsInGroup(g)
  PROVE  \E e \in Group : /\ e.key = <<"work", b.key[1], b.key[2]>>
                          /\ e.items = <<b>>
                          /\ Grouped(g, b) = Append(g, e)
BY GroupedIs

\* The groups are made of one block after the other.
LEMMA GroupTrail ==
  ASSUME NEW B \in Seq(Block)
  PROVE  \E h \in [0 .. Len(B) -> Seq(Entry)] :
           /\ h[0] = << >> /\ GroupWork(B) = h[Len(B)]
           /\ \A k \in 1 .. Len(B) : h[k] = Grouped(h[k - 1], B[k])
<1>. DEFINE n == Len(B)
            A == Seq(Entry)
            F == [p \in A \X Block |-> Grouped(p[1], p[2])]
            D == SUBSET DOMAIN B
            Eq(g) == g = [s \in D |-> IF s = {} THEN << >> ELSE Grouped(g[s \ {Max(s)}], B[Max(s)])]
<1>1. n \in Nat /\ DOMAIN B = 1 .. n /\ \A i \in 1 .. n : B[i] \in Block
  OBVIOUS
<1>2. F \in [A \X Block -> A] /\ \A a \in A, b \in Block : F[<<a, b>>] = Grouped(a, b)
  BY GroupedIs
<1>3. << >> \in A
  OBVIOUS
<1>. HIDE DEF n, F, A
<1>4. PICK g \in [D -> A] :
        g = [s \in D |-> IF s = {} THEN << >> ELSE F[<<g[s \ {Max(s)}], B[Max(s)]>>]]
  <2>1. \E g \in [D -> A] : IsFold(g, F, << >>, B)
    BY <1>2, <1>3, FoldExists
  <2>. QED BY <2>1 DEF IsFold
<1>5. Eq(g)
  <2>1. ASSUME NEW s \in D
        PROVE  (IF s = {} THEN << >> ELSE F[<<g[s \ {Max(s)}], B[Max(s)]>>]) =
               (IF s = {} THEN << >> ELSE Grouped(g[s \ {Max(s)}], B[Max(s)]))
    <3>1. CASE s = {}
      BY <3>1
    <3>2. CASE s # {}
      <4>1. Max(s) \in s
        BY <1>1, <3>2, MaxIs
      <4>2. Max(s) \in 1 .. n /\ s \ {Max(s)} \in D
        BY <1>1, <4>1
      <4>3. g[s \ {Max(s)}] \in A /\ B[Max(s)] \in Block
        BY <1>1, <4>2
      <4>. QED BY <1>2, <3>2, <4>3
    <3>. QED BY <3>1, <3>2
  <2>. QED BY <1>4, <2>1
<1>6. PICK f : Eq(f) /\ f = (CHOOSE c : Eq(c))
  BY <1>5
<1>. DEFINE h == [k \in 0 .. n |-> f[1 .. k]]
<1>7. h[0] = << >>
  <2>1. 1 .. 0 = {} /\ {} \in D /\ 0 \in 0 .. n
    BY <1>1
  <2>. QED BY <1>6, <2>1
<1>8. \A k \in 1 .. n : h[k] = Grouped(h[k - 1], B[k])
  <2>1. ASSUME NEW k \in 1 .. n
        PROVE  h[k] = Grouped(h[k - 1], B[k])
    <3>1. /\ 1 .. k \in D /\ 1 .. k # {} /\ Max(1 .. k) = k
          /\ (1 .. k) \ {Max(1 .. k)} = 1 .. k - 1
      BY <1>1, FirstOnes
    <3>2. f[1 .. k] = Grouped(f[1 .. k - 1], B[k])
      BY <1>6, <3>1
    <3>3. k \in 0 .. n /\ k - 1 \in 0 .. n
      BY <1>1
    <3>. QED BY <3>2, <3>3
  <2>. QED BY <2>1
<1>. HIDE DEF Eq
<1>9. GroupWork(B) = h[n]
  <2>1. GroupWork(B) = f[DOMAIN B]
    BY <1>6 DEF GroupWork, FoldLeft, MapThenFoldSet, Eq
  <2>. QED BY <1>1, <2>1
<1>10. DOMAIN h = 0 .. n /\ h = [k \in 0 .. n |-> h[k]]
  OBVIOUS
<1>. HIDE DEF h
<1>. DEFINE T == {k \in 0 .. n : h[k] \in A}
<1>11. 0 \in T
  BY <1>1, <1>3, <1>7
<1>12. ASSUME NEW k \in 1 .. n, k - 1 \in T
       PROVE  k \in T
  <2>1. h[k - 1] \in A /\ B[k] \in Block /\ k \in 0 .. n
    BY <1>1, <1>12
  <2>2. Grouped(h[k - 1], B[k]) \in A
    BY <2>1, GroupedIs DEF A
  <2>. QED BY <1>8, <2>1, <2>2
<1>13. \A k \in 0 .. n : h[k] \in A
  <2>1. \A k \in 0 .. n : k \in T
    <3>. HIDE DEF T
    <3>. QED BY <1>1, <1>11, <1>12, UpTo
  <2>. QED BY <2>1
<1>14. h \in [0 .. n -> A]
  BY <1>10, <1>13
<1>. QED BY <1>7, <1>8, <1>9, <1>14 DEF n, A

\* One block more is one more to group.
LEMMA GroupMore ==
  ASSUME NEW B \in Seq(Block), NEW b \in Block
  PROVE  /\ GroupWork(B) \in Seq(Entry) /\ GroupWork(<< >>) = << >>
         /\ GroupWork(Append(B, b)) = Grouped(GroupWork(B), b)
<1>. DEFINE C == Append(B, b)
            n == Len(B)
<1>1. /\ C \in Seq(Block) /\ Len(C) = n + 1 /\ n \in Nat
      /\ \A i \in 1 .. n : C[i] = B[i]
      /\ C[n + 1] = b
  BY AppendIs
<1>. HIDE DEF C
<1>2. PICK h \in [0 .. n -> Seq(Entry)] :
        /\ h[0] = << >> /\ GroupWork(B) = h[n]
        /\ \A k \in 1 .. n : h[k] = Grouped(h[k - 1], B[k])
  BY GroupTrail
<1>3. PICK g \in [0 .. n + 1 -> Seq(Entry)] :
        /\ g[0] = << >> /\ GroupWork(C) = g[n + 1]
        /\ \A k \in 1 .. n + 1 : g[k] = Grouped(g[k - 1], C[k])
  <2>1. \E g \in [0 .. Len(C) -> Seq(Entry)] :
          /\ g[0] = << >> /\ GroupWork(C) = g[Len(C)]
          /\ \A k \in 1 .. Len(C) : g[k] = Grouped(g[k - 1], C[k])
    BY <1>1, GroupTrail
  <2>. QED BY <1>1, <2>1
<1>. HIDE DEF n
<1>. DEFINE T == {k \in 0 .. n : g[k] = h[k]}
<1>4. 0 \in T
  BY <1>1, <1>2, <1>3
<1>5. ASSUME NEW k \in 1 .. n, k - 1 \in T
      PROVE  k \in T
  <2>1. k \in 1 .. n + 1 /\ k \in 0 .. n
    BY <1>1
  <2>2. g[k] = Grouped(g[k - 1], C[k]) /\ h[k] = Grouped(h[k - 1], B[k]) /\ C[k] = B[k]
    BY <1>1, <1>2, <1>3, <2>1
  <2>3. g[k - 1] = h[k - 1]
    BY <1>5
  <2>. QED BY <2>1, <2>2, <2>3
<1>6. g[n] = h[n]
  <2>1. n \in T
    <3>. HIDE DEF T
    <3>. QED BY <1>1, <1>4, <1>5, UpTo
  <2>. QED BY <2>1
<1>7. g[n + 1] = Grouped(g[n], b) /\ n \in 0 .. n
  <2>1. n + 1 \in 1 .. n + 1 /\ n + 1 - 1 = n
    BY <1>1
  <2>. QED BY <1>1, <1>3, <2>1
<1>8. GroupWork(B) \in Seq(Entry)
  BY <1>2, <1>7
<1>9. GroupWork(<< >>) = << >>
  <2>1. << >> \in Seq(Block) /\ Len(<< >>) = 0
    OBVIOUS
  <2>. QED BY <2>1, GroupTrail
<1>. QED BY <1>2, <1>3, <1>6, <1>7, <1>8, <1>9 DEF C

-----------------------------------------------------------------------------
(* The summary of the changes. *)

\* What the summary says of a file.
Stat == [path : {tool.path : tool \in Tools}, edits : Nat]

\* The files that the lines changed, each with the number of its changes.
Summary(lines) == FoldLeft(MergeFileStat, << >>, lines)

\* A line that changed a file is the line of a call.
LEMMA ChangingIs ==
  ASSUME NEW b \in Block, ChangesFile(b)
  PROVE  IsWork(b) /\ b.tool \in Tools
<1>1. b.kind = "tool"
  BY DEF ChangesFile
<1>2. b \in [key : {"tool", "review"} \X Calls, kind : {"tool", "review"}, call : Calls,
             tool : Tools, args : BOOLEAN, status : {"running", "ended"}]
  BY <1>1 DEF Block
<1>. QED BY <1>1, <1>2 DEF IsWork

\* A change of a file counts for the file, which is new or there.
LEMMA MergedIs ==
  ASSUME NEW f \in Seq(Stat), NEW b \in Block
  PROVE  /\ MergeFileStat(f, b) \in Seq(Stat)
         /\ ~ChangesFile(b) => MergeFileStat(f, b) = f
         /\ ChangesFile(b) /\ (\A i \in DOMAIN f : f[i].path # b.tool.path) =>
              /\ DOMAIN MergeFileStat(f, b) = 1 .. Len(f) + 1
              /\ \A i \in DOMAIN f : MergeFileStat(f, b)[i] = f[i]
              /\ MergeFileStat(f, b)[Len(f) + 1] = [path |-> b.tool.path, edits |-> 1]
         /\ ChangesFile(b) /\ (\E i \in DOMAIN f : f[i].path = b.tool.path) =>
              /\ DOMAIN MergeFileStat(f, b) = DOMAIN f
              /\ \A i \in DOMAIN f :
                   /\ MergeFileStat(f, b)[i].path = f[i].path
                   /\ MergeFileStat(f, b)[i].edits =
                        IF f[i].path = b.tool.path THEN f[i].edits + 1 ELSE f[i].edits
<1>. DEFINE same == {i \in DOMAIN f : f[i].path = b.tool.path}
<1>1. Len(f) \in Nat /\ DOMAIN f = 1 .. Len(f) /\ \A i \in DOMAIN f : f[i] \in Stat
  OBVIOUS
<1>2. CASE ~ChangesFile(b)
  BY <1>2 DEF MergeFileStat
<1>3. CASE ChangesFile(b) /\ same = {}
  <2>. DEFINE e == [path |-> b.tool.path, edits |-> 1]
  <2>1. e \in Stat
    BY <1>3, ChangingIs DEF Stat
  <2>2. MergeFileStat(f, b) = Append(f, e)
    BY <1>3 DEF MergeFileStat
  <2>3. /\ Append(f, e) \in Seq(Stat) /\ DOMAIN Append(f, e) = 1 .. (Len(f) + 1)
        /\ \A i \in DOMAIN f : Append(f, e)[i] = f[i]
        /\ Append(f, e)[Len(f) + 1] = e
    <3>. HIDE DEF e
    <3>. QED BY <2>1, AppendIs
  <2>. QED BY <1>3, <2>2, <2>3
<1>4. CASE ChangesFile(b) /\ same # {}
  <2>. DEFINE m == [i \in DOMAIN f |-> IF i \in same THEN [f[i] EXCEPT !.edits = @ + 1] ELSE f[i]]
  <2>1. MergeFileStat(f, b) = m
    BY <1>4 DEF MergeFileStat
  <2>2. ASSUME NEW i \in DOMAIN f
        PROVE  /\ m[i] \in Stat /\ m[i].path = f[i].path
               /\ m[i].edits = IF f[i].path = b.tool.path THEN f[i].edits + 1 ELSE f[i].edits
    <3>1. f[i] \in Stat /\ f[i].edits \in Nat
      BY <1>1 DEF Stat
    <3>2. CASE f[i].path = b.tool.path
      <4>1. m[i] = [f[i] EXCEPT !.edits = f[i].edits + 1]
        BY <3>2
      <4>. QED BY <3>1, <3>2, <4>1 DEF Stat
    <3>3. CASE f[i].path # b.tool.path
      BY <3>1, <3>3
    <3>. QED BY <3>2, <3>3
  <2>3. DOMAIN m = DOMAIN f /\ m \in Seq(Stat)
    <3>1. m = [i \in 1 .. Len(f) |-> m[i]]
      BY <1>1
    <3>. QED BY <1>1, <2>2, <3>1
  <2>. HIDE DEF m
  <2>. QED BY <1>4, <2>1, <2>2, <2>3
<1>. QED BY <1>2, <1>3, <1>4

\* The summary is made of one line after the other.
LEMMA SummaryTrail ==
  ASSUME NEW B \in Seq(Block)
  PROVE  \E h \in [0 .. Len(B) -> Seq(Stat)] :
           /\ h[0] = << >> /\ Summary(B) = h[Len(B)]
           /\ \A k \in 1 .. Len(B) : h[k] = MergeFileStat(h[k - 1], B[k])
<1>. DEFINE n == Len(B)
            A == Seq(Stat)
            F == [p \in A \X Block |-> MergeFileStat(p[1], p[2])]
            D == SUBSET DOMAIN B
            Eq(g) == g = [s \in D |-> IF s = {} THEN << >> ELSE MergeFileStat(g[s \ {Max(s)}], B[Max(s)])]
<1>1. n \in Nat /\ DOMAIN B = 1 .. n /\ \A i \in 1 .. n : B[i] \in Block
  OBVIOUS
<1>2. F \in [A \X Block -> A] /\ \A a \in A, b \in Block : F[<<a, b>>] = MergeFileStat(a, b)
  BY MergedIs
<1>3. << >> \in A
  OBVIOUS
<1>. HIDE DEF n, F, A
<1>4. PICK g \in [D -> A] :
        g = [s \in D |-> IF s = {} THEN << >> ELSE F[<<g[s \ {Max(s)}], B[Max(s)]>>]]
  <2>1. \E g \in [D -> A] : IsFold(g, F, << >>, B)
    BY <1>2, <1>3, FoldExists
  <2>. QED BY <2>1 DEF IsFold
<1>5. Eq(g)
  <2>1. ASSUME NEW s \in D
        PROVE  (IF s = {} THEN << >> ELSE F[<<g[s \ {Max(s)}], B[Max(s)]>>]) =
               (IF s = {} THEN << >> ELSE MergeFileStat(g[s \ {Max(s)}], B[Max(s)]))
    <3>1. CASE s = {}
      BY <3>1
    <3>2. CASE s # {}
      <4>1. Max(s) \in s
        BY <1>1, <3>2, MaxIs
      <4>2. Max(s) \in 1 .. n /\ s \ {Max(s)} \in D
        BY <1>1, <4>1
      <4>3. g[s \ {Max(s)}] \in A /\ B[Max(s)] \in Block
        BY <1>1, <4>2
      <4>. QED BY <1>2, <3>2, <4>3
    <3>. QED BY <3>1, <3>2
  <2>. QED BY <1>4, <2>1
<1>6. PICK f : Eq(f) /\ f = (CHOOSE c : Eq(c))
  BY <1>5
<1>. DEFINE h == [k \in 0 .. n |-> f[1 .. k]]
<1>7. h[0] = << >>
  <2>1. 1 .. 0 = {} /\ {} \in D /\ 0 \in 0 .. n
    BY <1>1
  <2>. QED BY <1>6, <2>1
<1>8. \A k \in 1 .. n : h[k] = MergeFileStat(h[k - 1], B[k])
  <2>1. ASSUME NEW k \in 1 .. n
        PROVE  h[k] = MergeFileStat(h[k - 1], B[k])
    <3>1. /\ 1 .. k \in D /\ 1 .. k # {} /\ Max(1 .. k) = k
          /\ (1 .. k) \ {Max(1 .. k)} = 1 .. k - 1
      BY <1>1, FirstOnes
    <3>2. f[1 .. k] = MergeFileStat(f[1 .. k - 1], B[k])
      BY <1>6, <3>1
    <3>3. k \in 0 .. n /\ k - 1 \in 0 .. n
      BY <1>1
    <3>. QED BY <3>2, <3>3
  <2>. QED BY <2>1
<1>. HIDE DEF Eq
<1>9. Summary(B) = h[n]
  <2>1. Summary(B) = f[DOMAIN B]
    BY <1>6 DEF Summary, FoldLeft, MapThenFoldSet, Eq
  <2>. QED BY <1>1, <2>1
<1>10. DOMAIN h = 0 .. n /\ h = [k \in 0 .. n |-> h[k]]
  OBVIOUS
<1>. HIDE DEF h
<1>. DEFINE T == {k \in 0 .. n : h[k] \in A}
<1>11. 0 \in T
  BY <1>1, <1>3, <1>7
<1>12. ASSUME NEW k \in 1 .. n, k - 1 \in T
       PROVE  k \in T
  <2>1. h[k - 1] \in A /\ B[k] \in Block /\ k \in 0 .. n
    BY <1>1, <1>12
  <2>2. MergeFileStat(h[k - 1], B[k]) \in A
    BY <2>1, MergedIs DEF A
  <2>. QED BY <1>8, <2>1, <2>2
<1>13. \A k \in 0 .. n : h[k] \in A
  <2>1. \A k \in 0 .. n : k \in T
    <3>. HIDE DEF T
    <3>. QED BY <1>1, <1>11, <1>12, UpTo
  <2>. QED BY <2>1
<1>14. h \in [0 .. n -> A]
  BY <1>10, <1>13
<1>. QED BY <1>7, <1>8, <1>9, <1>14 DEF n, A

\* One line more is one more to sum up.
LEMMA SummaryMore ==
  ASSUME NEW B \in Seq(Block), NEW b \in Block
  PROVE  /\ Summary(B) \in Seq(Stat) /\ Summary(<< >>) = << >>
         /\ Summary(Append(B, b)) = MergeFileStat(Summary(B), b)
<1>. DEFINE C == Append(B, b)
            n == Len(B)
<1>1. /\ C \in Seq(Block) /\ Len(C) = n + 1 /\ n \in Nat
      /\ \A i \in 1 .. n : C[i] = B[i]
      /\ C[n + 1] = b
  BY AppendIs
<1>. HIDE DEF C
<1>2. PICK h \in [0 .. n -> Seq(Stat)] :
        /\ h[0] = << >> /\ Summary(B) = h[n]
        /\ \A k \in 1 .. n : h[k] = MergeFileStat(h[k - 1], B[k])
  BY SummaryTrail
<1>3. PICK g \in [0 .. n + 1 -> Seq(Stat)] :
        /\ g[0] = << >> /\ Summary(C) = g[n + 1]
        /\ \A k \in 1 .. n + 1 : g[k] = MergeFileStat(g[k - 1], C[k])
  <2>1. \E g \in [0 .. Len(C) -> Seq(Stat)] :
          /\ g[0] = << >> /\ Summary(C) = g[Len(C)]
          /\ \A k \in 1 .. Len(C) : g[k] = MergeFileStat(g[k - 1], C[k])
    BY <1>1, SummaryTrail
  <2>. QED BY <1>1, <2>1
<1>. HIDE DEF n
<1>. DEFINE T == {k \in 0 .. n : g[k] = h[k]}
<1>4. 0 \in T
  BY <1>1, <1>2, <1>3
<1>5. ASSUME NEW k \in 1 .. n, k - 1 \in T
      PROVE  k \in T
  <2>1. k \in 1 .. n + 1 /\ k \in 0 .. n
    BY <1>1
  <2>2. g[k] = MergeFileStat(g[k - 1], C[k]) /\ h[k] = MergeFileStat(h[k - 1], B[k]) /\ C[k] = B[k]
    BY <1>1, <1>2, <1>3, <2>1
  <2>3. g[k - 1] = h[k - 1]
    BY <1>5
  <2>. QED BY <2>1, <2>2, <2>3
<1>6. g[n] = h[n]
  <2>1. n \in T
    <3>. HIDE DEF T
    <3>. QED BY <1>1, <1>4, <1>5, UpTo
  <2>. QED BY <2>1
<1>7. g[n + 1] = MergeFileStat(g[n], b) /\ n \in 0 .. n
  <2>1. n + 1 \in 1 .. n + 1 /\ n + 1 - 1 = n
    BY <1>1
  <2>. QED BY <1>1, <1>3, <2>1
<1>8. Summary(B) \in Seq(Stat)
  BY <1>2, <1>7
<1>9. Summary(<< >>) = << >>
  <2>1. << >> \in Seq(Block) /\ Len(<< >>) = 0
    OBVIOUS
  <2>. QED BY <2>1, SummaryTrail
<1>. QED BY <1>2, <1>3, <1>6, <1>7, <1>8, <1>9 DEF C

\* The blocks that changed a file.
ChangesIn(B, path) == {i \in DOMAIN B : ChangesFile(B[i]) /\ B[i].tool.path = path}

\* The summary of the blocks: each file that was changed, once, with all its changes.
Summed(B, f) ==
  /\ \A i, j \in DOMAIN f : f[i].path = f[j].path => i = j
  /\ \A i \in DOMAIN f : f[i].edits = Cardinality(ChangesIn(B, f[i].path))
  /\ \A i \in DOMAIN B : ChangesFile(B[i]) => \E j \in DOMAIN f : f[j].path = B[i].tool.path

\* With a block more, the summary is of one block more.
LEMMA SummedMore ==
  ASSUME NEW B \in Seq(Block), NEW b \in Block, NEW f \in Seq(Stat), Summed(B, f)
  PROVE  Summed(Append(B, b), MergeFileStat(f, b))
<1>. DEFINE C == Append(B, b)
            m == MergeFileStat(f, b)
            n == Len(B)
            path == b.tool.path
<1>1. /\ n \in Nat /\ DOMAIN B = 1 .. n /\ DOMAIN C = 1 .. (n + 1)
      /\ \A i \in DOMAIN B : C[i] = B[i]
      /\ C[n + 1] = b
  BY AppendIs
<1>2. Len(f) \in Nat /\ DOMAIN f = 1 .. Len(f) /\ \A i \in DOMAIN f : f[i] \in Stat
  OBVIOUS
<1>. HIDE DEF C, n
<1>3. \A q : IsFiniteSet(ChangesIn(B, q)) /\ n + 1 \notin ChangesIn(B, q)
  <2>1. ASSUME NEW q
        PROVE  IsFiniteSet(ChangesIn(B, q)) /\ n + 1 \notin ChangesIn(B, q)
    <3>1. IsFiniteSet(1 .. n)
      BY <1>1, FS_Interval
    <3>2. ChangesIn(B, q) \subseteq 1 .. n
      BY <1>1 DEF ChangesIn
    <3>. QED BY <1>1, <3>1, <3>2, FS_Subset
  <2>. QED BY <2>1
<1>4. \A q : ~(ChangesFile(b) /\ path = q) => ChangesIn(C, q) = ChangesIn(B, q)
  BY <1>1 DEF ChangesIn
<1>5. ChangesFile(b) =>
        /\ ChangesIn(C, path) = ChangesIn(B, path) \cup {n + 1}
        /\ Cardinality(ChangesIn(C, path)) = Cardinality(ChangesIn(B, path)) + 1
  <2>1. ChangesFile(b) => ChangesIn(C, path) = ChangesIn(B, path) \cup {n + 1}
    BY <1>1 DEF ChangesIn
  <2>2. Cardinality(ChangesIn(B, path) \cup {n + 1}) = Cardinality(ChangesIn(B, path)) + 1
    BY <1>3, FS_AddElement
  <2>. QED BY <2>1, <2>2
<1>. HIDE DEF path
<1>6. CASE ~ChangesFile(b)
  <2>1. m = f
    BY <1>6, MergedIs
  <2>2. \A i \in DOMAIN C : ChangesFile(C[i]) => i \in DOMAIN B
    BY <1>1, <1>6
  <2>. QED BY <1>1, <1>4, <1>6, <2>1, <2>2 DEF Summed, C
<1>7. CASE ChangesFile(b) /\ \A i \in DOMAIN f : f[i].path # path
  <2>1. /\ DOMAIN m = 1 .. Len(f) + 1
        /\ \A i \in DOMAIN f : m[i] = f[i]
        /\ m[Len(f) + 1].path = path /\ m[Len(f) + 1].edits = 1
    <3>1. /\ DOMAIN m = 1 .. Len(f) + 1
          /\ \A i \in DOMAIN f : m[i] = f[i]
          /\ m[Len(f) + 1] = [path |-> b.tool.path, edits |-> 1]
      BY <1>7, MergedIs DEF path
    <3>. HIDE DEF m
    <3>. QED BY <3>1 DEF path
  <2>. HIDE DEF m
  <2>2. ChangesIn(B, path) = {}
    BY <1>7 DEF Summed, ChangesIn
  <2>3. Cardinality(ChangesIn(C, path)) = 1
    BY <1>5, <1>7, <2>2, FS_EmptySet
  <2>4. \A i \in DOMAIN m : i \in DOMAIN f \/ i = Len(f) + 1
    BY <1>2, <2>1
  <2>5. \A i, j \in DOMAIN m : m[i].path = m[j].path => i = j
    BY <1>7, <2>1, <2>4 DEF Summed
  <2>6. \A i \in DOMAIN m : m[i].edits = Cardinality(ChangesIn(C, m[i].path))
    BY <1>4, <1>7, <2>1, <2>3, <2>4 DEF Summed
  <2>7. \A i \in DOMAIN C : ChangesFile(C[i]) => \E j \in DOMAIN m : m[j].path = C[i].tool.path
    <3>1. ASSUME NEW i \in DOMAIN C, ChangesFile(C[i])
          PROVE  \E j \in DOMAIN m : m[j].path = C[i].tool.path
      <4>1. CASE i \in DOMAIN B
        <5>1. C[i] = B[i]
          BY <1>1, <4>1
        <5>2. PICK j \in DOMAIN f : f[j].path = B[i].tool.path
          BY <3>1, <4>1, <5>1 DEF Summed
        <5>3. j \in DOMAIN m /\ m[j] = f[j]
          BY <1>2, <2>1, <5>2
        <5>. QED BY <5>1, <5>2, <5>3
      <4>2. CASE i = n + 1
        <5>1. Len(f) + 1 \in DOMAIN m
          BY <1>2, <2>1
        <5>. QED BY <1>1, <2>1, <4>2, <5>1 DEF path
      <4>. QED BY <1>1, <4>1, <4>2
    <3>. QED BY <3>1
  <2>. QED BY <2>5, <2>6, <2>7 DEF Summed, C, m
<1>8. CASE ChangesFile(b) /\ \E i \in DOMAIN f : f[i].path = path
  <2>1. /\ DOMAIN m = DOMAIN f
        /\ \A i \in DOMAIN f :
             /\ m[i].path = f[i].path
             /\ m[i].edits = IF f[i].path = path THEN f[i].edits + 1 ELSE f[i].edits
    BY <1>8, MergedIs DEF path
  <2>. HIDE DEF m
  <2>2. \A i, j \in DOMAIN m : m[i].path = m[j].path => i = j
    BY <2>1 DEF Summed
  <2>3. \A i \in DOMAIN m : m[i].edits = Cardinality(ChangesIn(C, m[i].path))
    BY <1>4, <1>5, <1>8, <2>1 DEF Summed
  <2>4. \A i \in DOMAIN C : ChangesFile(C[i]) => \E j \in DOMAIN m : m[j].path = C[i].tool.path
    <3>1. ASSUME NEW i \in DOMAIN C, ChangesFile(C[i])
          PROVE  \E j \in DOMAIN m : m[j].path = C[i].tool.path
      <4>1. CASE i \in DOMAIN B
        BY <1>1, <2>1, <3>1, <4>1 DEF Summed
      <4>2. CASE i = n + 1
        BY <1>1, <1>8, <2>1, <4>2 DEF path
      <4>. QED BY <1>1, <4>1, <4>2
    <3>. QED BY <3>1
  <2>. QED BY <2>2, <2>3, <2>4 DEF Summed, C, m
<1>. QED BY <1>6, <1>7, <1>8

-----------------------------------------------------------------------------
(* What the groups hold, and where it is. *)

\* An entry more has its part, of one element, last; a group that gets a line has one more.
PartsGrow(g, b, T, own, new, x) ==
  /\ x \in T /\ own \in PartsOf(T) /\ new \in PartsOf(T)
  /\ Len(own) = Len(g) /\ Len(new) = Len(Grouped(g, b))
  /\ \A i \in 1 .. Len(g) : i \in 1 .. Len(new) /\ Grouped(g, b)[i] = g[i] => new[i] = own[i]
  /\ IsWork(b) /\ EndsInGroup(g) => new[Len(g)] = Append(own[Len(g)], x)
  /\ ~(IsWork(b) /\ EndsInGroup(g)) => new[Len(g) + 1] = <<x>>

\* So together they have one element more.
LEMMA PartsMore ==
  ASSUME NEW g \in Seq(Entry), NEW b \in Block, Visible(b), NEW T, NEW own, NEW new, NEW x,
         PartsGrow(g, b, T, own, new, x)
  PROVE  FlattenSeq(new) = Append(FlattenSeq(own), x)
<1>0. /\ x \in T /\ own \in PartsOf(T) /\ new \in PartsOf(T)
      /\ Len(own) = Len(g) /\ Len(new) = Len(Grouped(g, b))
      /\ \A i \in 1 .. Len(g) : i \in 1 .. Len(new) /\ Grouped(g, b)[i] = g[i] => new[i] = own[i]
      /\ IsWork(b) /\ EndsInGroup(g) => new[Len(g)] = Append(own[Len(g)], x)
      /\ ~(IsWork(b) /\ EndsInGroup(g)) => new[Len(g) + 1] = <<x>>
  BY DEF PartsGrow
<1>. DEFINE n == Len(g)
            h == Grouped(g, b)
<1>1. n \in Nat /\ <<x>> \in Seq(T) /\ FlattenSeq(own) \in Seq(T)
  <2>1. \E t \in [0 .. Len(own) -> Seq(T)] : Trail(own, t) /\ FlattenSeq(own) = t[Len(own)]
    BY <1>0, FlatTrail
  <2>2. Len(own) \in 0 .. Len(own)
    BY <1>0, PartsAre
  <2>. QED BY <1>0, <2>1, <2>2
<1>2. CASE IsWork(b) /\ EndsInGroup(g)
  <2>1. PICK e : h = [g EXCEPT ![n] = e]
    <3>1. \E e \in Group : /\ e.key = g[n].key /\ e.items = Append(g[n].items, b)
                           /\ g[n] \in Group /\ h = [g EXCEPT ![n] = e]
      BY <1>2, JoinsGroup
    <3>. HIDE DEF h, n
    <3>. QED BY <3>1
  <2>2. Len(h) = n /\ \A i \in 1 .. n - 1 : h[i] = g[i]
    <3>1. n # 0 /\ DOMAIN g = 1 .. n
      BY <1>1, <1>2 DEF EndsInGroup
    <3>2. h \in Seq(Entry) /\ DOMAIN h = 1 .. n /\ \A i \in 1 .. n - 1 : h[i] = g[i]
      <4>1. h \in Seq(Entry)
        BY GroupedIs
      <4>. HIDE DEF h, n
      <4>2. DOMAIN h = DOMAIN g
        BY <2>1
      <4>3. ASSUME NEW i \in 1 .. n - 1
            PROVE  h[i] = g[i]
        <5>1. i \in DOMAIN g /\ i # n
          BY <1>1, <3>1
        <5>. QED BY <2>1, <5>1
      <4>. QED BY <3>1, <4>1, <4>2, <4>3
    <3>. HIDE DEF h, n
    <3>. QED BY <1>1, <3>2
  <2>. HIDE DEF h
  <2>3. /\ Len(own) = n /\ Len(new) = n /\ n # 0
        /\ \A i \in 1 .. n - 1 : new[i] = own[i]
    BY <1>0, <1>1, <1>2, <2>2 DEF EndsInGroup, h
  <2>4. new[n] = own[n] \o <<x>>
    <3>1. own[n] \in Seq(T)
      BY <1>0, <1>1, <2>3, PartsAre
    <3>2. Append(own[n], x) = own[n] \o <<x>>
      BY <3>1, AppendIsConcat
    <3>. QED BY <1>0, <1>2, <3>2
  <2>5. FlattenSeq(new) = FlattenSeq(own) \o <<x>>
    BY <1>0, <1>1, <2>3, <2>4, FlatLast
  <2>. QED BY <1>0, <1>1, <1>2, <2>5, AppendIsConcat
<1>3. CASE ~(IsWork(b) /\ EndsInGroup(g))
  <2>1. PICK e \in Entry : h = Append(g, e)
    <3>1. b \in Entry /\ Group \subseteq Entry
      BY DEF Entry
    <3>. QED BY <1>3, <3>1, GroupedIs
  <2>2. Len(h) = n + 1 /\ \A i \in 1 .. n : h[i] = g[i]
    BY <1>1, <2>1
  <2>. HIDE DEF h
  <2>3. /\ Len(own) = n /\ Len(new) = n + 1
        /\ \A i \in 1 .. n : new[i] = own[i]
    BY <1>0, <1>1, <2>2 DEF h
  <2>4. FlattenSeq(new) = FlattenSeq(own) \o new[n + 1]
    BY <1>0, <2>3, FlatMore
  <2>. QED BY <1>0, <1>1, <1>3, <2>4, AppendIsConcat
<1>. QED BY <1>2, <1>3

\* What is in an entry as an item of a group.
ItemsOf(e) == IF e.kind = "work" THEN e.items ELSE << >>

\* The items of the groups are the lines.
LEMMA ItemsMore ==
  ASSUME NEW g \in Seq(Entry), NEW b \in Block
  PROVE  /\ Items(g) \in Seq(Block)
         /\ Items(Grouped(g, b)) = IF IsWork(b) THEN Append(Items(g), b) ELSE Items(g)
<1>. DEFINE n == Len(g)
            h == Grouped(g, b)
            own == [i \in DOMAIN g |-> ItemsOf(g[i])]
            new == [i \in DOMAIN h |-> ItemsOf(h[i])]
<1>1. ASSUME NEW e \in Entry
      PROVE  ItemsOf(e) \in Seq(Block)
  BY <1>1, EntryIs DEF ItemsOf, Group
<1>2. ASSUME NEW k \in Seq(Entry)
      PROVE  /\ [i \in DOMAIN k |-> ItemsOf(k[i])] \in PartsOf(Block)
             /\ Len([i \in DOMAIN k |-> ItemsOf(k[i])]) = Len(k)
             /\ Items(k) = FlattenSeq([i \in DOMAIN k |-> ItemsOf(k[i])])
             /\ Items(k) \in Seq(Block)
  <2>. DEFINE parts == [i \in 1 .. Len(k) |-> ItemsOf(k[i])]
  <2>1. DOMAIN k = 1 .. Len(k) /\ Len(k) \in Nat /\ \A i \in 1 .. Len(k) : k[i] \in Entry
    OBVIOUS
  <2>2. \A i \in 1 .. Len(k) : ItemsOf(k[i]) \in Seq(Block)
    BY <1>1, <2>1
  <2>3. parts \in PartsOf(Block) /\ Len(parts) = Len(k)
    <3>1. parts \in [1 .. Len(k) -> Seq(Block)] /\ DOMAIN parts = 1 .. Len(k)
      BY <2>2
    <3>. HIDE DEF parts
    <3>. QED BY <2>1, <3>1, IsASeq DEF PartsOf
  <2>4. Items(k) = FlattenSeq(parts)
    BY <2>1 DEF Items, ItemsOf
  <2>. HIDE DEF parts
  <2>5. Items(k) \in Seq(Block)
    <3>1. \E t \in [0 .. Len(parts) -> Seq(Block)] : FlattenSeq(parts) = t[Len(parts)]
      BY <2>3, FlatTrail
    <3>2. Len(parts) \in 0 .. Len(parts)
      BY <2>1, <2>3
    <3>. QED BY <2>4, <3>1, <3>2
  <2>. QED BY <2>1, <2>3, <2>4, <2>5 DEF parts
<1>3. /\ h \in Seq(Entry) /\ n \in Nat /\ DOMAIN g = 1 .. n
      /\ DOMAIN h = 1 .. Len(h) /\ Len(h) \in Nat
  BY GroupedIs
<1>4. /\ own \in PartsOf(Block) /\ Len(own) = n /\ Items(g) = FlattenSeq(own)
      /\ new \in PartsOf(Block) /\ Len(new) = Len(h) /\ Items(h) = FlattenSeq(new)
      /\ Items(g) \in Seq(Block)
  <2>. HIDE DEF h
  <2>. QED BY <1>2, <1>3
<1>5. \A i \in DOMAIN h : new[i] = ItemsOf(h[i])
  OBVIOUS
<1>6. \A i \in DOMAIN g : own[i] = ItemsOf(g[i])
  OBVIOUS
<1>. HIDE DEF own, new
<1>7. CASE IsWork(b) /\ EndsInGroup(g)
  <2>1. PICK e \in Group : e.items = Append(g[n].items, b) /\ g[n] \in Group /\ h = [g EXCEPT ![n] = e]
    BY <1>7, JoinsGroup
  <2>2. n \in DOMAIN g /\ DOMAIN h = DOMAIN g /\ h[n] = e
    <3>1. n \in DOMAIN g
      BY <1>3, <1>7 DEF EndsInGroup
    <3>. HIDE DEF h
    <3>. QED BY <2>1, <3>1
  <2>3. new[n] = Append(own[n], b)
    <3>1. e.kind = "work" /\ g[n].kind = "work"
      BY <2>1 DEF Group
    <3>. QED BY <1>5, <1>6, <2>1, <2>2, <3>1 DEF ItemsOf
  <2>4. \A i \in 1 .. n : i \in 1 .. Len(new) /\ h[i] = g[i] => new[i] = own[i]
    BY <1>3, <1>4, <1>5, <1>6
  <2>5. PartsGrow(g, b, Block, own, new, b)
    BY <1>4, <1>7, <2>3, <2>4 DEF PartsGrow
  <2>6. FlattenSeq(new) = Append(FlattenSeq(own), b)
    BY <1>7, <2>5, PartsMore, WorkIsVisible
  <2>. QED BY <1>4, <1>7, <2>6
<1>8. CASE ~(IsWork(b) /\ EndsInGroup(g))
  <2>1. \A i \in 1 .. n : i \in 1 .. Len(new) /\ h[i] = g[i] => new[i] = own[i]
    BY <1>3, <1>4, <1>5, <1>6
  <2>2. CASE IsWork(b)
    <3>1. PICK e \in Group : e.items = <<b>> /\ h = Append(g, e)
      <4>1. ~EndsInGroup(g)
        BY <1>8, <2>2
      <4>. QED BY <2>2, <4>1, BeginsGroup
    <3>2. n + 1 \in DOMAIN h /\ h[n + 1] = e
      <4>1. e \in Entry
        BY DEF Entry
      <4>. HIDE DEF h
      <4>. QED BY <1>3, <3>1, <4>1
    <3>3. new[n + 1] = <<b>>
      <4>1. e.kind = "work"
        BY DEF Group
      <4>. QED BY <1>5, <3>1, <3>2, <4>1 DEF ItemsOf
    <3>4. PartsGrow(g, b, Block, own, new, b)
      BY <1>4, <1>8, <2>1, <3>3 DEF PartsGrow
    <3>5. FlattenSeq(new) = Append(FlattenSeq(own), b)
      BY <2>2, <3>4, PartsMore, WorkIsVisible
    <3>. QED BY <1>4, <2>2, <3>5
  <2>3. CASE Visible(b) /\ ~IsWork(b)
    <3>1. h = Append(g, b) /\ b \in Entry
      BY <2>3, GroupedIs DEF Entry
    <3>2. n + 1 \in DOMAIN h /\ h[n + 1] = b
      <4>. HIDE DEF h
      <4>. QED BY <1>3, <3>1
    <3>3. new[n + 1] = << >>
      <4>1. b.kind # "work"
        BY BlockIs
      <4>. QED BY <1>5, <3>2, <4>1 DEF ItemsOf
    <3>4. Len(new) = n + 1 /\ \A i \in 1 .. n : new[i] = own[i]
      <4>1. /\ Len(h) = n + 1 /\ \A i \in 1 .. n : h[i] = g[i] /\ i \in 1 .. Len(h)
        <5>. HIDE DEF h
        <5>. QED BY <1>3, <3>1
      <4>. QED BY <1>4, <2>1, <4>1
    <3>5. FlattenSeq(new) = FlattenSeq(own) \o << >>
      BY <1>4, <3>3, <3>4, FlatMore
    <3>6. FlattenSeq(new) = FlattenSeq(own)
      BY <1>4, <3>5, ConcatEmptySeq
    <3>. QED BY <1>4, <2>3, <3>6
  <2>4. CASE ~Visible(b)
    <3>1. h = g /\ ~IsWork(b)
      BY <2>4, GroupedIs, WorkIsVisible
    <3>. QED BY <1>4, <3>1
  <2>. QED BY <2>2, <2>3, <2>4
<1>. QED BY <1>7, <1>8

\* The summary below the groups is that of their blocks.
LEMMA AllSummed ==
  ASSUME NEW B \in Seq(Block)
  PROVE  Summed(B, CollectFileChanges(GroupWork(B)))
<1>. DEFINE F(C) == CollectFileChanges(GroupWork(C))
            T == {C \in Seq(Block) : Summed(C, F(C))}
<1>1. ASSUME NEW C \in Seq(Block)
      PROVE  F(C) = Summary(Items(GroupWork(C))) /\ F(C) \in Seq(Stat)
  <2>1. GroupWork(C) \in Seq(Entry)
    <3>1. PICK h \in [0 .. Len(C) -> Seq(Entry)] : GroupWork(C) = h[Len(C)]
      BY GroupTrail
    <3>2. Len(C) \in 0 .. Len(C)
      OBVIOUS
    <3>. QED BY <3>1, <3>2
  <2>2. Items(GroupWork(C)) \in Seq(Block)
    <3>1. PICK b : b = [key |-> <<"log", 0>>, kind |-> "log"]
      OBVIOUS
    <3>2. b \in Block
      BY <3>1 DEF Block
    <3>. QED BY <2>1, <3>2, ItemsMore
  <2>3. F(C) = Summary(Items(GroupWork(C)))
    BY DEF CollectFileChanges, Summary
  <2>4. Summary(Items(GroupWork(C))) \in Seq(Stat)
    <3>1. PICK h \in [0 .. Len(Items(GroupWork(C))) -> Seq(Stat)] :
            Summary(Items(GroupWork(C))) = h[Len(Items(GroupWork(C)))]
      BY <2>2, SummaryTrail
    <3>2. Len(Items(GroupWork(C))) \in 0 .. Len(Items(GroupWork(C)))
      BY <2>2
    <3>. QED BY <3>1, <3>2
  <2>. QED BY <2>3, <2>4
<1>2. << >> \in T
  <2>1. << >> \in Seq(Block) /\ DOMAIN << >> = {}
    OBVIOUS
  <2>2. GroupWork(<< >>) = << >>
    <3>1. [key |-> <<"log", 0>>, kind |-> "log"] \in Block
      BY DEF Block
    <3>. QED BY <2>1, <3>1, GroupMore
  <2>3. F(<< >>) = << >>
    <3>1. Items(<< >>) = << >>
      BY DEF Items, FlattenSeq
    <3>2. Summary(<< >>) = << >>
      <4>1. Len(<< >>) = 0
        OBVIOUS
      <4>. QED BY <2>1, <4>1, SummaryTrail
    <3>. QED BY <1>1, <2>1, <2>2, <3>1, <3>2
  <2>. HIDE DEF F
  <2>4. Summed(<< >>, << >>)
    BY <2>1 DEF Summed
  <2>. QED BY <2>1, <2>3, <2>4
<1>3. ASSUME NEW C \in Seq(Block), C \in T, NEW b \in Block
      PROVE  Append(C, b) \in T
  <2>. DEFINE D == Append(C, b)
              g == GroupWork(C)
  <2>1. D \in Seq(Block) /\ g \in Seq(Entry) /\ GroupWork(D) = Grouped(g, b)
    BY GroupMore
  <2>2. Items(g) \in Seq(Block) /\ Items(GroupWork(D)) = IF IsWork(b) THEN Append(Items(g), b) ELSE Items(g)
    BY <2>1, ItemsMore
  <2>3. F(D) = MergeFileStat(F(C), b)
    <3>1. F(D) = Summary(Items(GroupWork(D))) /\ F(C) = Summary(Items(g)) /\ F(C) \in Seq(Stat)
      BY <1>1, <2>1
    <3>. HIDE DEF F, D, g
    <3>2. CASE IsWork(b)
      BY <2>2, <3>1, <3>2, SummaryMore
    <3>3. CASE ~IsWork(b)
      <4>1. ~ChangesFile(b)
        BY <3>3, ChangingIs
      <4>2. MergeFileStat(F(C), b) = F(C)
        BY <3>1, <4>1, MergedIs
      <4>. QED BY <2>2, <3>1, <3>3, <4>2
    <3>. QED BY <3>2, <3>3
  <2>4. F(C) \in Seq(Stat) /\ Summed(C, F(C))
    BY <1>1, <1>3
  <2>. HIDE DEF F
  <2>5. Summed(D, F(D))
    BY <2>3, <2>4, SummedMore
  <2>. QED BY <2>1, <2>5
<1>4. B \in T
  <2>. HIDE DEF T
  <2>. QED BY <1>2, <1>3, OneMore
<1>. QED BY <1>4

\* The keys that things are known by.
Keys == {e.key : e \in Entry}

\* Where the things of an entry are.
PlacesOf(e) ==
  IF e.kind # "work" THEN << <<e.key, e.key>> >>
  ELSE [j \in DOMAIN e.items |-> <<e.key, e.items[j].key>>]

\* By which key a block is shown that comes after these groups.
KeyAfter(g, b) ==
  IF ~IsWork(b) THEN b.key
  ELSE IF EndsInGroup(g) THEN g[Len(g)].key ELSE <<"work", b.key[1], b.key[2]>>

\* The places of the groups, taken together.
LEMMA PlacesTogether ==
  ASSUME NEW k \in Seq(Entry)
  PROVE  /\ [i \in DOMAIN k |-> PlacesOf(k[i])] \in PartsOf(Keys \X Keys)
         /\ Len([i \in DOMAIN k |-> PlacesOf(k[i])]) = Len(k)
         /\ Places(k) = FlattenSeq([i \in DOMAIN k |-> PlacesOf(k[i])])
         /\ Places(k) \in Seq(Keys \X Keys)
<1>1. ASSUME NEW e \in Entry
      PROVE  PlacesOf(e) \in Seq(Keys \X Keys)
  <2>1. e.key \in Keys /\ \A b \in Block : b.key \in Keys
    BY DEF Keys, Entry
  <2>2. CASE e.kind # "work"
    BY <2>1, <2>2 DEF PlacesOf
  <2>3. CASE e.kind = "work"
    <3>1. e.items \in Seq(Block)
      BY <2>3, EntryIs DEF Group
    <3>2. PICK s \in Seq(Block) : s = e.items
      BY <3>1
    <3>3. DOMAIN s = 1 .. Len(s) /\ Len(s) \in Nat /\ \A j \in 1 .. Len(s) : s[j] \in Block
      OBVIOUS
    <3>4. [j \in 1 .. Len(s) |-> <<e.key, s[j].key>>] \in Seq(Keys \X Keys)
      BY <2>1, <3>3
    <3>. QED BY <2>3, <3>2, <3>3, <3>4 DEF PlacesOf
  <2>. QED BY <2>2, <2>3
<1>. DEFINE parts == [i \in 1 .. Len(k) |-> PlacesOf(k[i])]
<1>2. DOMAIN k = 1 .. Len(k) /\ Len(k) \in Nat /\ \A i \in 1 .. Len(k) : k[i] \in Entry
  OBVIOUS
<1>3. \A i \in 1 .. Len(k) : PlacesOf(k[i]) \in Seq(Keys \X Keys)
  BY <1>1, <1>2
<1>4. parts \in PartsOf(Keys \X Keys) /\ Len(parts) = Len(k)
  <2>1. parts \in [1 .. Len(k) -> Seq(Keys \X Keys)] /\ DOMAIN parts = 1 .. Len(k)
    BY <1>3
  <2>. HIDE DEF parts
  <2>. QED BY <1>2, <2>1, IsASeq DEF PartsOf
<1>5. Places(k) = FlattenSeq(parts)
  BY <1>2 DEF Places, PlacesOf
<1>. HIDE DEF parts
<1>6. Places(k) \in Seq(Keys \X Keys)
  <2>1. \E t \in [0 .. Len(parts) -> Seq(Keys \X Keys)] : FlattenSeq(parts) = t[Len(parts)]
    BY <1>4, FlatTrail
  <2>2. Len(parts) \in 0 .. Len(parts)
    BY <1>2, <1>4
  <2>. QED BY <1>5, <2>1, <2>2
<1>. QED BY <1>2, <1>4, <1>5, <1>6 DEF parts

\* A block more that is shown has its place last.
LEMMA PlacesMore ==
  ASSUME NEW g \in Seq(Entry), NEW b \in Block, Visible(b)
  PROVE  /\ Places(g) \in Seq(Keys \X Keys)
         /\ <<KeyAfter(g, b), b.key>> \in Keys \X Keys
         /\ Places(Grouped(g, b)) = Append(Places(g), <<KeyAfter(g, b), b.key>>)
<1>. DEFINE n == Len(g)
            h == Grouped(g, b)
            own == [i \in DOMAIN g |-> PlacesOf(g[i])]
            new == [i \in DOMAIN h |-> PlacesOf(h[i])]
            x == <<KeyAfter(g, b), b.key>>
<1>1. /\ h \in Seq(Entry) /\ n \in Nat /\ DOMAIN g = 1 .. n
      /\ DOMAIN h = 1 .. Len(h) /\ Len(h) \in Nat
      /\ b \in Entry /\ Group \subseteq Entry
  BY GroupedIs DEF Entry
<1>2. /\ own \in PartsOf(Keys \X Keys) /\ Len(own) = n /\ Places(g) = FlattenSeq(own)
      /\ new \in PartsOf(Keys \X Keys) /\ Len(new) = Len(h) /\ Places(h) = FlattenSeq(new)
      /\ Places(g) \in Seq(Keys \X Keys)
  <2>. HIDE DEF h
  <2>. QED BY <1>1, PlacesTogether
<1>3. \A i \in DOMAIN h : new[i] = PlacesOf(h[i])
  OBVIOUS
<1>4. \A i \in DOMAIN g : own[i] = PlacesOf(g[i])
  OBVIOUS
<1>. HIDE DEF own, new
<1>5. \A i \in 1 .. n : i \in 1 .. Len(new) /\ h[i] = g[i] => new[i] = own[i]
  BY <1>1, <1>2, <1>3, <1>4
<1>6. b.key \in Keys /\ \A e \in Group : e.key \in Keys
  BY <1>1 DEF Keys
<1>7. CASE IsWork(b) /\ EndsInGroup(g)
  <2>1. PICK e \in Group : /\ e.key = g[n].key /\ e.items = Append(g[n].items, b)
                           /\ g[n] \in Group /\ h = [g EXCEPT ![n] = e]
    BY <1>7, JoinsGroup
  <2>2. n \in DOMAIN g /\ DOMAIN h = DOMAIN g /\ h[n] = e
    <3>1. n \in DOMAIN g
      BY <1>1, <1>7 DEF EndsInGroup
    <3>. HIDE DEF h
    <3>. QED BY <2>1, <3>1
  <2>3. KeyAfter(g, b) = e.key
    BY <1>7, <2>1 DEF KeyAfter
  <2>4. new[n] = Append(own[n], x)
    <3>1. e.kind = "work" /\ g[n].kind = "work" /\ g[n].items \in Seq(Block)
      BY <2>1 DEF Group
    <3>2. PICK s \in Seq(Block) : s = g[n].items
      BY <3>1
    <3>3. own[n] = [j \in DOMAIN s |-> <<e.key, s[j].key>>]
      BY <1>4, <2>1, <2>2, <3>1, <3>2 DEF PlacesOf
    <3>. DEFINE u == Append(s, b)
    <3>4. new[n] = [j \in DOMAIN u |-> <<e.key, u[j].key>>]
      <4>1. e.items = u /\ new[n] = PlacesOf(e)
        BY <1>3, <2>1, <2>2, <3>2
      <4>. HIDE DEF u, h
      <4>. QED BY <3>1, <4>1 DEF PlacesOf
    <3>5. /\ DOMAIN s = 1 .. Len(s) /\ Len(s) \in Nat /\ DOMAIN Append(s, b) = 1 .. (Len(s) + 1)
          /\ \A j \in DOMAIN s : Append(s, b)[j] = s[j] /\ s[j] \in Block
          /\ Append(s, b)[Len(s) + 1] = b
      BY AppendIs
    <3>6. own[n] \in Seq(Keys \X Keys) /\ new[n] \in Seq(Keys \X Keys)
      BY <1>1, <1>2, <2>2, PartsAre
    <3>7. x = <<e.key, b.key>> /\ x \in Keys \X Keys
      BY <1>6, <2>3
    <3>. HIDE DEF x
    <3>8. /\ Len(own[n]) = Len(s) /\ Len(new[n]) = Len(s) + 1
          /\ \A j \in 1 .. Len(s) : new[n][j] = own[n][j]
          /\ new[n][Len(s) + 1] = x
      BY <3>3, <3>4, <3>5, <3>6, <3>7
    <3>9. /\ Append(own[n], x) \in Seq(Keys \X Keys) /\ Len(Append(own[n], x)) = Len(s) + 1
          /\ \A j \in 1 .. Len(s) : Append(own[n], x)[j] = own[n][j]
          /\ Append(own[n], x)[Len(s) + 1] = x
      BY <3>6, <3>7, <3>8, AppendProperties
    <3>10. \A j \in 1 .. Len(s) + 1 : new[n][j] = Append(own[n], x)[j]
      BY <3>5, <3>8, <3>9
    <3>. QED BY <3>6, <3>8, <3>9, <3>10, SeqEqual
  <2>5. x \in Keys \X Keys
    BY <1>6, <2>3
  <2>. HIDE DEF x
  <2>6. PartsGrow(g, b, Keys \X Keys, own, new, x)
    BY <1>2, <1>5, <1>7, <2>4, <2>5 DEF PartsGrow
  <2>7. FlattenSeq(new) = Append(FlattenSeq(own), x)
    BY <2>6, PartsMore
  <2>. QED BY <1>2, <2>5, <2>7 DEF x
<1>8. CASE ~(IsWork(b) /\ EndsInGroup(g))
  <2>1. PICK e \in Entry : h = Append(g, e) /\ PlacesOf(e) = <<x>> /\ KeyAfter(g, b) = e.key
    <3>1. CASE ~IsWork(b)
      <4>1. b.kind # "work"
        BY BlockIs
      <4>2. h = Append(g, b) /\ KeyAfter(g, b) = b.key /\ PlacesOf(b) = <<x>>
        BY <3>1, <4>1, GroupedIs DEF KeyAfter, PlacesOf
      <4>. QED BY <1>1, <4>2
    <3>2. CASE IsWork(b)
      <4>1. ~EndsInGroup(g)
        BY <1>8, <3>2
      <4>2. PICK e \in Group : e.key = <<"work", b.key[1], b.key[2]>> /\ e.items = <<b>> /\ h = Append(g, e)
        BY <3>2, <4>1, BeginsGroup
      <4>3. KeyAfter(g, b) = e.key
        BY <3>2, <4>1, <4>2 DEF KeyAfter
      <4>4. PlacesOf(e) = <<x>>
        <5>1. e.kind = "work"
          BY DEF Group
        <5>2. PlacesOf(e) = [j \in 1 .. 1 |-> <<e.key, <<b>>[j].key>>]
          BY <4>2, <5>1 DEF PlacesOf
        <5>. QED BY <4>3, <5>2
      <4>. QED BY <1>1, <4>2, <4>3, <4>4
    <3>. QED BY <3>1, <3>2
  <2>2. n + 1 \in DOMAIN h /\ h[n + 1] = e
    <3>. HIDE DEF h
    <3>. QED BY <1>1, <2>1
  <2>3. new[n + 1] = <<x>>
    BY <1>3, <2>1, <2>2
  <2>4. x \in Keys \X Keys
    BY <1>6, <2>1 DEF Keys
  <2>. HIDE DEF x
  <2>5. PartsGrow(g, b, Keys \X Keys, own, new, x)
    BY <1>2, <1>5, <1>8, <2>3, <2>4 DEF PartsGrow
  <2>6. FlattenSeq(new) = Append(FlattenSeq(own), x)
    BY <2>5, PartsMore
  <2>. QED BY <1>2, <2>4, <2>6 DEF x
<1>. QED BY <1>7, <1>8

\* The places of blocks, by the blocks before: a line is where the line before it is.
PlacedAs(B, p) ==
  /\ p \in Seq(Keys \X Keys) /\ Len(p) = Len(B)
  /\ \A i \in 1 .. Len(B) :
       /\ p[i][2] = B[i].key
       /\ p[i][1] = IF ~IsWork(B[i]) THEN B[i].key
                    ELSE IF i > 1 /\ IsWork(B[i - 1]) THEN p[i - 1][1]
                    ELSE <<"work", B[i].key[1], B[i].key[2]>>

\* The last group has the last line.
LastIs(B, g, p) ==
  /\ EndsInGroup(g) <=> Len(B) > 0 /\ IsWork(B[Len(B)])
  /\ EndsInGroup(g) => g[Len(g)].key = p[Len(B)][1]

\* The blocks that are shown: where they are, one after the other, ...
Picks(B, m) ==
  /\ m \in Seq(Nat)
  /\ \A a \in 1 .. Len(m) : m[a] \in DOMAIN B /\ Visible(B[m[a]])
  /\ \A a, c \in 1 .. Len(m) : a < c => m[a] < m[c]
  /\ \A i \in DOMAIN B : Visible(B[i]) => \E a \in 1 .. Len(m) : m[a] = i

\* ... and which.
Picked(B, m) == [a \in 1 .. Len(m) |-> B[m[a]]]

\* They are blocks.
LEMMA PickedAre ==
  ASSUME NEW B \in Seq(Block), NEW m, Picks(B, m)
  PROVE  /\ Picked(B, m) \in Seq(Block) /\ Len(Picked(B, m)) = Len(m) /\ Len(m) \in Nat
         /\ \A a \in 1 .. Len(m) : Picked(B, m)[a] = B[m[a]] /\ m[a] \in 1 .. Len(B)
<1>1. Len(m) \in Nat /\ DOMAIN B = 1 .. Len(B) /\ \A i \in DOMAIN B : B[i] \in Block
  BY DEF Picks
<1>2. \A a \in 1 .. Len(m) : B[m[a]] \in Block /\ m[a] \in 1 .. Len(B)
  BY <1>1 DEF Picks
<1>. QED BY <1>1, <1>2 DEF Picked

\* One block more is one more to show, ...
LEMMA PickMore ==
  ASSUME NEW B \in Seq(Block), NEW m, Picks(B, m), NEW b \in Block
  PROVE  \E k : Picks(Append(B, b), k)
<1>1. PICK C : C = Append(B, b)
  OBVIOUS
<1>2. /\ Len(B) \in Nat /\ DOMAIN B = 1 .. Len(B) /\ DOMAIN C = 1 .. (Len(B) + 1)
      /\ \A i \in DOMAIN B : C[i] = B[i]
      /\ C[Len(B) + 1] = b
  BY <1>1, AppendIs
<1>3. /\ m \in Seq(Nat) /\ Len(m) \in Nat
      /\ \A a \in 1 .. Len(m) : m[a] \in 1 .. Len(B) /\ Visible(B[m[a]])
      /\ \A a, c \in 1 .. Len(m) : a < c => m[a] < m[c]
      /\ \A i \in DOMAIN B : Visible(B[i]) => \E a \in 1 .. Len(m) : m[a] = i
  BY <1>2 DEF Picks
<1>4. CASE ~Visible(b)
  <2>1. Picks(C, m)
    BY <1>2, <1>3, <1>4 DEF Picks
  <2>. QED BY <1>1, <2>1
<1>5. CASE Visible(b)
  <2>1. PICK k : k = Append(m, Len(B) + 1)
    OBVIOUS
  <2>2. /\ k \in Seq(Nat) /\ Len(k) = Len(m) + 1 /\ k[Len(m) + 1] = Len(B) + 1
        /\ \A a \in 1 .. Len(m) : k[a] = m[a]
    BY <1>2, <1>3, <2>1
  <2>3. ASSUME NEW a \in 1 .. Len(k)
        PROVE  \/ a \in 1 .. Len(m) /\ k[a] = m[a] /\ m[a] \in 1 .. Len(B)
               \/ a = Len(m) + 1 /\ k[a] = Len(B) + 1
    <3>1. a \in 1 .. Len(m) \/ a = Len(m) + 1
      BY <1>3, <2>2
    <3>. QED BY <1>3, <2>2, <3>1
  <2>4. ASSUME NEW a \in 1 .. Len(k)
        PROVE  k[a] \in DOMAIN C /\ Visible(C[k[a]])
    <3>1. CASE a \in 1 .. Len(m) /\ k[a] = m[a] /\ m[a] \in 1 .. Len(B)
      <4>1. C[m[a]] = B[m[a]] /\ Visible(B[m[a]]) /\ m[a] \in DOMAIN C
        BY <1>2, <1>3, <3>1
      <4>. QED BY <3>1, <4>1
    <3>2. CASE a = Len(m) + 1 /\ k[a] = Len(B) + 1
      BY <1>2, <1>5, <3>2
    <3>. QED BY <2>3, <3>1, <3>2
  <2>5. ASSUME NEW a \in 1 .. Len(k), NEW c \in 1 .. Len(k), a < c
        PROVE  k[a] < k[c]
    <3>1. a \in 1 .. Len(m) /\ k[a] = m[a] /\ m[a] \in 1 .. Len(B)
      BY <1>3, <2>2, <2>3, <2>5
    <3>2. CASE c \in 1 .. Len(m) /\ k[c] = m[c]
      BY <1>3, <2>5, <3>1, <3>2
    <3>3. CASE c = Len(m) + 1 /\ k[c] = Len(B) + 1
      BY <1>2, <3>1, <3>3
    <3>. QED BY <2>3, <3>2, <3>3
  <2>6. ASSUME NEW i \in DOMAIN C, Visible(C[i])
        PROVE  \E a \in 1 .. Len(k) : k[a] = i
    <3>1. CASE i \in DOMAIN B
      <4>1. PICK a \in 1 .. Len(m) : m[a] = i
        BY <1>2, <1>3, <2>6, <3>1
      <4>2. a \in 1 .. Len(k) /\ k[a] = i
        BY <1>3, <2>2, <4>1
      <4>. QED BY <4>2
    <3>2. CASE i = Len(B) + 1
      <4>1. Len(m) + 1 \in 1 .. Len(k) /\ k[Len(m) + 1] = i
        BY <1>3, <2>2, <3>2
      <4>. QED BY <4>1
    <3>. QED BY <1>2, <3>1, <3>2
  <2>7. Picks(C, k)
    BY <2>2, <2>4, <2>5, <2>6 DEF Picks
  <2>. QED BY <1>1, <2>7
<1>. QED BY <1>4, <1>5

\* ... so that what is shown is known.
LEMMA PicksExist ==
  ASSUME NEW B \in Seq(Block)
  PROVE  \E m : Picks(B, m)
<1>. DEFINE T == {C \in Seq(Block) : \E m : Picks(C, m)}
<1>1. << >> \in T
  <2>1. << >> \in Seq(Block) /\ << >> \in Seq(Nat) /\ DOMAIN << >> = {} /\ 1 .. Len(<< >>) = {}
    OBVIOUS
  <2>2. Picks(<< >>, << >>)
    BY <2>1 DEF Picks
  <2>. QED BY <2>1, <2>2
<1>2. ASSUME NEW C \in Seq(Block), C \in T, NEW b \in Block
      PROVE  Append(C, b) \in T
  <2>1. \E m : Picks(C, m)
    BY <1>2
  <2>2. \E k : Picks(Append(C, b), k)
    BY <2>1, PickMore
  <2>. QED BY <2>2, AppendIs
<1>3. B \in T
  <2>. HIDE DEF T
  <2>. QED BY <1>1, <1>2, OneMore
<1>. QED BY <1>3

\* What is shown without the last block.
LEMMA PickLess ==
  ASSUME NEW C \in Seq(Block), NEW b \in Block, NEW m, Picks(Append(C, b), m)
  PROVE  /\ ~Visible(b) => Picks(C, m) /\ Picked(Append(C, b), m) = Picked(C, m)
         /\ Visible(b) => \E k : Picks(C, k) /\ Picked(Append(C, b), m) = Append(Picked(C, k), b)
<1>1. PICK D : D = Append(C, b)
  OBVIOUS
<1>. DEFINE n == Len(C)
<1>2. /\ n \in Nat /\ DOMAIN C = 1 .. n /\ DOMAIN D = 1 .. (n + 1) /\ D \in Seq(Block)
      /\ \A i \in DOMAIN C : D[i] = C[i]
      /\ D[n + 1] = b
  BY <1>1, AppendIs
<1>3. /\ m \in Seq(Nat) /\ Len(m) \in Nat /\ Picks(D, m)
      /\ \A a \in 1 .. Len(m) : m[a] \in 1 .. n + 1 /\ Visible(D[m[a]])
      /\ \A a, c \in 1 .. Len(m) : a < c => m[a] < m[c]
      /\ \A i \in DOMAIN D : Visible(D[i]) => \E a \in 1 .. Len(m) : m[a] = i
  <2>. HIDE DEF n
  <2>1. Picks(D, m)
    BY <1>1
  <2>. QED BY <1>2, <2>1 DEF Picks
<1>. HIDE DEF n
<1>4. CASE ~Visible(b)
  <2>1. \A a \in 1 .. Len(m) : m[a] \in 1 .. n /\ D[m[a]] = C[m[a]]
    <3>1. \A a \in 1 .. Len(m) : m[a] # n + 1
      BY <1>2, <1>3, <1>4
    <3>. QED BY <1>2, <1>3, <3>1
  <2>2. Picks(C, m)
    BY <1>2, <1>3, <2>1 DEF Picks
  <2>3. Picked(D, m) = Picked(C, m)
    BY <2>1 DEF Picked
  <2>. QED BY <1>1, <1>4, <2>2, <2>3
<1>5. CASE Visible(b)
  <2>1. PICK last \in 1 .. Len(m) : m[last] = n + 1
    <3>1. n + 1 \in DOMAIN D /\ Visible(D[n + 1])
      BY <1>2, <1>5
    <3>. QED BY <1>3, <3>1
  <2>2. last = Len(m) /\ Len(m) # 0
    <3>1. Len(m) \in 1 .. Len(m) /\ last \in Nat
      BY <1>3, <2>1
    <3>2. m[Len(m)] <= n + 1 /\ m[Len(m)] \in Nat
      BY <1>2, <1>3, <3>1
    <3>3. last < Len(m) => m[last] < m[Len(m)]
      BY <1>3, <2>1, <3>1
    <3>. QED BY <1>2, <1>3, <2>1, <3>1, <3>2, <3>3
  <2>. DEFINE k == [a \in 1 .. Len(m) - 1 |-> m[a]]
  <2>3. /\ k \in Seq(Nat) /\ Len(k) = Len(m) - 1 /\ \A a \in 1 .. Len(m) - 1 : k[a] = m[a]
    BY <1>3, <2>2
  <2>. HIDE DEF k
  <2>4. \A a \in 1 .. Len(k) : /\ a \in 1 .. Len(m) /\ k[a] = m[a]
                               /\ m[a] \in 1 .. n /\ D[m[a]] = C[m[a]]
    <3>1. ASSUME NEW a \in 1 .. Len(k)
          PROVE  a \in 1 .. Len(m) /\ k[a] = m[a] /\ m[a] \in 1 .. n
      <4>1. a \in 1 .. Len(m) /\ a < last /\ k[a] = m[a]
        BY <1>3, <2>2, <2>3
      <4>2. m[a] < n + 1 /\ m[a] \in 1 .. n + 1
        BY <1>3, <2>1, <4>1
      <4>. QED BY <1>2, <4>1, <4>2
    <3>. QED BY <1>2, <3>1
  <2>5. \A i \in DOMAIN C : Visible(C[i]) => \E a \in 1 .. Len(k) : k[a] = i
    <3>1. ASSUME NEW i \in DOMAIN C, Visible(C[i])
          PROVE  \E a \in 1 .. Len(k) : k[a] = i
      <4>1. PICK a \in 1 .. Len(m) : m[a] = i
        BY <1>2, <1>3, <3>1
      <4>2. a # last
        BY <1>2, <2>1, <4>1
      <4>3. a \in 1 .. Len(k)
        BY <1>3, <2>2, <2>3, <4>2
      <4>. QED BY <2>4, <4>1, <4>3
    <3>. QED BY <3>1
  <2>6. Picks(C, k)
    BY <1>2, <1>3, <2>3, <2>4, <2>5 DEF Picks
  <2>7. Picked(D, m) = Append(Picked(C, k), b)
    <3>1. PICK v \in Seq(Block) : v = Picked(C, k)
      BY <2>6, PickedAre
    <3>2. Len(v) = Len(k) /\ \A a \in 1 .. Len(k) : v[a] = C[k[a]]
      BY <2>6, <3>1, PickedAre
    <3>3. PICK w \in Seq(Block) : w = Picked(D, m)
      BY <1>2, <1>3, PickedAre
    <3>4. Len(w) = Len(m) /\ \A a \in 1 .. Len(m) : w[a] = D[m[a]]
      BY <1>2, <1>3, <3>3, PickedAre
    <3>5. /\ Append(v, b) \in Seq(Block) /\ Len(Append(v, b)) = Len(m)
          /\ \A a \in 1 .. Len(k) : Append(v, b)[a] = v[a]
          /\ Append(v, b)[Len(m)] = b
      BY <1>3, <2>2, <2>3, <3>2, AppendProperties
    <3>6. \A a \in 1 .. Len(m) : w[a] = Append(v, b)[a]
      <4>1. \A a \in 1 .. Len(m) : a \in 1 .. Len(k) \/ a = Len(m)
        <5>1. Len(k) = Len(m) - 1 /\ Len(m) \in Nat
          BY <1>3, <2>3
        <5>. QED BY <5>1
      <4>. QED BY <1>2, <2>1, <2>2, <2>4, <3>2, <3>4, <3>5, <4>1
    <3>7. w = Append(v, b)
      BY <3>4, <3>5, <3>6, SeqEqual
    <3>. QED BY <3>1, <3>3, <3>7
  <2>. QED BY <1>1, <1>5, <2>6, <2>7
<1>. QED BY <1>4, <1>5

\* A block more that is shown has its place after the others.
LEMMA PlaceMore ==
  ASSUME NEW C \in Seq(Block), NEW g \in Seq(Entry), NEW b \in Block, Visible(b),
         PlacedAs(C, Places(g)), LastIs(C, g, Places(g))
  PROVE  /\ PlacedAs(Append(C, b), Places(Grouped(g, b)))
         /\ LastIs(Append(C, b), Grouped(g, b), Places(Grouped(g, b)))
<1>. DEFINE n == Len(C)
            h == Grouped(g, b)
            p == Places(g)
            q == Places(h)
            D == Append(C, b)
            x == <<KeyAfter(g, b), b.key>>
<1>1. /\ D \in Seq(Block) /\ Len(D) = n + 1 /\ n \in Nat
      /\ \A i \in 1 .. n : D[i] = C[i]
      /\ D[n + 1] = b
  BY AppendIs
<1>2. g \in Seq(Entry) /\ PlacedAs(C, p) /\ LastIs(C, g, p)
  OBVIOUS
<1>3. h \in Seq(Entry)
  BY GroupedIs
<1>. HIDE DEF D
<1>4. p \in Seq(Keys \X Keys) /\ q = Append(p, x) /\ x \in Keys \X Keys
  BY <1>2, PlacesMore
<1>5. p \in Seq(Keys \X Keys) /\ Len(p) = n
  BY <1>2 DEF PlacedAs
<1>. HIDE DEF h, p, q, x, n
<1>6. /\ q \in Seq(Keys \X Keys) /\ Len(q) = n + 1
      /\ \A i \in 1 .. n : q[i] = p[i]
      /\ q[n + 1] = x
  BY <1>4, <1>5, AppendProperties
<1>7. EndsInGroup(g) <=> n > 0 /\ IsWork(C[n])
  BY <1>2 DEF LastIs, n
<1>8. EndsInGroup(g) => g[Len(g)].key = p[n][1]
  BY <1>2 DEF LastIs, n
<1>9. x[1] = KeyAfter(g, b) /\ x[2] = b.key
  BY DEF x
<1>10. ASSUME NEW i \in 1 .. n + 1
       PROVE  /\ q[i][2] = D[i].key
              /\ q[i][1] = IF ~IsWork(D[i]) THEN D[i].key
                           ELSE IF i > 1 /\ IsWork(D[i - 1]) THEN q[i - 1][1]
                           ELSE <<"work", D[i].key[1], D[i].key[2]>>
  <2>1. CASE i \in 1 .. n
    <3>1. q[i] = p[i] /\ D[i] = C[i]
      BY <1>1, <1>6, <2>1
    <3>2. i > 1 => D[i - 1] = C[i - 1] /\ q[i - 1] = p[i - 1]
      <4>1. i > 1 => i - 1 \in 1 .. n
        BY <1>1, <2>1
      <4>. QED BY <1>1, <1>6, <4>1
    <3>3. /\ p[i][2] = C[i].key
          /\ p[i][1] = IF ~IsWork(C[i]) THEN C[i].key
                       ELSE IF i > 1 /\ IsWork(C[i - 1]) THEN p[i - 1][1]
                       ELSE <<"work", C[i].key[1], C[i].key[2]>>
      BY <1>2, <2>1 DEF PlacedAs, n
    <3>. QED BY <3>1, <3>2, <3>3
  <2>2. CASE i = n + 1
    <3>1. q[i] = x /\ D[i] = b
      BY <1>1, <1>6, <2>2
    <3>2. i > 1 <=> n > 0
      BY <1>1, <2>2
    <3>3. n > 0 => D[i - 1] = C[n] /\ q[i - 1] = p[n]
      <4>1. n > 0 => n \in 1 .. n /\ i - 1 = n
        BY <1>1, <2>2
      <4>. QED BY <1>1, <1>6, <4>1
    <3>. QED BY <1>7, <1>8, <1>9, <3>1, <3>2, <3>3 DEF KeyAfter
  <2>. QED BY <1>1, <2>1, <2>2
<1>11. PlacedAs(D, q)
  BY <1>1, <1>6, <1>10 DEF PlacedAs
<1>12. LastIs(D, h, q)
  <2>1. CASE ~IsWork(b)
    <3>1. h = Append(g, b) /\ b.kind # "work" /\ b \in Entry
      BY <1>2, <2>1, GroupedIs, BlockIs DEF h, Entry
    <3>2. Len(h) = Len(g) + 1 /\ h[Len(g) + 1] = b
      BY <1>2, <3>1
    <3>3. ~EndsInGroup(h)
      BY <3>1, <3>2 DEF EndsInGroup
    <3>. QED BY <1>1, <2>1, <3>3 DEF LastIs
  <2>2. CASE IsWork(b) /\ EndsInGroup(g)
    <3>1. PICK e \in Group : e.key = g[Len(g)].key /\ h = [g EXCEPT ![Len(g)] = e]
      BY <1>2, <2>2, JoinsGroup DEF h
    <3>2. Len(g) \in Nat /\ Len(g) > 0 /\ DOMAIN g = 1 .. Len(g)
      BY <1>2, <2>2 DEF EndsInGroup
    <3>3. Len(h) = Len(g) /\ h[Len(g)] = e
      <4>1. DOMAIN h = 1 .. Len(g) /\ h[Len(g)] = e
        BY <3>1, <3>2
      <4>. QED BY <1>3, <3>2, <4>1
    <3>4. e.kind = "work"
      BY DEF Group
    <3>5. EndsInGroup(h)
      BY <3>2, <3>3, <3>4 DEF EndsInGroup
    <3>6. KeyAfter(g, b) = g[Len(g)].key
      BY <2>2 DEF KeyAfter
    <3>7. h[Len(h)].key = KeyAfter(g, b)
      BY <3>1, <3>3, <3>6
    <3>. QED BY <1>1, <1>6, <1>9, <2>2, <3>5, <3>7 DEF LastIs
  <2>3. CASE IsWork(b) /\ ~EndsInGroup(g)
    <3>1. PICK e \in Group : e.key = <<"work", b.key[1], b.key[2]>> /\ h = Append(g, e)
      BY <1>2, <2>3, BeginsGroup DEF h
    <3>2. Len(h) = Len(g) + 1 /\ h[Len(g) + 1] = e /\ Len(g) \in Nat
      BY <1>2, <3>1 DEF Entry
    <3>3. e.kind = "work"
      BY DEF Group
    <3>4. EndsInGroup(h)
      BY <3>2, <3>3 DEF EndsInGroup
    <3>5. KeyAfter(g, b) = <<"work", b.key[1], b.key[2]>>
      BY <2>3 DEF KeyAfter
    <3>6. h[Len(h)].key = KeyAfter(g, b)
      BY <3>1, <3>2, <3>5
    <3>7. x[1] = <<"work", b.key[1], b.key[2]>>
      BY <1>9, <3>5
    <3>8. Len(h) > 0 /\ D[Len(D)] = b /\ q[Len(D)] = x
      BY <1>1, <1>6, <3>2
    <3>. QED BY <1>1, <1>9, <2>3, <3>4, <3>6, <3>8 DEF LastIs
  <2>. QED BY <2>1, <2>2, <2>3
<1>. QED BY <1>11, <1>12 DEF q, D, h

\* Where the blocks are shown.
LEMMA PlacesAre ==
  ASSUME NEW B \in Seq(Block), NEW m, Picks(B, m)
  PROVE  PlacedAs(Picked(B, m), Places(GroupWork(B)))
<1>. DEFINE G(C) == GroupWork(C)
            Good(C, k) == PlacedAs(Picked(C, k), Places(G(C))) /\ LastIs(Picked(C, k), G(C), Places(G(C)))
            T == {C \in Seq(Block) : G(C) \in Seq(Entry) /\ \A k : Picks(C, k) => Good(C, k)}
<1>1. << >> \in T
  <2>1. << >> \in Seq(Block) /\ Len(<< >>) = 0 /\ << >> \in Seq(Entry) /\ << >> \in Seq(Keys \X Keys)
        /\ DOMAIN << >> = {}
    OBVIOUS
  <2>2. G(<< >>) = << >>
    <3>1. [key |-> <<"log", 0>>, kind |-> "log"] \in Block
      BY DEF Block
    <3>. QED BY <2>1, <3>1, GroupMore
  <2>3. Places(<< >>) = << >>
    BY DEF Places, FlattenSeq
  <2>4. PlacedAs(<< >>, << >>) /\ LastIs(<< >>, << >>, << >>)
    BY <2>1 DEF PlacedAs, LastIs, EndsInGroup
  <2>5. ASSUME NEW k, Picks(<< >>, k)
        PROVE  Picked(<< >>, k) = << >>
    <3>1. Picked(<< >>, k) \in Seq(Block) /\ Len(Picked(<< >>, k)) = Len(k) /\ Len(k) \in Nat
      BY <2>1, <2>5, PickedAre
    <3>2. ~(1 \in 1 .. Len(k))
      BY <2>1, <2>5 DEF Picks
    <3>. QED BY <3>1, <3>2
  <2>. HIDE DEF G
  <2>. QED BY <2>1, <2>2, <2>3, <2>4, <2>5
<1>2. ASSUME NEW C \in Seq(Block), C \in T, NEW b \in Block
      PROVE  Append(C, b) \in T
  <2>1. PICK D : D = Append(C, b)
    OBVIOUS
  <2>2. G(C) \in Seq(Entry) /\ D \in Seq(Block)
    BY <1>2, <2>1, AppendIs
  <2>3. G(D) = Grouped(G(C), b) /\ G(D) \in Seq(Entry)
    BY <2>1, <2>2, GroupMore, GroupedIs
  <2>4. \A k : Picks(C, k) => Good(C, k)
    BY <1>2
  <2>5. ASSUME NEW k, Picks(D, k)
        PROVE  Good(D, k)
    <3>1. CASE ~Visible(b)
      <4>1. Picks(C, k) /\ Picked(D, k) = Picked(C, k)
        BY <2>1, <2>5, <3>1, PickLess
      <4>2. G(D) = G(C)
        BY <2>2, <2>3, <3>1, GroupedIs
      <4>. HIDE DEF G
      <4>. QED BY <2>4, <4>1, <4>2
    <3>2. CASE Visible(b)
      <4>1. PICK j : Picks(C, j) /\ Picked(D, k) = Append(Picked(C, j), b)
        BY <2>1, <2>5, <3>2, PickLess
      <4>2. PlacedAs(Picked(C, j), Places(G(C))) /\ LastIs(Picked(C, j), G(C), Places(G(C)))
        BY <2>4, <4>1
      <4>3. Picked(C, j) \in Seq(Block)
        BY <4>1, PickedAre
      <4>. HIDE DEF G
      <4>. QED BY <2>2, <2>3, <3>2, <4>1, <4>2, <4>3, PlaceMore
    <3>. QED BY <3>1, <3>2
  <2>. HIDE DEF G, Good
  <2>. QED BY <2>1, <2>2, <2>3, <2>5
<1>3. B \in T
  <2>. HIDE DEF T
  <2>. QED BY <1>1, <1>2, OneMore
<1>. QED BY <1>3

\* Where one of them is.
LEMMA PlacedIs ==
  ASSUME NEW C, NEW q, PlacedAs(C, q), NEW k \in 1 .. Len(C)
  PROVE  /\ q[k][2] = C[k].key
         /\ q[k][1] = IF ~IsWork(C[k]) THEN C[k].key
                      ELSE IF k > 1 /\ IsWork(C[k - 1]) THEN q[k - 1][1]
                      ELSE <<"work", C[k].key[1], C[k].key[2]>>
         /\ q[k] \in Keys \X Keys
<1>1. q[k] \in Keys \X Keys
  <2>1. q \in Seq(Keys \X Keys) /\ Len(q) = Len(C)
    BY DEF PlacedAs
  <2>. QED BY <2>1
<1>. QED BY <1>1 DEF PlacedAs

\* Two blocks are known by the same key, both as lines or neither.
Alike(b, c) == c.key = b.key /\ (IsWork(c) <=> IsWork(b))

\* Where the block at i is when one came in at this place, or none did.
Shift(i, at, by) == IF i < at THEN i ELSE i + by

\* The blocks are those that were there, and one perhaps that came in at this place.
Moved(B, C, at, by) ==
  /\ by \in {0, 1} /\ at \in 1 .. Len(B) + 1 /\ Len(C) = Len(B) + by
  /\ \A i \in 1 .. Len(B) : Alike(B[i], C[Shift(i, at, by)])

\* What came in at this place came before a line.
Split(B, at, by) == by = 1 /\ at <= Len(B) /\ IsWork(B[at])

\* The key of a group that begins with this block.
OwnGroup(b) == <<"work", b.key[1], b.key[2]>>

\* So they are at the same places; but a group may be parted, and lines be in its second part.
LEMMA PlacesStay ==
  ASSUME NEW B \in Seq(Block), NEW C \in Seq(Block), NEW at, NEW by, Moved(B, C, at, by),
         by = 1 /\ at <= Len(B) => ~IsWork(C[at]),
         NEW p, NEW q, PlacedAs(B, p), PlacedAs(C, q)
  PROVE  \A i \in 1 .. Len(B) :
           /\ q[Shift(i, at, by)][2] = p[i][2]
           /\ \/ q[Shift(i, at, by)][1] = p[i][1]
              \/ /\ Split(B, at, by) /\ at <= i
                 /\ q[Shift(i, at, by)][1] = OwnGroup(B[at])
<1>. DEFINE n == Len(B)
            s(i) == Shift(i, at, by)
            Stays(i) == \/ q[s(i)][1] = p[i][1]
                        \/ Split(B, at, by) /\ at <= i /\ q[s(i)][1] = OwnGroup(B[at])
            T == {i \in 0 .. n : i = 0 \/ Stays(i)}
<1>1. /\ n \in Nat /\ at \in Nat /\ at >= 1 /\ by \in Nat /\ Len(C) \in Nat
      /\ \A i \in 1 .. n : s(i) \in 1 .. Len(C) /\ s(i) \in Nat
  BY DEF Moved, Shift
<1>2. 0 \in T
  BY <1>1
<1>3. ASSUME NEW i \in 1 .. n
      PROVE  /\ s(i) \in 1 .. Len(C) /\ Alike(B[i], C[s(i)])
             /\ p[i][2] = B[i].key
             /\ p[i][1] = IF ~IsWork(B[i]) THEN B[i].key
                          ELSE IF i > 1 /\ IsWork(B[i - 1]) THEN p[i - 1][1]
                          ELSE OwnGroup(B[i])
             /\ q[s(i)][2] = C[s(i)].key
             /\ q[s(i)][1] = IF ~IsWork(C[s(i)]) THEN C[s(i)].key
                             ELSE IF s(i) > 1 /\ IsWork(C[s(i) - 1]) THEN q[s(i) - 1][1]
                             ELSE OwnGroup(C[s(i)])
  <2>1. s(i) \in 1 .. Len(C) /\ Alike(B[i], C[s(i)])
    BY <1>1 DEF Moved
  <2>2. /\ p[i][2] = B[i].key
        /\ p[i][1] = IF ~IsWork(B[i]) THEN B[i].key
                     ELSE IF i > 1 /\ IsWork(B[i - 1]) THEN p[i - 1][1]
                     ELSE OwnGroup(B[i])
    BY DEF PlacedAs, OwnGroup
  <2>3. /\ q[s(i)][2] = C[s(i)].key
        /\ q[s(i)][1] = IF ~IsWork(C[s(i)]) THEN C[s(i)].key
                        ELSE IF s(i) > 1 /\ IsWork(C[s(i) - 1]) THEN q[s(i) - 1][1]
                        ELSE OwnGroup(C[s(i)])
    BY <2>1, PlacedIs DEF OwnGroup
  <2>. QED BY <2>1, <2>2, <2>3
<1>4. ASSUME NEW i \in 1 .. n, i - 1 \in T
      PROVE  i \in T
  <2>1. CASE ~IsWork(B[i])
    <3>1. q[s(i)][1] = p[i][1]
      BY <1>3, <2>1 DEF Alike
    <3>. QED BY <1>1, <3>1
  <2>2. CASE IsWork(B[i]) /\ by = 1 /\ i = at
    <3>1. s(i) = at + 1 /\ s(i) - 1 = at /\ at <= n
      BY <1>1, <2>2 DEF Shift
    <3>2. ~IsWork(C[s(i) - 1])
      BY <2>2, <3>1
    <3>3. q[s(i)][1] = OwnGroup(B[i])
      <4>1. Alike(B[i], C[s(i)])
        BY <1>3
      <4>2. IsWork(C[s(i)]) /\ C[s(i)].key = B[i].key
        BY <2>2, <4>1 DEF Alike
      <4>3. OwnGroup(C[s(i)]) = OwnGroup(B[i])
        BY <4>2 DEF OwnGroup
      <4>4. q[s(i)][1] = IF ~IsWork(C[s(i)]) THEN C[s(i)].key
                         ELSE IF s(i) > 1 /\ IsWork(C[s(i) - 1]) THEN q[s(i) - 1][1]
                         ELSE OwnGroup(C[s(i)])
        BY <1>3
      <4>. HIDE DEF s
      <4>. QED BY <3>2, <4>2, <4>3, <4>4
    <3>. QED BY <1>1, <2>2, <3>1, <3>3 DEF Split
  <2>3. CASE IsWork(B[i]) /\ ~(by = 1 /\ i = at)
    <3>1. (s(i) > 1 <=> i > 1) /\ (i > 1 => s(i) - 1 = s(i - 1) /\ i - 1 \in 1 .. n)
      BY <1>1, <2>3 DEF Moved, Shift
    <3>. HIDE DEF s
    <3>2. CASE i > 1 /\ IsWork(B[i - 1])
      <4>1. IsWork(C[s(i - 1)])
        BY <1>3, <3>1, <3>2 DEF Alike
      <4>2. q[s(i)][1] = q[s(i - 1)][1] /\ p[i][1] = p[i - 1][1]
        BY <1>3, <2>3, <3>1, <3>2, <4>1 DEF Alike
      <4>3. Stays(i - 1)
        BY <1>1, <1>4, <3>2
      <4>4. at <= i - 1 => at <= i
        BY <1>1
      <4>. QED BY <1>1, <4>2, <4>3, <4>4
    <3>3. CASE ~(i > 1 /\ IsWork(B[i - 1]))
      <4>1. i > 1 => ~IsWork(C[s(i - 1)])
        BY <1>3, <3>1, <3>3 DEF Alike
      <4>2. q[s(i)][1] = OwnGroup(C[s(i)]) /\ p[i][1] = OwnGroup(B[i])
        BY <1>3, <2>3, <3>1, <3>3, <4>1 DEF Alike
      <4>3. q[s(i)][1] = p[i][1]
        BY <1>3, <4>2 DEF Alike, OwnGroup
      <4>. QED BY <1>1, <4>3
    <3>. QED BY <3>2, <3>3
  <2>. QED BY <2>1, <2>2, <2>3
<1>5. \A i \in 0 .. n : i \in T
  <2>. HIDE DEF T
  <2>. QED BY <1>1, <1>2, <1>4, UpTo
<1>6. \A i \in 1 .. n : q[s(i)][2] = p[i][2]
  BY <1>3 DEF Alike
<1>7. \A i \in 1 .. n : i \in 0 .. n /\ i # 0
  BY <1>1
<1>. QED BY <1>5, <1>6, <1>7

\* What has a key of its own stays where it is when one more is shown, or none; or it is in the
\* second part of a group that thoughts came into.
LEMMA PlacesGrow ==
  ASSUME NEW B \in Seq(Block), NEW C \in Seq(Block), NEW at, NEW by, Moved(B, C, at, by),
         by = 1 /\ at <= Len(B) => C[at].key[1] = "thinking" /\ ~IsWork(C[at]),
         \A i, j \in 1 .. Len(C) : C[i].key = C[j].key => i = j,
         NEW parts, Split(B, at, by) => parts,
         NEW p, NEW q, PlacedAs(B, p), PlacedAs(C, q)
  PROVE  Grown(p, q, parts)
<1>1. \A i \in 1 .. Len(B) :
        /\ q[Shift(i, at, by)][2] = p[i][2]
        /\ \/ q[Shift(i, at, by)][1] = p[i][1]
           \/ /\ Split(B, at, by) /\ at <= i
              /\ q[Shift(i, at, by)][1] = OwnGroup(B[at])
  BY PlacesStay
<1>2. /\ DOMAIN p = 1 .. Len(B) /\ DOMAIN q = 1 .. Len(C)
      /\ Len(B) \in Nat /\ Len(C) \in Nat /\ at \in Nat /\ at >= 1 /\ by \in {0, 1}
      /\ \A i \in 1 .. Len(B) : p[i][2] = B[i].key
      /\ \A k \in 1 .. Len(C) : q[k][2] = C[k].key
  <2>1. p \in Seq(Keys \X Keys) /\ Len(p) = Len(B) /\ q \in Seq(Keys \X Keys) /\ Len(q) = Len(C)
    BY DEF PlacedAs
  <2>2. Len(B) \in Nat /\ Len(C) \in Nat /\ at \in Nat /\ at >= 1 /\ by \in {0, 1}
    BY DEF Moved
  <2>3. \A i \in 1 .. Len(B) : p[i][2] = B[i].key
    BY DEF PlacedAs
  <2>4. \A k \in 1 .. Len(C) : q[k][2] = C[k].key
    BY DEF PlacedAs
  <2>5. DOMAIN p = 1 .. Len(p) /\ DOMAIN q = 1 .. Len(q)
    BY <2>1
  <2>6. DOMAIN p = 1 .. Len(B) /\ DOMAIN q = 1 .. Len(C)
    BY <2>1, <2>5
  <2>. QED BY <2>2, <2>3, <2>4, <2>6
<1>3. \A k, l \in DOMAIN q : q[k][2] = q[l][2] => k = l
  BY <1>2
<1>4. ASSUME NEW i \in 1 .. Len(B)
      PROVE  /\ Shift(i, at, by) \in 1 .. Len(C)
             /\ \A j \in 1 .. i - 1 : Shift(j, at, by) \in 1 .. Shift(i, at, by) - 1
  BY <1>2 DEF Moved, Shift
<1>5. ASSUME Split(B, at, by), NEW i \in 1 .. Len(B), at <= i, NEW k, k = Shift(i, at, by),
             q[k][1] = OwnGroup(B[at])
      PROVE  Parted(p, q, k)
  <2>1. k = i + 1 /\ at \in 1 .. k - 1 /\ at \in 1 .. Len(C) /\ by = 1 /\ at \in 1 .. Len(B)
    BY <1>2, <1>5 DEF Split, Shift, Moved
  <2>2. q[at][2][1] = "thinking"
    BY <1>2, <2>1
  <2>3. \A j \in DOMAIN p : p[j][2] # q[at][2]
    <3>1. ASSUME NEW j \in 1 .. Len(B)
          PROVE  p[j][2] # q[at][2]
      <4>1. Shift(j, at, by) # at /\ Shift(j, at, by) \in 1 .. Len(C)
        BY <1>2, <1>4, <2>1 DEF Shift
      <4>2. q[Shift(j, at, by)][2] # q[at][2]
        BY <1>2, <1>3, <2>1, <4>1
      <4>. QED BY <1>1, <4>2
    <3>. QED BY <1>2, <3>1
  <2>4. q[at + 1][2] = B[at].key
    <3>1. Shift(at, at, by) = at + 1
      BY <1>2, <2>1 DEF Shift
    <3>. QED BY <1>1, <1>2, <2>1, <3>1
  <2>5. q[k][1] = <<"work", q[at + 1][2][1], q[at + 1][2][2]>>
    BY <1>5, <2>4 DEF OwnGroup
  <2>. QED BY <2>1, <2>2, <2>3, <2>5 DEF Parted
<1>6. ASSUME NEW i \in DOMAIN p
      PROVE  \E k \in DOMAIN q :
               /\ q[k][2] = p[i][2]
               /\ \A j \in 1 .. i - 1 : \E l \in 1 .. k - 1 : q[l][2] = p[j][2]
               /\ \/ q[k][1] = p[i][1]
                  \/ parts /\ Parted(p, q, k)
  <2>1. PICK k : k = Shift(i, at, by)
    OBVIOUS
  <2>2. k \in DOMAIN q /\ q[k][2] = p[i][2] /\ \A j \in 1 .. i - 1 : Shift(j, at, by) \in 1 .. k - 1
    BY <1>1, <1>2, <1>4, <2>1
  <2>3. ASSUME NEW j \in 1 .. i - 1
        PROVE  \E l \in 1 .. k - 1 : q[l][2] = p[j][2]
    <3>1. j \in 1 .. Len(B)
      BY <1>2
    <3>. QED BY <1>1, <2>2, <3>1
  <2>4. q[k][1] = p[i][1] \/ (parts /\ Parted(p, q, k))
    BY <1>1, <1>2, <1>5, <2>1
  <2>. QED BY <2>2, <2>3, <2>4
<1>. QED BY <1>3, <1>6 DEF Grown

\* The same of blocks that are not all shown: what was shown still is, and no more is, but for
\* what came in, or the last block.  Thoughts that come in between come before what is no line,
\* and is shown unless the text of the turn is hidden.
CameIn(B, C, at, by, hidden) ==
  /\ Moved(B, C, at, by)
  /\ \A i \in 1 .. Len(B) : \/ Visible(B[i]) <=> Visible(C[Shift(i, at, by)])
                            \/ by = 0 /\ i = Len(B) /\ Visible(C[i])
  /\ by = 1 /\ at <= Len(B) =>
       /\ C[at].key[1] = "thinking" /\ ~IsWork(C[at])
       /\ ~IsWork(B[at]) /\ (Visible(B[at]) \/ hidden)

\* What is known of places when one came in.
LEMMA ShiftIs ==
  ASSUME NEW n \in Nat, NEW at \in 1 .. n + 1, NEW by \in {0, 1}
  PROVE  /\ \A i \in 1 .. n : Shift(i, at, by) \in 1 .. n + by /\ (by = 1 => Shift(i, at, by) # at)
         /\ \A i, j \in 1 .. n : i < j => Shift(i, at, by) < Shift(j, at, by)
         /\ \A k \in 1 .. n + by : (by = 1 /\ k = at) \/ \E i \in 1 .. n : k = Shift(i, at, by)
<1>1. /\ \A i \in 1 .. n : Shift(i, at, by) \in 1 .. n + by /\ (by = 1 => Shift(i, at, by) # at)
      /\ \A i, j \in 1 .. n : i < j => Shift(i, at, by) < Shift(j, at, by)
  BY DEF Shift
<1>2. ASSUME NEW k \in 1 .. n + by, ~(by = 1 /\ k = at)
      PROVE  \E i \in 1 .. n : k = Shift(i, at, by)
  <2>1. CASE k < at \/ by = 0
    <3>1. k \in 1 .. n /\ k = Shift(k, at, by)
      BY <2>1 DEF Shift
    <3>. QED BY <3>1
  <2>2. CASE k > at /\ by = 1
    <3>1. k - 1 \in 1 .. n /\ k = Shift(k - 1, at, by)
      BY <2>2 DEF Shift
    <3>. QED BY <3>1
  <2>. QED BY <1>2, <2>1, <2>2
<1>. QED BY <1>1, <1>2

\* What is known of the blocks that are shown.
LEMMA PicksIs ==
  ASSUME NEW B \in Seq(Block), NEW m, Picks(B, m)
  PROVE  /\ m \in Seq(Nat) /\ Len(m) \in Nat
         /\ \A a \in 1 .. Len(m) : m[a] \in 1 .. Len(B) /\ Visible(B[m[a]])
         /\ \A a, c \in 1 .. Len(m) : a < c => m[a] < m[c]
         /\ \A i \in 1 .. Len(B) : Visible(B[i]) => \E a \in 1 .. Len(m) : m[a] = i
<1>1. DOMAIN B = 1 .. Len(B)
  OBVIOUS
<1>. QED BY <1>1 DEF Picks

\* What is shown, when the same blocks are.
LEMMA SamePicked ==
  ASSUME NEW B \in Seq(Block), NEW C \in Seq(Block), NEW m, Picks(B, m),
         NEW at, NEW by, Moved(B, C, at, by),
         \A i \in 1 .. Len(B) : Visible(B[i]) <=> Visible(C[Shift(i, at, by)]),
         by = 1 => ~Visible(C[at])
  PROVE  \E k : Picks(C, k) /\ Moved(Picked(B, m), Picked(C, k), Len(m) + 1, 0)
<1>1. /\ Len(B) \in Nat /\ DOMAIN B = 1 .. Len(B) /\ DOMAIN C = 1 .. Len(C)
      /\ by \in {0, 1} /\ at \in 1 .. Len(B) + 1 /\ Len(C) = Len(B) + by
      /\ \A i \in 1 .. Len(B) : Alike(B[i], C[Shift(i, at, by)])
  BY DEF Moved
<1>2. /\ m \in Seq(Nat) /\ Len(m) \in Nat
      /\ \A a \in 1 .. Len(m) : m[a] \in 1 .. Len(B) /\ Visible(B[m[a]])
      /\ \A a, c \in 1 .. Len(m) : a < c => m[a] < m[c]
      /\ \A i \in 1 .. Len(B) : Visible(B[i]) => \E a \in 1 .. Len(m) : m[a] = i
  BY PicksIs
<1>3. /\ \A i \in 1 .. Len(B) : Shift(i, at, by) \in 1 .. Len(C)
      /\ \A i, j \in 1 .. Len(B) : i < j => Shift(i, at, by) < Shift(j, at, by)
      /\ \A j \in 1 .. Len(C) : (by = 1 /\ j = at) \/ \E i \in 1 .. Len(B) : j = Shift(i, at, by)
  <2>. DEFINE n == Len(B)
  <2>1. n \in Nat /\ at \in 1 .. n + 1 /\ Len(C) = n + by
    BY <1>1
  <2>. HIDE DEF n
  <2>2. /\ \A i \in 1 .. n : Shift(i, at, by) \in 1 .. n + by
        /\ \A i, j \in 1 .. n : i < j => Shift(i, at, by) < Shift(j, at, by)
        /\ \A j \in 1 .. n + by : (by = 1 /\ j = at) \/ \E i \in 1 .. n : j = Shift(i, at, by)
    BY <1>1, <2>1, ShiftIs
  <2>. QED BY <2>1, <2>2 DEF n
<1>. DEFINE k == [a \in 1 .. Len(m) |-> Shift(m[a], at, by)]
<1>4. /\ k \in Seq(Nat) /\ Len(k) = Len(m)
      /\ \A a \in 1 .. Len(m) : k[a] = Shift(m[a], at, by) /\ k[a] \in 1 .. Len(C)
  <2>1. \A a \in 1 .. Len(m) : Shift(m[a], at, by) \in Nat /\ Shift(m[a], at, by) \in 1 .. Len(C)
    BY <1>2, <1>3
  <2>. QED BY <1>2, <2>1
<1>. HIDE DEF k
<1>5. \A a \in 1 .. Len(k) : k[a] \in DOMAIN C /\ Visible(C[k[a]])
  BY <1>1, <1>2, <1>4
<1>6. ASSUME NEW a \in 1 .. Len(k), NEW c \in 1 .. Len(k), a < c
      PROVE  k[a] < k[c]
  <2>1. m[a] < m[c] /\ m[a] \in 1 .. Len(B) /\ m[c] \in 1 .. Len(B)
    BY <1>2, <1>4, <1>6
  <2>2. Shift(m[a], at, by) < Shift(m[c], at, by)
    BY <1>3, <2>1
  <2>. QED BY <1>4, <2>2
<1>7. ASSUME NEW j \in DOMAIN C, Visible(C[j])
      PROVE  \E a \in 1 .. Len(k) : k[a] = j
  <2>1. PICK i \in 1 .. Len(B) : j = Shift(i, at, by)
    BY <1>1, <1>3, <1>7
  <2>2. PICK a \in 1 .. Len(m) : m[a] = i
    BY <1>2, <1>7, <2>1
  <2>. QED BY <1>4, <2>1, <2>2
<1>8. Picks(C, k)
  BY <1>4, <1>5, <1>6, <1>7 DEF Picks
<1>9. /\ Len(Picked(B, m)) = Len(m) /\ Len(Picked(C, k)) = Len(m)
      /\ \A a \in 1 .. Len(m) : Picked(B, m)[a] = B[m[a]] /\ Picked(C, k)[a] = C[Shift(m[a], at, by)]
  BY <1>4, <1>8, PickedAre
<1>10. \A a \in 1 .. Len(m) : Shift(a, Len(m) + 1, 0) = a
  BY <1>2 DEF Shift
<1>11. Moved(Picked(B, m), Picked(C, k), Len(m) + 1, 0)
  <2>1. \A a \in 1 .. Len(m) : Alike(B[m[a]], C[Shift(m[a], at, by)])
    BY <1>1, <1>2
  <2>. DEFINE U == Picked(B, m)
              W == Picked(C, k)
  <2>2. Len(U) = Len(m) /\ Len(W) = Len(m) /\ \A a \in 1 .. Len(m) : Alike(U[a], W[a])
    BY <1>9, <2>1
  <2>. HIDE DEF U, W
  <2>3. Moved(U, W, Len(m) + 1, 0)
    BY <1>2, <1>10, <2>2 DEF Moved
  <2>. QED BY <2>3 DEF U, W
<1>. QED BY <1>8, <1>11

\* What is shown, when the last block is and was not.
LEMMA LastPicked ==
  ASSUME NEW B \in Seq(Block), NEW C \in Seq(Block), NEW m, Picks(B, m), Len(C) = Len(B),
         Len(B) # 0, ~Visible(B[Len(B)]), Visible(C[Len(B)]),
         \A i \in 1 .. Len(B) : Alike(B[i], C[i]),
         \A i \in 1 .. Len(B) : (Visible(B[i]) <=> Visible(C[i])) \/ i = Len(B)
  PROVE  \E k : Picks(C, k) /\ Moved(Picked(B, m), Picked(C, k), Len(m) + 1, 1)
<1>. DEFINE n == Len(B)
<1>1. n \in Nat /\ DOMAIN B = 1 .. n /\ DOMAIN C = 1 .. n /\ n \in 1 .. n
  OBVIOUS
<1>2. /\ m \in Seq(Nat) /\ Len(m) \in Nat
      /\ \A a \in 1 .. Len(m) : m[a] \in 1 .. n /\ Visible(B[m[a]])
      /\ \A a, c \in 1 .. Len(m) : a < c => m[a] < m[c]
      /\ \A i \in 1 .. n : Visible(B[i]) => \E a \in 1 .. Len(m) : m[a] = i
  <2>1. /\ m \in Seq(Nat) /\ Len(m) \in Nat
        /\ \A a \in 1 .. Len(m) : m[a] \in 1 .. Len(B) /\ Visible(B[m[a]])
        /\ \A a, c \in 1 .. Len(m) : a < c => m[a] < m[c]
        /\ \A i \in 1 .. Len(B) : Visible(B[i]) => \E a \in 1 .. Len(m) : m[a] = i
    BY ONLY B \in Seq(Block), Picks(B, m), PicksIs
  <2>. QED BY <2>1
<1>3. \A a \in 1 .. Len(m) : m[a] < n /\ m[a] # n
  <2>. SUFFICES ASSUME NEW a \in 1 .. Len(m)
                PROVE  m[a] < n /\ m[a] # n
    OBVIOUS
  <2>1. m[a] # n /\ m[a] \in 1 .. n
    BY <1>2
  <2>. HIDE DEF n
  <2>. QED BY <1>1, <2>1
<1>. DEFINE k == [a \in 1 .. Len(m) + 1 |-> IF a = Len(m) + 1 THEN n ELSE m[a]]
<1>4. /\ k \in Seq(Nat) /\ Len(k) = Len(m) + 1 /\ k[Len(m) + 1] = n
      /\ \A a \in 1 .. Len(m) : k[a] = m[a]
  <2>. DEFINE l == Len(m)
  <2>. HIDE DEF n
  <2>1. l \in Nat /\ l + 1 \in Nat /\ l + 1 \in 1 .. l + 1 /\ \A a \in 1 .. l : m[a] \in Nat
    BY <1>2
  <2>. HIDE DEF l
  <2>2. k \in [1 .. l + 1 -> Nat] /\ DOMAIN k = 1 .. l + 1
    <3>1. ASSUME NEW a \in 1 .. l + 1
          PROVE  (IF a = l + 1 THEN n ELSE m[a]) \in Nat
      <4>1. a = l + 1 \/ a \in 1 .. l
        BY <2>1
      <4>. QED BY <1>1, <2>1, <4>1
    <3>. QED BY <3>1 DEF l
  <2>3. k[l + 1] = n /\ \A a \in 1 .. l : k[a] = m[a]
    BY <2>1 DEF l
  <2>4. k \in Seq(Nat) /\ Len(k) = l + 1
    <3>. HIDE DEF k
    <3>. QED BY <2>1, <2>2
  <2>. QED BY <2>3, <2>4 DEF l
<1>. HIDE DEF k, n
<1>5. ASSUME NEW a \in 1 .. Len(k)
      PROVE  \/ a \in 1 .. Len(m) /\ k[a] = m[a] /\ m[a] \in 1 .. n /\ m[a] < n
             \/ a = Len(m) + 1 /\ k[a] = n
  BY <1>2, <1>3, <1>4
<1>6. \A a \in 1 .. Len(k) : k[a] \in DOMAIN C /\ Visible(C[k[a]])
  BY <1>1, <1>2, <1>3, <1>5 DEF n
<1>7. ASSUME NEW a \in 1 .. Len(k), NEW c \in 1 .. Len(k), a < c
      PROVE  k[a] < k[c]
  <2>1. a \in 1 .. Len(m) /\ k[a] = m[a] /\ m[a] < n
    BY <1>2, <1>4, <1>5, <1>7
  <2>2. CASE c \in 1 .. Len(m) /\ k[c] = m[c]
    BY <1>2, <1>7, <2>1, <2>2
  <2>3. CASE c = Len(m) + 1 /\ k[c] = n
    BY <2>1, <2>3
  <2>. QED BY <1>5, <2>2, <2>3
<1>8. ASSUME NEW i \in DOMAIN C, Visible(C[i])
      PROVE  \E a \in 1 .. Len(k) : k[a] = i
  <2>1. CASE i = n
    <3>1. Len(m) + 1 \in 1 .. Len(k)
      BY <1>2, <1>4
    <3>. QED BY <1>4, <2>1, <3>1
  <2>2. CASE i # n
    <3>1. PICK a \in 1 .. Len(m) : m[a] = i
      BY <1>1, <1>2, <1>8, <2>2 DEF n
    <3>2. a \in 1 .. Len(k)
      BY <1>2, <1>4
    <3>. QED BY <1>4, <3>1, <3>2
  <2>. QED BY <2>1, <2>2
<1>9. Picks(C, k)
  BY <1>4, <1>6, <1>7, <1>8 DEF Picks
<1>10. /\ Len(Picked(B, m)) = Len(m) /\ Len(Picked(C, k)) = Len(m) + 1
       /\ \A a \in 1 .. Len(m) : Picked(B, m)[a] = B[m[a]]
       /\ \A a \in 1 .. Len(m) + 1 : Picked(C, k)[a] = C[k[a]]
  BY <1>4, <1>9, PickedAre
<1>11. \A a \in 1 .. Len(m) : Shift(a, Len(m) + 1, 1) = a /\ Picked(C, k)[a] = C[m[a]]
  BY <1>2, <1>4, <1>10 DEF Shift
<1>12. Moved(Picked(B, m), Picked(C, k), Len(m) + 1, 1)
  <2>1. \A a \in 1 .. Len(m) : Alike(B[m[a]], C[m[a]])
    BY <1>2 DEF n
  <2>. QED BY <1>2, <1>10, <1>11, <2>1 DEF Moved
<1>. QED BY <1>9, <1>12

\* What is shown, when what came in is.
LEMMA NewPicked ==
  ASSUME NEW B \in Seq(Block), NEW C \in Seq(Block), NEW m, Picks(B, m),
         NEW at, Moved(B, C, at, 1), Visible(C[at]),
         \A i \in 1 .. Len(B) : Visible(B[i]) <=> Visible(C[Shift(i, at, 1)])
  PROVE  \E k, r : /\ Picks(C, k) /\ Moved(Picked(B, m), Picked(C, k), r, 1)
                   /\ Picked(C, k)[r] = C[at]
                   /\ r <= Len(m) => at <= Len(B) /\ (Visible(B[at]) => Picked(B, m)[r] = B[at])
<1>1. /\ Len(B) \in Nat /\ DOMAIN B = 1 .. Len(B) /\ DOMAIN C = 1 .. Len(C)
      /\ at \in 1 .. Len(B) + 1 /\ at \in Nat /\ Len(C) = Len(B) + 1
      /\ \A i \in 1 .. Len(B) : Alike(B[i], C[Shift(i, at, 1)])
  BY DEF Moved
<1>2. /\ m \in Seq(Nat) /\ Len(m) \in Nat
      /\ \A a \in 1 .. Len(m) : m[a] \in 1 .. Len(B) /\ Visible(B[m[a]])
      /\ \A a, c \in 1 .. Len(m) : a < c => m[a] < m[c]
      /\ \A i \in 1 .. Len(B) : Visible(B[i]) => \E a \in 1 .. Len(m) : m[a] = i
  BY PicksIs
<1>. DEFINE l == Len(m)
            S == {a \in 1 .. l + 1 : a <= l => at <= m[a]}
<1>3. PICK r \in S : \A w \in S : r <= w
  <2>1. S \in SUBSET Nat /\ l + 1 \in S
    BY <1>2
  <2>. HIDE DEF S
  <2>. QED BY <2>1, LeastOf
<1>4. /\ r \in 1 .. l + 1 /\ l \in Nat
      /\ \A a \in 1 .. l : a < r => m[a] < at
      /\ \A a \in 1 .. l : r <= a => at <= m[a]
  <2>1. r \in 1 .. l + 1 /\ l \in Nat
    BY <1>2
  <2>2. ASSUME NEW a \in 1 .. l, a < r
        PROVE  m[a] < at
    <3>1. a \notin S
      BY <1>2, <1>3, <2>1, <2>2
    <3>. QED BY <1>1, <1>2, <3>1
  <2>3. ASSUME NEW a \in 1 .. l, r <= a
        PROVE  at <= m[a]
    <3>1. r \in 1 .. l /\ at <= m[r] /\ m[r] \in Nat /\ m[a] \in Nat
      BY <1>2, <1>3, <2>1, <2>3
    <3>2. r = a \/ m[r] < m[a]
      BY <1>2, <2>1, <2>3, <3>1
    <3>. QED BY <1>1, <3>1, <3>2
  <2>. QED BY <2>1, <2>2, <2>3
<1>. HIDE DEF S
<1>. DEFINE k == [a \in 1 .. l + 1 |-> IF a = r THEN at
                                       ELSE IF a < r THEN m[a] ELSE m[a - 1] + 1]
<1>5. /\ k \in Seq(Nat) /\ Len(k) = l + 1 /\ k[r] = at
      /\ \A a \in 1 .. l : k[Shift(a, r, 1)] = Shift(m[a], at, 1)
  <2>1. ASSUME NEW a \in 1 .. l + 1
        PROVE  k[a] \in Nat
    <3>1. a > r => a - 1 \in 1 .. l
      BY <1>4
    <3>2. a < r => a \in 1 .. l
      BY <1>4
    <3>. QED BY <1>1, <1>2, <1>4, <3>1, <3>2
  <2>2. k \in Seq(Nat) /\ Len(k) = l + 1
    <3>1. k \in [1 .. l + 1 -> Nat] /\ DOMAIN k = 1 .. l + 1 /\ l + 1 \in Nat
      BY <1>4, <2>1
    <3>. HIDE DEF k
    <3>. QED BY <3>1, IsASeq
  <2>3. ASSUME NEW a \in 1 .. l
        PROVE  k[Shift(a, r, 1)] = Shift(m[a], at, 1)
    <3>1. CASE a < r
      BY <1>4, <3>1 DEF Shift
    <3>2. CASE ~(a < r)
      <4>1. Shift(a, r, 1) = a + 1 /\ a + 1 \in 1 .. l + 1 /\ a + 1 > r /\ a + 1 - 1 = a
        BY <1>4, <3>2 DEF Shift
      <4>2. k[a + 1] = m[a] + 1
        <5>1. a + 1 # r /\ ~(a + 1 < r)
          BY <1>4, <4>1
        <5>2. k[a + 1] = m[a + 1 - 1] + 1
          BY <4>1, <5>1
        <5>. QED BY <4>1, <5>2
      <4>3. Shift(m[a], at, 1) = m[a] + 1
        BY <1>1, <1>2, <1>4, <3>2 DEF Shift
      <4>. QED BY <4>1, <4>2, <4>3
    <3>. QED BY <3>1, <3>2
  <2>. QED BY <1>4, <2>2, <2>3
<1>. HIDE DEF k
<1>6. /\ \A a \in 1 .. l : Shift(a, r, 1) \in 1 .. l + 1 /\ Shift(a, r, 1) # r
      /\ \A a, c \in 1 .. l : a < c => Shift(a, r, 1) < Shift(c, r, 1)
      /\ \A b \in 1 .. l + 1 : b = r \/ \E a \in 1 .. l : b = Shift(a, r, 1)
  BY <1>4, ShiftIs
<1>7. /\ \A i \in 1 .. Len(B) : Shift(i, at, 1) \in 1 .. Len(B) + 1 /\ Shift(i, at, 1) # at
      /\ \A i, j \in 1 .. Len(B) : i < j => Shift(i, at, 1) < Shift(j, at, 1)
      /\ \A j \in 1 .. Len(B) + 1 : j = at \/ \E i \in 1 .. Len(B) : j = Shift(i, at, 1)
  BY <1>1, ShiftIs
<1>8. ASSUME NEW b \in 1 .. Len(k)
      PROVE  k[b] \in DOMAIN C /\ Visible(C[k[b]])
  <2>1. CASE b = r
    BY <1>1, <1>5, <2>1
  <2>2. ASSUME NEW a \in 1 .. l, b = Shift(a, r, 1)
        PROVE  k[b] \in DOMAIN C /\ Visible(C[k[b]])
    <3>1. k[b] = Shift(m[a], at, 1) /\ m[a] \in 1 .. Len(B) /\ Visible(B[m[a]])
      BY <1>2, <1>5, <2>2
    <3>. QED BY <1>1, <1>7, <3>1
  <2>. QED BY <1>5, <1>6, <2>1, <2>2
<1>9. ASSUME NEW b \in 1 .. Len(k), NEW c \in 1 .. Len(k), b < c
      PROVE  k[b] < k[c]
  <2>1. ASSUME NEW a \in 1 .. l
        PROVE  /\ Shift(a, r, 1) < r => k[Shift(a, r, 1)] < at
               /\ Shift(a, r, 1) > r => k[Shift(a, r, 1)] > at
    <3>1. /\ k[Shift(a, r, 1)] = Shift(m[a], at, 1) /\ m[a] \in Nat
          /\ a < r => m[a] < at
          /\ r <= a => at <= m[a]
      <4>1. k[Shift(a, r, 1)] = Shift(m[a], at, 1)
        BY <1>5
      <4>2. m[a] \in Nat
        BY <1>2
      <4>. QED BY <1>4, <4>1, <4>2
    <3>. QED BY <1>1, <1>4, <3>1 DEF Shift
  <2>2. CASE b = r
    <3>1. PICK a \in 1 .. l : c = Shift(a, r, 1)
      <4>1. c \in 1 .. l + 1 /\ c # r
        BY <1>4, <1>5, <1>9, <2>2
      <4>. QED BY <1>6, <4>1
    <3>. QED BY <1>1, <1>4, <1>5, <1>9, <2>1, <2>2, <3>1
  <2>3. CASE c = r
    <3>1. PICK a \in 1 .. l : b = Shift(a, r, 1)
      <4>1. b \in 1 .. l + 1 /\ b # r
        BY <1>4, <1>5, <1>9, <2>3
      <4>. QED BY <1>6, <4>1
    <3>. QED BY <1>1, <1>5, <1>9, <2>1, <2>3, <3>1
  <2>4. CASE b # r /\ c # r
    <3>1. PICK a \in 1 .. l : b = Shift(a, r, 1)
      BY <1>5, <1>6, <2>4
    <3>2. PICK d \in 1 .. l : c = Shift(d, r, 1)
      BY <1>5, <1>6, <2>4
    <3>3. a < d
      BY <1>4, <1>9, <3>1, <3>2 DEF Shift
    <3>4. m[a] < m[d] /\ m[a] \in 1 .. Len(B) /\ m[d] \in 1 .. Len(B)
      BY <1>2, <3>3
    <3>5. Shift(m[a], at, 1) < Shift(m[d], at, 1)
      BY <1>7, <3>4
    <3>. QED BY <1>5, <3>1, <3>2, <3>5
  <2>. QED BY <2>2, <2>3, <2>4
<1>10. ASSUME NEW j \in DOMAIN C, Visible(C[j])
       PROVE  \E b \in 1 .. Len(k) : k[b] = j
  <2>1. CASE j = at
    BY <1>4, <1>5, <2>1
  <2>2. ASSUME NEW i \in 1 .. Len(B), j = Shift(i, at, 1)
        PROVE  \E b \in 1 .. Len(k) : k[b] = j
    <3>1. PICK a \in 1 .. l : m[a] = i
      BY <1>2, <1>10, <2>2
    <3>. QED BY <1>5, <1>6, <2>2, <3>1
  <2>. QED BY <1>1, <1>7, <2>1, <2>2
<1>11. Picks(C, k)
  BY <1>5, <1>8, <1>9, <1>10 DEF Picks
<1>12. /\ Len(Picked(B, m)) = l /\ Len(Picked(C, k)) = l + 1
       /\ \A a \in 1 .. l : Picked(B, m)[a] = B[m[a]]
       /\ \A a \in 1 .. l + 1 : Picked(C, k)[a] = C[k[a]]
  BY <1>5, <1>11, PickedAre
<1>13. Moved(Picked(B, m), Picked(C, k), r, 1)
  <2>1. \A a \in 1 .. l : Picked(C, k)[Shift(a, r, 1)] = C[Shift(m[a], at, 1)]
    BY <1>5, <1>6, <1>12
  <2>2. \A a \in 1 .. l : Alike(B[m[a]], C[Shift(m[a], at, 1)])
    BY <1>1, <1>2
  <2>. QED BY <1>4, <1>12, <2>1, <2>2 DEF Moved
<1>14. Picked(C, k)[r] = C[at]
  BY <1>4, <1>5, <1>12
<1>15. ASSUME r <= l
       PROVE  at <= Len(B) /\ (Visible(B[at]) => Picked(B, m)[r] = B[at])
  <2>1. r \in 1 .. l /\ at <= m[r] /\ m[r] \in 1 .. Len(B)
    BY <1>2, <1>4, <1>15
  <2>2. at \in 1 .. Len(B)
    BY <1>1, <2>1
  <2>3. ASSUME Visible(B[at])
        PROVE  m[r] = at
    <3>1. PICK a \in 1 .. l : m[a] = at
      BY <1>2, <2>2, <2>3
    <3>2. r <= a
      BY <1>1, <1>4, <3>1
    <3>3. r = a \/ m[r] < m[a]
      BY <1>2, <1>4, <2>1, <3>2
    <3>. QED BY <1>1, <2>1, <3>1, <3>3
  <2>. QED BY <1>12, <2>1, <2>2, <2>3
<1>. QED BY <1>11, <1>13, <1>14, <1>15

\* What is known apart stays where it is when one more is shown, or none; where the text of the
\* turn is hidden, a group may be parted.
LEMMA NothingMoves ==
  ASSUME NEW B \in Seq(Block), NEW C \in Seq(Block), NEW at, NEW by, NEW hidden,
         CameIn(B, C, at, by, hidden),
         \A i, j \in DOMAIN C : C[i].key = C[j].key => i = j
  PROVE  Grown(Places(GroupWork(B)), Places(GroupWork(C)), hidden)
<1>1. PICK m : Picks(B, m)
  BY PicksExist
<1>2. /\ Moved(B, C, at, by) /\ by \in {0, 1} /\ Len(C) = Len(B) + by /\ at \in 1 .. Len(B) + 1
      /\ Len(B) \in Nat /\ Len(C) \in Nat
  BY DEF CameIn, Moved
<1>3. Picked(B, m) \in Seq(Block) /\ Len(Picked(B, m)) = Len(m) /\ Len(m) \in Nat
  BY <1>1, PickedAre
<1>4. ASSUME NEW k, NEW r, NEW e, Picks(C, k), Moved(Picked(B, m), Picked(C, k), r, e),
             e = 1 /\ r <= Len(m) =>
               /\ by = 1 /\ at <= Len(B) /\ Picked(C, k)[r] = C[at]
               /\ Visible(B[at]) => Picked(B, m)[r] = B[at]
      PROVE  Grown(Places(GroupWork(B)), Places(GroupWork(C)), hidden)
  <2>. DEFINE U == Picked(B, m)
              W == Picked(C, k)
  <2>1. U \in Seq(Block) /\ W \in Seq(Block) /\ Len(U) = Len(m) /\ Len(W) = Len(k)
        /\ \A a \in 1 .. Len(k) : W[a] = C[k[a]] /\ k[a] \in 1 .. Len(C) /\ Len(k) \in Nat
    BY <1>3, <1>4, PickedAre
  <2>2. PlacedAs(U, Places(GroupWork(B))) /\ PlacedAs(W, Places(GroupWork(C)))
    BY <1>1, <1>4, PlacesAre
  <2>3. e = 1 /\ r <= Len(U) => W[r].key[1] = "thinking" /\ ~IsWork(W[r])
    BY <1>4, <2>1 DEF CameIn
  <2>4. Split(U, r, e) => hidden
    BY <1>4, <2>1 DEF CameIn, Split
  <2>5. ASSUME NEW a \in 1 .. Len(W), NEW c \in 1 .. Len(W), W[a].key = W[c].key
        PROVE  a = c
    <3>1. k[a] = k[c] /\ k[a] \in Nat
      BY <2>1, <2>5
    <3>2. (a < c => k[a] < k[c]) /\ (c < a => k[c] < k[a])
      BY <1>4, <2>1, <2>5 DEF Picks
    <3>. QED BY <2>1, <3>1, <3>2
  <2>6. Moved(U, W, r, e)
    BY <1>4
  <2>. HIDE DEF U, W
  <2>. QED BY <2>1, <2>2, <2>3, <2>4, <2>5, <2>6, PlacesGrow
<1>5. CASE /\ \A i \in 1 .. Len(B) : Visible(B[i]) <=> Visible(C[Shift(i, at, by)])
           /\ by = 1 => ~Visible(C[at])
  <2>1. \E k : Picks(C, k) /\ Moved(Picked(B, m), Picked(C, k), Len(m) + 1, 0)
    BY <1>1, <1>2, <1>5, SamePicked
  <2>. QED BY <1>4, <2>1
<1>6. CASE by = 1 /\ Visible(C[at])
  <2>1. \A i \in 1 .. Len(B) : Visible(B[i]) <=> Visible(C[Shift(i, at, 1)])
    BY <1>6 DEF CameIn
  <2>2. PICK k, r : /\ Picks(C, k) /\ Moved(Picked(B, m), Picked(C, k), r, 1)
                    /\ Picked(C, k)[r] = C[at]
                    /\ r <= Len(m) => at <= Len(B) /\ (Visible(B[at]) => Picked(B, m)[r] = B[at])
    BY <1>1, <1>2, <1>6, <2>1, NewPicked
  <2>. QED BY <1>4, <1>6, <2>2
<1>7. CASE by = 0 /\ \E i \in 1 .. Len(B) : ~(Visible(B[i]) <=> Visible(C[Shift(i, at, by)]))
  <2>1. \A i \in 1 .. Len(B) : Shift(i, at, by) = i
    BY <1>2, <1>7 DEF Shift
  <2>2. /\ Len(B) # 0 /\ ~Visible(B[Len(B)]) /\ Visible(C[Len(B)]) /\ Len(C) = Len(B)
        /\ \A i \in 1 .. Len(B) : (Visible(B[i]) <=> Visible(C[i])) \/ i = Len(B)
    BY <1>2, <1>7, <2>1 DEF CameIn
  <2>3. \A i \in 1 .. Len(B) : Alike(B[i], C[i])
    BY <1>2, <2>1 DEF Moved
  <2>4. PICK k : Picks(C, k) /\ Moved(Picked(B, m), Picked(C, k), Len(m) + 1, 1)
    BY <1>1, <2>2, <2>3, LastPicked
  <2>5. ~(Len(m) + 1 <= Len(m))
    BY <1>3
  <2>. QED BY <1>4, <2>4, <2>5
<1>. QED BY <1>2, <1>5, <1>6, <1>7 DEF CameIn

-----------------------------------------------------------------------------
(* The text. *)

\* All text of some blocks, ...
TextIn(B) == FlattenSeq([b \in DOMAIN B |-> TextOfBlock(B[b])])

\* ... and of the log.
TextTold(L) == FlattenSeq([i \in DOMAIN L |-> TextOfEvent(L[i])])

\* The text of a block, or of an event, is a sequence of its pieces.
LEMMA TextsAre ==
  /\ \A b \in Block : TextOfBlock(b) \in Seq(Nat)
  /\ \A e \in Event : TextOfEvent(e) \in Seq(Nat)
<1>1. ASSUME NEW b \in Block
      PROVE  TextOfBlock(b) \in Seq(Nat)
  <2>1. b.kind = "assistant" => b.text \in Seq(Nat)
    BY BlockIs
  <2>2. << >> \in Seq(Nat)
    OBVIOUS
  <2>. QED BY <2>1, <2>2 DEF TextOfBlock
<1>2. ASSUME NEW e \in Event
      PROVE  TextOfEvent(e) \in Seq(Nat)
  <2>1. e.id \in Nat
    BY EventIs
  <2>. QED BY <2>1 DEF TextOfEvent
<1>. QED BY <1>1, <1>2

\* The texts of a sequence, one for each of its elements.
EachOf(f, s) == [i \in DOMAIN s |-> f[s[i]]]

\* They are parts of one text.
LEMMA PartsOfText ==
  ASSUME NEW S, NEW s \in Seq(S), NEW f \in [S -> Seq(Nat)]
  PROVE  /\ EachOf(f, s) \in PartsOf(Nat) /\ Len(EachOf(f, s)) = Len(s) /\ Len(s) \in Nat
         /\ \A i \in 1 .. Len(s) : EachOf(f, s)[i] = f[s[i]]
<1>. DEFINE A == Seq(Nat)
            own == [i \in DOMAIN s |-> f[s[i]]]
<1>1. f \in [S -> A]
  OBVIOUS
<1>. HIDE DEF A
<1>2. DOMAIN s = 1 .. Len(s) /\ Len(s) \in Nat /\ \A i \in 1 .. Len(s) : s[i] \in S
  OBVIOUS
<1>3. own \in Seq(A) /\ Len(own) = Len(s)
  BY <1>1, <1>2
<1>. QED BY <1>2, <1>3 DEF PartsOf, A, EachOf

\* The text of one element more comes last.
LEMMA TextMore ==
  ASSUME NEW S, NEW s \in Seq(S), NEW e \in S, NEW f \in [S -> Seq(Nat)]
  PROVE  FlattenSeq(EachOf(f, Append(s, e))) = FlattenSeq(EachOf(f, s)) \o f[e]
<1>1. PICK t \in Seq(S) : t = Append(s, e)
  BY AppendIs
<1>2. Len(t) = Len(s) + 1 /\ t[Len(s) + 1] = e /\ \A i \in 1 .. Len(s) : t[i] = s[i]
  BY <1>1, AppendIs
<1>3. PICK own \in PartsOf(Nat) :
        /\ own = EachOf(f, s) /\ Len(own) = Len(s) /\ Len(s) \in Nat
        /\ \A i \in 1 .. Len(s) : own[i] = f[s[i]]
  BY PartsOfText
<1>4. PICK new \in PartsOf(Nat) :
        /\ new = EachOf(f, t) /\ Len(new) = Len(t)
        /\ \A i \in 1 .. Len(t) : new[i] = f[t[i]]
  BY PartsOfText
<1>5. \A i \in 1 .. Len(own) : new[i] = own[i]
  BY <1>2, <1>3, <1>4
<1>6. Len(new) = Len(own) + 1 /\ new[Len(new)] = f[e]
  BY <1>2, <1>3, <1>4
<1>7. FlattenSeq(new) = FlattenSeq(own) \o new[Len(new)]
  BY <1>5, <1>6, FlatMore
<1>. QED BY <1>1, <1>3, <1>4, <1>6, <1>7

\* What is told of text when an event is logged.
LEMMA ToldMore ==
  ASSUME NEW L \in Seq(Event), NEW e \in Event
  PROVE  TextTold(Append(L, e)) = TextTold(L) \o TextOfEvent(e)
<1>1. PICK f : f \in [Event -> Seq(Nat)] /\ \A x \in Event : f[x] = TextOfEvent(x)
  <2>. DEFINE g == [x \in Event |-> TextOfEvent(x)]
  <2>1. g \in [Event -> Seq(Nat)] /\ \A x \in Event : g[x] = TextOfEvent(x)
    BY TextsAre
  <2>. HIDE DEF g
  <2>. QED BY <2>1
<1>2. \A s \in Seq(Event) : EachOf(f, s) = [i \in DOMAIN s |-> TextOfEvent(s[i])]
  BY <1>1 DEF EachOf
<1>3. Append(L, e) \in Seq(Event)
  BY AppendIs
<1>4. FlattenSeq(EachOf(f, Append(L, e))) = FlattenSeq(EachOf(f, L)) \o f[e]
  BY <1>1, TextMore
<1>. QED BY <1>1, <1>2, <1>3, <1>4 DEF TextTold

\* What is shown of text when a block is pushed.
LEMMA TextPushed ==
  ASSUME NEW B \in Seq(Block), NEW b \in Block
  PROVE  TextIn(Append(B, b)) = TextIn(B) \o TextOfBlock(b)
<1>1. PICK f : f \in [Block -> Seq(Nat)] /\ \A x \in Block : f[x] = TextOfBlock(x)
  <2>. DEFINE g == [x \in Block |-> TextOfBlock(x)]
  <2>1. g \in [Block -> Seq(Nat)] /\ \A x \in Block : g[x] = TextOfBlock(x)
    BY TextsAre
  <2>. HIDE DEF g
  <2>. QED BY <2>1
<1>2. \A s \in Seq(Block) : EachOf(f, s) = [i \in DOMAIN s |-> TextOfBlock(s[i])]
  BY <1>1 DEF EachOf
<1>3. Append(B, b) \in Seq(Block)
  BY AppendIs
<1>4. FlattenSeq(EachOf(f, Append(B, b))) = FlattenSeq(EachOf(f, B)) \o f[b]
  BY <1>1, TextMore
<1>. QED BY <1>1, <1>2, <1>3, <1>4 DEF TextIn

\* The texts of blocks, one for each of them.
LEMMA BlockTexts ==
  ASSUME NEW B \in Seq(Block)
  PROVE  \E own \in PartsOf(Nat) :
           /\ TextIn(B) = FlattenSeq(own) /\ Len(own) = Len(B) /\ Len(B) \in Nat
           /\ \A i \in 1 .. Len(B) : own[i] = TextOfBlock(B[i])
<1>1. PICK f : f \in [Block -> Seq(Nat)] /\ \A x \in Block : f[x] = TextOfBlock(x)
  <2>. DEFINE g == [x \in Block |-> TextOfBlock(x)]
  <2>1. g \in [Block -> Seq(Nat)] /\ \A x \in Block : g[x] = TextOfBlock(x)
    BY TextsAre
  <2>. HIDE DEF g
  <2>. QED BY <2>1
<1>2. PICK own \in PartsOf(Nat) :
        /\ own = EachOf(f, B) /\ Len(own) = Len(B) /\ Len(B) \in Nat
        /\ \A i \in 1 .. Len(B) : own[i] = f[B[i]]
  BY <1>1, PartsOfText
<1>3. \A i \in 1 .. Len(B) : B[i] \in Block
  OBVIOUS
<1>4. EachOf(f, B) = [i \in DOMAIN B |-> TextOfBlock(B[i])]
  BY <1>1 DEF EachOf
<1>5. TextIn(B) = FlattenSeq(own)
  BY <1>2, <1>4 DEF TextIn
<1>. QED BY <1>1, <1>2, <1>3, <1>5

\* The last text goes on.
LEMMA TextExtended ==
  ASSUME NEW B \in Seq(Block), NEW C \in Seq(Block), Len(C) = Len(B), Len(B) # 0,
         \A i \in 1 .. Len(B) - 1 : C[i] = B[i], NEW more \in Seq(Nat),
         TextOfBlock(C[Len(B)]) = TextOfBlock(B[Len(B)]) \o more
  PROVE  TextIn(C) = TextIn(B) \o more
<1>1. PICK own \in PartsOf(Nat) :
        /\ TextIn(B) = FlattenSeq(own) /\ Len(own) = Len(B) /\ Len(B) \in Nat
        /\ \A i \in 1 .. Len(B) : own[i] = TextOfBlock(B[i])
  BY BlockTexts
<1>2. PICK new \in PartsOf(Nat) :
        /\ TextIn(C) = FlattenSeq(new) /\ Len(new) = Len(C)
        /\ \A i \in 1 .. Len(C) : new[i] = TextOfBlock(C[i])
  BY BlockTexts
<1>3. Len(new) = Len(own) /\ Len(own) # 0 /\ \A i \in 1 .. Len(own) - 1 : new[i] = own[i]
  BY <1>1, <1>2
<1>4. Len(B) \in 1 .. Len(B)
  BY <1>1
<1>5. new[Len(own)] = own[Len(own)] \o more
  BY <1>1, <1>2, <1>4
<1>6. FlattenSeq(new) = FlattenSeq(own) \o more
  BY <1>3, <1>5, FlatLast
<1>. QED BY <1>1, <1>2, <1>6

\* A block without text comes in between.
LEMMA TextInserted ==
  ASSUME NEW B \in Seq(Block), NEW b \in Block, NEW at \in 1 .. Len(B) + 1, TextOfBlock(b) = << >>
  PROVE  TextIn(InsertAt(B, at, b)) = TextIn(B)
<1>. DEFINE C == InsertAt(B, at, b)
<1>0. /\ C \in Seq(Block) /\ Len(C) = Len(B) + 1
      /\ \A i \in 1 .. at - 1 : C[i] = B[i]
      /\ C[at] = b
      /\ \A i \in at .. Len(B) : C[i + 1] = B[i]
  BY Inserted
<1>. HIDE DEF C
<1>1. PICK own \in PartsOf(Nat) :
        /\ TextIn(B) = FlattenSeq(own) /\ Len(own) = Len(B) /\ Len(B) \in Nat
        /\ \A i \in 1 .. Len(B) : own[i] = TextOfBlock(B[i])
  BY BlockTexts
<1>2. PICK new \in PartsOf(Nat) :
        /\ TextIn(C) = FlattenSeq(new) /\ Len(new) = Len(C)
        /\ \A i \in 1 .. Len(C) : new[i] = TextOfBlock(C[i])
  BY <1>0, BlockTexts
<1>3. at \in 1 .. Len(own) + 1 /\ Len(new) = Len(own) + 1
  BY <1>0, <1>1, <1>2
<1>4. \A i \in 1 .. at - 1 : new[i] = own[i]
  BY <1>0, <1>1, <1>2
<1>5. new[at] = << >>
  BY <1>0, <1>1, <1>2
<1>6. ASSUME NEW i \in at .. Len(own)
      PROVE  new[i + 1] = own[i]
  <2>1. i \in at .. Len(B) /\ i \in 1 .. Len(B) /\ i + 1 \in 1 .. Len(C)
    BY <1>0, <1>1
  <2>2. C[i + 1] = B[i]
    BY <1>0, <2>1
  <2>. QED BY <1>1, <1>2, <2>1, <2>2
<1>7. FlattenSeq(new) = FlattenSeq(own)
  BY <1>3, <1>4, <1>5, <1>6, FlatInserted
<1>. QED BY <1>1, <1>2, <1>7 DEF C

\* The text is the same where that of each block is.
LEMMA TextSame ==
  ASSUME NEW B, NEW C, DOMAIN C = DOMAIN B, \A i \in DOMAIN B : TextOfBlock(C[i]) = TextOfBlock(B[i])
  PROVE  TextIn(C) = TextIn(B)
<1>1. [i \in DOMAIN C |-> TextOfBlock(C[i])] = [i \in DOMAIN B |-> TextOfBlock(B[i])]
  OBVIOUS
<1>. QED BY <1>1 DEF TextIn

-----------------------------------------------------------------------------
(* The invariant. *)

\* A block's key tells what it is, and the event that it came with or its call.
KeyTells(b, n) ==
  /\ b.key[1] = b.kind
  /\ IF b.kind \in {"tool", "review"} THEN b.key[2] = b.call ELSE b.key[2] \in 0 .. n

\* The blocks of a log with n events are known apart.
Apart(B, n) ==
  /\ \A i \in DOMAIN B : KeyTells(B[i], n)
  /\ \A i, j \in DOMAIN B : B[i].key = B[j].key => i = j

\* A block of its own was pushed, and the others are where they were.
LEMMA PushedApart ==
  ASSUME NEW B \in Seq(Block), NEW n \in Nat, Apart(B, n), NEW b \in Block, KeyTells(b, n + 1),
         IF b.kind \in {"tool", "review"} THEN LinesIn(B, b.kind, b.call) = {} ELSE b.key[2] = n + 1
  PROVE  Apart(Append(B, b), n + 1) /\ \A hidden : CameIn(B, Append(B, b), Len(B) + 1, 1, hidden)
<1>1. PICK C : C = Append(B, b)
  OBVIOUS
<1>2. /\ Len(C) = Len(B) + 1 /\ Len(B) \in Nat /\ DOMAIN B = 1 .. Len(B) /\ DOMAIN C = 1 .. (Len(B) + 1)
      /\ \A i \in DOMAIN B : C[i] = B[i]
      /\ C[Len(B) + 1] = b
  BY <1>1, AppendIs
<1>3. \A i \in DOMAIN B : KeyTells(B[i], n) /\ KeyTells(B[i], n + 1)
  BY DEF Apart, KeyTells
<1>4. \A i \in DOMAIN B : B[i].key # b.key
  <2>1. SUFFICES ASSUME NEW i \in DOMAIN B, B[i].key = b.key PROVE FALSE
    OBVIOUS
  <2>2. B[i].kind = b.kind
    BY <1>3, <2>1 DEF KeyTells
  <2>3. CASE b.kind \in {"tool", "review"}
    <3>1. B[i].call = b.call
      BY <1>3, <2>1, <2>2, <2>3 DEF KeyTells
    <3>2. i \in LinesIn(B, b.kind, b.call)
      BY <2>2, <3>1 DEF LinesIn
    <3>. QED BY <2>3, <3>2
  <2>4. CASE b.kind \notin {"tool", "review"}
    <3>1. b.key[2] = n + 1 /\ B[i].key[2] \in 0 .. n
      BY <1>3, <2>2, <2>4 DEF KeyTells
    <3>. QED BY <2>1, <3>1
  <2>. QED BY <2>3, <2>4
<1>5. \A i \in DOMAIN C : i \in DOMAIN B \/ i = Len(B) + 1
  BY <1>2
<1>6. \A i \in DOMAIN C : KeyTells(C[i], n + 1)
  BY <1>2, <1>3, <1>5
<1>7. \A i, j \in DOMAIN C : C[i].key = C[j].key => i = j
  BY <1>2, <1>4, <1>5 DEF Apart
<1>8. \A hidden : CameIn(B, C, Len(B) + 1, 1, hidden)
  <2>1. \A i \in 1 .. Len(B) : Shift(i, Len(B) + 1, 1) = i /\ C[i] = B[i]
    BY <1>2 DEF Shift
  <2>2. Moved(B, C, Len(B) + 1, 1)
    BY <1>2, <2>1 DEF Moved, Alike
  <2>3. ~(Len(B) + 1 <= Len(B))
    BY <1>2
  <2>. QED BY <2>1, <2>2, <2>3 DEF CameIn
<1>. QED BY <1>1, <1>6, <1>7, <1>8 DEF Apart

\* Thoughts may come here: before no line, and what is shown if the text is not hidden.
Fits(B, at, hidden) ==
  /\ at \in 1 .. Len(B) + 1
  /\ at <= Len(B) => ~IsWork(B[at]) /\ (Visible(B[at]) \/ hidden)

\* Thoughts came in between, before what is no line, and is shown if the text is not hidden.
LEMMA InsertedApart ==
  ASSUME NEW B \in Seq(Block), NEW n \in Nat, Apart(B, n), NEW b \in Block, KeyTells(b, n + 1),
         b.kind = "thinking", b.key[2] = n + 1, NEW hidden,
         NEW at, Fits(B, at, hidden)
  PROVE  /\ Apart(InsertAt(B, at, b), n + 1)
         /\ CameIn(B, InsertAt(B, at, b), at, 1, hidden)
         /\ \A j \in DOMAIN InsertAt(B, at, b) :
              j # at => \E k \in DOMAIN B : InsertAt(B, at, b)[j] = B[k]
         /\ InsertAt(B, at, b)[at] = b
<1>0. at \in 1 .. Len(B) + 1
  BY DEF Fits
<1>1. PICK C : C = InsertAt(B, at, b)
  OBVIOUS
<1>2. /\ C \in Seq(Block) /\ Len(C) = Len(B) + 1 /\ DOMAIN C = 1 .. (Len(B) + 1)
      /\ \A i \in 1 .. at - 1 : C[i] = B[i]
      /\ C[at] = b
      /\ \A i \in at .. Len(B) : C[i + 1] = B[i]
  <2>. DEFINE D == InsertAt(B, at, b)
  <2>1. /\ D \in Seq(Block) /\ Len(D) = Len(B) + 1 /\ DOMAIN D = 1 .. (Len(B) + 1)
        /\ \A i \in 1 .. at - 1 : D[i] = B[i]
        /\ D[at] = b
        /\ \A i \in at .. Len(B) : D[i + 1] = B[i]
    BY <1>0, Inserted
  <2>2. C = D
    BY <1>1
  <2>. HIDE DEF D
  <2>. QED BY <2>1, <2>2
<1>3. Len(B) \in Nat /\ DOMAIN B = 1 .. Len(B) /\ at \in Nat
  BY <1>0
<1>4. \A i \in DOMAIN B : KeyTells(B[i], n) /\ KeyTells(B[i], n + 1)
  BY DEF Apart, KeyTells
<1>5. \A i \in DOMAIN B : B[i].key # b.key
  <2>1. SUFFICES ASSUME NEW i \in DOMAIN B, B[i].key = b.key PROVE FALSE
    OBVIOUS
  <2>2. B[i].kind = b.kind
    BY <1>4, <2>1 DEF KeyTells
  <2>3. B[i].key[2] \in 0 .. n
    BY <1>4, <2>2 DEF KeyTells
  <2>. QED BY <2>1, <2>3
<1>6. ASSUME NEW i \in DOMAIN C, i # at
      PROVE  \E k \in DOMAIN B : C[i] = B[k] /\ i = Shift(k, at, 1)
  <2>1. CASE i < at
    <3>1. i \in 1 .. at - 1 /\ i \in DOMAIN B
      BY <1>0, <1>2, <1>3, <2>1
    <3>. QED BY <1>2, <2>1, <3>1 DEF Shift
  <2>2. CASE i > at
    <3>1. PICK k \in at .. Len(B) : i = k + 1
      <4>1. i - 1 \in at .. Len(B) /\ i = i - 1 + 1
        BY <1>2, <1>3, <2>2
      <4>. QED BY <4>1
    <3>2. k \in DOMAIN B /\ ~(k < at)
      BY <1>0, <1>3
    <3>3. C[i] = B[k]
      BY <1>2, <3>1
    <3>. QED BY <3>1, <3>2, <3>3 DEF Shift
  <2>. QED BY <1>2, <1>3, <1>6, <2>1, <2>2
<1>7. \A i \in DOMAIN C : KeyTells(C[i], n + 1)
  BY <1>2, <1>4, <1>6
<1>8. \A i, j \in DOMAIN C : C[i].key = C[j].key => i = j
  <2>1. SUFFICES ASSUME NEW i \in DOMAIN C, NEW j \in DOMAIN C, C[i].key = C[j].key PROVE i = j
    OBVIOUS
  <2>2. CASE i # at /\ j # at
    <3>1. PICK k \in DOMAIN B : C[i] = B[k] /\ i = Shift(k, at, 1)
      BY <1>6, <2>2
    <3>2. PICK l \in DOMAIN B : C[j] = B[l] /\ j = Shift(l, at, 1)
      BY <1>6, <2>2
    <3>3. k = l
      BY <2>1, <3>1, <3>2 DEF Apart
    <3>. QED BY <3>1, <3>2, <3>3
  <2>3. CASE i = at /\ j # at
    BY <1>2, <1>5, <1>6, <2>1, <2>3
  <2>4. CASE i # at /\ j = at
    BY <1>2, <1>5, <1>6, <2>1, <2>4
  <2>. QED BY <2>2, <2>3, <2>4
<1>9. CameIn(B, C, at, 1, hidden)
  <2>1. ASSUME NEW i \in 1 .. Len(B)
        PROVE  C[Shift(i, at, 1)] = B[i]
    <3>1. CASE i < at
      <4>1. i \in 1 .. at - 1
        BY <1>3, <3>1
      <4>. QED BY <1>2, <3>1, <4>1 DEF Shift
    <3>2. CASE ~(i < at)
      <4>1. i \in at .. Len(B)
        BY <1>3, <3>2
      <4>. QED BY <1>2, <3>2, <4>1 DEF Shift
    <3>. QED BY <3>1, <3>2
  <2>2. Moved(B, C, at, 1)
    BY <1>0, <1>2, <1>3, <2>1 DEF Moved, Alike
  <2>3. C[at].key[1] = "thinking" /\ ~IsWork(C[at])
    BY <1>2 DEF KeyTells, IsWork
  <2>. QED BY <2>1, <2>2, <2>3 DEF CameIn, Fits
<1>10. \A j \in DOMAIN C : j # at => \E k \in DOMAIN B : C[j] = B[k]
  BY <1>6
<1>. QED BY <1>1, <1>2, <1>7, <1>8, <1>9, <1>10 DEF Apart

\* What makes a block the same, though its text or status may be another.
Same(b, c) ==
  /\ c.key = b.key /\ c.kind = b.kind
  /\ b.kind \in {"tool", "review"} => c.call = b.call

\* The same of them is shown, but for the last that perhaps was not.
ShowsAll(B, C) ==
  \A i \in 1 .. Len(B) : (Visible(B[i]) <=> Visible(C[i])) \/ (i = Len(B) /\ Visible(C[i]))

\* The blocks are the same, and what is shown of them is.
LEMMA SameApart ==
  ASSUME NEW B \in Seq(Block), NEW n \in Nat, Apart(B, n), NEW C \in Seq(Block), Len(C) = Len(B),
         \A i \in 1 .. Len(B) : Same(B[i], C[i]),
         ShowsAll(B, C)
  PROVE  Apart(C, n + 1) /\ \A hidden : CameIn(B, C, Len(B) + 1, 0, hidden)
<1>1. Len(B) \in Nat /\ DOMAIN B = 1 .. Len(B) /\ DOMAIN C = 1 .. Len(B)
  OBVIOUS
<1>2. \A i \in DOMAIN C : KeyTells(C[i], n + 1)
  BY <1>1 DEF Apart, KeyTells, Same
<1>3. \A i, j \in DOMAIN C : C[i].key = C[j].key => i = j
  BY <1>1 DEF Apart, Same
<1>4. \A i \in 1 .. Len(B) : Shift(i, Len(B) + 1, 0) = i
  BY <1>1 DEF Shift
<1>5. Moved(B, C, Len(B) + 1, 0)
  BY <1>1, <1>4 DEF Moved, Alike, Same, IsWork
<1>6. \A hidden : CameIn(B, C, Len(B) + 1, 0, hidden)
  <2>1. ~(0 = 1)
    OBVIOUS
  <2>2. ASSUME NEW i \in 1 .. Len(B)
        PROVE  \/ Visible(B[i]) <=> Visible(C[Shift(i, Len(B) + 1, 0)])
               \/ 0 = 0 /\ i = Len(B) /\ Visible(C[i])
    <3>1. (Visible(B[i]) <=> Visible(C[i])) \/ (i = Len(B) /\ Visible(C[i]))
      BY DEF ShowsAll
    <3>. QED BY <1>4, <3>1
  <2>. QED BY ONLY <1>5, <2>1, <2>2 DEF CameIn
<1>. QED BY <1>2, <1>3, <1>6 DEF Apart

\* The text of the turn begins at a text.
StartsAtText(F) == F.start # 0 => F.start \in DOMAIN F.blocks /\ F.blocks[F.start].kind = "assistant"

\* What the text of the turn began with is not shown.
Hidden(F) == F.start # 0 /\ ~Visible(F.blocks[F.start])

\* A piece that a block has was there, or is new; what has one that is not blank is not blank.
Pieces(B, event, C) ==
  \A j \in DOMAIN C : \A x : Has(C, j, x) =>
    \/ event.type = "token" /\ x = event.id /\ (C[j].blank => event.blank)
    \/ \E i \in DOMAIN B : Has(B, i, x) /\ (C[j].blank => B[i].blank)

\* What an event makes of the feed: all is where it was, and its text comes last.
Follow(F, n, event, N) ==
  /\ N.blocks \in Seq(Block) /\ Apart(N.blocks, n + 1) /\ StartsAtText(N)
  /\ \E at, by : CameIn(F.blocks, N.blocks, at, by, Hidden(F))
  /\ Pieces(F.blocks, event, N.blocks)
  /\ TextIn(N.blocks) = TextIn(F.blocks) \o TextOfEvent(event)

\* What is known of the feed before.
Well(F, n) ==
  /\ F \in [blocks : Seq(Block), start : Nat] /\ n \in Nat
  /\ Apart(F.blocks, n) /\ StartsAtText(F)

\* The event pushes a block without text.
LEMMA PushFollows ==
  ASSUME NEW F, NEW n, Well(F, n), NEW event, event.type # "token",
         NEW b \in Block, b.kind # "assistant", KeyTells(b, n + 1),
         IF b.kind \in {"tool", "review"} THEN LinesIn(F.blocks, b.kind, b.call) = {} ELSE b.key[2] = n + 1,
         NEW N, N = Push(F, b)
  PROVE  Follow(F, n, event, N)
<1>1. /\ F.blocks \in Seq(Block) /\ n \in Nat /\ Apart(F.blocks, n) /\ F.start \in Nat
      /\ F = [blocks |-> F.blocks, start |-> F.start]
  BY DEF Well
<1>2. N.blocks = Append(F.blocks, b) /\ N.start = F.start
  BY <1>1 DEF Push
<1>3. /\ Append(F.blocks, b) \in Seq(Block)
      /\ \A i \in DOMAIN F.blocks : i \in DOMAIN Append(F.blocks, b) /\ Append(F.blocks, b)[i] = F.blocks[i]
  BY <1>1, AppendIs
<1>4. /\ Apart(Append(F.blocks, b), n + 1)
      /\ CameIn(F.blocks, Append(F.blocks, b), Len(F.blocks) + 1, 1, Hidden(F))
  BY <1>1, PushedApart
<1>7. Pieces(F.blocks, event, N.blocks)
  <2>. SUFFICES ASSUME NEW j \in DOMAIN N.blocks, NEW x, Has(N.blocks, j, x)
                PROVE  \E i \in DOMAIN F.blocks :
                         Has(F.blocks, i, x) /\ (N.blocks[j].blank => F.blocks[i].blank)
    BY DEF Pieces
  <2>1. /\ Len(F.blocks) \in Nat /\ DOMAIN F.blocks = 1 .. Len(F.blocks)
        /\ DOMAIN N.blocks = 1 .. (Len(F.blocks) + 1) /\ N.blocks[Len(F.blocks) + 1] = b
    BY <1>1, <1>2, AppendIs
  <2>2. j # Len(F.blocks) + 1
    BY <2>1 DEF Has
  <2>3. j \in DOMAIN F.blocks
    BY <2>1, <2>2
  <2>4. N.blocks[j] = F.blocks[j]
    BY <1>2, <1>3, <2>3
  <2>. QED BY <2>3, <2>4 DEF Has
<1>5. TextIn(N.blocks) = TextIn(F.blocks) \o TextOfEvent(event)
  <2>1. TextOfBlock(b) = << >> /\ TextOfEvent(event) = << >>
    BY DEF TextOfBlock, TextOfEvent
  <2>. QED BY <1>1, <1>2, <2>1, TextPushed
<1>6. StartsAtText(N)
  BY <1>2, <1>3 DEF Well, StartsAtText
<1>. QED BY <1>2, <1>3, <1>4, <1>5, <1>6, <1>7 DEF Follow

\* An event that is no text adds none.
LEMMA QuietEvent ==
  ASSUME NEW B \in Seq(Block), NEW event, event.type # "token"
  PROVE  TextIn(B) \o TextOfEvent(event) = TextIn(B)
<1>1. PICK own \in PartsOf(Nat) : TextIn(B) = FlattenSeq(own)
  BY BlockTexts
<1>2. PICK h \in [0 .. Len(own) -> Seq(Nat)] : FlattenSeq(own) = h[Len(own)]
  BY FlatTrail
<1>3. Len(own) \in 0 .. Len(own)
  BY PartsAre
<1>4. TextIn(B) \in Seq(Nat) /\ TextOfEvent(event) = << >>
  BY <1>1, <1>2, <1>3 DEF TextOfEvent
<1>. QED BY <1>4, ConcatEmptySeq

\* The event changes no text, nor what blocks there are.
LEMMA SameFollows ==
  ASSUME NEW F, NEW n, Well(F, n), NEW event, event.type # "token",
         NEW N, N.blocks \in Seq(Block), Len(N.blocks) = Len(F.blocks), N.start \in {0, F.start},
         \A i \in 1 .. Len(F.blocks) :
           /\ Same(F.blocks[i], N.blocks[i])
           /\ N.blocks[i] = F.blocks[i] \/ F.blocks[i].kind \in {"tool", "review"}
  PROVE  Follow(F, n, event, N)
<1>. DEFINE B == F.blocks
            C == N.blocks
<1>1. B \in Seq(Block) /\ n \in Nat /\ Apart(B, n) /\ StartsAtText(F)
  BY DEF Well
<1>2. DOMAIN B = 1 .. Len(B) /\ DOMAIN C = 1 .. Len(B)
  BY <1>1
<1>7. \A i \in 1 .. Len(B) : (Visible(B[i]) <=> Visible(C[i])) /\ TextOfBlock(C[i]) = TextOfBlock(B[i])
  BY DEF Same, Visible, TextOfBlock
<1>3. Apart(C, n + 1) /\ CameIn(B, C, Len(B) + 1, 0, Hidden(F))
  <2>1. ShowsAll(B, C)
    BY <1>7 DEF ShowsAll
  <2>. QED BY <1>1, <2>1, SameApart
<1>4. TextIn(C) = TextIn(B)
  BY <1>2, <1>7, TextSame
<1>8. Pieces(B, event, C)
  BY <1>2 DEF Pieces, Has, Same
<1>5. TextIn(B) \o TextOfEvent(event) = TextIn(B)
  BY <1>1, QuietEvent
<1>6. StartsAtText(N)
  BY <1>1, <1>2 DEF StartsAtText, Same
<1>. QED BY <1>3, <1>4, <1>5, <1>6, <1>8 DEF Follow

\* The pieces of a text that has one more, ...
LEMMA PiecesOf ==
  ASSUME NEW s \in Seq(Nat), NEW id \in Nat, NEW x \in ToSet(Append(s, id))
  PROVE  x = id \/ x \in ToSet(s)
<1>1. PICK t \in Seq(Nat) : t = Append(s, id)
  BY AppendIs
<1>2. /\ DOMAIN t = 1 .. (Len(s) + 1) /\ t[Len(s) + 1] = id /\ \A i \in DOMAIN s : t[i] = s[i]
      /\ Len(s) \in Nat /\ DOMAIN s = 1 .. Len(s)
  BY <1>1, AppendIs
<1>3. PICK i \in DOMAIN t : x = t[i]
  BY <1>1 DEF ToSet
<1>4. i \in DOMAIN s \/ i = Len(s) + 1
  BY <1>2
<1>. QED BY <1>2, <1>3, <1>4 DEF ToSet

\* ... or one only.
LEMMA PieceOf ==
  ASSUME NEW id, NEW x \in ToSet(<<id>>)
  PROVE  x = id
BY DEF ToSet

\* Text goes on, or begins.
LEMMA TokenFollows ==
  ASSUME NEW F, NEW n, Well(F, n), NEW event \in Event, event.type = "token",
         NEW N, N = FoldToken(F, n + 1, event)
  PROVE  Follow(F, n, event, N)
<1>. DEFINE B == F.blocks
            C == N.blocks
            last == Len(B)
<1>1. /\ B \in Seq(Block) /\ n \in Nat /\ Apart(B, n) /\ StartsAtText(F) /\ F.start \in Nat
      /\ F = [blocks |-> B, start |-> F.start] /\ event.id \in Nat
  BY EventIs DEF Well
<1>2. last \in Nat /\ DOMAIN B = 1 .. last
  BY <1>1
<1>3. TextOfEvent(event) = <<event.id>>
  BY DEF TextOfEvent
<1>4. CASE last > 0 /\ B[last].kind = "assistant" /\ F.start # 0
  <2>. DEFINE row == Longer(B[last], event)
  <2>1. N.blocks = [B EXCEPT ![last] = row] /\ N.start = F.start
    BY <1>1, <1>4 DEF FoldToken
  <2>2. last \in DOMAIN B /\ B[last] \in Block
    BY <1>1, <1>2, <1>4
  <2>3. /\ row \in Block /\ Same(B[last], row) /\ row.kind = "assistant"
        /\ row.text = Append(B[last].text, event.id) /\ row.blank = (B[last].blank /\ event.blank)
    BY <1>4, <2>2, PieceAdded DEF Same
  <2>4. B[last].text \in Seq(Nat)
    BY <1>4, <2>2, BlockIs
  <2>. HIDE DEF row
  <2>5. /\ C \in Seq(Block) /\ Len(C) = last /\ C[last] = row
        /\ \A i \in 1 .. last - 1 : C[i] = B[i]
    <3>1. PICK D : D = [B EXCEPT ![last] = row]
      OBVIOUS
    <3>2. D \in Seq(Block) /\ Len(D) = last /\ \A i \in 1 .. last : D[i] = IF i = last THEN row ELSE B[i]
      <4>1. \A i \in 1 .. last : i \in DOMAIN B
        BY <1>2
      <4>. QED BY <1>1, <1>2, <2>2, <2>3, <3>1, <4>1, ExceptSeq
    <3>3. \A i \in 1 .. last - 1 : i \in 1 .. last /\ i # last
      BY <1>2
    <3>4. last \in 1 .. last
      BY <1>2, <2>2
    <3>5. C = D
      BY <2>1, <3>1
    <3>. QED BY <3>2, <3>3, <3>4, <3>5
  <2>6. TextOfBlock(C[last]) = TextOfBlock(B[last]) \o <<event.id>>
    <3>1. Append(B[last].text, event.id) = B[last].text \o <<event.id>>
      BY <1>1, <2>4, AppendIsConcat
    <3>. QED BY <1>4, <2>3, <2>5, <3>1 DEF TextOfBlock
  <2>. HIDE DEF C
  <2>7. TextIn(C) = TextIn(B) \o <<event.id>>
    <3>1. PICK more \in Seq(Nat) : more = <<event.id>>
      <4>1. \A x \in Nat : <<x>> \in Seq(Nat)
        OBVIOUS
      <4>. QED BY <1>1, <4>1
    <3>2. TextOfBlock(C[last]) = TextOfBlock(B[last]) \o more /\ last # 0
      BY <1>4, <2>6, <3>1
    <3>3. TextIn(C) = TextIn(B) \o more
      BY <1>1, <2>5, <3>2, TextExtended
    <3>. QED BY <3>1, <3>3
  <2>8. \A i \in 1 .. Len(B) : Same(B[i], C[i])
    <3>1. \A i \in 1 .. Len(B) : i # last => i \in 1 .. last - 1
      BY <1>2
    <3>2. \A b : Same(b, b)
      BY DEF Same
    <3>. QED BY <2>3, <2>5, <3>1, <3>2
  <2>11. \A i \in 1 .. Len(B) : i = last \/ C[i] = B[i]
    <3>1. \A i \in 1 .. Len(B) : i # last => i \in 1 .. last - 1
      BY <1>2
    <3>. QED BY <2>5, <3>1
  <2>12. ShowsAll(B, C)
    <3>1. Visible(B[last]) => Visible(C[last])
      BY <1>4, <2>3, <2>5 DEF Visible
    <3>. QED BY <2>11, <3>1 DEF ShowsAll
  <2>9. Apart(C, n + 1) /\ CameIn(B, C, Len(B) + 1, 0, Hidden(F))
    BY <1>1, <2>5, <2>8, <2>12, SameApart
  <2>13. Pieces(B, event, C)
    <3>. SUFFICES ASSUME NEW j \in DOMAIN C, NEW x, Has(C, j, x)
                  PROVE  \/ x = event.id /\ (C[j].blank => event.blank)
                         \/ \E i \in DOMAIN B : Has(B, i, x) /\ (C[j].blank => B[i].blank)
      BY DEF Pieces
    <3>1. DOMAIN C = 1 .. last
      BY <2>5
    <3>2. CASE j = last
      <4>1. x \in ToSet(row.text)
        BY <2>5, <3>2 DEF Has
      <4>2. x = event.id \/ x \in ToSet(B[last].text)
        BY <1>1, <2>3, <2>4, <4>1, PiecesOf
      <4>. QED BY <1>4, <2>2, <2>3, <2>5, <3>2, <4>2 DEF Has
    <3>3. CASE j # last
      BY <1>2, <2>11, <3>1, <3>3 DEF Has
    <3>. QED BY <3>2, <3>3
  <2>10. StartsAtText(N)
    <3>1. DOMAIN C = 1 .. Len(B)
      BY <1>2, <2>5
    <3>. QED BY <1>1, <1>2, <2>1, <2>8, <3>1 DEF StartsAtText, Same, C
  <2>. QED BY <1>3, <2>5, <2>7, <2>9, <2>10, <2>13 DEF Follow, C
<1>5. CASE ~(last > 0 /\ B[last].kind = "assistant" /\ F.start # 0)
  <2>. DEFINE b == [key |-> <<"assistant", n + 1>>, kind |-> "assistant",
                    text |-> <<event.id>>, blank |-> event.blank]
  <2>1. N.blocks = Append(B, b) /\ N.start = IF F.start = 0 THEN last + 1 ELSE F.start
    BY <1>1, <1>5 DEF FoldToken, Push
  <2>2. /\ b \in Block /\ b.kind = "assistant" /\ KeyTells(b, n + 1) /\ b.key[2] = n + 1
        /\ b.blank = event.blank /\ b.text = <<event.id>>
    <3>1. event.blank \in BOOLEAN
      BY EventIs
    <3>. QED BY <1>1, <3>1 DEF Block, KeyTells
  <2>3. TextOfBlock(b) = <<event.id>>
    BY DEF TextOfBlock
  <2>. HIDE DEF b
  <2>4. /\ C \in Seq(Block) /\ DOMAIN C = 1 .. (last + 1)
        /\ C[last + 1] = b /\ \A i \in DOMAIN B : C[i] = B[i]
    <3>1. PICK D : D = Append(B, b)
      OBVIOUS
    <3>2. /\ D \in Seq(Block) /\ DOMAIN D = 1 .. (last + 1)
          /\ D[last + 1] = b /\ \A i \in DOMAIN B : D[i] = B[i]
      BY <1>1, <2>2, <3>1, AppendIs
    <3>. QED BY <2>1, <3>1, <3>2
  <2>5. Apart(C, n + 1) /\ CameIn(B, C, Len(B) + 1, 1, Hidden(F))
    BY <1>1, <2>1, <2>2, PushedApart
  <2>8. Pieces(B, event, C)
    <3>. SUFFICES ASSUME NEW j \in DOMAIN C, NEW x, Has(C, j, x)
                  PROVE  \/ x = event.id /\ (C[j].blank => event.blank)
                         \/ \E i \in DOMAIN B : Has(B, i, x) /\ (C[j].blank => B[i].blank)
      BY DEF Pieces
    <3>1. j \in DOMAIN B \/ j = last + 1
      BY <1>2, <2>4
    <3>2. CASE j = last + 1
      <4>1. x \in ToSet(<<event.id>>)
        BY <2>2, <2>4, <3>2 DEF Has
      <4>2. x = event.id
        BY <1>1, <4>1, PieceOf
      <4>. QED BY <2>2, <2>4, <3>2, <4>2
    <3>3. CASE j \in DOMAIN B
      BY <2>4, <3>3 DEF Has
    <3>. QED BY <3>1, <3>2, <3>3
  <2>6. TextIn(C) = TextIn(B) \o <<event.id>>
    BY <1>1, <2>1, <2>2, <2>3, TextPushed
  <2>7. StartsAtText(N)
    BY <1>1, <1>2, <2>1, <2>2, <2>4 DEF StartsAtText
  <2>. QED BY <1>3, <2>4, <2>5, <2>6, <2>7, <2>8 DEF Follow
<1>. QED BY <1>4, <1>5

\* The thoughts of a turn come before its text, if it has any.
LEMMA TurnEndFollows ==
  ASSUME NEW F, NEW n, Well(F, n), NEW event \in Event, event.type = "turn_end",
         NEW N, N = FoldTurnThinking(F, n + 1, event)
  PROVE  Follow(F, n, event, N)
<1>. DEFINE B == F.blocks
            at == BeforeText(F)
            b == Thoughts(n + 1, event)
<1>1. /\ B \in Seq(Block) /\ n \in Nat /\ Apart(B, n) /\ StartsAtText(F) /\ F.start \in Nat
      /\ event.turn \in Turns
  BY EventIs DEF Well
<1>2. Len(B) \in Nat /\ DOMAIN B = 1 .. Len(B)
  BY <1>1
<1>3. /\ N.blocks = IF event.thinking = "none" THEN B ELSE InsertAt(B, at, b)
      /\ N.start = 0
  BY DEF FoldTurnThinking
<1>4. /\ b \in Block /\ b.kind = "thinking" /\ KeyTells(b, n + 1) /\ b.key[2] = n + 1
      /\ TextOfBlock(b) = << >>
  <2>1. (event.thinking = "blank") \in BOOLEAN
    OBVIOUS
  <2>. QED BY <1>1, <2>1 DEF Thoughts, Block, KeyTells, TextOfBlock
<1>5. Fits(B, at, Hidden(F)) /\ at \in 1 .. Len(B) + 1
  BY <1>1, <1>2 DEF Fits, BeforeText, StartsAtText, IsWork, Hidden
<1>6. StartsAtText(N)
  BY <1>3 DEF StartsAtText
<1>. HIDE DEF at, b
<1>7. CASE event.thinking = "none"
  <2>1. \A i \in 1 .. Len(B) : Same(B[i], B[i])
    BY DEF Same
  <2>. QED BY <1>1, <1>3, <1>7, <2>1, SameFollows
<1>8. CASE event.thinking # "none"
  <2>1. PICK C : C = InsertAt(B, at, b)
    OBVIOUS
  <2>2. C \in Seq(Block)
    <3>. DEFINE D == InsertAt(B, at, b)
    <3>1. D \in Seq(Block)
      BY <1>1, <1>4, <1>5, Inserted
    <3>. QED BY <2>1, <3>1
  <2>3. /\ Apart(C, n + 1) /\ CameIn(B, C, at, 1, Hidden(F)) /\ C[at] = b
        /\ \A j \in DOMAIN C : j # at => \E k \in DOMAIN B : C[j] = B[k]
    <3>. DEFINE D == InsertAt(B, at, b)
    <3>1. /\ Apart(D, n + 1) /\ CameIn(B, D, at, 1, Hidden(F)) /\ D[at] = b
          /\ \A j \in DOMAIN D : j # at => \E k \in DOMAIN B : D[j] = B[k]
      BY <1>1, <1>4, <1>5, InsertedApart
    <3>2. D = C
      BY <2>1
    <3>. HIDE DEF D
    <3>. QED BY <3>1, <3>2
  <2>7. Pieces(B, event, C)
    BY <1>4, <2>3 DEF Pieces, Has
  <2>4. TextIn(C) = TextIn(B)
    BY <1>1, <1>4, <1>5, <2>1, TextInserted
  <2>5. TextIn(B) \o TextOfEvent(event) = TextIn(B)
    BY <1>1, QuietEvent
  <2>6. N.blocks = C
    BY <1>3, <1>8, <2>1
  <2>. QED BY <1>6, <2>2, <2>3, <2>4, <2>5, <2>6, <2>7 DEF Follow
<1>. QED BY <1>7, <1>8

\* A call is shown on its line, and a line that is pushed is the first of its kind.
LEMMA ToolFollows ==
  ASSUME NEW F, NEW n, Well(F, n), NEW event \in Event, event.type = "tool_call",
         NEW N, N = FoldTool(F, event)
  PROVE  Follow(F, n, event, N)
<1>. DEFINE B == F.blocks
            reviews == LinesOf(F, "review", event.call)
            tools   == LinesOf(F, "tool", event.call)
<1>1. /\ B \in Seq(Block) /\ n \in Nat /\ F.start \in Nat
      /\ F = [blocks |-> B, start |-> F.start]
      /\ event.call \in Calls /\ event.tool \in Tools /\ event.args \in BOOLEAN
      /\ event.status \in {"running", "ended"}
  BY EventIs DEF Well
<1>2. reviews = LinesIn(B, "review", event.call) /\ tools = LinesIn(B, "tool", event.call)
  BY DEF LinesOf, LinesIn
<1>3. ASSUME NEW lines, lines = tools \/ lines = reviews, N = Updated(F, lines, event)
      PROVE  Follow(F, n, event, N)
  <2>. DEFINE C == [i \in DOMAIN B |-> IF i \in lines THEN [B[i] EXCEPT !.status = event.status] ELSE B[i]]
  <2>1. N = [blocks |-> C, start |-> F.start]
    <3>1. Updated(F, lines, event) = [F EXCEPT !.blocks = C]
      BY DEF Updated
    <3>. HIDE DEF C
    <3>. QED BY <1>1, <1>3, <3>1
  <2>2. ASSUME NEW i \in 1 .. Len(B)
        PROVE  /\ C[i] \in Block /\ Same(B[i], C[i])
               /\ C[i] = B[i] \/ B[i].kind \in {"tool", "review"}
    <3>1. B[i] \in Block /\ i \in DOMAIN B
      BY <1>1
    <3>2. CASE i \in lines
      <4>1. B[i].kind \in {"tool", "review"}
        BY <1>2, <1>3, <3>2 DEF LinesIn
      <4>2. C[i] = [B[i] EXCEPT !.status = event.status]
        BY <3>1, <3>2
      <4>3. C[i] \in Block
        BY <1>1, <3>1, <4>1, <4>2, BlockIs
      <4>4. B[i] \in [key : {"tool", "review"} \X Calls, kind : {"tool", "review"}, call : Calls,
                      tool : Tools, args : BOOLEAN, status : {"running", "ended"}]
        BY <3>1, <4>1 DEF Block
      <4>5. Same(B[i], C[i])
        BY <4>2, <4>4 DEF Same
      <4>. QED BY <4>1, <4>3, <4>5
    <3>3. CASE i \notin lines
      BY <3>1, <3>3 DEF Same
    <3>. QED BY <3>2, <3>3
  <2>3. DOMAIN C = 1 .. Len(B) /\ Len(B) \in Nat
    BY <1>1
  <2>. HIDE DEF C
  <2>4. C \in Seq(Block) /\ Len(C) = Len(B)
    <3>1. C = [i \in 1 .. Len(B) |-> C[i]]
      BY <2>3 DEF C
    <3>. QED BY <2>2, <2>3, <3>1
  <2>5. N.blocks = C /\ N.start = F.start
    BY <2>1
  <2>. QED BY <2>2, <2>4, <2>5, SameFollows
<1>4. ASSUME NEW kind \in {"tool", "review"}, LinesIn(B, kind, event.call) = {},
             N = Push(F, Line(kind, event))
      PROVE  Follow(F, n, event, N)
  <2>. DEFINE b == Line(kind, event)
  <2>1. b \in Block /\ b.kind = kind /\ b.call = event.call /\ b.key = <<kind, event.call>>
    BY <1>1 DEF Line, Block
  <2>. HIDE DEF b
  <2>2. KeyTells(b, n + 1) /\ b.kind # "assistant" /\ b.kind \in {"tool", "review"}
    BY <2>1 DEF KeyTells
  <2>3. LinesIn(B, b.kind, b.call) = {}
    BY <1>4, <2>1
  <2>. QED BY <1>4, <2>1, <2>2, <2>3, PushFollows DEF b
<1>. HIDE DEF reviews, tools
<1>5. CASE reviews # {}
  BY <1>3, <1>5 DEF FoldTool, reviews
<1>6. CASE reviews = {} /\ IsReview(event)
  <2>1. N = Push(F, Line("review", event))
    BY <1>6 DEF FoldTool, reviews
  <2>. QED BY <1>2, <1>4, <1>6, <2>1
<1>7. CASE reviews = {} /\ ~IsReview(event) /\ tools # {}
  BY <1>3, <1>7 DEF FoldTool, reviews, tools
<1>8. CASE reviews = {} /\ ~IsReview(event) /\ tools = {}
  <2>1. N = Push(F, Line("tool", event))
    BY <1>8 DEF FoldTool, reviews, tools
  <2>. QED BY <1>2, <1>4, <1>8, <2>1
<1>. QED BY <1>5, <1>6, <1>7, <1>8

\* Whatever the event, all that was shown stays where it was.
LEMMA EventFollows ==
  ASSUME NEW F, NEW n, Well(F, n), NEW event \in Event, NEW N, N = FoldEvent(F, n + 1, event)
  PROVE  Follow(F, n, event, N)
<1>1. /\ F.blocks \in Seq(Block) /\ n \in Nat /\ F.start \in Nat
      /\ F = [blocks |-> F.blocks, start |-> F.start]
  BY DEF Well
<1>2. \A i \in 1 .. Len(F.blocks) : Same(F.blocks[i], F.blocks[i])
  BY DEF Same
<1>3. CASE event.type = "token"
  <2>1. N = FoldToken(F, n + 1, event)
    BY <1>3 DEF FoldEvent
  <2>. QED BY <1>3, <2>1, TokenFollows
<1>4. CASE event.type = "tool_call"
  <2>1. N = FoldTool(F, event)
    BY <1>4 DEF FoldEvent
  <2>. QED BY <1>4, <2>1, ToolFollows
<1>5. CASE event.type = "turn_end"
  <2>1. N = FoldTurnThinking(F, n + 1, event)
    BY <1>5 DEF FoldEvent
  <2>. QED BY <1>5, <2>1, TurnEndFollows
<1>6. CASE event.type = "turn_start"
  <2>1. N.blocks = F.blocks /\ N.start = 0
    BY <1>1, <1>6 DEF FoldEvent
  <2>. QED BY <1>1, <1>2, <1>6, <2>1, SameFollows
<1>7. CASE event.type = "status" /\ event.status = "done"
  <2>1. N = F
    BY <1>7 DEF FoldEvent, FoldStatus
  <2>. QED BY <1>1, <1>2, <1>7, <2>1, SameFollows
<1>8. CASE event.type = "status" /\ event.status # "done"
  <2>. DEFINE b == [key |-> <<"status", n + 1>>, kind |-> "status"]
  <2>1. N = Push(F, b)
    BY <1>8 DEF FoldEvent, FoldStatus
  <2>2. b \in Block /\ b.kind = "status" /\ KeyTells(b, n + 1) /\ b.key[2] = n + 1
    BY <1>1 DEF Block, KeyTells
  <2>. HIDE DEF b
  <2>. QED BY <1>8, <2>1, <2>2, PushFollows
<1>9. CASE event.type = "note"
  <2>. DEFINE b == [key |-> <<"log", n + 1>>, kind |-> "log"]
  <2>1. N = Push(F, b)
    BY <1>9 DEF FoldEvent
  <2>2. b \in Block /\ b.kind = "log" /\ KeyTells(b, n + 1) /\ b.key[2] = n + 1
    BY <1>1 DEF Block, KeyTells
  <2>. HIDE DEF b
  <2>. QED BY <1>9, <2>1, <2>2, PushFollows
<1>. QED BY <1>3, <1>4, <1>5, <1>6, <1>7, <1>8, <1>9, EventIs

\* What a blank text has is blank.
BlankTells(B, L) ==
  \A b \in DOMAIN B, i \in DOMAIN L :
    L[i].type = "token" /\ Has(B, b, L[i].id) /\ B[b].blank => L[i].blank

\* The invariant of what is shown: blocks known apart, and the text of the log, which is blank
\* where it is not shown.
ShownInv ==
  /\ Well(feed, Len(log))
  /\ TextIn(feed.blocks) = TextTold(log)
  /\ BlankTells(feed.blocks, log)

\* An empty feed shows an empty log.
LEMMA ShownStarts ==
  ASSUME DisplayInit
  PROVE  ShownInv
<1>1. feed = [blocks |-> << >>, start |-> 0] /\ log = << >>
  BY DEF DisplayInit, ViewsInit, EmptyFeed, Init
<1>2. << >> \in Seq(Block) /\ DOMAIN << >> = {} /\ Len(<< >>) = 0
  OBVIOUS
<1>3. Well(feed, Len(log))
  BY <1>1, <1>2 DEF Well, Apart, StartsAtText
<1>4. TextIn(<< >>) = << >> /\ TextTold(<< >>) = << >>
  BY <1>2 DEF TextIn, TextTold, FlattenSeq
<1>5. BlankTells(<< >>, << >>)
  BY <1>2 DEF BlankTells
<1>. QED BY <1>1, <1>3, <1>4, <1>5 DEF ShownInv

\* A piece that comes is told as blank as it is.
LEMMA BlankAfter ==
  ASSUME NEW B, NEW L, NEW start, TextInv(B, start, L), BlankTells(B, L),
         NEW event, NEW M, More(L, M, event), NEW C, Pieces(B, event, C)
  PROVE  BlankTells(C, M)
<1>. SUFFICES ASSUME NEW j \in DOMAIN C, NEW k \in DOMAIN M,
                     M[k].type = "token", Has(C, j, M[k].id), C[j].blank
              PROVE  M[k].blank
  BY DEF BlankTells
<1>1. /\ k \in DOMAIN L => M[k] = L[k] /\ L[k].id # event.id
      /\ k \notin DOMAIN L => M[k] = event
  BY DEF More
<1>2. CASE M[k].id = event.id /\ (C[j].blank => event.blank)
  BY <1>1, <1>2
<1>3. ASSUME NEW i \in DOMAIN B, Has(B, i, M[k].id), C[j].blank => B[i].blank
      PROVE  M[k].blank
  <2>1. PICK l \in DOMAIN L : L[l].type = "token" /\ L[l].id = M[k].id
    BY <1>3 DEF TextInv
  <2>2. L[l].id # event.id
    BY DEF More
  <2>3. k \in DOMAIN L
    BY <1>1, <2>1, <2>2
  <2>. QED BY <1>1, <1>3, <2>3 DEF BlankTells
<1>. QED BY <1>2, <1>3 DEF Pieces

\* An event that is folded leaves all where it was, and the invariant.
LEMMA ShownAfter ==
  ASSUME AgentInv, AgentInv', ShownInv, FeedInv, NEW event \in Event, log' = Append(log, event),
         feed' = FoldEvent(feed, Len(log) + 1, event), FeedTypes'
  PROVE  ShownInv' /\ \E at, by : CameIn(feed.blocks, feed'.blocks, at, by, Hidden(feed))
<1>1. log \in Seq(Event) /\ Len(log') = Len(log) + 1
  <2>1. log \in Seq(Event)
    BY DEF AgentInv, AgentTypes
  <2>. QED BY <2>1, AppendIs
<1>2. Follow(feed, Len(log), event, feed')
  BY EventFollows DEF ShownInv
<1>3. Well(feed', Len(log'))
  BY <1>1, <1>2 DEF Well, Follow, ShownInv, FeedTypes
<1>4. TextIn(feed'.blocks) = TextTold(log')
  BY <1>1, <1>2, ToldMore DEF Follow, ShownInv
<1>5. BlankTells(feed'.blocks, log')
  BY <1>2, MoreIs, BlankAfter DEF Follow, ShownInv, FeedInv
<1>6. ShownInv'
  BY <1>3, <1>4, <1>5 DEF ShownInv, Well, Apart, KeyTells, StartsAtText, TextIn, TextTold, BlankTells, Has
<1>. QED BY <1>2, <1>6 DEF Follow

\* Every step keeps the invariant, and what is shown where it is.
LEMMA ShownKeeps ==
  ASSUME AgentInv, AgentInv', ShownInv, FeedInv, FeedInv',
         [DisplayNext]_<<concern, vars, views, pageVars>>
  PROVE  /\ ShownInv'
         /\ feed' = feed \/ \E at, by : CameIn(feed.blocks, feed'.blocks, at, by, Hidden(feed))
<1>1. CASE log' = log /\ feed' = feed
  BY <1>1 DEF ShownInv
<1>2. CASE Feed
  <2>1. Next /\ Folded
    BY <1>2 DEF Feed
  <2>2. ASSUME NEW event \in Event, log' = Append(log, event),
               feed' = FoldEvent(feed, Len(log) + 1, event)
        PROVE  ShownInv' /\ \E at, by : CameIn(feed.blocks, feed'.blocks, at, by, Hidden(feed))
    BY <2>2, ShownAfter DEF FeedInv
  <2>. QED BY <1>1, <2>1, <2>2, FoldedIs
<1>3. CASE Page \/ UNCHANGED <<concern, vars, views, pageVars>>
  BY <1>1, <1>3 DEF Page, vars, views
<1>. QED BY <1>2, <1>3 DEF DisplayNext

\* All that the invariant says is shown.
LEMMA ShownIsAll ==
  ASSUME ShownInv, CallsAreShown
  PROVE  FeedHasEverything
<1>1. TextIsWhole
  <2>1. ASSUME NEW b \in DOMAIN feed.blocks, NEW i \in DOMAIN log, ~Visible(feed.blocks[b]),
               log[i].type = "token", log[i].id \in ToSet(TextOfBlock(feed.blocks[b]))
        PROVE  log[i].blank
    <3>1. CASE feed.blocks[b].kind = "assistant"
      <4>1. Has(feed.blocks, b, log[i].id) /\ feed.blocks[b].blank
        BY <2>1, <3>1 DEF Has, TextOfBlock, Visible
      <4>. QED BY <2>1, <4>1 DEF ShownInv, BlankTells
    <3>2. CASE feed.blocks[b].kind # "assistant"
      <4>1. log[i].id \in ToSet(<< >>)
        BY <2>1, <3>2 DEF TextOfBlock
      <4>. QED BY <4>1 DEF ToSet
    <3>. QED BY <3>1, <3>2
  <2>2. TextIn(feed.blocks) = TextTold(log)
    BY DEF ShownInv
  <2>. QED BY <2>1, <2>2 DEF TextIn, TextTold, TextIsWhole
<1>2. ChangesAreSummed
  <2>1. feed.blocks \in Seq(Block)
    BY DEF ShownInv, Well
  <2>2. Summed(feed.blocks, CollectFileChanges(GroupWork(feed.blocks)))
    BY <2>1, AllSummed
  <2>3. \A path : ChangesOf(path) = ChangesIn(feed.blocks, path)
    BY DEF ChangesOf, ChangesIn
  <2>. QED BY <2>2, <2>3 DEF ChangesAreSummed, Summed
<1>. QED BY <1>1, <1>2 DEF FeedHasEverything

\* What is known apart, and where it was, has only grown.
LEMMA ShownGrows ==
  ASSUME ShownInv, ShownInv', NEW at, NEW by,
         CameIn(feed.blocks, feed'.blocks, at, by, Hidden(feed))
  PROVE  Grown(Places(GroupWork(feed.blocks)), Places(GroupWork(feed'.blocks)), TextIsHidden)
<1>1. PICK B \in Seq(Block) : B = feed.blocks
  BY DEF ShownInv, Well
<1>2. PICK C \in Seq(Block) : C = feed'.blocks
  BY DEF ShownInv, Well
<1>3. \A i, j \in DOMAIN C : C[i].key = C[j].key => i = j
  BY <1>2 DEF ShownInv, Well, Apart
<1>4. TextIsHidden = Hidden(feed)
  BY DEF TextIsHidden, Hidden
<1>. QED BY <1>1, <1>2, <1>3, <1>4, NothingMoves

-----------------------------------------------------------------------------
(* The theorems. *)

\* What is shown is known apart, and its text is that of the log.
THEOREM ShownHolds == DisplaySpec => []ShownInv
<1>1. DisplayInit => ShownInv
  BY ShownStarts
<1>2. /\ AgentInv /\ AgentInv' /\ FeedInv /\ FeedInv' /\ ShownInv
      /\ [DisplayNext]_<<concern, vars, views, pageVars>>
      => ShownInv'
  BY ShownKeeps
<1>. QED BY <1>1, <1>2, AgentHolds, FeedHolds, PTL DEF DisplaySpec, DisplayNext

\* The browser shows each piece of text of the log once and in order, each call on its line, and
\* every change of a file once in the summary, whatever was lost or came late (foldToken,
\* foldTool, groupWork, collectFileChanges).
THEOREM FeedHasAll == DisplaySpec => []FeedHasEverything
<1>1. ShownInv /\ CallsAreShown => FeedHasEverything
  BY ShownIsAll
<1>. QED BY <1>1, ShownHolds, CallsHaveTheirLines, PTL

\* Nothing that is shown moves, and nothing is shown twice, while the run goes on; and nothing goes
\* to another group, but that thoughts part the one they come into when text of their turn is there
\* that is blank and not shown (foldEvents, groupWork, foldTurnThinking).
THEOREM NothingInTheFeedMoves == DisplaySpec => FeedOnlyGrows
<1>. DEFINE Grows == \E before \in {GroupWork(feed.blocks)}, after \in {GroupWork(feed'.blocks)} :
                       \E old \in {Places(before)}, new \in {Places(after)} :
                         Grown(old, new, TextIsHidden)
<1>1. /\ AgentInv /\ AgentInv' /\ ShownInv /\ ShownInv' /\ FeedInv /\ FeedInv'
      /\ [DisplayNext]_<<concern, vars, views, pageVars>>
      => [Grows]_feed
  <2>1. SUFFICES ASSUME AgentInv, AgentInv', ShownInv, ShownInv', FeedInv, FeedInv', feed' # feed,
                        [DisplayNext]_<<concern, vars, views, pageVars>>
                 PROVE  Grown(Places(GroupWork(feed.blocks)), Places(GroupWork(feed'.blocks)),
                              TextIsHidden)
    OBVIOUS
  <2>. QED BY <2>1, ShownKeeps, ShownGrows
<1>. QED BY <1>1, AgentHolds, FeedHolds, ShownHolds, PTL DEF DisplaySpec, DisplayNext, FeedOnlyGrows
=============================================================================
