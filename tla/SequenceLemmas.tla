--------------------------- MODULE SequenceLemmas ---------------------------
(***************************************************************************)
(* What the proofs need of numbers, sequences and rings, whatever the      *)
(* module: induction over the naturals in a form the provers can apply (a  *)
(* set that contains 0 and is closed under successor), the equations of    *)
(* the community modules' recursive functions on sequences, and the ring   *)
(* buffers of mgmt_bridge.v and pnm_host_bridge.v: n slots with a read and *)
(* a write pointer and a count hold a queue.                               *)
(***************************************************************************)
EXTENDS Integers, SequenceTheorems, SequencesExt, WellFoundedInduction, TLAPS

(* A set of numbers that holds 0 and the successor of each of its members  *)
(* holds them all: otherwise the least number outside it has a predecessor *)
(* inside it.  An induction on P(n) uses the set {n \in Nat : P(n)}.       *)
LEMMA SetInduction ==
    ASSUME NEW S, 0 \in S, \A n \in Nat : n \in S => n + 1 \in S
    PROVE  Nat \subseteq S
<1> DEFINE T == Nat \ S
           R == OpToRel(<, Nat)
<1>1. CASE T = {}
  BY <1>1
<1>2. CASE T # {}
  <2>1. IsWellFoundedOn(R, Nat)
    BY NatLessThanWellFounded
  <2>2. T \subseteq Nat
    OBVIOUS
  <2> HIDE DEF T, R
  <2>3. PICK m \in T : \A y \in T : ~(<<y, m>> \in R)
    BY <1>2, <2>1, <2>2, WFMin, Zenon
  <2> USE DEF T
  <2>4. m # 0 /\ m \in Nat
    OBVIOUS
  <2>5. m - 1 \in Nat /\ m - 1 \notin S
    BY <2>4
  <2>6. <<m - 1, m>> \in R
    BY <2>4, <2>5 DEF R, OpToRel
  <2> QED BY <2>3, <2>5, <2>6
<1> QED BY <1>1, <1>2

-----------------------------------------------------------------------------
(* Recursive functions                                                     *)

(* f counts up to n from b by F.                                           *)
IsRec(f, n, b, F, V) ==
    /\ f \in [0..n -> V]
    /\ f[0] = b
    /\ \A i \in 0..(n - 1) : f[i + 1] = F[<<i, f[i]>>]

LEMMA RecUpTo ==
    ASSUME NEW V, NEW b \in V, NEW F, NEW n \in Nat,
           \A i \in 0..(n - 1), v \in V : F[<<i, v>>] \in V
    PROVE  \E f : IsRec(f, n, b, F, V)
<1> DEFINE S == {k \in Nat : k <= n => \E f : IsRec(f, k, b, F, V)}
<1>1. 0 \in S
  <2>1. IsRec([i \in 0..0 |-> b], 0, b, F, V)
    BY DEF IsRec
  <2> QED BY <2>1
<1>2. ASSUME NEW k \in Nat, k \in S PROVE k + 1 \in S
  <2> SUFFICES ASSUME k + 1 <= n PROVE \E f : IsRec(f, k + 1, b, F, V)
    OBVIOUS
  <2>1. PICK f : IsRec(f, k, b, F, V)
    BY <1>2
  <2> DEFINE g == [i \in 0..(k + 1) |-> IF i = k + 1 THEN F[<<k, f[k]>>] ELSE f[i]]
  <2>2. f[k] \in V /\ F[<<k, f[k]>>] \in V
    <3>1. f[k] \in V
      BY <2>1 DEF IsRec
    <3>2. k \in 0..(n - 1)
      OBVIOUS
    <3> QED BY <3>1, <3>2
  <2>3. g \in [0..(k + 1) -> V]
    BY <2>1, <2>2 DEF IsRec
  <2>4. g[0] = b
    BY <2>1 DEF IsRec
  <2>5. ASSUME NEW i \in 0..k PROVE g[i + 1] = F[<<i, g[i]>>]
    <3>1. CASE i = k
      <4>1. g[i + 1] = F[<<k, f[k]>>] /\ g[i] = f[k]
        BY <3>1
      <4> QED BY <3>1, <4>1
    <3>2. CASE i < k
      <4>1. g[i + 1] = f[i + 1] /\ g[i] = f[i] /\ i \in 0..(k - 1)
        BY <3>2
      <4> QED BY <2>1, <4>1 DEF IsRec
    <3> QED BY <3>1, <3>2
  <2> HIDE DEF g
  <2>6. IsRec(g, k + 1, b, F, V)
    BY <2>3, <2>4, <2>5 DEF IsRec
  <2> QED BY <2>6
<1> HIDE DEF S
<1>3. Nat \subseteq S
  BY <1>1, <1>2, SetInduction
<1> QED BY <1>3 DEF S

(* Concatenation is associative, as a fact that has to be asked for by     *)
(* name: an equation between concatenations in sight of a prover never     *)
(* stops rewriting.                                                        *)
Regrouped(s, t, u) == (s \o t) \o u = s \o (t \o u)

LEMMA Regrouping ==
    ASSUME NEW B, NEW s \in Seq(B), NEW t \in Seq(B), NEW u \in Seq(B)
    PROVE  Regrouped(s, t, u)
  BY ConcatAssociative DEF Regrouped

(* n sequences in a row.                                                   *)
IsRow(p, n, B) == p \in [1..n -> Seq(B)]

(* What the flattening of the first i sequences of p is.                   *)
IsFlatten(g, p, n, B) ==
    /\ g \in [0..n -> Seq(B)] /\ g[0] = <<>> /\ FlattenSeq(p) = g[n]
    /\ \A i \in 1..n : g[i] = g[i - 1] \o p[i]

LEMMA FlattenPrefixes ==
    ASSUME NEW B, NEW n \in Nat, NEW p \in [1..n -> Seq(B)]
    PROVE  \E g : IsFlatten(g, p, n, B)
<1>0. p \in Seq(Seq(B)) /\ Len(p) = n
  OBVIOUS
<1>1. CASE n = 0
  <2>1. FlattenSeq(p) = <<>>
    BY <1>0, <1>1 DEF FlattenSeq
  <2> DEFINE g == [i \in 0..n |-> <<>>]
  <2>2. g \in [0..n -> Seq(B)]
    OBVIOUS
  <2>3. g[0] = <<>> /\ g[n] = <<>>
    BY <1>1
  <2> HIDE DEF g
  <2>4. IsFlatten(g, p, n, B)
    BY <1>1, <2>1, <2>2, <2>3 DEF IsFlatten
  <2> QED BY <2>4
<1>2. CASE n # 0
  <2> DEFINE F == [iv \in (0..(n - 1)) \X Seq(B) |-> iv[2] \o p[iv[1] + 1]]
             Eqn(h) == h = [i \in 1..n |-> IF i = 1 THEN p[i] ELSE h[i - 1] \o p[i]]
  <2>1. ASSUME NEW i \in 0..(n - 1), NEW v \in Seq(B)
        PROVE  F[<<i, v>>] = v \o p[i + 1] /\ F[<<i, v>>] \in Seq(B)
    <3>1. i + 1 \in 1..n
      OBVIOUS
    <3>2. p[i + 1] \in Seq(B)
      BY <3>1
    <3>3. F[<<i, v>>] = v \o p[i + 1]
      OBVIOUS
    <3> HIDE DEF F
    <3> QED BY <3>2, <3>3, ConcatProperties
  <2>2. <<>> \in Seq(B)
    OBVIOUS
  <2> HIDE DEF F
  <2>3. PICK f : IsRec(f, n, <<>>, F, Seq(B))
    BY <2>1, <2>2, RecUpTo
  <2>a. f \in [0..n -> Seq(B)] /\ f[0] = <<>>
    BY <2>3 DEF IsRec
  <2>b. ASSUME NEW i \in 1..n PROVE f[i] = f[i - 1] \o p[i]
    <3>1. i - 1 \in 0..(n - 1) /\ (i - 1) + 1 = i
      OBVIOUS
    <3>2. f[i - 1] \in Seq(B)
      BY <3>1, <2>a
    <3>3. f[(i - 1) + 1] = F[<<i - 1, f[i - 1]>>]
      BY <3>1, <2>3 DEF IsRec
    <3> QED BY <2>1, <3>1, <3>2, <3>3
  <2>c. f[1] = p[1]
    <3>1. 1 \in 1..n /\ p[1] \in Seq(B) /\ f[1 - 1] = <<>>
      BY <2>a, <1>2
    <3>2. f[1] = <<>> \o p[1]
      BY <2>b, <3>1
    <3> QED BY <3>1, <3>2
  <2>4. Eqn([i \in 1..n |-> f[i]])
    <3> DEFINE r == [j \in 1..n |-> f[j]]
    <3>1. ASSUME NEW i \in 1..n, i # 1 PROVE r[i - 1] = f[i - 1]
      BY <3>1
    <3>3. \A i \in 1..n : f[i] = IF i = 1 THEN p[i] ELSE r[i - 1] \o p[i]
      BY <2>b, <2>c, <3>1
    <3> QED BY <3>3
  <2>5. \E h : Eqn(h)
    BY <2>4
  <2> DEFINE h == CHOOSE h : Eqn(h)
  <2>6. Eqn(h)
    BY <2>5
  <2>7. FlattenSeq(p) = h[n]
    BY <1>0, <1>2 DEF FlattenSeq
  <2> HIDE DEF h
  <2> DEFINE g == [i \in 0..n |-> IF i = 0 THEN <<>> ELSE h[i]]
  <2>8. ASSUME NEW i \in 1..n PROVE g[i] = g[i - 1] \o p[i]
    <3>1. h[1] = p[1]
      BY <2>6, <1>2
    <3>2. <<>> \o p[1] = p[1]
      BY <1>2
    <3>3. CASE i = 1
      BY <3>1, <3>2, <3>3
    <3>4. CASE i # 1
      <4>1. h[i] = h[i - 1] \o p[i]
        BY <2>6, <3>4
      <4>2. i - 1 \in 1..n
        BY <3>4
      <4> QED BY <4>1, <4>2
    <3> QED BY <3>3, <3>4
  <2>9. g[0] = <<>> /\ g[n] = FlattenSeq(p)
    BY <2>7, <1>2
  <2>d. DOMAIN g = 0..n /\ g = [i \in 0..n |-> g[i]]
    OBVIOUS
  <2> HIDE DEF g
  <2>10. g \in [0..n -> Seq(B)]
    <3> DEFINE S == {i \in Nat : i <= n => g[i] \in Seq(B)}
    <3>1. 0 \in S
      BY <2>9, <2>2
    <3>2. ASSUME NEW i \in Nat, i \in S PROVE i + 1 \in S
      <4> SUFFICES ASSUME i + 1 <= n PROVE g[i + 1] \in Seq(B)
        OBVIOUS
      <4>1. g[i] \in Seq(B)
        BY <3>2
      <4>2. p[i + 1] \in Seq(B)
        OBVIOUS
      <4>3. g[i + 1] = g[i] \o p[i + 1]
        <5>1. i + 1 \in 1..n /\ (i + 1) - 1 = i
          OBVIOUS
        <5> QED BY <5>1, <2>8
      <4> QED BY <4>1, <4>2, <4>3, ConcatProperties
    <3> HIDE DEF S
    <3>3. Nat \subseteq S
      BY <3>1, <3>2, SetInduction
    <3>4. \A i \in 0..n : g[i] \in Seq(B)
      BY <3>3 DEF S
    <3> QED BY <3>4, <2>d
  <2>11. IsFlatten(g, p, n, B)
    BY <2>8, <2>9, <2>10 DEF IsFlatten
  <2> QED BY <2>11
<1> QED BY <1>1, <1>2

Longer(g, p, i) == g[i] = g[i - 1] \o p[i]

LEMMA FlattenLonger ==
    ASSUME NEW g, NEW p, NEW n, NEW B, IsFlatten(g, p, n, B)
    PROVE  \A i \in 1..n : Longer(g, p, i)
  BY DEF IsFlatten, Longer

(* A row of sequences that moves up by one place loses its first and gains *)
(* its last.                                                               *)
MovedUp(p, r, n) == \A i \in 1..(n - 1) : r[i] = p[i + 1]

Ahead(g, h, p, i) == g[i + 1] = p[1] \o h[i]

LostFirst(p, r, n) == FlattenSeq(p) \o r[n] = p[1] \o FlattenSeq(r)

LEMMA FlattenShift ==
    ASSUME NEW B, NEW n \in Nat \ {0}, NEW p, NEW r,
           IsRow(p, n, B), IsRow(r, n, B), MovedUp(p, r, n)
    PROVE  LostFirst(p, r, n)
<1>1. PICK g : IsFlatten(g, p, n, B)
  BY FlattenPrefixes DEF IsRow
<1>2. PICK h : IsFlatten(h, r, n, B)
  BY FlattenPrefixes DEF IsRow
<1>3. \A i \in 1..n : p[i] \in Seq(B) /\ r[i] \in Seq(B)
  BY DEF IsRow
<1>4. /\ \A i \in 0..n : g[i] \in Seq(B) /\ h[i] \in Seq(B)
      /\ g[0] = <<>> /\ h[0] = <<>>
  BY <1>1, <1>2 DEF IsFlatten
<1>s. \A i \in 1..n : Longer(g, p, i) /\ Longer(h, r, i)
  BY <1>1, <1>2, FlattenLonger
<1> DEFINE S == {i \in Nat : i < n => Ahead(g, h, p, i)}
<1>5. 0 \in S
  <2>1. g[1] = <<>> \o p[1]
    <3>1. Longer(g, p, 1)
      BY <1>s
    <3>2. 1 - 1 = 0
      OBVIOUS
    <3> QED BY <3>1, <3>2, <1>4, Zenon DEF Longer
  <2>2. <<>> \o p[1] = p[1] /\ p[1] \o <<>> = p[1]
    BY <1>3
  <2>3. g[0 + 1] = p[1] \o h[0]
    BY <2>1, <2>2, <1>4
  <2> QED BY <2>3 DEF Ahead
<1>6. ASSUME NEW i \in Nat, i \in S PROVE i + 1 \in S
  <2> SUFFICES ASSUME i + 1 < n PROVE Ahead(g, h, p, i + 1)
    OBVIOUS
  <2> DEFINE j == i + 1
  <2>0. j \in 1..(n - 1) /\ j + 1 \in 1..n /\ (j + 1) - 1 = j /\ j - 1 = i
    OBVIOUS
  <2>1. g[j] = p[1] \o h[i]
    <3>1. Ahead(g, h, p, i)
      BY <1>6
    <3> QED BY <3>1 DEF Ahead
  <2> HIDE DEF j
  <2>2. g[j + 1] = g[j] \o p[j + 1]
    <3>1. Longer(g, p, j + 1)
      BY <1>s, <2>0
    <3> QED BY <3>1, <2>0 DEF Longer
  <2>3. h[j] = h[i] \o r[j] /\ r[j] = p[j + 1]
    <3>1. Longer(h, r, j)
      BY <1>s, <2>0
    <3> QED BY <3>1, <2>0 DEF Longer, MovedUp
  <2>4. h[i] \in Seq(B) /\ r[j] \in Seq(B)
    BY <1>3, <1>4, <2>0
  <2>e. 1 \in 1..n
    OBVIOUS
  <2>5. (p[1] \o h[i]) \o r[j] = p[1] \o (h[i] \o r[j])
    <3>1. p[1] \in Seq(B)
      BY <1>3, <2>e
    <3> DEFINE a == p[1]
               b == h[i]
               c == r[j]
    <3>2. a \in Seq(B) /\ b \in Seq(B) /\ c \in Seq(B)
      BY <2>4, <3>1
    <3> HIDE DEF a, b, c
    <3>3. (a \o b) \o c = a \o (b \o c)
      BY <3>2, ConcatAssociative
    <3> QED BY <3>3 DEF a, b, c
  <2>6. g[j + 1] = p[1] \o h[j]
    BY <2>1, <2>2, <2>3, <2>5
  <2> QED BY <2>6 DEF j, Ahead
<1> HIDE DEF S
<1>7. g[n] = p[1] \o h[n - 1]
  <2>1. Nat \subseteq S
    BY <1>5, <1>6, SetInduction
  <2>2. n - 1 \in S /\ n - 1 < n /\ (n - 1) + 1 = n
    BY <2>1
  <2> QED BY <2>2 DEF S, Ahead
<1>8. h[n] = h[n - 1] \o r[n] /\ h[n - 1] \in Seq(B)
  <2>1. Longer(h, r, n)
    BY <1>s
  <2> QED BY <2>1, <1>4 DEF Longer
<1>9. g[n] \o r[n] = p[1] \o h[n]
  <2>1. 1 \in 1..n /\ n \in 1..n
    OBVIOUS
  <2>2. (p[1] \o h[n - 1]) \o r[n] = p[1] \o (h[n - 1] \o r[n])
    <3>1. p[1] \in Seq(B) /\ r[n] \in Seq(B)
      BY <1>3, <2>1
    <3> DEFINE a == p[1]
               b == h[n - 1]
               c == r[n]
    <3>2. a \in Seq(B) /\ b \in Seq(B) /\ c \in Seq(B)
      BY <1>8, <3>1
    <3> HIDE DEF a, b, c
    <3>3. (a \o b) \o c = a \o (b \o c)
      BY <3>2, ConcatAssociative
    <3> QED BY <3>3 DEF a, b, c
  <2> QED BY <2>2, <1>7, <1>8, Zenon
<1>10. FlattenSeq(p) = g[n] /\ FlattenSeq(r) = h[n]
  BY <1>1, <1>2 DEF IsFlatten
<1> QED BY <1>9, <1>10 DEF LostFirst

(* Two rows that are the same from place k on stay as far apart as they    *)
(* are there: what one has ahead of the other it has ahead in the end.     *)
Further(d, g, h, i) == g[i] = d \o h[i]

SameFrom(p, r, k, n) == \A i \in (k + 1)..n : r[i] = p[i]

LEMMA FlattenSuffix ==
    ASSUME NEW B, NEW n \in Nat, NEW p, NEW r, IsRow(p, n, B), IsRow(r, n, B),
           NEW g, NEW h, IsFlatten(g, p, n, B), IsFlatten(h, r, n, B),
           NEW k \in 0..n, SameFrom(p, r, k, n), NEW d \in Seq(B), Further(d, g, h, k)
    PROVE  Further(d, g, h, n)
<1> DEFINE S == {i \in Nat : k + i <= n => Further(d, g, h, k + i)}
<1>1. 0 \in S
  <2>1. k + 0 = k
    OBVIOUS
  <2> QED BY <2>1
<1>2. ASSUME NEW i \in Nat, i \in S PROVE i + 1 \in S
  <2> SUFFICES ASSUME k + (i + 1) <= n PROVE Further(d, g, h, k + (i + 1))
    OBVIOUS
  <2>1. PICK j : j = k + i
    OBVIOUS
  <2>2. /\ j \in 0..n /\ j + 1 \in 1..n /\ j + 1 \in (k + 1)..n
        /\ (j + 1) - 1 = j /\ k + (i + 1) = j + 1 /\ k + i <= n
    BY <2>1
  <2>3. Further(d, g, h, j)
    BY <1>2, <2>1, <2>2
  <2>4. Longer(g, p, j + 1) /\ Longer(h, r, j + 1)
    BY <2>2, FlattenLonger
  <2>5. r[j + 1] = p[j + 1]
    BY <2>2 DEF SameFrom
  <2>6. PICK u \in Seq(B) : u = h[j]
    BY <2>2 DEF IsFlatten
  <2>7. PICK v \in Seq(B) : v = r[j + 1]
    BY <2>2 DEF IsRow
  <2>8. Regrouped(d, u, v)
    BY Regrouping
  <2>9. g[j + 1] = (d \o u) \o v
    BY <2>2, <2>3, <2>4, <2>5, <2>6, <2>7 DEF Further, Longer
  <2>10. h[j + 1] = u \o v
    BY <2>2, <2>4, <2>6, <2>7 DEF Longer
  <2>11. g[j + 1] = d \o h[j + 1]
    BY <2>8, <2>9, <2>10, Zenon DEF Regrouped
  <2> QED BY <2>2, <2>11 DEF Further
<1> HIDE DEF S
<1>3. Nat \subseteq S
  BY <1>1, <1>2, SetInduction
<1>4. n - k \in S /\ k + (n - k) = n
  BY <1>3
<1> QED BY <1>4 DEF S

(* Nothing ahead.                                                          *)
LEMMA NothingAhead ==
    ASSUME NEW B, NEW g, NEW h, NEW i, g[i] \in Seq(B), h[i] \in Seq(B)
    PROVE  Further(<<>>, g, h, i) <=> g[i] = h[i]
<1>1. <<>> \o h[i] = h[i]
  OBVIOUS
<1> QED BY <1>1 DEF Further

SameUpTo(p, r, k) == \A i \in 1..k : r[i] = p[i]

LEMMA FlattenPrefix ==
    ASSUME NEW B, NEW n \in Nat, NEW p, NEW r,
           NEW g, NEW h, IsFlatten(g, p, n, B), IsFlatten(h, r, n, B),
           NEW k \in 0..n, SameUpTo(p, r, k)
    PROVE  h[k] = g[k]
<1> DEFINE S == {i \in Nat : i <= k => h[i] = g[i]}
<1>1. 0 \in S
  BY DEF IsFlatten
<1>2. ASSUME NEW i \in Nat, i \in S PROVE i + 1 \in S
  <2> SUFFICES ASSUME i + 1 <= k PROVE h[i + 1] = g[i + 1]
    OBVIOUS
  <2>1. i + 1 \in 1..n /\ i + 1 \in 1..k /\ (i + 1) - 1 = i /\ i <= k
    OBVIOUS
  <2>2. Longer(g, p, i + 1) /\ Longer(h, r, i + 1)
    BY <2>1, FlattenLonger
  <2>3. r[i + 1] = p[i + 1] /\ h[i] = g[i]
    BY <1>2, <2>1 DEF SameUpTo
  <2> QED BY <2>1, <2>2, <2>3 DEF Longer
<1> HIDE DEF S
<1>3. Nat \subseteq S
  BY <1>1, <1>2, SetInduction
<1> QED BY <1>3 DEF S

(* What moves from one place to the one before it leaves the flattening as *)
(* it is.                                                                  *)
Moved(p, r, j) == r[j] \o r[j + 1] = p[j] \o p[j + 1]

LEMMA FlattenMoved ==
    ASSUME NEW B, NEW n \in Nat, NEW p, NEW r, IsRow(p, n, B), IsRow(r, n, B),
           NEW j \in 1..(n - 1), SameUpTo(p, r, j - 1), SameFrom(p, r, j + 1, n), Moved(p, r, j)
    PROVE  FlattenSeq(r) = FlattenSeq(p)
<1>1. PICK g : IsFlatten(g, p, n, B)
  BY FlattenPrefixes DEF IsRow
<1>2. PICK h : IsFlatten(h, r, n, B)
  BY FlattenPrefixes DEF IsRow
<1>3. PICK i : i = j - 1
  OBVIOUS
<1>4. /\ i \in 0..n /\ j \in 0..n /\ j + 1 \in 0..n /\ j \in 1..n /\ j + 1 \in 1..n
      /\ (j + 1) - 1 = j /\ n \in 0..n
  BY <1>3
<1>5. h[i] = g[i]
  BY <1>1, <1>2, <1>3, <1>4, FlattenPrefix
<1>6. Longer(g, p, j) /\ Longer(g, p, j + 1) /\ Longer(h, r, j) /\ Longer(h, r, j + 1)
  BY <1>1, <1>2, <1>4, FlattenLonger
<1>7. PICK a \in Seq(B) : a = g[i]
  BY <1>1, <1>4 DEF IsFlatten
<1>8. PICK b \in Seq(B), c \in Seq(B) : b = p[j] /\ c = p[j + 1]
  BY <1>4 DEF IsRow
<1>9. PICK e \in Seq(B), f \in Seq(B) : e = r[j] /\ f = r[j + 1]
  BY <1>4 DEF IsRow
<1>10. Regrouped(a, b, c) /\ Regrouped(a, e, f)
  BY Regrouping
<1>11. g[j + 1] = (a \o b) \o c
  BY <1>3, <1>4, <1>6, <1>7, <1>8 DEF Longer
<1>12. h[j + 1] = (a \o e) \o f
  BY <1>3, <1>4, <1>5, <1>6, <1>7, <1>9 DEF Longer
<1>13. e \o f = b \o c
  BY <1>8, <1>9 DEF Moved
<1>14. g[j + 1] = h[j + 1]
  BY <1>10, <1>11, <1>12, <1>13, Zenon DEF Regrouped
<1>15. \A k \in 0..n : g[k] \in Seq(B) /\ h[k] \in Seq(B)
  BY <1>1, <1>2 DEF IsFlatten
<1>16. Further(<<>>, g, h, j + 1)
  BY <1>4, <1>14, <1>15, NothingAhead
<1>17. Further(<<>>, g, h, n)
  BY <1>1, <1>2, <1>4, <1>16, FlattenSuffix, EmptySeq
<1>18. g[n] = h[n]
  BY <1>4, <1>15, <1>17, NothingAhead
<1> QED BY <1>1, <1>2, <1>18 DEF IsFlatten

(* What the first place loses, the flattening loses in front.              *)
LostInFront(p, r, d) == FlattenSeq(p) = d \o FlattenSeq(r)

LEMMA FlattenFirst ==
    ASSUME NEW B, NEW n \in Nat \ {0}, NEW p, NEW r, IsRow(p, n, B), IsRow(r, n, B),
           NEW d \in Seq(B), p[1] = d, r[1] = <<>>, SameFrom(p, r, 1, n)
    PROVE  LostInFront(p, r, d)
<1>1. PICK g : IsFlatten(g, p, n, B)
  BY FlattenPrefixes DEF IsRow
<1>2. PICK h : IsFlatten(h, r, n, B)
  BY FlattenPrefixes DEF IsRow
<1>3. 1 \in 1..n /\ 1 \in 0..n /\ 1 - 1 = 0 /\ 0 \in 0..n
  OBVIOUS
<1>4. Longer(g, p, 1) /\ Longer(h, r, 1)
  BY <1>1, <1>2, <1>3, FlattenLonger
<1>5. g[0] = <<>> /\ h[0] = <<>>
  BY <1>1, <1>2 DEF IsFlatten
<1>6. <<>> \o d = d /\ d \o <<>> = d /\ <<>> \o <<>> = <<>>
  OBVIOUS
<1>7. g[1] = d /\ h[1] = <<>>
  BY <1>3, <1>4, <1>5, <1>6 DEF Longer
<1>8. Further(d, g, h, 1)
  BY <1>6, <1>7 DEF Further
<1>9. Further(d, g, h, n)
  BY <1>1, <1>2, <1>3, <1>8, FlattenSuffix
<1> QED BY <1>1, <1>2, <1>9 DEF Further, IsFlatten, LostInFront

(* What an empty last place gets, the flattening gets at its end.          *)
GotAtEnd(p, r, d) == FlattenSeq(r) = FlattenSeq(p) \o d

LEMMA FlattenLast ==
    ASSUME NEW B, NEW n \in Nat \ {0}, NEW p, NEW r, IsRow(p, n, B), IsRow(r, n, B),
           NEW d \in Seq(B), p[n] = <<>>, r[n] = d, SameUpTo(p, r, n - 1)
    PROVE  GotAtEnd(p, r, d)
<1>1. PICK g : IsFlatten(g, p, n, B)
  BY FlattenPrefixes DEF IsRow
<1>2. PICK h : IsFlatten(h, r, n, B)
  BY FlattenPrefixes DEF IsRow
<1>3. PICK m : m = n - 1
  OBVIOUS
<1>4. m \in 0..n /\ n \in 1..n
  BY <1>3
<1>5. h[m] = g[m]
  BY <1>1, <1>2, <1>3, <1>4, FlattenPrefix
<1>6. Longer(g, p, n) /\ Longer(h, r, n)
  BY <1>1, <1>2, <1>4, FlattenLonger
<1>7. PICK a \in Seq(B) : a = g[m]
  BY <1>1, <1>4 DEF IsFlatten
<1>8. a \o <<>> = a
  OBVIOUS
<1>9. g[n] = a
  BY <1>3, <1>6, <1>7, <1>8 DEF Longer
<1>10. h[n] = a \o d
  BY <1>3, <1>5, <1>6, <1>7 DEF Longer
<1> QED BY <1>1, <1>2, <1>9, <1>10 DEF IsFlatten, GotAtEnd

(* An element, k and m of them, and a last one, put in a row.              *)
IsLine(s, a, p, k, q, m, b, C) ==
    /\ s \in [1..(k + m + 2) -> C] /\ s[1] = a /\ s[k + m + 2] = b
    /\ \A i \in 1..k : s[i + 1] = p[i]
    /\ \A i \in 1..m : s[k + 1 + i] = q[i]

LEMMA LineUp ==
    ASSUME NEW C, NEW a \in C, NEW b \in C, NEW k \in Nat, NEW m \in Nat,
           NEW p \in [1..k -> C], NEW q \in [1..m -> C]
    PROVE  IsLine(<<a>> \o p \o q \o <<b>>, a, p, k, q, m, b, C)
<1>1. /\ <<a>> \in Seq(C) /\ Len(<<a>>) = 1 /\ <<a>>[1] = a
      /\ <<b>> \in Seq(C) /\ Len(<<b>>) = 1 /\ <<b>>[1] = b
      /\ p \in Seq(C) /\ Len(p) = k /\ q \in Seq(C) /\ Len(q) = m
  OBVIOUS
<1>2. PICK u \in Seq(C) : u = <<a>> \o p
  BY <1>1, ConcatProperties
<1>3. /\ Len(u) = 1 + k /\ u[1] = a
      /\ \A i \in 1..k : u[i + 1] = p[i]
  <2>1. /\ Len(u) = 1 + k
        /\ \A i \in 1..(1 + k) : u[i] = IF i <= 1 THEN <<a>>[i] ELSE p[i - 1]
    BY <1>1, <1>2, ConcatProperties
  <2>2. 1 \in 1..(1 + k)
    OBVIOUS
  <2>3. ASSUME NEW i \in 1..k PROVE u[i + 1] = p[i]
    <3>1. i + 1 \in 1..(1 + k) /\ ~(i + 1 <= 1) /\ (i + 1) - 1 = i
      OBVIOUS
    <3> QED BY <2>1, <3>1
  <2> QED BY <1>1, <2>1, <2>2, <2>3
<1>4. PICK v \in Seq(C) : v = u \o q
  BY <1>1, ConcatProperties
<1>5. /\ Len(v) = 1 + k + m /\ v[1] = a
      /\ \A i \in 1..k : v[i + 1] = p[i]
      /\ \A i \in 1..m : v[k + 1 + i] = q[i]
  <2>1. /\ Len(v) = 1 + k + m
        /\ \A i \in 1..(1 + k + m) : v[i] = IF i <= 1 + k THEN u[i] ELSE q[i - (1 + k)]
    <3>1. /\ Len(v) = Len(u) + Len(q)
          /\ \A i \in 1..(Len(u) + Len(q)) : v[i] = IF i <= Len(u) THEN u[i] ELSE q[i - Len(u)]
      BY <1>1, <1>4, ConcatProperties
    <3> QED BY <1>1, <1>3, <3>1
  <2>2. v[1] = a
    <3>1. 1 \in 1..(1 + k + m) /\ 1 <= 1 + k
      OBVIOUS
    <3> QED BY <1>3, <2>1, <3>1
  <2>3. ASSUME NEW i \in 1..k PROVE v[i + 1] = p[i]
    <3>1. i + 1 \in 1..(1 + k + m) /\ i + 1 <= 1 + k
      OBVIOUS
    <3> QED BY <1>3, <2>1, <3>1
  <2>4. ASSUME NEW i \in 1..m PROVE v[k + 1 + i] = q[i]
    <3>1. k + 1 + i \in 1..(1 + k + m) /\ ~(k + 1 + i <= 1 + k) /\ (k + 1 + i) - (1 + k) = i
      OBVIOUS
    <3> QED BY <2>1, <3>1
  <2> QED BY <2>1, <2>2, <2>3, <2>4
<1>6. PICK s \in Seq(C) : s = v \o <<b>>
  BY <1>1, ConcatProperties
<1>7. /\ Len(s) = k + m + 2 /\ s[k + m + 2] = b
      /\ \A i \in 1..(1 + k + m) : s[i] = v[i]
  <2>1. /\ Len(s) = (1 + k + m) + 1
        /\ \A i \in 1..((1 + k + m) + 1) :
              s[i] = IF i <= 1 + k + m THEN v[i] ELSE <<b>>[i - (1 + k + m)]
    BY <1>1, <1>5, <1>6, ConcatProperties
  <2>2. (1 + k + m) + 1 = k + m + 2 /\ (k + m + 2) - (1 + k + m) = 1 /\ ~(k + m + 2 <= 1 + k + m)
        /\ k + m + 2 \in 1..((1 + k + m) + 1)
    OBVIOUS
  <2>3. s[k + m + 2] = b
    BY <1>1, <2>1, <2>2
  <2> QED BY <2>1, <2>2, <2>3
<1>8. IsLine(s, a, p, k, q, m, b, C)
  <2>1. 1 \in 1..(1 + k + m) /\ s \in [1..(k + m + 2) -> C]
    BY <1>7
  <2>2. ASSUME NEW i \in 1..k PROVE s[i + 1] = p[i]
    <3>1. i + 1 \in 1..(1 + k + m)
      OBVIOUS
    <3> QED BY <1>5, <1>7, <3>1
  <2>3. ASSUME NEW i \in 1..m PROVE s[k + 1 + i] = q[i]
    <3>1. k + 1 + i \in 1..(1 + k + m)
      OBVIOUS
    <3> QED BY <1>5, <1>7, <3>1
  <2> QED BY <1>5, <1>7, <2>1, <2>2, <2>3 DEF IsLine
<1> QED BY <1>2, <1>4, <1>6, <1>8

(* At most one element each makes at most n in all, and none makes none.   *)
LEMMA FlattenShort ==
    ASSUME NEW B, NEW n \in Nat, NEW k \in 0..1, NEW p \in [1..n -> Seq(B)],
           \A i \in 1..n : Len(p[i]) <= k
    PROVE  FlattenSeq(p) \in Seq(B) /\ Len(FlattenSeq(p)) <= IF k = 0 THEN 0 ELSE n
<1>1. PICK g : IsFlatten(g, p, n, B)
  BY FlattenPrefixes
<1>2. \A i \in 0..n : g[i] \in Seq(B)
  BY <1>1 DEF IsFlatten
<1> DEFINE S == {i \in Nat : i <= n => Len(g[i]) <= IF k = 0 THEN 0 ELSE i}
<1>3. 0 \in S
  BY <1>1 DEF IsFlatten
<1>4. ASSUME NEW i \in Nat, i \in S PROVE i + 1 \in S
  <2> SUFFICES ASSUME i + 1 <= n PROVE Len(g[i + 1]) <= IF k = 0 THEN 0 ELSE i + 1
    OBVIOUS
  <2>1. i + 1 \in 1..n /\ (i + 1) - 1 = i
    OBVIOUS
  <2>2. g[i + 1] = g[i] \o p[i + 1]
    BY <2>1, <1>1 DEF IsFlatten
  <2>3. /\ g[i] \in Seq(B) /\ p[i + 1] \in Seq(B)
        /\ Len(p[i + 1]) <= k /\ Len(g[i]) <= IF k = 0 THEN 0 ELSE i
    <3>1. g[i] \in Seq(B) /\ p[i + 1] \in Seq(B)
      BY <2>1, <1>2
    <3>2. Len(p[i + 1]) <= k
      BY <2>1
    <3>3. Len(g[i]) <= IF k = 0 THEN 0 ELSE i
      BY <1>4
    <3> QED BY <3>1, <3>2, <3>3
  <2> DEFINE u == g[i]
             v == p[i + 1]
  <2>4. /\ u \in Seq(B) /\ v \in Seq(B) /\ g[i + 1] = u \o v
        /\ Len(u) <= (IF k = 0 THEN 0 ELSE i) /\ Len(v) <= k
    BY <2>2, <2>3
  <2> HIDE DEF u, v
  <2>5. Len(u \o v) = Len(u) + Len(v) /\ Len(u) \in Nat /\ Len(v) \in Nat
    BY <2>4, ConcatProperties
  <2> QED BY <2>4, <2>5
<1> HIDE DEF S
<1>5. Len(g[n]) <= IF k = 0 THEN 0 ELSE n
  <2>1. Nat \subseteq S
    BY <1>3, <1>4, SetInduction
  <2> QED BY <2>1 DEF S
<1> QED BY <1>1, <1>2, <1>5 DEF IsFlatten

(* A sequence of numbers that goes up and has the elements of T.           *)
Occurs(s, x) == \E k \in 1..Len(s) : s[k] = x

Ascends(s, T) ==
    /\ s \in Seq(Int)
    /\ \A k \in 1..(Len(s) - 1) : s[k] < s[k + 1]
    /\ \A x \in Int : Occurs(s, x) <=> x \in T

LEMMA AscendsFurther ==
    ASSUME NEW T \in SUBSET Int, NEW s, Ascends(s, T), NEW y \in Int, \A x \in T : x < y
    PROVE  Ascends(s \o <<y>>, T \cup {y})
<1>1. PICK m \in Nat : m = Len(s)
  BY DEF Ascends
<1>2. s \in Seq(Int) /\ \A k \in 1..m : s[k] \in Int
  BY <1>1 DEF Ascends
<1>3. PICK t : t = s \o <<y>>
  OBVIOUS
<1>4. /\ t \in Seq(Int) /\ Len(t) = m + 1 /\ t[m + 1] = y
      /\ \A k \in 1..m : t[k] = s[k]
  BY <1>1, <1>2, <1>3
<1>5. ASSUME NEW k \in 1..m PROVE s[k] \in T /\ s[k] < y
  <2>1. Occurs(s, s[k])
    BY <1>1, <1>5 DEF Occurs
  <2> QED BY <1>2, <2>1 DEF Ascends
<1>6. ASSUME NEW k \in 1..(Len(t) - 1) PROVE t[k] < t[k + 1]
  <2>1. CASE k = m
    BY <1>4, <1>5, <2>1
  <2>2. CASE k # m
    <3>1. k \in 1..(m - 1) /\ k + 1 \in 1..m /\ k \in 1..m
      BY <1>4, <2>2
    <3>2. s[k] < s[k + 1]
      BY <1>1, <3>1 DEF Ascends
    <3> QED BY <1>4, <3>1, <3>2
  <2> QED BY <2>1, <2>2
<1>7. ASSUME NEW x \in Int PROVE Occurs(t, x) <=> x \in T \cup {y}
  <2>1. Occurs(s, x) <=> x \in T
    BY DEF Ascends
  <2>2. ASSUME Occurs(t, x) PROVE x \in T \cup {y}
    <3>1. PICK k \in 1..(m + 1) : t[k] = x
      BY <1>4, <2>2 DEF Occurs
    <3>2. CASE k = m + 1
      BY <1>4, <3>1, <3>2
    <3>3. CASE k # m + 1
      <4>1. k \in 1..m
        BY <3>3
      <4> QED BY <1>4, <1>5, <3>1, <4>1
    <3> QED BY <3>2, <3>3
  <2>3. ASSUME x = y PROVE Occurs(t, x)
    <3>1. m + 1 \in 1..Len(t)
      BY <1>4
    <3> QED BY <1>4, <2>3, <3>1 DEF Occurs
  <2>4. ASSUME Occurs(s, x) PROVE Occurs(t, x)
    <3>1. PICK k \in 1..m : s[k] = x
      BY <1>1, <2>4 DEF Occurs
    <3>2. k \in 1..Len(t) /\ t[k] = x
      BY <1>4, <3>1
    <3> QED BY <3>2 DEF Occurs
  <2> QED BY <2>1, <2>2, <2>3, <2>4
<1> QED BY <1>3, <1>4, <1>6, <1>7 DEF Ascends

(* A row that has in place i the number a + i, or nothing when that is not *)
(* in T, flattens to T's numbers in order.                                 *)
Picks(p, n, a, T) == \A i \in 1..n : p[i] = IF a + i \in T THEN <<a + i>> ELSE <<>>

UpTo(T, a, n) == {x \in T : a < x /\ x <= a + n}

Grown(T, a, i) ==
    /\ a + (i + 1) \in T => UpTo(T, a, i + 1) = UpTo(T, a, i) \cup {a + (i + 1)}
    /\ a + (i + 1) \notin T => UpTo(T, a, i + 1) = UpTo(T, a, i)

LEMMA UpToGrows ==
    ASSUME NEW a \in Int, NEW i \in Nat, NEW T \in SUBSET Int
    PROVE  /\ UpTo(T, a, i) \in SUBSET Int /\ UpTo(T, a, 0) = {}
           /\ \A x \in UpTo(T, a, i) : x < a + (i + 1)
           /\ Grown(T, a, i)
<1>1. UpTo(T, a, i) \in SUBSET Int
  BY DEF UpTo
<1>2. \A x \in UpTo(T, a, i) : x < a + (i + 1)
  BY DEF UpTo
<1>3. UpTo(T, a, 0) = {}
  <2>1. \A x \in T : ~(a < x /\ x <= a + 0)
    OBVIOUS
  <2> QED BY <2>1 DEF UpTo
<1>4. \A x \in T : a < x /\ x <= a + (i + 1) <=> (a < x /\ x <= a + i) \/ x = a + (i + 1)
  OBVIOUS
<1>5. CASE a + (i + 1) \in T
  <2>1. \A x : x \in UpTo(T, a, i + 1) <=> x \in UpTo(T, a, i) \/ x = a + (i + 1)
    BY <1>4, <1>5 DEF UpTo
  <2> QED BY <1>1, <1>2, <1>3, <1>5, <2>1 DEF Grown
<1>6. CASE a + (i + 1) \notin T
  <2>1. \A x : x \in UpTo(T, a, i + 1) <=> x \in UpTo(T, a, i)
    BY <1>4, <1>6 DEF UpTo
  <2> QED BY <1>1, <1>2, <1>3, <1>6, <2>1 DEF Grown
<1> QED BY <1>5, <1>6

LEMMA FlattenPicked ==
    ASSUME NEW a \in Int, NEW n \in Nat, NEW T \in SUBSET Int,
           NEW p \in [1..n -> Seq(Int)], Picks(p, n, a, T)
    PROVE  Ascends(FlattenSeq(p), UpTo(T, a, n))
<1>1. PICK g : IsFlatten(g, p, n, Int)
  BY FlattenPrefixes
<1> DEFINE S == {i \in Nat : i <= n => Ascends(g[i], UpTo(T, a, i))}
<1>2. 0 \in S
  <2>1. g[0] = <<>> /\ UpTo(T, a, 0) = {}
    BY <1>1, UpToGrows DEF IsFlatten
  <2>2. \A x \in Int : ~Occurs(<<>>, x)
    BY DEF Occurs
  <2>3. <<>> \in Seq(Int) /\ Len(<<>>) = 0
    OBVIOUS
  <2>4. Ascends(<<>>, {})
    BY <2>2, <2>3 DEF Ascends
  <2> QED BY <2>1, <2>4
<1>3. ASSUME NEW i \in Nat, i \in S PROVE i + 1 \in S
  <2> SUFFICES ASSUME i + 1 <= n PROVE Ascends(g[i + 1], UpTo(T, a, i + 1))
    OBVIOUS
  <2>1. Ascends(g[i], UpTo(T, a, i)) /\ UpTo(T, a, i) \in SUBSET Int
    <3>1. Ascends(g[i], UpTo(T, a, i))
      BY <1>3
    <3> QED BY <3>1, UpToGrows
  <2>2. PICK s : s = g[i]
    OBVIOUS
  <2>3. i + 1 \in 1..n /\ (i + 1) - 1 = i /\ a + (i + 1) \in Int
    OBVIOUS
  <2>4. g[i + 1] = s \o p[i + 1]
    BY <1>1, <2>2, <2>3 DEF IsFlatten
  <2>5. s \in Seq(Int)
    BY <2>1, <2>2 DEF Ascends
  <2>6. Grown(T, a, i)
    BY UpToGrows
  <2>7. CASE a + (i + 1) \in T
    <3>1. p[i + 1] = <<a + (i + 1)>>
      BY <2>3, <2>7 DEF Picks
    <3>2. \A x \in UpTo(T, a, i) : x < a + (i + 1)
      BY UpToGrows
    <3>3. UpTo(T, a, i + 1) = UpTo(T, a, i) \cup {a + (i + 1)}
      BY <2>7, <2>6 DEF Grown
    <3>4. Ascends(s \o <<a + (i + 1)>>, UpTo(T, a, i) \cup {a + (i + 1)})
      BY <2>1, <2>2, <2>3, <3>2, AscendsFurther
    <3> QED BY <2>4, <3>1, <3>3, <3>4
  <2>8. CASE a + (i + 1) \notin T
    <3>1. p[i + 1] = <<>>
      BY <2>3, <2>8 DEF Picks
    <3>2. UpTo(T, a, i + 1) = UpTo(T, a, i)
      BY <2>8, <2>6 DEF Grown
    <3>3. s \o <<>> = s
      BY <2>5
    <3> QED BY <2>1, <2>2, <2>4, <3>1, <3>2, <3>3
  <2> QED BY <2>7, <2>8
<1> HIDE DEF S
<1>4. Ascends(g[n], UpTo(T, a, n))
  <2>1. Nat \subseteq S
    BY <1>2, <1>3, SetInduction
  <2>2. n \in S
    BY <2>1
  <2> QED BY <2>2 DEF S
<1> QED BY <1>1, <1>4 DEF IsFlatten

(* A row of sequences of one length c flattens to pieces of that length.   *)
Even(p, n, c) == \A i \in 1..n : Len(p[i]) = c

InPieces(s, p, n, c) ==
    /\ Len(s) = c * n
    /\ \A i \in 1..n, b \in 1..c : s[c * (i - 1) + b] = p[i][b]

LEMMA FlattenEven ==
    ASSUME NEW B, NEW n \in Nat, NEW c \in Nat, NEW p \in [1..n -> Seq(B)], Even(p, n, c)
    PROVE  InPieces(FlattenSeq(p), p, n, c)
<1>1. PICK g : IsFlatten(g, p, n, B)
  BY FlattenPrefixes
<1> DEFINE S == {i \in Nat : i <= n => InPieces(g[i], p, i, c)}
<1>2. 0 \in S
  BY <1>1 DEF InPieces, IsFlatten
<1>3. ASSUME NEW i \in Nat, i \in S PROVE i + 1 \in S
  <2> SUFFICES ASSUME i + 1 <= n PROVE InPieces(g[i + 1], p, i + 1, c)
    OBVIOUS
  <2>1. i + 1 \in 1..n /\ (i + 1) - 1 = i /\ i \in 0..n
    OBVIOUS
  <2>2. PICK s \in Seq(B) : s = g[i]
    BY <1>1, <2>1 DEF IsFlatten
  <2>3. PICK t \in Seq(B) : t = p[i + 1]
    BY <2>1
  <2>4. g[i + 1] = s \o t
    BY <1>1, <2>1, <2>2, <2>3 DEF IsFlatten
  <2>5. Len(t) = c
    BY <2>1, <2>3 DEF Even
  <2>6. InPieces(s, p, i, c)
    BY <1>3, <2>2
  <2>7. PICK m \in Nat : m = c * i
    OBVIOUS
  <2>8. Len(s) = m
    BY <2>6, <2>7 DEF InPieces
  <2>9. /\ Len(s \o t) = m + c
        /\ \A k \in 1..m : (s \o t)[k] = s[k]
        /\ \A k \in 1..c : (s \o t)[m + k] = t[k]
    <3>1. Len(s \o t) = m + c
      BY <2>5, <2>8, ConcatProperties
    <3>2. \A k \in 1..m : (s \o t)[k] = s[k]
      BY <2>8
    <3>3. ASSUME NEW k \in 1..c PROVE (s \o t)[m + k] = t[k]
      BY <2>5, <2>8
    <3> QED BY <3>1, <3>2, <3>3
  <2>10. c * (i + 1) = m + c
    BY <2>7
  <2>11. ASSUME NEW j \in 1..(i + 1), NEW b \in 1..c
         PROVE  (s \o t)[c * (j - 1) + b] = p[j][b]
    <3>1. CASE j = i + 1
      <4>1. c * (j - 1) = m
        BY <2>7, <3>1
      <4> QED BY <2>3, <2>9, <3>1, <4>1
    <3>2. CASE j # i + 1
      <4>1. PICK k \in Nat : i = j + k
        <5>1. i - j \in Nat /\ i = j + (i - j)
          BY <3>2
        <5> QED BY <5>1
      <4>2. c * i = c * (j - 1) + c + c * k /\ c * k \in Nat /\ c * (j - 1) \in Nat
        BY <4>1
      <4>3. c * (j - 1) + b \in 1..m
        <5>1. PICK x \in Nat : x = c * (j - 1)
          BY <4>2
        <5>2. PICK y \in Nat : y = c * k
          BY <4>2
        <5>3. m = x + c + y
          BY <2>7, <4>2, <5>1, <5>2
        <5>4. x + b \in 1..m
          BY <5>3
        <5> QED BY <5>1, <5>4
      <4>4. s[c * (j - 1) + b] = p[j][b]
        BY <2>6, <3>2 DEF InPieces
      <4> QED BY <2>9, <4>3, <4>4
    <3> QED BY <3>1, <3>2
  <2> QED BY <2>4, <2>9, <2>10, <2>11 DEF InPieces
<1> HIDE DEF S
<1>4. InPieces(g[n], p, n, c)
  <2>1. Nat \subseteq S
    BY <1>2, <1>3, SetInduction
  <2> QED BY <2>1 DEF S
<1> QED BY <1>1, <1>4 DEF IsFlatten

-----------------------------------------------------------------------------
(* Folds                                                                   *)

(* The value of a fold over the first i elements of s.                     *)
FoldOf(F, b, s) == FoldLeft(LAMBDA c, x : F[c, x], b, s)

IsFold(g, F, b, s) ==
    /\ g[0] = b /\ FoldOf(F, b, s) = g[Len(s)]
    /\ \A i \in 1..Len(s) : g[i] = F[g[i - 1], s[i]]

LEMMA MaxOfInterval ==
    ASSUME NEW k \in Nat, NEW s \in SUBSET (1..(k + 1)), k + 1 \in s
    PROVE  Max(s) = k + 1
<1>1. k + 1 \in s /\ \A y \in s : k + 1 >= y
  OBVIOUS
<1>2. \A x \in s : (\A y \in s : x >= y) => x = k + 1
  OBVIOUS
<1> DEFINE P(x) == x \in s /\ \A y \in s : x >= y
           m == CHOOSE x : P(x)
<1>3. P(m)
  BY <1>1
<1>4. Max(s) = m
  BY DEF Max
<1> QED BY <1>2, <1>3, <1>4

(* What MapThenFoldSet asks of its local function.                         *)
Folder(h, F, b, s, n) ==
    h = [t \in SUBSET (1..n) |->
           IF t = {} THEN b ELSE F[h[t \ {Max(t)}], s[Max(t)]]]

LEMMA FolderExists ==
    ASSUME NEW F, NEW b, NEW s, NEW n \in Nat
    PROVE  \E h : Folder(h, F, b, s, n)
<1> DEFINE S == {k \in Nat : \E h : Folder(h, F, b, s, k)}
<1>1. 0 \in S
  <2> DEFINE h == [t \in SUBSET (1..0) |-> b]
  <2>1. \A t \in SUBSET (1..0) : t = {}
    OBVIOUS
  <2>2. Folder(h, F, b, s, 0)
    BY <2>1 DEF Folder
  <2> QED BY <2>2
<1>2. ASSUME NEW k \in Nat, k \in S PROVE k + 1 \in S
  <2>1. PICK h : Folder(h, F, b, s, k)
    BY <1>2
  <2> DEFINE g == [t \in SUBSET (1..(k + 1)) |->
                      IF k + 1 \in t THEN F[h[t \ {k + 1}], s[k + 1]] ELSE h[t]]
  <2>2. ASSUME NEW t \in SUBSET (1..(k + 1))
        PROVE  g[t] = IF t = {} THEN b ELSE F[g[t \ {Max(t)}], s[Max(t)]]
    <3>1. CASE k + 1 \in t
      <4>1. Max(t) = k + 1
        BY <3>1, MaxOfInterval
      <4>2. t \ {k + 1} \in SUBSET (1..(k + 1)) /\ k + 1 \notin t \ {k + 1}
        OBVIOUS
      <4>3. g[t \ {k + 1}] = h[t \ {k + 1}]
        BY <4>2
      <4>4. g[t] = F[h[t \ {k + 1}], s[k + 1]]
        BY <3>1
      <4> QED BY <3>1, <4>1, <4>3, <4>4
    <3>2. CASE k + 1 \notin t
      <4>1. t \in SUBSET (1..k)
        BY <3>2
      <4>2. h[t] = IF t = {} THEN b ELSE F[h[t \ {Max(t)}], s[Max(t)]]
        BY <4>1, <2>1 DEF Folder
      <4>3. g[t] = h[t]
        BY <3>2
      <4>4. t \ {Max(t)} \in SUBSET (1..(k + 1)) /\ k + 1 \notin t \ {Max(t)}
        BY <3>2
      <4>5. g[t \ {Max(t)}] = h[t \ {Max(t)}]
        BY <4>4
      <4> QED BY <4>2, <4>3, <4>5
    <3> QED BY <3>1, <3>2
  <2>3. g = [t \in SUBSET (1..(k + 1)) |-> g[t]]
    OBVIOUS
  <2> HIDE DEF g
  <2>4. Folder(g, F, b, s, k + 1)
    BY <2>2, <2>3 DEF Folder
  <2> QED BY <2>4
<1> HIDE DEF S
<1>3. Nat \subseteq S
  BY <1>1, <1>2, SetInduction
<1> QED BY <1>3 DEF S

LEMMA FoldPrefixes ==
    ASSUME NEW F, NEW b, NEW B, NEW s \in Seq(B)
    PROVE  \E g : IsFold(g, F, b, s)
<1> DEFINE n == Len(s)
           h == CHOOSE h : Folder(h, F, b, s, n)
           g == [i \in 0..n |-> h[1..i]]
<1>1. n \in Nat /\ DOMAIN s = 1..n
  OBVIOUS
<1>2. Folder(h, F, b, s, n)
  BY <1>1, FolderExists
<1>3. FoldOf(F, b, s) = h[1..n]
  BY <1>1 DEF FoldOf, FoldLeft, MapThenFoldSet, Folder
<1> HIDE DEF h, n
<1>4. g[0] = b
  <2>1. 1..0 = {} /\ 1..0 \in SUBSET (1..n)
    OBVIOUS
  <2>2. h[1..0] = b
    BY <1>2, <2>1 DEF Folder
  <2> QED BY <1>1, <2>2
<1>5. ASSUME NEW i \in 1..n PROVE g[i] = F[g[i - 1], s[i]]
  <2>1. i - 1 \in Nat /\ (i - 1) + 1 = i /\ 1..i \in SUBSET (1..((i - 1) + 1)) /\ i \in 1..i
    BY <1>1
  <2>2. Max(1..i) = i
    BY <2>1, MaxOfInterval
  <2>3. (1..i) \ {i} = 1..(i - 1)
    BY <1>1
  <2>4. 1..i \in SUBSET (1..n) /\ 1..i # {}
    BY <1>1
  <2>5. h[1..i] = F[h[1..(i - 1)], s[i]]
    BY <1>2, <2>2, <2>3, <2>4 DEF Folder
  <2>6. i \in 0..n /\ i - 1 \in 0..n
    BY <1>1
  <2>7. g[i] = h[1..i] /\ g[i - 1] = h[1..(i - 1)]
    BY <2>6
  <2> QED BY <2>5, <2>7
<1>6. g[n] = h[1..n]
  BY <1>1
<1> HIDE DEF g
<1>7. IsFold(g, F, b, s)
  BY <1>3, <1>4, <1>5, <1>6 DEF IsFold, n
<1> QED BY <1>7

(* A fold of the empty sequence, and of a sequence with one more element.  *)
LEMMA FoldOfEmpty ==
    ASSUME NEW F, NEW b
    PROVE  FoldOf(F, b, <<>>) = b
<1>1. <<>> \in Seq({}) /\ Len(<<>>) = 0
  OBVIOUS
<1>2. PICK g : IsFold(g, F, b, <<>>)
  BY <1>1, FoldPrefixes
<1> QED BY <1>1, <1>2 DEF IsFold

OneMore(F, b, s, x) == FoldOf(F, b, Append(s, x)) = F[FoldOf(F, b, s), x]

LEMMA FoldOfAppend ==
    ASSUME NEW F, NEW b, NEW B, NEW s \in Seq(B), NEW x \in B
    PROVE  OneMore(F, b, s, x)
<1> DEFINE n == Len(s)
           r == Append(s, x)
<1>1. /\ r \in Seq(B) /\ Len(r) = n + 1 /\ n \in Nat
      /\ \A i \in 1..n : r[i] = s[i]
      /\ r[n + 1] = x
  OBVIOUS
<1>2. PICK g : IsFold(g, F, b, s)
  BY FoldPrefixes
<1> HIDE DEF r, n
<1>3. PICK h : IsFold(h, F, b, r)
  BY <1>1, FoldPrefixes
<1> DEFINE S == {i \in Nat : i <= n => h[i] = g[i]}
<1>4. 0 \in S
  BY <1>2, <1>3 DEF IsFold
<1>5. ASSUME NEW i \in Nat, i \in S PROVE i + 1 \in S
  <2> SUFFICES ASSUME i + 1 <= n PROVE h[i + 1] = g[i + 1]
    OBVIOUS
  <2>1. h[i] = g[i]
    BY <1>5, <1>1
  <2> DEFINE j == i + 1
  <2>2. j \in 1..n /\ j \in 1..(n + 1) /\ j - 1 = i
    BY <1>1
  <2> HIDE DEF j
  <2>3. h[j] = F[h[j - 1], r[j]] /\ g[j] = F[g[j - 1], s[j]] /\ r[j] = s[j]
    BY <1>1, <1>2, <1>3, <2>2 DEF IsFold, n
  <2>4. h[j] = g[j]
    BY <2>1, <2>2, <2>3
  <2> QED BY <2>4 DEF j
<1> HIDE DEF S
<1>6. h[n] = g[n]
  <2>1. Nat \subseteq S
    BY <1>4, <1>5, SetInduction
  <2> QED BY <1>1, <2>1 DEF S
<1>7. h[n + 1] = F[h[n], x]
  <2>1. n + 1 \in 1..(n + 1) /\ (n + 1) - 1 = n
    BY <1>1
  <2> QED BY <1>1, <1>3, <2>1 DEF IsFold
<1>8. FoldOf(F, b, r) = h[n + 1] /\ FoldOf(F, b, s) = g[n]
  BY <1>1, <1>2, <1>3 DEF IsFold, n
<1> QED BY <1>6, <1>7, <1>8 DEF r, OneMore

-----------------------------------------------------------------------------
(* Rings                                                                   *)

(* A pointer that has moved by at most a turn.                             *)
Wrapped(a, n) == IF a < n THEN a ELSE a - n

(* n slots for bytes of B.                                                 *)
Memory(n, B) == [0..(n - 1) -> B]

(* The bytes of a ring of n slots, oldest first.                           *)
RingContent(mem, rd, c, n) == [i \in 1..c |-> mem[(rd + i - 1) % n]]

(* A ring whose write pointer is its count ahead of its read pointer.      *)
RingState(mem, rd, wr, c, n, B) ==
    /\ mem \in Memory(n, B) /\ rd \in 0..(n - 1) /\ wr \in 0..(n - 1) /\ c \in 0..n
    /\ wr = Wrapped(rd + c, n)

(* One edge: up bytes are pushed and dn are popped, each 0 or 1.           *)
RingStep(mem, rd, wr, c, n, up, byte, dn, mem2, rd2, wr2, c2) ==
    /\ up = 1 => c < n \/ dn = 1
    /\ dn = 1 => c # 0
    /\ mem2 = IF up = 1 THEN [mem EXCEPT ![wr] = byte] ELSE mem
    /\ wr2 = IF up = 1 THEN Wrapped(wr + 1, n) ELSE wr
    /\ rd2 = IF dn = 1 THEN Wrapped(rd + 1, n) ELSE rd
    /\ c2 = c + up - dn

(* What it does to the queue.                                              *)
Passed(q, up, byte, dn) ==
    (IF dn = 1 THEN Tail(q) ELSE q) \o (IF up = 1 THEN <<byte>> ELSE <<>>)

LEMMA DivMod ==
    ASSUME NEW a \in Nat, NEW b \in Nat \ {0}
    PROVE  /\ a = b * (a \div b) + (a % b)
           /\ a % b \in 0..(b - 1) /\ a \div b \in Nat
  OBVIOUS

(* Quotient and remainder are the only ones.                               *)
LEMMA DivModUnique ==
    ASSUME NEW b \in Nat \ {0}, NEW q \in Nat, NEW r \in 0..(b - 1)
    PROVE  (b * q + r) % b = r /\ (b * q + r) \div b = q
<1> DEFINE a == b * q + r
<1>1. a \in Nat
  OBVIOUS
<1>2. /\ a = b * (a \div b) + (a % b)
      /\ a % b \in 0..(b - 1) /\ a \div b \in Nat
  BY <1>1, DivMod
<1> SUFFICES a \div b = q
  BY <1>2
<1> DEFINE d == a \div b
           m == a % b
<1>3. b * q + r = b * d + m /\ d \in Nat /\ m \in 0..(b - 1)
  BY <1>2
<1> HIDE DEF a, d, m
<1>4. CASE d > q
  <2>1. PICK k \in Nat : d = q + 1 + k
    <3>1. d - q - 1 \in Nat /\ d = q + 1 + (d - q - 1)
      BY <1>3, <1>4
    <3> QED BY <3>1
  <2>2. b * d = b * q + b + b * k /\ b * k \in Nat /\ b * q \in Nat
    BY <2>1
  <2> QED BY <1>3, <2>2
<1>5. CASE d < q
  <2>1. PICK k \in Nat : q = d + 1 + k
    <3>1. q - d - 1 \in Nat /\ q = d + 1 + (q - d - 1)
      BY <1>3, <1>5
    <3> QED BY <3>1
  <2>2. b * q = b * d + b + b * k /\ b * k \in Nat /\ b * d \in Nat
    BY <1>3, <2>1
  <2> QED BY <1>3, <2>2
<1> QED BY <1>3, <1>4, <1>5 DEF d

(* A new low digit leaves a number of two digits one.                      *)
LEMMA LowDigit ==
    ASSUME NEW b \in Nat \ {0, 1}, NEW a \in 0..(b * b - 1), NEW r \in 0..(b - 1)
    PROVE  b * (a \div b) + r \in 0..(b * b - 1)
<1> DEFINE d == a \div b
           m == a % b
<1>1. /\ a \in Nat /\ b * b \in Nat /\ a <= b * b - 1
      /\ a = b * d + m /\ m \in 0..(b - 1) /\ d \in Nat
  <2>1. b * b \in Nat
    OBVIOUS
  <2>2. a \in Nat /\ a <= b * b - 1
    BY <2>1
  <2> QED BY <2>1, <2>2, DivMod
<1> HIDE DEF d, m
<1>2. d < b
  <2>1. CASE d >= b
    <3>1. PICK k \in Nat : d = b + k
      <4>1. d - b \in Nat /\ d = b + (d - b)
        BY <1>1, <2>1
      <4> QED BY <4>1
    <3>2. b * d = b * b + b * k /\ b * k \in Nat
      BY <3>1
    <3> QED BY <3>2, <1>1
  <2> QED BY <2>1, <1>1
<1>3. PICK k \in Nat : b = d + 1 + k
  <2>1. b - d - 1 \in Nat /\ b = d + 1 + (b - d - 1)
    BY <1>1, <1>2
  <2> QED BY <2>1
<1>4. b * b = b * d + b + b * k /\ b * k \in Nat /\ b * d \in Nat
  <2>1. b * b = b * (d + 1 + k)
    BY <1>3
  <2>2. b * (d + 1 + k) = b * d + b + b * k
    BY <1>1
  <2> QED BY <2>1, <2>2, <1>1
<1> QED BY <1>1, <1>4 DEF d

(* The modulus of a pointer that has moved by at most a turn.              *)
LEMMA Wrap ==
    ASSUME NEW n \in Nat \ {0}, NEW a \in 0..(n - 1), NEW b \in 0..n
    PROVE  (a + b) % n = Wrapped(a + b, n)
<1>1. CASE a + b < n
  <2>1. n * 0 + (a + b) = a + b /\ a + b \in 0..(n - 1)
    BY <1>1
  <2>2. (n * 0 + (a + b)) % n = a + b
    BY <2>1, DivModUnique
  <2> QED BY <1>1, <2>1, <2>2 DEF Wrapped
<1>2. CASE ~(a + b < n)
  <2>1. n * 1 + (a + b - n) = a + b /\ a + b - n \in 0..(n - 1)
    BY <1>2
  <2>2. (n * 1 + (a + b - n)) % n = a + b - n
    BY <2>1, DivModUnique
  <2> QED BY <1>2, <2>1, <2>2 DEF Wrapped
<1> QED BY <1>1, <1>2

LEMMA WrappedSum ==
    ASSUME NEW n \in Nat \ {0}, NEW rd \in 0..(n - 1), NEW c \in 0..n,
           NEW up \in 0..1, NEW dn \in 0..1, c + up - dn \in 0..n
    PROVE  Wrapped(Wrapped(rd + c, n) + up, n)
             = Wrapped(Wrapped(rd + dn, n) + (c + up - dn), n)
<1>1. CASE up = 0 /\ dn = 0
  BY <1>1 DEF Wrapped
<1>2. CASE up = 1 /\ dn = 0
  BY <1>2 DEF Wrapped
<1>3. CASE up = 0 /\ dn = 1
  BY <1>3 DEF Wrapped
<1>4. CASE up = 1 /\ dn = 1
  BY <1>4 DEF Wrapped
<1> QED BY <1>1, <1>2, <1>3, <1>4

(* A sequence is its head and its tail, and what is added at the end of it *)
(* is added at the end of its tail.                                        *)
LEMMA HeadAndTail ==
    ASSUME NEW B, NEW s \in Seq(B), s # <<>>
    PROVE  s = <<Head(s)>> \o Tail(s)
<1>1. 1 \in 1..Len(s) /\ Len(s) \in 1..Len(s)
  BY EmptySeq
<1>2. SubSeq(s, 1, Len(s)) = <<s[1]>> \o SubSeq(s, 2, Len(s))
  BY <1>1, SubSeqRecursiveFirst
<1>3. SubSeq(s, 1, Len(s)) = s /\ Tail(s) = SubSeq(s, 2, Len(s)) /\ Head(s) = s[1]
  BY SubSeqFull, TailIsSubSeq
<1> QED BY <1>2, <1>3

LEMMA TailOfConcat ==
    ASSUME NEW B, NEW s \in Seq(B), NEW t \in Seq(B), s # <<>>
    PROVE  s \o t # <<>> /\ Tail(s \o t) = Tail(s) \o t
<1>1. Len(s) \in Nat \ {0} /\ Len(t) \in Nat
  BY EmptySeq
<1>2. /\ s \o t \in Seq(B) /\ Len(s \o t) = Len(s) + Len(t)
      /\ \A i \in 1..(Len(s) + Len(t)) : (s \o t)[i] = IF i <= Len(s) THEN s[i] ELSE t[i - Len(s)]
  BY ConcatProperties
<1>3. s \o t # <<>>
  BY <1>1, <1>2
<1> DEFINE u == Tail(s \o t)
           v == Tail(s) \o t
<1>4. /\ u \in Seq(B) /\ Len(u) = Len(s) + Len(t) - 1
      /\ \A i \in 1..(Len(s) + Len(t) - 1) : u[i] = (s \o t)[i + 1]
  BY <1>1, <1>2, <1>3, HeadTailProperties
<1>5. /\ Tail(s) \in Seq(B) /\ Len(Tail(s)) = Len(s) - 1
      /\ \A i \in 1..(Len(s) - 1) : Tail(s)[i] = s[i + 1]
  BY <1>1, HeadTailProperties
<1>6. /\ v \in Seq(B) /\ Len(v) = Len(s) - 1 + Len(t)
      /\ \A i \in 1..(Len(s) - 1 + Len(t)) :
           v[i] = IF i <= Len(s) - 1 THEN Tail(s)[i] ELSE t[i - (Len(s) - 1)]
  BY <1>5, ConcatProperties
<1> HIDE DEF u, v
<1>7. ASSUME NEW i \in 1..Len(u) PROVE u[i] = v[i]
  <2>1. i \in 1..(Len(s) + Len(t) - 1) /\ i + 1 \in 1..(Len(s) + Len(t))
    BY <1>1, <1>4
  <2>2. u[i] = IF i + 1 <= Len(s) THEN s[i + 1] ELSE t[i + 1 - Len(s)]
    BY <2>1, <1>2, <1>4
  <2>3. v[i] = IF i <= Len(s) - 1 THEN Tail(s)[i] ELSE t[i - (Len(s) - 1)]
    BY <2>1, <1>1, <1>6
  <2>4. CASE i <= Len(s) - 1
    BY <2>1, <2>2, <2>3, <2>4, <1>1, <1>5
  <2>5. CASE ~(i <= Len(s) - 1)
    <3>1. i + 1 - Len(s) = i - (Len(s) - 1) /\ ~(i + 1 <= Len(s))
      BY <2>1, <2>5, <1>1
    <3> QED BY <3>1, <2>2, <2>3, <2>5
  <2> QED BY <2>4, <2>5
<1>8. u = v
  BY <1>1, <1>4, <1>6, <1>7, SeqEqual
<1> QED BY <1>3, <1>8 DEF u, v

LEMMA ContentBytes ==
    ASSUME NEW n \in Nat \ {0}, NEW B, NEW mem \in Memory(n, B),
           NEW rd \in 0..(n - 1), NEW c \in 0..n
    PROVE  /\ RingContent(mem, rd, c, n) \in Seq(B) /\ Len(RingContent(mem, rd, c, n)) = c
           /\ \A i \in 1..c : RingContent(mem, rd, c, n)[i] = mem[Wrapped(rd + (i - 1), n)]
<1>1. ASSUME NEW i \in 1..c
      PROVE  /\ (rd + i - 1) % n = Wrapped(rd + (i - 1), n)
             /\ Wrapped(rd + (i - 1), n) \in 0..(n - 1)
  <2>1. i - 1 \in 0..n /\ rd + i - 1 = rd + (i - 1) /\ i - 1 < n
    OBVIOUS
  <2>2. (rd + (i - 1)) % n = Wrapped(rd + (i - 1), n)
    BY <2>1, Wrap
  <2>3. Wrapped(rd + (i - 1), n) \in 0..(n - 1)
    BY <2>1 DEF Wrapped
  <2> QED BY <2>1, <2>2, <2>3
<1>2. RingContent(mem, rd, c, n) = [i \in 1..c |-> mem[Wrapped(rd + (i - 1), n)]]
  BY <1>1 DEF RingContent
<1>3. \A i \in 1..c : mem[Wrapped(rd + (i - 1), n)] \in B
  BY <1>1 DEF Memory
<1> QED BY <1>2, <1>3

(* A push and a pop, of one edge or not, pass the oldest byte on and take  *)
(* the new one in at the end, also when the ring is full and both happen.  *)
LEMMA RingIsQueue ==
    ASSUME NEW n \in Nat \ {0}, NEW B, NEW mem, NEW rd, NEW wr, NEW c,
           RingState(mem, rd, wr, c, n, B),
           NEW byte \in B, NEW up \in 0..1, NEW dn \in 0..1,
           NEW mem2, NEW rd2, NEW wr2, NEW c2,
           RingStep(mem, rd, wr, c, n, up, byte, dn, mem2, rd2, wr2, c2)
    PROVE  /\ RingState(mem2, rd2, wr2, c2, n, B)
           /\ RingContent(mem2, rd2, c2, n) = Passed(RingContent(mem, rd, c, n), up, byte, dn)
<1>s. /\ mem \in Memory(n, B) /\ rd \in 0..(n - 1) /\ wr \in 0..(n - 1) /\ c \in 0..n
      /\ wr = Wrapped(rd + c, n)
      /\ up = 1 => c < n \/ dn = 1
      /\ dn = 1 => c # 0
  BY DEF RingState, RingStep
<1>e. /\ mem2 = IF up = 1 THEN [mem EXCEPT ![wr] = byte] ELSE mem
      /\ wr2 = IF up = 1 THEN Wrapped(wr + 1, n) ELSE wr
      /\ rd2 = IF dn = 1 THEN Wrapped(rd + 1, n) ELSE rd
      /\ c2 = c + up - dn
  BY DEF RingStep
<1> DEFINE q == RingContent(mem, rd, c, n)
           h == RingContent(mem2, rd2, c2, n)
           kept == IF dn = 1 THEN Tail(q) ELSE q
           new  == IF up = 1 THEN <<byte>> ELSE <<>>
<1>d. /\ up \in 0..1 /\ dn \in 0..1
      /\ (dn = 1 => c # 0) /\ (up = 1 => c < n \/ dn = 1) /\ c2 = c + up - dn
  BY <1>s, <1>e
<1>q. /\ q \in Seq(B) /\ Len(q) = c
      /\ \A i \in 1..c : q[i] = mem[Wrapped(rd + (i - 1), n)]
  <2>1. mem \in Memory(n, B) /\ rd \in 0..(n - 1) /\ c \in 0..n
    BY <1>s
  <2> QED BY <2>1, ContentBytes
<1>k. /\ kept \in Seq(B) /\ Len(kept) = c - dn
      /\ \A i \in 1..(c - dn) : kept[i] = q[i + dn]
  <2>1. CASE dn = 1
    <3>1. q # <<>> /\ dn = 1 /\ kept = Tail(q)
      BY <1>q, <1>s, <2>1
    <3> HIDE DEF q, kept
    <3>2. /\ Tail(q) \in Seq(B) /\ Len(Tail(q)) = Len(q) - 1
          /\ \A i \in 1..(Len(q) - 1) : Tail(q)[i] = q[i + 1]
      BY <1>q, <3>1
    <3> QED BY <3>1, <3>2, <1>q
  <2>2. CASE ~(dn = 1)
    <3>1. dn = 0 /\ kept = q
      BY <2>2
    <3> HIDE DEF q, kept
    <3>2. c - dn = c /\ \A i \in 1..c : i + dn = i
      BY <3>1, <1>s
    <3> QED BY <3>1, <3>2, <1>q
  <2> QED BY <2>1, <2>2
<1>w. new \in Seq(B) /\ Len(new) = up /\ (up = 1 => new[1] = byte)
  OBVIOUS
<1> HIDE DEF q, h, kept, new
<1>c. c2 \in 0..n
  BY <1>d, <1>s
<1>m. mem2 \in Memory(n, B)
  BY <1>s, <1>e DEF Memory
<1>r. \A a \in 0..(n - 1) : Wrapped(a + 1, n) \in 0..(n - 1) /\ Wrapped(a + 0, n) = a
  BY DEF Wrapped
<1>p. wr2 = Wrapped(wr + up, n) /\ rd2 = Wrapped(rd + dn, n)
  <2>1. (up = 0 \/ up = 1) /\ (dn = 0 \/ dn = 1)
    BY <1>d
  <2> QED BY <2>1, <1>d, <1>r, <1>s, <1>e
<1>b. rd2 \in 0..(n - 1) /\ wr2 \in 0..(n - 1)
  BY <1>r, <1>s, <1>e
<1>h. /\ h \in Seq(B) /\ Len(h) = c2
      /\ \A i \in 1..c2 : h[i] = mem2[Wrapped(rd2 + (i - 1), n)]
  <2>1. \A m \in Memory(n, B), r \in 0..(n - 1), k \in 0..n :
           /\ RingContent(m, r, k, n) \in Seq(B) /\ Len(RingContent(m, r, k, n)) = k
           /\ \A i \in 1..k : RingContent(m, r, k, n)[i] = m[Wrapped(r + (i - 1), n)]
    BY ContentBytes
  <2> QED BY <2>1, <1>b, <1>c, <1>m, Zenon DEF h
<1>1. wr2 = Wrapped(rd2 + c2, n)
  <2>1. c + up - dn \in 0..n
    BY <1>c, <1>d, <1>s
  <2>2. Wrapped(Wrapped(rd + c, n) + up, n) = Wrapped(Wrapped(rd + dn, n) + (c + up - dn), n)
    <3>1. rd \in 0..(n - 1) /\ c \in 0..n /\ up \in 0..1 /\ dn \in 0..1
      BY <1>d, <1>s
    <3> QED BY <2>1, <3>1, WrappedSum
  <2>3. c2 = c + up - dn /\ wr2 = Wrapped(wr + up, n) /\ rd2 = Wrapped(rd + dn, n)
        /\ wr = Wrapped(rd + c, n)
    BY <1>d, <1>p, <1>s
  <2> QED BY <2>2, <2>3, Zenon
(* Byte i afterwards is byte i + dn before, or the new one.                *)
<1>2. ASSUME NEW i \in 1..c2
      PROVE  Wrapped(rd2 + (i - 1), n) = Wrapped(rd + ((i + dn) - 1), n)
  <2>1. i \in Nat \ {0} /\ i <= c + up - dn
    BY <1>c, <1>d, <1>s
  <2>2. CASE dn = 0
    BY <2>1, <2>2, <1>d, <1>p, <1>s DEF Wrapped
  <2>3. CASE dn = 1
    BY <2>1, <2>3, <1>d, <1>p, <1>s DEF Wrapped
  <2> QED BY <2>2, <2>3, <1>d
<1>3. ASSUME NEW i \in 1..c2, i + dn <= c
      PROVE  h[i] = q[i + dn]
  <2>1. h[i] = mem2[Wrapped(rd + ((i + dn) - 1), n)]
    BY <1>2, <1>h
  <2>2. i + dn \in 1..c
    BY <1>3, <1>c, <1>d, <1>s
  <2>3. q[i + dn] = mem[Wrapped(rd + ((i + dn) - 1), n)]
    BY <2>2, <1>q
  <2>4. Wrapped(rd + ((i + dn) - 1), n) \in 0..(n - 1)
    BY <2>2, <1>s DEF Wrapped
  <2>5. up = 1 => Wrapped(rd + ((i + dn) - 1), n) # wr
    BY <2>2, <1>c, <1>d, <1>s DEF Wrapped
  <2> QED BY <2>1, <2>3, <2>4, <2>5, <1>s, <1>e DEF Memory
<1>4. ASSUME NEW i \in 1..c2, ~(i + dn <= c)
      PROVE  up = 1 /\ i = c - dn + 1 /\ h[i] = byte
  <2>1. up = 1 /\ i + dn = c + 1
    BY <1>4, <1>c, <1>d, <1>s
  <2>2. h[i] = mem2[Wrapped(rd + ((i + dn) - 1), n)]
    BY <1>2, <1>h
  <2>3. Wrapped(rd + ((i + dn) - 1), n) = wr
    <3>1. rd + ((i + dn) - 1) = rd + c
      BY <2>1, <1>s
    <3> QED BY <3>1, <1>s
  <2>4. mem2[wr] = byte
    BY <2>1, <1>s, <1>e DEF Memory
  <2>5. i = c - dn + 1
    BY <2>1, <1>c, <1>d, <1>s
  <2> QED BY <2>1, <2>2, <2>3, <2>4, <2>5
<1>5. kept \o new \in Seq(B) /\ Len(kept \o new) = c2
  BY <1>d, <1>s, <1>k, <1>w
<1>6. ASSUME NEW i \in 1..c2 PROVE h[i] = (kept \o new)[i]
  <2>1. CASE i + dn <= c
    <3>1. i \in 1..Len(kept) /\ i \in 1..(c - dn)
      BY <2>1, <1>c, <1>d, <1>s, <1>k
    <3>2. (kept \o new)[i] = kept[i]
      BY <3>1, <1>k, <1>w
    <3> QED BY <2>1, <3>1, <3>2, <1>3, <1>k
  <2>2. CASE ~(i + dn <= c)
    <3>1. up = 1 /\ i = Len(kept) + 1 /\ h[i] = byte
      BY <2>2, <1>4, <1>k, <1>s, <1>d
    <3>2. Len(new) = 1
      BY <3>1, <1>d, <1>w
    <3>3. (kept \o new)[Len(kept) + 1] = new[1]
      <4>1. kept \in Seq(B) /\ new \in Seq(B) /\ Len(kept) \in Nat
        BY <1>k, <1>w
      <4> QED BY <3>2, <4>1
    <3> QED BY <3>1, <3>3, <1>w
  <2> QED BY <2>1, <2>2
<1>7. h = kept \o new
  BY <1>5, <1>6, <1>h, SeqEqual
<1>8. RingState(mem2, rd2, wr2, c2, n, B)
  BY <1>1, <1>b, <1>c, <1>m DEF RingState
<1> QED BY <1>7, <1>8 DEF h, kept, new, q, Passed

=============================================================================
