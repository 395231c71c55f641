----------------------------- MODULE ListLemmas -----------------------------
(***************************************************************************)
(* Lemmas about numbers and about FlattenSeq, for lists of any length: the *)
(* loops of the code that collect lists are modelled by it.                *)
(***************************************************************************)
EXTENDS SequencesExt, SequenceTheorems, WellFoundedInduction, TLAPS

-----------------------------------------------------------------------------
(* Numbers                                                                 *)

\* A set of natural numbers that has a member has a least one.
LEMMA Least ==
    ASSUME NEW S \in SUBSET Nat, S # {}
    PROVE  \E x \in S : \A y \in S : x <= y
<1> DEFINE R == OpToRel(<, Nat)
<1>1. IsWellFoundedOn(R, Nat)
  BY NatLessThanWellFounded
<1>2. \A x, y \in Nat : x < y => <<x, y>> \in R
  BY DEF OpToRel
<1> HIDE DEF R
<1>3. PICK x \in S : \A y \in S : ~ (<<y, x>> \in R)
  BY <1>1, WFMin
<1>4. \A y \in S : ~(y < x)
  BY <1>2, <1>3, Zenon
<1>5. \A y \in S : x \in Nat /\ y \in Nat
  OBVIOUS
<1>6. \A y \in S : x <= y
  BY <1>4, <1>5
<1> QED
  BY <1>6

\* What begins in S and never steps out of it stays there: induction, on sets.
LEMMA UpTo ==
    ASSUME NEW n \in Nat, NEW S, 0 \in S, \A i \in 0..(n - 1) : i \in S => i + 1 \in S
    PROVE  \A i \in 0..n : i \in S
<1> DEFINE Out == {i \in 0..n : i \notin S}
<1>1. SUFFICES ASSUME Out # {} PROVE FALSE
  OBVIOUS
<1>2. PICK x \in Out : \A y \in Out : x <= y
  <2>1. Out \in SUBSET Nat
    OBVIOUS
  <2> HIDE DEF Out
  <2> QED
    BY <1>1, <2>1, Least
<1>3. x \in 1..n /\ x - 1 \in 0..(n - 1) /\ x - 1 \in 0..n
  BY <1>2
<1>4. x - 1 \in S
  BY <1>2, <1>3
<1> QED
  BY <1>2, <1>3, <1>4

-----------------------------------------------------------------------------
(* FlattenSeq                                                              *)

\* Concatenation under a name: given s \o t itself, the provers compare entry by entry.
Joined(s, t) == s \o t

LEMMA JoinedType ==
    ASSUME NEW S, NEW s \in Seq(S), NEW t \in Seq(S)
    PROVE  Joined(s, t) \in Seq(S)
  BY DEF Joined

\* What the first i lists of s make together.
Step(f, s, i) == IF i = 1 THEN s[i] ELSE Joined(f[i - 1], s[i])
Joins(f, s, n) == f = [i \in 1..n |-> Step(f, s, i)]

LEMMA JoinsAre ==
    ASSUME NEW f, NEW s, NEW n \in Nat, Joins(f, s, n)
    PROVE  /\ DOMAIN f = 1..n
           /\ \A i \in 1..n : f[i] = Step(f, s, i)
           /\ f = [i \in 1..n |-> f[i]]
  BY Zenon DEF Joins

LEMMA JoinsExist ==
    ASSUME NEW S, NEW s \in Seq(Seq(S))
    PROVE  \E f \in [1..Len(s) -> Seq(S)] : Joins(f, s, Len(s))
<1> DEFINE T == {n \in 0..Len(s) : \E f \in [1..n -> Seq(S)] : Joins(f, s, n)}
<1>1. 0 \in T
  <2>1. 1..0 = {} /\ \A g, h : DOMAIN g = {} /\ DOMAIN h = {}
                                  => [i \in {} |-> g[i]] = [i \in {} |-> h[i]]
    OBVIOUS
  <2> DEFINE g == [i \in {} |-> <<>>]
  <2>2. g \in [1..0 -> Seq(S)] /\ g = [i \in 1..0 |-> Step(g, s, i)]
    BY <2>1
  <2> HIDE DEF g
  <2>3. \E f \in [1..0 -> Seq(S)] : Joins(f, s, 0)
    BY <2>2, Zenon DEF Joins
  <2>4. 0 \in 0..Len(s)
    OBVIOUS
  <2> QED
    BY <2>3, <2>4, Zenon
<1>2. ASSUME NEW n \in 0..(Len(s) - 1), n \in T PROVE n + 1 \in T
  <2>1. PICK f \in [1..n -> Seq(S)] : Joins(f, s, n)
    BY <1>2
  <2> DEFINE e(i) == IF i <= n THEN f[i] ELSE Step(f, s, i)
             g == [i \in 1..(n + 1) |-> e(i)]
  <2>2. \A i \in 1..n : e(i) = f[i] /\ g[i] = f[i]
    OBVIOUS
  <2>3. e(n + 1) = Step(f, s, n + 1)
    BY <1>2
  <2>4. ASSUME NEW i \in 1..(n + 1) PROVE i - 1 \in 1..n \/ i = 1
    OBVIOUS
  <2>5. ASSUME NEW i \in 1..(n + 1) PROVE Step(g, s, i) = Step(f, s, i)
    BY <2>2, <2>4 DEF Step
  <2>6. ASSUME NEW i \in 1..(n + 1) PROVE e(i) = Step(g, s, i)
    <3>1. i \in 1..n => f[i] = Step(f, s, i)
      BY <2>1, JoinsAre
    <3>2. i \in 1..n \/ i = n + 1
      OBVIOUS
    <3> QED
      BY <2>2, <2>3, <2>5, <3>1, <3>2
  <2>7. ASSUME NEW i \in 1..(n + 1) PROVE e(i) \in Seq(S)
    <3>1. s[i] \in Seq(S)
      BY <1>2
    <3>2. i - 1 \in 1..n => f[i - 1] \in Seq(S)
      BY <2>1
    <3>3. Step(f, s, i) \in Seq(S)
      BY <2>4, <3>1, <3>2, JoinedType DEF Step
    <3>4. i \in 1..n => f[i] \in Seq(S)
      BY <2>1
    <3>5. i \in 1..n \/ i = n + 1
      OBVIOUS
    <3> QED
      BY <2>2, <2>3, <3>3, <3>4, <3>5
  <2> HIDE DEF e
  <2>8. g \in [1..(n + 1) -> Seq(S)]
    BY <2>7
  <2>9. Joins(g, s, n + 1)
    BY <2>6, Zenon DEF Joins
  <2> HIDE DEF g
  <2> QED
    BY <1>2, <2>8, <2>9
<1>3. Len(s) \in T
  <2>1. Len(s) \in Nat
    OBVIOUS
  <2> HIDE DEF T
  <2>2. \A i \in 0..Len(s) : i \in T
    BY <1>1, <1>2, <2>1, UpTo
  <2> QED
    BY <2>1, <2>2
<1> QED
  BY <1>3

LEMMA JoinsUnique ==
    ASSUME NEW f, NEW g, NEW s, NEW n \in Nat, Joins(f, s, n), Joins(g, s, n)
    PROVE  f = g
<1> DEFINE T == {i \in 0..n : i = 0 \/ f[i] = g[i]}
<1>1. ASSUME NEW i \in 0..(n - 1), i \in T PROVE i + 1 \in T
  <2>1. i + 1 \in 1..n /\ (i + 1) - 1 = i /\ i + 1 \in 0..n /\ (i + 1 = 1 <=> i = 0)
    OBVIOUS
  <2>2. Step(f, s, i + 1) = Step(g, s, i + 1)
    BY <1>1, <2>1 DEF Step
  <2>3. f[i + 1] = g[i + 1]
    BY <2>1, <2>2, JoinsAre
  <2> QED
    BY <2>1, <2>3
<1>2. \A i \in 0..n : i \in T
  <2>1. 0 \in T
    OBVIOUS
  <2> HIDE DEF T
  <2> QED
    BY <1>1, <2>1, UpTo
<1>3. \A i \in 1..n : f[i] = g[i]
  BY <1>2
<1>4. f = [i \in 1..n |-> f[i]] /\ g = [i \in 1..n |-> g[i]]
  BY JoinsAre
<1> QED
  BY <1>3, <1>4

\* It is a list of what the lists are of, and the last of what they make together.
LEMMA FlattenIs ==
    ASSUME NEW s, Len(s) \in Nat, NEW f, Joins(f, s, Len(s))
    PROVE  FlattenSeq(s) = IF Len(s) = 0 THEN s ELSE f[Len(s)]
<1> DEFINE Flat == CHOOSE g : g = [i \in 1..Len(s) |-> IF i = 1 THEN s[i] ELSE g[i - 1] \o s[i]]
<1>1. FlattenSeq(s) = IF Len(s) = 0 THEN s ELSE Flat[Len(s)]
  BY DEF FlattenSeq
<1>2. Joins(Flat, s, Len(s))
  BY DEF Joins, Step, Joined
<1>3. Flat = f
  <2> HIDE DEF Flat
  <2> QED
    BY <1>2, JoinsUnique
<1> QED
  BY <1>1, <1>3

LEMMA FlattenType ==
    ASSUME NEW S, NEW s \in Seq(Seq(S))
    PROVE  FlattenSeq(s) \in Seq(S)
<1>1. PICK f \in [1..Len(s) -> Seq(S)] : Joins(f, s, Len(s))
  BY JoinsExist
<1>2. Len(s) \in Nat
  OBVIOUS
<1>3. CASE Len(s) = 0
  <2>1. s = <<>> /\ s \in Seq(S)
    BY <1>3
  <2> QED
    BY <1>1, <1>2, <1>3, <2>1, FlattenIs
<1>4. CASE Len(s) # 0
  <2>1. Len(s) \in 1..Len(s)
    BY <1>2, <1>4
  <2>2. f[Len(s)] \in Seq(S)
    BY <2>1, Zenon
  <2> QED
    BY <1>1, <1>2, <1>4, <2>2, FlattenIs
<1> QED
  BY <1>3, <1>4

LEMMA FlattenEmpty == FlattenSeq(<<>>) = <<>>
  BY DEF FlattenSeq

LEMMA JoinedAssociative ==
    ASSUME NEW S, NEW s \in Seq(S), NEW t \in Seq(S), NEW u \in Seq(S)
    PROVE  Joined(s, Joined(t, u)) = Joined(Joined(s, t), u)
<1>1. (s \o t) \o u = s \o (t \o u)
  BY ConcatAssociative
<1> QED
  BY <1>1 DEF Joined

\* The first of the lists comes before what the others make together.
LEMMA FlattenFirst ==
    ASSUME NEW S, NEW s \in Seq(Seq(S)), s # <<>>
    PROVE  FlattenSeq(s) = Joined(Head(s), FlattenSeq(Tail(s)))
<1> DEFINE t == Tail(s)
           n == Len(t)
<1>1. /\ n \in Nat /\ Len(s) = n + 1 /\ t \in Seq(Seq(S)) /\ Head(s) = s[1]
      /\ \A i \in 1..n : t[i] = s[i + 1]
      /\ \A i \in 1..(n + 1) : s[i] \in Seq(S)
  OBVIOUS
<1> HIDE DEF t, n
<1>2. PICK g \in [1..n -> Seq(S)] : Joins(g, t, n)
  BY <1>1, JoinsExist DEF n
<1> DEFINE f == [i \in 1..(n + 1) |-> IF i = 1 THEN s[1] ELSE Joined(s[1], g[i - 1])]
<1>3. ASSUME NEW i \in 1..(n + 1) PROVE f[i] = Step(f, s, i)
  <2>1. CASE i = 1
    BY <2>1 DEF Step
  <2>2. CASE i = 2
    <3>1. f[1] = s[1] /\ f[2] = Joined(s[1], g[1]) /\ g[1] = t[1] /\ t[1] = s[2]
      <4>1. 1 \in 1..n /\ 2 \in 1..(n + 1) /\ 1 \in 1..(n + 1)
        BY <1>1, <2>2
      <4>2. g[1] = t[1]
        BY <1>1, <1>2, <4>1, JoinsAre DEF Step
      <4> QED
        BY <1>1, <4>1, <4>2
    <3> QED
      BY <2>2, <3>1 DEF Step
  <2>3. CASE i \notin {1, 2}
    <3>1. i - 1 \in 1..n /\ i - 2 \in 1..n /\ i - 1 # 1 /\ (i - 1) - 1 = i - 2 /\ (i - 1) + 1 = i
          /\ i - 1 \in 1..(n + 1)
      BY <1>1, <2>3
    <3>2. g[i - 1] = Joined(g[i - 2], t[i - 1]) /\ t[i - 1] = s[i]
      <4>1. g[i - 1] = Step(g, t, i - 1)
        BY <1>1, <1>2, <3>1, JoinsAre
      <4>2. t[i - 1] = s[(i - 1) + 1]
        BY <1>1, <3>1
      <4> QED
        BY <3>1, <4>1, <4>2 DEF Step
    <3>3. f[i] = Joined(s[1], g[i - 1]) /\ f[i - 1] = Joined(s[1], g[i - 2])
      BY <1>1, <2>3, <3>1
    <3>4. s[1] \in Seq(S) /\ g[i - 2] \in Seq(S) /\ s[i] \in Seq(S)
      BY <1>1, <3>1
    <3> HIDE DEF f
    <3>5. f[i] = Joined(f[i - 1], s[i])
      BY <3>2, <3>3, <3>4, JoinedAssociative
    <3> QED
      BY <2>3, <3>5 DEF Step
  <2> QED
    BY <2>1, <2>2, <2>3
<1>4. f = [i \in 1..(n + 1) |-> f[i]]
  OBVIOUS
<1>5. f[n + 1] = Joined(s[1], IF n = 0 THEN t ELSE g[n])
  <2>1. CASE n = 0
    <3>1. t = <<>> /\ s[1] \in Seq(S)
      BY <1>1, <2>1 DEF n
    <3>2. Joined(s[1], t) = s[1]
      BY <3>1, ConcatEmptySeq DEF Joined
    <3> QED
      BY <2>1, <3>2
  <2>2. CASE n # 0
    BY <1>1, <2>2
  <2> QED
    BY <2>1, <2>2
<1> HIDE DEF f
<1>6. Joins(f, s, n + 1)
  BY <1>3, <1>4, Zenon DEF Joins
<1>7. FlattenSeq(s) = f[n + 1]
  BY <1>1, <1>6, FlattenIs
<1>8. FlattenSeq(t) = IF n = 0 THEN t ELSE g[n]
  BY <1>1, <1>2, FlattenIs DEF n
<1> QED
  BY <1>1, <1>5, <1>7, <1>8 DEF t

\* With one list more, what they make together has that list at the end.
LEMMA FlattenLast ==
    ASSUME NEW S, NEW s \in Seq(Seq(S)), NEW t \in Seq(Seq(S)), Len(t) = Len(s) + 1,
           \A i \in 1..Len(s) : t[i] = s[i]
    PROVE  FlattenSeq(t) = Joined(FlattenSeq(s), t[Len(t)])
<1> DEFINE n == Len(s)
<1>1. n \in Nat /\ Len(t) = n + 1 /\ t[n + 1] \in Seq(S)
  OBVIOUS
<1>2. \A i \in 1..n : t[i] = s[i]
  OBVIOUS
<1>3. n = 0 => s = <<>>
  OBVIOUS
<1>4. PICK g : Joins(g, t, n + 1)
  BY <1>1, JoinsExist
<1>5. FlattenSeq(t) = g[n + 1]
  BY <1>1, <1>4, FlattenIs
<1> DEFINE f == [i \in 1..n |-> g[i]]
<1>6. ASSUME NEW i \in 1..n PROVE f[i] = Step(f, s, i)
  <2>1. i \in 1..(n + 1) /\ (i # 1 => i - 1 \in 1..n)
    BY <1>1
  <2>2. g[i] = Step(g, t, i) /\ t[i] = s[i]
    BY <1>1, <1>2, <1>4, <2>1, JoinsAre
  <2>3. f[i] = g[i] /\ (i # 1 => f[i - 1] = g[i - 1])
    BY <2>1
  <2> HIDE DEF f
  <2> QED
    BY <2>2, <2>3 DEF Step
<1>7. f = [i \in 1..n |-> f[i]] /\ (n # 0 => n \in 1..n /\ f[n] = g[n])
  BY <1>1
<1> HIDE DEF f
<1>8. Joins(f, s, n)
  BY <1>6, <1>7, Zenon DEF Joins
<1>9. FlattenSeq(s) = IF n = 0 THEN s ELSE f[n]
  BY <1>1, <1>8, FlattenIs
<1>10. g[n + 1] = Step(g, t, n + 1)
  <2>1. n + 1 \in 1..(n + 1)
    BY <1>1
  <2> QED
    BY <1>1, <1>4, <2>1, JoinsAre
<1> HIDE DEF n
<1>11. CASE n = 0
  <2>1. Joined(<<>>, t[n + 1]) = t[n + 1]
    BY <1>1, ConcatEmptySeq DEF Joined
  <2> QED
    BY <1>1, <1>3, <1>5, <1>9, <1>10, <1>11, <2>1 DEF Step
<1>12. CASE n # 0
  <2>1. n + 1 # 1 /\ (n + 1) - 1 = n
    BY <1>1, <1>12
  <2> QED
    BY <1>1, <1>5, <1>7, <1>9, <1>10, <1>12, <2>1 DEF Step
<1> QED
  BY <1>11, <1>12

LEMMA JoinedMembers ==
    ASSUME NEW S, NEW u \in Seq(S), NEW v \in Seq(S)
    PROVE  Range(Joined(u, v)) = Range(u) \cup Range(v)
<1> DEFINE w == Joined(u, v)
           m == Len(u)
           n == Len(v)
<1>1. /\ DOMAIN u = 1..m /\ DOMAIN v = 1..n /\ m \in Nat /\ n \in Nat
      /\ DOMAIN w = 1..(m + n)
      /\ \A i \in 1..(m + n) : w[i] = IF i <= m THEN u[i] ELSE v[i - m]
  BY DEF Joined
<1> HIDE DEF w, m, n
<1>2. \A j \in 1..m : j \in 1..(m + n) /\ w[j] = u[j]
  BY <1>1
<1>3. ASSUME NEW j \in 1..n PROVE j + m \in 1..(m + n) /\ w[j + m] = v[j]
  <2>1. j + m \in 1..(m + n) /\ ~(j + m <= m) /\ (j + m) - m = j
    BY <1>1
  <2>2. w[j + m] = v[(j + m) - m]
    BY <1>1, <2>1
  <2> QED
    BY <2>1, <2>2
<1>4. \A i \in 1..(m + n) : (i \in 1..m /\ w[i] = u[i]) \/ (i - m \in 1..n /\ w[i] = v[i - m])
  BY <1>1
<1>5. \A f, x : x \in Range(f) <=> \E i \in DOMAIN f : f[i] = x
  BY DEF Range
<1>6. ASSUME NEW x \in Range(w) PROVE x \in Range(u) \/ x \in Range(v)
  <2>1. PICK i \in 1..(m + n) : w[i] = x
    BY <1>1, <1>5
  <2> QED
    BY <1>1, <1>4, <1>5, <2>1
<1>7. ASSUME NEW x, x \in Range(u) \/ x \in Range(v) PROVE x \in Range(w)
  <2>1. CASE x \in Range(u)
    BY <1>1, <1>2, <1>5, <2>1
  <2>2. CASE x \in Range(v)
    BY <1>1, <1>3, <1>5, <2>2
  <2> QED
    BY <1>7, <2>1, <2>2
<1>8. Range(w) = Range(u) \cup Range(v)
  BY <1>6, <1>7
<1> QED
  BY <1>8 DEF w

LEMMA FlattenMembers ==
    ASSUME NEW S, NEW s \in Seq(Seq(S))
    PROVE  Range(FlattenSeq(s)) = UNION {Range(s[i]) : i \in DOMAIN s}
<1> DEFINE n == Len(s)
<1>1. n \in Nat /\ DOMAIN s = 1..n /\ \A i \in 1..n : s[i] \in Seq(S)
  OBVIOUS
<1>2. PICK f \in [1..n -> Seq(S)] : Joins(f, s, n)
  BY JoinsExist
<1> DEFINE All(i) == UNION {Range(s[j]) : j \in 1..i}
           T == {i \in 0..n : i = 0 \/ Range(f[i]) = All(i)}
<1>3. \A u, v \in Seq(S) : Range(Joined(u, v)) = Range(u) \cup Range(v)
  BY JoinedMembers
<1>4. ASSUME NEW i \in 0..(n - 1), i \in T PROVE i + 1 \in T
  <2>1. /\ i + 1 \in 1..n /\ (i + 1) - 1 = i /\ i + 1 \in 0..n /\ (i + 1 = 1 <=> i = 0)
        /\ \A j : j \in 1..(i + 1) <=> j \in 1..i \/ j = i + 1
        /\ i # 0 => i \in 1..n
    BY <1>1
  <2>2. All(i + 1) = All(i) \cup Range(s[i + 1])
    BY <2>1
  <2>3. i = 0 => All(i) = {}
    OBVIOUS
  <2>4. f[i + 1] = Step(f, s, i + 1)
    BY <1>1, <1>2, <2>1, JoinsAre
  <2>5. s[i + 1] \in Seq(S) /\ (i # 0 => f[i] \in Seq(S))
    BY <1>1, <2>1
  <2> HIDE DEF All, n
  <2>6. Range(f[i + 1]) = All(i + 1)
    <3>1. CASE i = 0
      <4>1. f[i + 1] = s[i + 1]
        BY <2>1, <2>4, <3>1 DEF Step
      <4> QED
        BY <2>2, <2>3, <3>1, <4>1
    <3>2. CASE i # 0
      <4>1. f[i + 1] = Joined(f[i], s[i + 1])
        BY <2>1, <2>4, <3>2 DEF Step
      <4>2. Range(f[i]) = All(i)
        BY <1>4, <3>2
      <4>3. Range(Joined(f[i], s[i + 1])) = Range(f[i]) \cup Range(s[i + 1])
        BY <1>3, <2>5, <3>2
      <4> QED
        BY <2>2, <4>1, <4>2, <4>3
    <3> QED
      BY <3>1, <3>2
  <2> QED
    BY <2>1, <2>6
<1>5. \A i \in 0..n : i \in T
  <2>1. 0 \in T
    BY <1>1
  <2> HIDE DEF T, n
  <2> QED
    BY <1>1, <1>4, <2>1, UpTo
<1>6. CASE n = 0
  <2>1. s = <<>> /\ FlattenSeq(s) = <<>> /\ Range(<<>>) = {}
    BY <1>6, FlattenEmpty DEF Range
  <2> QED
    BY <1>1, <1>6, <2>1
<1>7. CASE n # 0
  <2>1. n \in 0..n
    BY <1>1
  <2>2. Range(f[n]) = All(n)
    BY <1>5, <1>7, <2>1
  <2>3. FlattenSeq(s) = f[n]
    BY <1>1, <1>2, <1>7, FlattenIs
  <2> QED
    BY <1>1, <2>2, <2>3
<1> QED
  BY <1>6, <1>7

\* Lists of one element make the list of those.
LEMMA FlattenOnes ==
    ASSUME NEW S, NEW s \in Seq(S)
    PROVE  FlattenSeq([i \in DOMAIN s |-> <<s[i]>>]) = s
<1> DEFINE t == [i \in DOMAIN s |-> <<s[i]>>]
           n == Len(s)
           f == [i \in 1..n |-> SubSeq(s, 1, i)]
<1>1. n \in Nat /\ DOMAIN s = 1..n /\ \A i \in 1..n : s[i] \in S
  OBVIOUS
<1>2. t \in Seq(Seq(S)) /\ Len(t) = n /\ \A i \in 1..n : t[i] = <<s[i]>>
  <2>1. \A i \in 1..n : <<s[i]>> \in Seq(S)
    BY <1>1
  <2>2. t = [i \in 1..n |-> t[i]]
    BY <1>1
  <2>3. \A i \in 1..n : t[i] = <<s[i]>>
    BY <1>1
  <2> HIDE DEF t, n
  <2>4. \A i \in 1..n : t[i] \in Seq(S)
    BY <2>1, <2>3, Zenon
  <2>5. t \in Seq(Seq(S)) /\ Len(t) = n
    BY <1>1, <2>2, <2>4
  <2> QED
    BY <2>3, <2>5
<1>3. ASSUME NEW i \in 1..n PROVE f[i] = Step(f, t, i)
  <2>1. CASE i = 1
    <3>1. SubSeq(s, 1, 1) = <<s[1]>>
      <4>1. 1 \in 1..Len(s) /\ 1 + 1 > 1
        BY <1>1, <2>1
      <4>2. SubSeq(s, 1, 1) = <<s[1]>> \o SubSeq(s, 1 + 1, 1)
        BY <4>1, SubSeqRecursiveFirst
      <4>3. SubSeq(s, 1 + 1, 1) = <<>>
        BY SubSeqEmpty
      <4>4. <<s[1]>> \in Seq(S)
        BY <1>1, <2>1
      <4> QED
        BY <4>2, <4>3, <4>4, ConcatEmptySeq
    <3> QED
      BY <1>2, <2>1, <3>1 DEF Step
  <2>2. CASE i # 1
    <3>1. i - 1 \in 1..n /\ 1 \in 1..n /\ i \in 1..n
      BY <1>1, <2>2
    <3>2. SubSeq(s, 1, i) = SubSeq(s, 1, i - 1) \o <<s[i]>>
      BY <1>1, <3>1, SubSeqRecursiveSecond
    <3> QED
      BY <1>2, <2>2, <3>1, <3>2 DEF Step, Joined
  <2> QED
    BY <2>1, <2>2
<1>4. f = [i \in 1..n |-> f[i]] /\ (n # 0 => f[n] = SubSeq(s, 1, n)) /\ SubSeq(s, 1, n) = s
  BY <1>1, SubSeqFull
<1> HIDE DEF f
<1>5. Joins(f, t, n)
  BY <1>3, <1>4, Zenon DEF Joins
<1>6. FlattenSeq(t) = IF n = 0 THEN t ELSE f[n]
  <2> HIDE DEF t, n
  <2> QED
    BY <1>1, <1>2, <1>5, FlattenIs
<1>7. n = 0 => t = s
  BY <1>1, <1>2
<1> QED
  BY <1>4, <1>6, <1>7
=============================================================================
