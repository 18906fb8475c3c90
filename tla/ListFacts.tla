------------------------------ MODULE ListFacts ------------------------------
(***************************************************************************)
(* Facts about lists that the proofs of several components need.  What a   *)
(* recursive function computes is proved by induction over the numbers up  *)
(* to the length of a list; the induction is over a set, since a theorem   *)
(* with an operator as its parameter cannot be used by the provers here.   *)
(***************************************************************************)
EXTENDS Lists, TLAPS, WellFoundedInduction, SequenceTheorems

\* Every set of numbers has a smallest one.
LEMMA Smallest ==
  ASSUME NEW T \in SUBSET Nat, T # {}
  PROVE  \E m \in T : \A n \in T : m <= n
<1>1. IsWellFoundedOn(OpToRel(<, Nat), Nat)
  BY NatLessThanWellFounded
<1>2. PICK m \in T : \A n \in T : ~ (<<n, m>> \in OpToRel(<, Nat))
  BY <1>1, WFMin, Zenon
<1>3. \A n \in T : ~(n < m)
  BY <1>2, Zenon DEF OpToRel
<1> QED BY <1>3

\* Induction up to n: a set with 0 that is closed under adding 1.
THEOREM InductionUpTo ==
  ASSUME NEW n \in Nat, NEW S, 0 \in S, \A k \in 0..(n - 1) : k \in S => k + 1 \in S
  PROVE  0..n \subseteq S
<1> DEFINE T == 0..n \ S
<1> SUFFICES ASSUME T # {} PROVE FALSE
  OBVIOUS
<1>1. PICK m \in T : \A k \in T : m <= k
  <2>1. T \in SUBSET Nat
    OBVIOUS
  <2> QED BY <2>1, Smallest, Zenon
<1>2. m # 0 /\ m \in 1..n
  OBVIOUS
<1>3. m - 1 \in 0..(n - 1) /\ m - 1 \in 0..n /\ ~(m <= m - 1) /\ (m - 1) + 1 = m
  BY <1>2
<1>4. m - 1 \in S
  BY <1>1, <1>3
<1> QED BY <1>3, <1>4

\* f has the value base at 0, and step of the one before at i.
Follows(f, n, V, base, step) ==
  /\ f \in [0..n -> V]
  /\ f[0] = base /\ \A i \in 1..n : f[i] = step[i][f[i - 1]]

\* A function up to n that is given by its first value and a step exists.
THEOREM RecursionUpTo ==
  ASSUME NEW n \in Nat, NEW V, NEW base \in V, NEW step \in [1..n -> [V -> V]]
  PROVE  \E f : Follows(f, n, V, base, step)
<1> DEFINE Good(f, k) == /\ f \in [0..k -> V]
                         /\ f[0] = base /\ \A i \in 1..k : f[i] = step[i][f[i - 1]]
           S == {k \in 0..n : \E f : Good(f, k)}
<1>1. 0 \in S
  <2>1. Good([i \in 0..0 |-> base], 0)
    OBVIOUS
  <2>2. 0 \in 0..n
    OBVIOUS
  <2> HIDE DEF Good
  <2> QED BY <2>1, <2>2
<1>2. ASSUME NEW k \in 0..(n - 1), k \in S
      PROVE  k + 1 \in S
  <2> PICK f : Good(f, k)
    BY <1>2
  <2> DEFINE g == [i \in 0..(k + 1) |-> IF i = k + 1 THEN step[k + 1][f[k]] ELSE f[i]]
  <2>1. k \in 0..k /\ k + 1 \in 1..n /\ f[k] \in V
    OBVIOUS
  <2>2. step[k + 1][f[k]] \in V
    BY <2>1
  <2>3. \A i \in 0..(k + 1) : i # k + 1 => i \in 0..k
    OBVIOUS
  <2>4. g \in [0..(k + 1) -> V]
    BY <2>2, <2>3
  <2>5. \A i \in 1..(k + 1) : g[i] = step[i][g[i - 1]]
    <3> SUFFICES ASSUME NEW i \in 1..(k + 1) PROVE g[i] = step[i][g[i - 1]]
      OBVIOUS
    <3>1. g[i - 1] = f[i - 1]
      OBVIOUS
    <3>2. CASE i = k + 1
      BY <3>1, <3>2
    <3>3. CASE i # k + 1
      <4>1. i \in 1..k
        BY <3>3
      <4>2. g[i] = f[i]
        BY <3>3
      <4> QED BY <3>1, <4>1, <4>2
    <3> QED BY <3>2, <3>3
  <2>6. g[0] = base
    OBVIOUS
  <2>7. Good(g, k + 1)
    <3> HIDE DEF g
    <3> QED BY <2>4, <2>5, <2>6
  <2>8. k + 1 \in 0..n
    OBVIOUS
  <2> HIDE DEF g, Good
  <2> QED BY <2>7, <2>8
<1>3. 0..n \subseteq S
  <2> HIDE DEF S
  <2> QED BY <1>1, <1>2, InductionUpTo
<1>4. n \in S
  BY <1>3
<1> QED BY <1>4 DEF Follows
-----------------------------------------------------------------------------
\* What flattening a list of lists computes: f[i] is the first i lists, one
\* after the other.
FlattenRun(f, n, V, ss) ==
  /\ f \in [0..n -> Seq(V)]
  /\ f[0] = <<>>
  /\ \A i \in 1..n : f[i] = f[i - 1] \o ss[i]
  /\ f[n] = FlattenSeq(ss)

LEMMA FlattenPrefixes ==
  ASSUME NEW V, NEW ss \in Seq(Seq(V)), NEW n, n = Len(ss)
  PROVE  \E f : FlattenRun(f, n, V, ss)
<1> n \in Nat
  OBVIOUS
<1> DEFINE step == [i \in 1..n |-> [v \in Seq(V) |-> v \o ss[i]]]
<1>1. \A i \in 1..n : ss[i] \in Seq(V)
  OBVIOUS
<1>2. step \in [1..n -> [Seq(V) -> Seq(V)]] /\ <<>> \in Seq(V)
  BY <1>1
<1>3. \A i \in 1..n : \A v \in Seq(V) : step[i][v] = v \o ss[i]
  OBVIOUS
<1> HIDE DEF step
<1>4. PICK f \in [0..n -> Seq(V)] : f[0] = <<>> /\ \A i \in 1..n : f[i] = step[i][f[i - 1]]
  <2> PICK W : W = Seq(V)
    OBVIOUS
  <2> PICK nil \in W : nil = <<>>
    BY <1>2
  <2>1. step \in [1..n -> [W -> W]]
    BY <1>2
  <2>2. \E f : Follows(f, n, W, nil, step)
    BY <2>1, RecursionUpTo
  <2> QED BY <2>2 DEF Follows
<1>5. \A i \in 1..n : i - 1 \in 0..n /\ f[i - 1] \in Seq(V) /\ f[i] = f[i - 1] \o ss[i]
  <2> SUFFICES ASSUME NEW i \in 1..n
               PROVE  i - 1 \in 0..n /\ f[i - 1] \in Seq(V) /\ f[i] = f[i - 1] \o ss[i]
    OBVIOUS
  <2>1. i - 1 \in 0..n
    OBVIOUS
  <2>2. f[i - 1] \in Seq(V)
    BY <2>1
  <2> QED BY <1>3, <1>4, <2>1, <2>2
<1>6. CASE n = 0
  <2>1. ss = <<>>
    BY <1>6, EmptySeq, Zenon
  <2>2. FlattenSeq(ss) = ss
    BY <1>6, Zenon DEF FlattenSeq
  <2>3. FlattenRun(f, n, V, ss)
    BY <1>4, <1>5, <1>6, <2>1, <2>2 DEF FlattenRun
  <2> QED BY <2>3
<1>7. CASE n # 0
  <2> DEFINE Is(g) == g = [i \in 1..n |-> IF i = 1 THEN ss[i] ELSE g[i - 1] \o ss[i]]
             flatten == CHOOSE g : Is(g)
             h == [i \in 1..n |-> f[i]]
  <2>1. f[1] = ss[1]
    <3>1. 1 \in 1..n /\ 1 - 1 = 0
      BY <1>7
    <3>2. f[1] = <<>> \o ss[1] /\ ss[1] \in Seq(V)
      BY <1>1, <1>4, <1>5, <3>1
    <3> QED BY <3>2
  <2>2. Is(h)
    <3>1. \A i \in 1..n : i # 1 => h[i - 1] = f[i - 1]
      OBVIOUS
    <3>2. \A i \in 1..n : i # 1 => f[i] = h[i - 1] \o ss[i]
      BY <1>5, <3>1, Zenon
    <3> QED BY <2>1, <3>2, Zenon
  <2>3. Is(flatten)
    <3> HIDE DEF Is, h
    <3>1. \E g : Is(g)
      BY <2>2
    <3> QED BY <3>1, Zenon
  <2>4. \A i \in 1..n : flatten[i] = IF i = 1 THEN ss[i] ELSE flatten[i - 1] \o ss[i]
    <3> HIDE DEF flatten
    <3> QED BY <2>3, Zenon
  <2>5. FlattenSeq(ss) = flatten[n]
    BY <1>7, Zenon DEF FlattenSeq
  <2> HIDE DEF flatten
  <2> DEFINE S == {k \in 0..n : k # 0 => flatten[k] = f[k]}
  <2>6. 0 \in S
    OBVIOUS
  <2>7. ASSUME NEW k \in 0..(n - 1), k \in S PROVE k + 1 \in S
    <3>1. k + 1 \in 1..n /\ (k + 1) - 1 = k
      OBVIOUS
    <3>2. flatten[k + 1] = f[k + 1]
      <4>1. CASE k = 0
        <5>1. flatten[k + 1] = ss[1] /\ k + 1 = 1
          BY <2>4, <3>1, <4>1
        <5> QED BY <2>1, <5>1
      <4>2. CASE k # 0
        <5>1. flatten[k] = f[k] /\ k + 1 # 1
          BY <2>7, <4>2
        <5>2. flatten[k + 1] = flatten[k] \o ss[k + 1]
          BY <2>4, <3>1, <5>1
        <5>3. f[k + 1] = f[k] \o ss[k + 1]
          BY <1>5, <3>1
        <5> QED BY <5>1, <5>2, <5>3
      <4> QED BY <4>1, <4>2
    <3> QED BY <3>1, <3>2
  <2>8. 0..n \subseteq S
    <3> HIDE DEF S
    <3> QED BY <2>6, <2>7, InductionUpTo
  <2>9. flatten[n] = f[n]
    BY <1>7, <2>8
  <2>10. FlattenRun(f, n, V, ss)
    BY <1>4, <1>5, <2>5, <2>9, Zenon DEF FlattenRun
  <2> QED BY <2>10
<1> QED BY <1>6, <1>7

\* The elements of a list that follows another.
LEMMA ConcatElements ==
  ASSUME NEW V, NEW a \in Seq(V), NEW b \in Seq(V)
  PROVE  ToSet(a \o b) = ToSet(a) \cup ToSet(b)
<1>1. /\ ToSet(a) = {a[i] : i \in 1..Len(a)}
      /\ ToSet(b) = {b[i] : i \in 1..Len(b)}
      /\ ToSet(a \o b) = {(a \o b)[i] : i \in 1..Len(a \o b)}
  BY DEF ToSet
<1>2. Len(a \o b) = Len(a) + Len(b) /\ Len(a) \in Nat /\ Len(b) \in Nat
  OBVIOUS
<1>3. \A i \in 1..Len(a) : (a \o b)[i] = a[i] /\ i \in 1..Len(a \o b)
  OBVIOUS
<1>4. \A i \in 1..Len(b) : (a \o b)[Len(a) + i] = b[i] /\ Len(a) + i \in 1..Len(a \o b)
  OBVIOUS
<1>5. ASSUME NEW i \in 1..Len(a \o b)
      PROVE  (a \o b)[i] \in ToSet(a) \cup ToSet(b)
  <2>1. CASE i \in 1..Len(a)
    BY <1>1, <1>3, <2>1
  <2>2. CASE i \notin 1..Len(a)
    <3>1. i - Len(a) \in 1..Len(b) /\ Len(a) + (i - Len(a)) = i
      BY <1>2, <2>2
    <3>2. (a \o b)[i] = b[i - Len(a)]
      BY <1>4, <3>1
    <3> QED BY <1>1, <3>1, <3>2
  <2> QED BY <2>1, <2>2
<1>6. ToSet(a \o b) \subseteq ToSet(a) \cup ToSet(b)
  BY <1>1, <1>5
<1>7. ToSet(a) \subseteq ToSet(a \o b)
  <2> SUFFICES ASSUME NEW i \in 1..Len(a) PROVE a[i] \in ToSet(a \o b)
    BY <1>1
  <2>1. (a \o b)[i] = a[i] /\ i \in 1..Len(a \o b)
    BY <1>3
  <2> QED BY <1>1, <2>1, Zenon
<1>8. ToSet(b) \subseteq ToSet(a \o b)
  <2> SUFFICES ASSUME NEW i \in 1..Len(b) PROVE b[i] \in ToSet(a \o b)
    BY <1>1
  <2>1. (a \o b)[Len(a) + i] = b[i] /\ Len(a) + i \in 1..Len(a \o b)
    BY <1>4
  <2> QED BY <1>1, <2>1, Zenon
<1> QED BY <1>6, <1>7, <1>8

\* Flattening gives a list of the same elements.
THEOREM FlattenElements ==
  ASSUME NEW V, NEW ss \in Seq(Seq(V))
  PROVE  /\ FlattenSeq(ss) \in Seq(V)
         /\ ToSet(FlattenSeq(ss)) = UNION {ToSet(ss[i]) : i \in 1..Len(ss)}
<1> PICK n \in Nat : n = Len(ss)
  OBVIOUS
<1>1. \A i \in 1..n : ss[i] \in Seq(V)
  OBVIOUS
<1> PICK f : FlattenRun(f, n, V, ss)
  BY FlattenPrefixes
<1>2. /\ f \in [0..n -> Seq(V)]
      /\ f[0] = <<>>
      /\ \A i \in 1..n : f[i] = f[i - 1] \o ss[i]
      /\ f[n] = FlattenSeq(ss)
  BY DEF FlattenRun
<1> DEFINE S == {k \in 0..n : ToSet(f[k]) = UNION {ToSet(ss[i]) : i \in 1..k}}
<1>3. 0 \in S
  BY <1>2 DEF ToSet
<1>4. ASSUME NEW k \in 0..(n - 1), k \in S PROVE k + 1 \in S
  <2>1. k + 1 \in 1..n /\ k + 1 \in 0..n /\ k \in 0..n /\ (k + 1) - 1 = k
    OBVIOUS
  <2>2. f[k + 1] = f[k] \o ss[k + 1] /\ f[k] \in Seq(V) /\ ss[k + 1] \in Seq(V)
    BY <1>1, <1>2, <2>1
  <2>3. ToSet(f[k + 1]) = ToSet(f[k]) \cup ToSet(ss[k + 1])
    BY <2>2, ConcatElements
  <2>4. 1..(k + 1) = (1..k) \cup {k + 1}
    OBVIOUS
  <2>5. ToSet(f[k]) = UNION {ToSet(ss[i]) : i \in 1..k}
    BY <1>4
  <2>6. UNION {ToSet(ss[i]) : i \in 1..(k + 1)}
          = (UNION {ToSet(ss[i]) : i \in 1..k}) \cup ToSet(ss[k + 1])
    BY <2>4
  <2> QED BY <2>1, <2>3, <2>5, <2>6
<1>5. 0..n \subseteq S
  <2> HIDE DEF S
  <2> QED BY <1>3, <1>4, InductionUpTo
<1>6. n \in S
  <2>1. n \in 0..n
    OBVIOUS
  <2> HIDE DEF S
  <2> QED BY <1>5, <2>1
<1> QED BY <1>2, <1>6

-----------------------------------------------------------------------------
\* Picking goes through the list: an element at a position of I is appended.
PickRun(f, n, V, s, I) ==
  /\ f \in [0..n -> Seq(V)]
  /\ f[0] = <<>>
  /\ \A i \in 1..n : f[i] = IF i \in I THEN Append(f[i - 1], s[i]) ELSE f[i - 1]
  /\ f[n] = pick(s, I)

LEMMA PickPrefixes ==
  ASSUME NEW V, NEW s \in Seq(V), NEW I, NEW n, n = Len(s)
  PROVE  \E f : PickRun(f, n, V, s, I)
<1> n \in Nat
  OBVIOUS
<1> PICK ss : ss = [i \in 1..n |-> IF i \in I THEN <<s[i]>> ELSE <<>>]
  OBVIOUS
<1>1. \A i \in 1..n : s[i] \in V /\ ss[i] = IF i \in I THEN <<s[i]>> ELSE <<>>
  OBVIOUS
<1>2. ss \in Seq(Seq(V)) /\ Len(ss) = n
  <2>1. \A i \in 1..n : <<s[i]>> \in Seq(V) /\ <<>> \in Seq(V)
    BY <1>1
  <2> QED BY <1>1, <2>1
<1>3. FlattenSeq(ss) = pick(s, I)
  <2>1. DOMAIN s = 1..n
    OBVIOUS
  <2> QED BY <2>1, Zenon DEF pick
<1> PICK f : FlattenRun(f, n, V, ss)
  BY <1>2, FlattenPrefixes
<1>4. /\ f \in [0..n -> Seq(V)]
      /\ f[0] = <<>>
      /\ \A i \in 1..n : f[i] = f[i - 1] \o ss[i]
      /\ f[n] = FlattenSeq(ss)
  BY DEF FlattenRun
<1>5. ASSUME NEW i \in 1..n
      PROVE  f[i] = IF i \in I THEN Append(f[i - 1], s[i]) ELSE f[i - 1]
  <2>1. i - 1 \in 0..n
    OBVIOUS
  <2>2. f[i - 1] \in Seq(V) /\ s[i] \in V
    BY <1>1, <1>4, <2>1
  <2>3. f[i] = f[i - 1] \o (IF i \in I THEN <<s[i]>> ELSE <<>>)
    BY <1>1, <1>4
  <2>4. CASE i \in I
    <3>1. f[i] = f[i - 1] \o <<s[i]>>
      BY <2>3, <2>4
    <3> QED BY <2>2, <2>4, <3>1, AppendIsConcat
  <2>5. CASE i \notin I
    <3>1. f[i] = f[i - 1] \o <<>>
      BY <2>3, <2>5
    <3> QED BY <2>2, <2>5, <3>1, ConcatEmptySeq
  <2> QED BY <2>4, <2>5
<1>6. PickRun(f, n, V, s, I)
  BY <1>3, <1>4, <1>5 DEF PickRun
<1> QED BY <1>6

NoRepeat(s) == \A i, j \in 1..Len(s) : s[i] = s[j] => i = j

\* The elements that are picked, and that none is picked twice that occurs
\* once among the positions.
THEOREM PickElements ==
  ASSUME NEW V, NEW s \in Seq(V), NEW I \in SUBSET (1..Len(s))
  PROVE  /\ pick(s, I) \in Seq(V)
         /\ ToSet(pick(s, I)) = {s[i] : i \in I}
         /\ Len(pick(s, I)) <= Len(s)
         /\ (\A i, j \in I : s[i] = s[j] => i = j) => NoRepeat(pick(s, I))
<1> PICK n \in Nat : n = Len(s)
  OBVIOUS
<1> PICK f : PickRun(f, n, V, s, I)
  BY PickPrefixes
<1>1. /\ f \in [0..n -> Seq(V)]
      /\ f[0] = <<>>
      /\ \A i \in 1..n : f[i] = IF i \in I THEN Append(f[i - 1], s[i]) ELSE f[i - 1]
      /\ f[n] = pick(s, I)
  BY DEF PickRun
<1> \A j \in I : j \in 1..n
  OBVIOUS
<1> DEFINE once == \A i, j \in I : s[i] = s[j] => i = j
           Good(k) == /\ ToSet(f[k]) = {s[i] : i \in {j \in I : j <= k}}
                      /\ Len(f[k]) <= k
                      /\ once => NoRepeat(f[k])
           S == {k \in 0..n : Good(k)}
<1>2. 0 \in S
  <2>1. {j \in I : j <= 0} = {}
    <3>1. \A j \in I : ~(j <= 0)
      OBVIOUS
    <3> QED BY <3>1, Zenon
  <2>2. ToSet(f[0]) = {} /\ Len(f[0]) = 0 /\ NoRepeat(f[0])
    BY <1>1 DEF ToSet, NoRepeat
  <2> QED BY <2>1, <2>2
<1>3. ASSUME NEW k \in 0..(n - 1), k \in S PROVE k + 1 \in S
  <2>1. k + 1 \in 1..n /\ k + 1 \in 0..n /\ k \in 0..n /\ (k + 1) - 1 = k
    OBVIOUS
  <2>2. f[k] \in Seq(V) /\ s[k + 1] \in V
    BY <1>1, <2>1
  <2>3. Good(k)
    BY <1>3
  <2>4. CASE k + 1 \notin I
    <3>1. f[k + 1] = f[k]
      BY <1>1, <2>1, <2>4
    <3>2. {j \in I : j <= k + 1} = {j \in I : j <= k}
      <4>1. \A j \in I : j <= k + 1 <=> j <= k
        BY <2>4
      <4> QED BY <4>1, Zenon
    <3>3. Len(f[k]) <= k + 1
      BY <2>2, <2>3
    <3> QED BY <2>1, <2>3, <3>1, <3>2, <3>3
  <2>5. CASE k + 1 \in I
    <3> PICK t \in Seq(V), x \in V : t = f[k] /\ x = s[k + 1]
      BY <2>2
    <3>1. f[k + 1] = Append(t, x)
      BY <1>1, <2>1, <2>5
    <3>2. {j \in I : j <= k + 1} = {j \in I : j <= k} \cup {k + 1}
      <4>1. \A j \in I : j <= k + 1 <=> j <= k \/ j = k + 1
        OBVIOUS
      <4>2. k + 1 <= k + 1
        OBVIOUS
      <4> QED BY <2>5, <4>1, <4>2, Zenon
    <3>3. /\ Len(Append(t, x)) = Len(t) + 1 /\ Len(t) \in Nat
          /\ Append(t, x)[Len(t) + 1] = x
          /\ \A i \in 1..Len(t) : Append(t, x)[i] = t[i]
      OBVIOUS
    <3>4. ToSet(Append(t, x)) = ToSet(t) \cup {x}
      <4>1. ToSet(t) = {t[i] : i \in 1..Len(t)}
        BY DEF ToSet
      <4>2. ToSet(Append(t, x)) = {Append(t, x)[i] : i \in 1..(Len(t) + 1)}
        <5>1. DOMAIN Append(t, x) = 1..(Len(t) + 1)
          OBVIOUS
        <5> QED BY <5>1 DEF ToSet
      <4>3. 1..(Len(t) + 1) = (1..Len(t)) \cup {Len(t) + 1}
        BY <3>3
      <4> QED BY <3>3, <4>1, <4>2, <4>3
    <3>5. ToSet(f[k + 1]) = {s[i] : i \in {j \in I : j <= k + 1}}
      BY <2>3, <3>1, <3>2, <3>4
    <3>6. Len(f[k + 1]) <= k + 1
      BY <2>3, <3>1, <3>3
    <3>7. once => NoRepeat(f[k + 1])
      <4> SUFFICES ASSUME once PROVE NoRepeat(Append(t, x))
        BY <3>1
      <4>1. x \notin ToSet(t)
        <5>1. ASSUME NEW j \in I, j <= k, s[j] = x PROVE FALSE
          <6>1. j = k + 1
            BY <2>5, <5>1
          <6> QED BY <5>1, <6>1
        <5> QED BY <2>3, <5>1
      <4>2. \A i \in 1..Len(t) : t[i] # x
        <5>1. \A i \in 1..Len(t) : t[i] \in ToSet(t)
          BY DEF ToSet
        <5> QED BY <4>1, <5>1
      <4>3. \A i, j \in 1..Len(t) : t[i] = t[j] => i = j
        BY <2>3 DEF NoRepeat
      <4>4. \A i \in 1..Len(Append(t, x)) : i \in 1..Len(t) \/ i = Len(t) + 1
        BY <3>3
      <4> SUFFICES ASSUME NEW i \in 1..Len(Append(t, x)), NEW j \in 1..Len(Append(t, x)),
                          Append(t, x)[i] = Append(t, x)[j]
                   PROVE  i = j
        BY DEF NoRepeat
      <4>5. CASE i \in 1..Len(t) /\ j \in 1..Len(t)
        BY <3>3, <4>3, <4>5
      <4>6. CASE i \in 1..Len(t) /\ j = Len(t) + 1
        BY <3>3, <4>2, <4>6
      <4>7. CASE i = Len(t) + 1 /\ j \in 1..Len(t)
        BY <3>3, <4>2, <4>7
      <4> QED BY <4>4, <4>5, <4>6, <4>7
    <3> QED BY <2>1, <3>5, <3>6, <3>7
  <2> QED BY <2>4, <2>5
<1>4. 0..n \subseteq S
  <2> HIDE DEF S
  <2> QED BY <1>2, <1>3, InductionUpTo
<1>5. Good(n)
  <2>1. n \in 0..n
    OBVIOUS
  <2>2. n \in S
    <3> HIDE DEF S
    <3> QED BY <1>4, <2>1
  <2> HIDE DEF Good
  <2> QED BY <2>2
<1>6. {j \in I : j <= n} = I
  <2>1. \A j \in I : j <= n
    OBVIOUS
  <2> QED BY <2>1, Zenon
<1> QED BY <1>1, <1>5, <1>6

\* An element of a list has a first position.
LEMMA FirstPosition ==
  ASSUME NEW V, NEW s \in Seq(V), NEW i \in 1..Len(s)
  PROVE  \E j \in firsts(s) : s[j] = s[i]
<1> DEFINE T == {j \in 1..Len(s) : s[j] = s[i]}
<1>1. T # {} /\ T \in SUBSET Nat
  OBVIOUS
<1>2. PICK m \in T : \A j \in T : m <= j
  <2> HIDE DEF T
  <2> QED BY <1>1, Smallest
<1>3. \A j \in 1..(m - 1) : j \in 1..Len(s) /\ ~(m <= j)
  OBVIOUS
<1>4. m \in firsts(s)
  BY <1>2, <1>3 DEF firsts
<1> QED BY <1>4

\* A PublicKeySet of a list has the elements of the list, each once.
THEOREM DistinctElements ==
  ASSUME NEW V, NEW s \in Seq(V)
  PROVE  /\ distinct(s) \in Seq(V)
         /\ ToSet(distinct(s)) = ToSet(s)
         /\ Len(distinct(s)) <= Len(s)
         /\ NoRepeat(distinct(s))
<1>1. firsts(s) \in SUBSET (1..Len(s))
  BY DEF firsts
<1>2. \A i, j \in firsts(s) : s[i] = s[j] => i = j
  <2> SUFFICES ASSUME NEW i \in firsts(s), NEW j \in firsts(s), s[i] = s[j], i < j
               PROVE  FALSE
    BY <1>1
  <2>1. i \in 1..(j - 1)
    BY <1>1
  <2> QED BY <2>1 DEF firsts
<1>3. {s[i] : i \in firsts(s)} = ToSet(s)
  <2>1. ToSet(s) = {s[i] : i \in 1..Len(s)}
    BY DEF ToSet
  <2> QED BY <1>1, <2>1, FirstPosition
<1> QED BY <1>1, <1>2, <1>3, PickElements DEF distinct

-----------------------------------------------------------------------------
\* A list, whatever its elements are.
IsList(s) == s \in Seq(ToSet(s))

LEMMA SeqIsList ==
  ASSUME NEW V, NEW s \in Seq(V)
  PROVE  IsList(s) /\ ToSet(s) \subseteq V
<1> PICK n \in Nat : n = Len(s)
  OBVIOUS
<1>1. DOMAIN s = 1..n /\ s \in [1..n -> V]
  OBVIOUS
<1>2. \A i \in 1..n : s[i] \in ToSet(s) /\ s[i] \in V
  BY <1>1 DEF ToSet
<1>3. s \in [1..n -> ToSet(s)]
  BY <1>1, <1>2
<1>4. s \in Seq(ToSet(s))
  BY <1>3, SeqDef
<1> QED BY <1>1, <1>2, <1>4 DEF IsList, ToSet

LEMMA FunctionIsList ==
  ASSUME NEW n \in Nat, NEW s, s = [i \in 1..n |-> s[i]]
  PROVE  IsList(s) /\ Len(s) = n
<1>1. DOMAIN s = 1..n
  OBVIOUS
<1>2. \A i \in 1..n : s[i] \in ToSet(s)
  BY <1>1 DEF ToSet
<1>3. s \in [1..n -> ToSet(s)]
  BY <1>2
<1>4. s \in Seq(ToSet(s))
  BY <1>3, SeqDef
<1> QED BY <1>1, <1>4 DEF IsList

LEMMA ListInSeq ==
  ASSUME NEW V, NEW s, IsList(s), ToSet(s) \subseteq V
  PROVE  s \in Seq(V)
BY DEF IsList

LEMMA ConcatIsList ==
  ASSUME NEW a, NEW b, IsList(a), IsList(b)
  PROVE  IsList(a \o b)
<1> DEFINE V == ToSet(a) \cup ToSet(b)
<1>1. a \in Seq(V) /\ b \in Seq(V)
  BY ListInSeq
<1>2. a \o b \in Seq(V)
  BY <1>1
<1> QED BY <1>2, SeqIsList

LEMMA FlattenIsList ==
  ASSUME NEW ss, IsList(ss), \A i \in DOMAIN ss : IsList(ss[i])
  PROVE  IsList(FlattenSeq(ss))
<1> DEFINE V == UNION {ToSet(ss[i]) : i \in DOMAIN ss}
<1>1. \A i \in DOMAIN ss : ToSet(ss[i]) \subseteq V
  OBVIOUS
<1> HIDE DEF V
<1>2. \A i \in DOMAIN ss : ss[i] \in Seq(V)
  BY <1>1, ListInSeq
<1>3. ToSet(ss) \subseteq Seq(V)
  BY <1>2 DEF ToSet
<1>4. ss \in Seq(Seq(V))
  BY <1>3, ListInSeq
<1>5. FlattenSeq(ss) \in Seq(V)
  BY <1>4, FlattenElements
<1> QED BY <1>5, SeqIsList

LEMMA PickIsList ==
  ASSUME NEW s, IsList(s), NEW I, I \subseteq DOMAIN s
  PROVE  IsList(pick(s, I))
<1> PICK V : V = ToSet(s)
  OBVIOUS
<1>1. s \in Seq(V) /\ I \in SUBSET (1..Len(s))
  BY DEF IsList
<1>2. pick(s, I) \in Seq(V)
  BY <1>1, PickElements
<1> QED BY <1>2, SeqIsList

LEMMA DistinctIsList ==
  ASSUME NEW s, IsList(s)
  PROVE  IsList(distinct(s))
<1> PICK V : V = ToSet(s)
  OBVIOUS
<1>1. s \in Seq(V)
  BY DEF IsList
<1>2. distinct(s) \in Seq(V)
  BY <1>1, DistinctElements
<1> QED BY <1>2, SeqIsList

\* A list whose first element is picked begins with it.
LEMMA PickHead ==
  ASSUME NEW s, IsList(s), NEW I, I \subseteq DOMAIN s, 1 \in I
  PROVE  pick(s, I) # <<>> /\ Head(pick(s, I)) = s[1]
<1> PICK V : s \in Seq(V)
  BY DEF IsList
<1> PICK n \in Nat : n = Len(s)
  OBVIOUS
<1>0. 1 \in 1..n
  OBVIOUS
<1> PICK f : PickRun(f, n, V, s, I)
  BY PickPrefixes
<1>1. /\ f \in [0..n -> Seq(V)]
      /\ f[0] = <<>>
      /\ \A i \in 1..n : f[i] = IF i \in I THEN Append(f[i - 1], s[i]) ELSE f[i - 1]
      /\ f[n] = pick(s, I)
  BY DEF PickRun
<1> DEFINE Starts(q) == Len(q) >= 1 /\ q[1] = s[1]
           S == {k \in 0..n : k = 0 \/ Starts(f[k])}
<1>2. ASSUME NEW k \in 0..(n - 1), k \in S
      PROVE  k + 1 \in S
  <2>1. k + 1 \in 1..n /\ k + 1 \in 0..n /\ (k + 1) - 1 = k /\ k \in 0..n
    OBVIOUS
  <2>2. f[k] \in Seq(V) /\ s[k + 1] \in V
    BY <1>1, <2>1
  <2>3. f[k + 1] = IF k + 1 \in I THEN Append(f[k], s[k + 1]) ELSE f[k]
    BY <1>1, <2>1
  <2>4. CASE k = 0
    <3>1. f[k + 1] = Append(<<>>, s[1])
      BY <1>1, <2>3, <2>4
    <3>2. Starts(f[k + 1])
      BY <2>2, <2>4, <3>1
    <3> QED BY <2>1, <3>2
  <2>5. CASE k # 0
    <3> PICK q : q = f[k]
      OBVIOUS
    <3> PICK e : e = s[k + 1]
      OBVIOUS
    <3>1. q \in Seq(V) /\ e \in V /\ Starts(q)
      BY <1>2, <2>2, <2>5
    <3>2. Starts(Append(q, e))
      BY <3>1
    <3>3. f[k + 1] \in {q, Append(q, e)}
      BY <2>3
    <3>4. Starts(f[k + 1])
      BY <3>1, <3>2, <3>3
    <3> QED BY <2>1, <3>4
  <2> QED BY <2>4, <2>5
<1>3. 0 \in S
  OBVIOUS
<1>4. 0..n \subseteq S
  <2> HIDE DEF S
  <2> QED BY <1>2, <1>3, InductionUpTo
<1>5. n \in 0..n /\ n # 0
  BY <1>0
<1>6. Starts(pick(s, I)) /\ pick(s, I) \in Seq(V)
  BY <1>1, <1>4, <1>5
<1> QED BY <1>6

\* What a list of lists has once it is flattened.
LEMMA FlattenedElements ==
  ASSUME NEW ss, IsList(ss), \A i \in DOMAIN ss : IsList(ss[i])
  PROVE  ToSet(FlattenSeq(ss)) = UNION {ToSet(ss[i]) : i \in DOMAIN ss}
<1> DEFINE V == UNION {ToSet(ss[i]) : i \in DOMAIN ss}
<1>1. \A i \in DOMAIN ss : ToSet(ss[i]) \subseteq V
  OBVIOUS
<1> HIDE DEF V
<1>2. ToSet(ss) \subseteq Seq(V)
  BY <1>1, ListInSeq DEF ToSet
<1>3. ss \in Seq(Seq(V)) /\ DOMAIN ss = 1..Len(ss)
  BY <1>2, ListInSeq DEF IsList
<1>4. ToSet(FlattenSeq(ss)) = UNION {ToSet(ss[i]) : i \in 1..Len(ss)}
  BY <1>3, FlattenElements
<1> QED BY <1>3, <1>4

\* A list with one more element.
LEMMA AppendIsList ==
  ASSUME NEW s, IsList(s), NEW e, NEW n, n = Len(s)
  PROVE  /\ IsList(Append(s, e)) /\ Len(Append(s, e)) = n + 1
         /\ DOMAIN Append(s, e) = 1..(n + 1) /\ Append(s, e)[n + 1] = e
         /\ \A i \in 1..n : Append(s, e)[i] = s[i]
<1> DEFINE V == ToSet(s) \cup {e}
<1>1. s \in Seq(V) /\ e \in V
  BY ListInSeq
<1> HIDE DEF V
<1>2. Append(s, e) \in Seq(V) /\ Len(Append(s, e)) = n + 1 /\ n \in Nat
  BY <1>1
<1>3. Append(s, e)[n + 1] = e /\ \A i \in 1..n : Append(s, e)[i] = s[i]
  BY <1>1
<1>4. IsList(Append(s, e))
  BY <1>2, SeqIsList, Zenon
<1>5. DOMAIN Append(s, e) = 1..(n + 1)
  BY <1>2
<1> QED BY <1>2, <1>3, <1>4, <1>5, Zenon

==============================================================================
