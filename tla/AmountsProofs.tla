---------------------------- MODULE AmountsProofs ----------------------------
(***************************************************************************)
(* The arithmetic of the wallet comes out right for any width of a number, *)
(* any amounts and any number of decimals.  The functions on texts are     *)
(* recursive: a theorem of the library shows that sets of naturals have a  *)
(* least element, from that follow induction (for a set, as the provers    *)
(* cannot instantiate it for a formula) and the existence of functions     *)
(* defined by recursion, and from these what value, digits, strip and      *)
(* tenTo compute.                                                          *)
(***************************************************************************)
EXTENDS Amounts, FiniteSetTheorems, SequenceTheorems, TLAPS

\* Every set of naturals has a least element.
LEMMA Least ==
    ASSUME NEW T \in SUBSET Nat, T # {}
    PROVE  \E x \in T : \A y \in T : x <= y
<1> DEFINE Below == {0..n : n \in T}
           R == StrictSubsetOrdering(Nat)
<1>1. Below \subseteq FiniteSubsetsOf(Nat) /\ Below # {}
    <2>1. ASSUME NEW n \in T PROVE 0..n \in FiniteSubsetsOf(Nat)
        BY FS_Interval DEF FiniteSubsetsOf
    <2> QED BY <2>1
<1>2. IsWellFoundedOn(R, FiniteSubsetsOf(Nat))
    BY FS_StrictSubsetOrderingWellFounded
<1> HIDE DEF Below, R
<1>3. PICK x \in Below : \A y \in Below : ~(<<y, x>> \in R)
    BY <1>1, <1>2, WFMin
<1>4. PICK m \in T : x = 0..m
    BY DEF Below
<1>5. ASSUME NEW k \in T, k < m PROVE FALSE
    <2>1. 0..k \in Below /\ 0..k \in SUBSET Nat /\ 0..m \in SUBSET Nat
        BY DEF Below
    <2>2. 0..k \subseteq 0..m /\ m \in 0..m /\ m \notin 0..k
        BY <1>5
    <2>3. <<0..k, 0..m>> \in R
        BY <2>1, <2>2 DEF R, StrictSubsetOrdering
    <2> QED BY <1>3, <1>4, <2>1, <2>3
<1> QED BY <1>5

\* Induction over the naturals, for a set.
LEMMA EveryNatural ==
    ASSUME NEW S, 0 \in S, \A n \in Nat : n \in S => n + 1 \in S
    PROVE  Nat \subseteq S
<1> SUFFICES ASSUME Nat \ S # {} PROVE FALSE
    OBVIOUS
<1>1. PICK x \in Nat \ S : \A y \in Nat \ S : x <= y
    <2>1. Nat \ S \in SUBSET Nat
        OBVIOUS
    <2> QED BY <2>1, Least
<1>2. x # 0 /\ x - 1 \in Nat
    OBVIOUS
<1>3. x - 1 \in S
    BY <1>1, <1>2
<1> QED BY <1>2, <1>3

\* Recursion: a function is defined by what it is where it stops and by how it follows
\* from an argument of lower rank.
Descends(S, V, rank, stop, base, prev, step) ==
    /\ rank \in [S -> Nat] /\ stop \in SUBSET S /\ base \in [S -> V]
    /\ prev \in [S \ stop -> S] /\ step \in [(S \ stop) \X V -> V]
    /\ \A s \in S \ stop : rank[prev[s]] < rank[s]
Follows(f, S, V, stop, base, prev, step) ==
    /\ f \in [S -> V]
    /\ \A s \in S : f[s] = IF s \in stop THEN base[s] ELSE step[<<s, f[prev[s]]>>]

LEMMA Recursion ==
    ASSUME NEW S, NEW V, NEW rank, NEW stop, NEW base, NEW prev, NEW step,
           Descends(S, V, rank, stop, base, prev, step)
    PROVE  \E f : Follows(f, S, V, stop, base, prev, step)
<1> USE DEF Descends
<1> DEFINE Body(g, s) == IF s \in stop THEN base[s] ELSE step[<<s, g[prev[s]]>>]
           D(n) == {s \in S : rank[s] < n}
           Good(n, g) == g \in [D(n) -> V] /\ \A s \in D(n) : g[s] = Body(g, s)
           E == {n \in Nat : \E g : Good(n, g)}
<1>1. \A n \in Nat : \A s \in D(n + 1) : s \notin stop => prev[s] \in D(n)
    OBVIOUS
<1>2. ASSUME NEW g, NEW A, g \in [A -> V], NEW s \in S, s \notin stop => prev[s] \in A
      PROVE  Body(g, s) \in V
    BY <1>2
<1>3. 0 \in E
    <2>1. D(0) = {}
        OBVIOUS
    <2>2. Good(0, [s \in D(0) |-> base[s]])
        BY <2>1
    <2> HIDE DEF Good
    <2> QED BY <2>2
<1>4. ASSUME NEW n \in Nat, n \in E PROVE n + 1 \in E
    <2>1. PICK g : Good(n, g)
        BY <1>4
    <2> DEFINE h == [s \in D(n + 1) |-> Body(g, s)]
    <2>2. h \in [D(n + 1) -> V]
        BY <1>1, <1>2, <2>1
    <2>3. \A s \in D(n) : s \in D(n + 1) /\ h[s] = g[s]
        BY <2>1
    <2>4. ASSUME NEW s \in D(n + 1) PROVE h[s] = Body(h, s)
        BY <1>1, <2>3
    <2>5. Good(n + 1, h)
        BY <2>2, <2>4
    <2> HIDE DEF Good, h
    <2> QED BY <2>5
<1>5. Nat \subseteq E
    <2> HIDE DEF E
    <2> QED BY <1>3, <1>4, EveryNatural
<1>6. ASSUME NEW m \in Nat, NEW n \in Nat, m <= n, NEW g, NEW h, Good(m, g), Good(n, h),
             NEW s \in D(m)
      PROVE  g[s] = h[s]
    <2> DEFINE Same == {k \in Nat : \A u \in D(m) : rank[u] < k => g[u] = h[u]}
    <2>1. 0 \in Same
        OBVIOUS
    <2>2. ASSUME NEW k \in Nat, k \in Same PROVE k + 1 \in Same
        <3> SUFFICES ASSUME NEW u \in D(m), rank[u] < k + 1 PROVE g[u] = h[u]
            OBVIOUS
        <3>1. g[u] = Body(g, u) /\ h[u] = Body(h, u)
            BY <1>6
        <3>2. u \notin stop => prev[u] \in D(m) /\ rank[prev[u]] < k
            OBVIOUS
        <3>3. u \notin stop => g[prev[u]] = h[prev[u]]
            BY <2>2, <3>2
        <3> QED BY <3>1, <3>3
    <2>3. m \in Same
        <3> HIDE DEF Same
        <3> QED BY <2>1, <2>2, EveryNatural
    <2> QED BY <2>3
<1> DEFINE G(n) == CHOOSE g : Good(n, g)
           f == [s \in S |-> G(rank[s] + 1)[s]]
<1>7. \A n \in Nat : Good(n, G(n))
    <2> HIDE DEF Good
    <2> QED BY <1>5
<1> HIDE DEF G
<1>8. \A s \in S : s \in D(rank[s] + 1) /\ rank[s] + 1 \in Nat
    OBVIOUS
<1>9. f \in [S -> V]
    BY <1>7, <1>8
<1>10. ASSUME NEW s \in S PROVE f[s] = Body(f, s)
    <2>1. f[s] = Body(G(rank[s] + 1), s)
        BY <1>7, <1>8
    <2>2. ASSUME s \notin stop PROVE G(rank[s] + 1)[prev[s]] = f[prev[s]]
        <3> DEFINE p == prev[s]
        <3>1. p \in S /\ rank[p] + 1 \in Nat /\ rank[s] + 1 \in Nat /\ rank[p] + 1 <= rank[s] + 1
            BY <2>2
        <3>2. p \in D(rank[p] + 1) /\ f[p] = G(rank[p] + 1)[p]
            BY <1>8, <3>1
        <3> HIDE DEF p, Good, D, f
        <3>3. G(rank[p] + 1)[p] = G(rank[s] + 1)[p]
            BY <1>6, <1>7, <3>1, <3>2
        <3> QED BY <3>2, <3>3 DEF p
    <2> QED BY <2>1, <2>2
<1> QED BY <1>9, <1>10 DEF Follows
-----------------------------------------------------------------------------
\* Amounts: digits and what they stand for.

\* Digits from the most significant on.
Texts == Seq(0..9)

\* The first n elements of a sequence.
LEMMA Beginning ==
    ASSUME NEW S, NEW s \in Seq(S), NEW n \in Nat, n <= Len(s)
    PROVE  SubSeq(s, 1, n) \in Seq(S) /\ Len(SubSeq(s, 1, n)) = n
OBVIOUS

\* A text that is not empty: its ends, what is left without the last or the first digit.
LEMMA TextParts ==
    ASSUME NEW s \in Texts, s # <<>>
    PROVE  /\ Len(s) \in Nat \ {0} /\ Len(s) \in 1..Len(s) /\ 1 \in 1..Len(s)
           /\ s[Len(s)] \in 0..9 /\ s[1] \in 0..9
           /\ SubSeq(s, 1, Len(s) - 1) \in Texts /\ Len(SubSeq(s, 1, Len(s) - 1)) = Len(s) - 1
           /\ Tail(s) \in Texts /\ Len(Tail(s)) = Len(s) - 1
<1>1. Len(s) \in Nat \ {0}
    BY EmptySeq DEF Texts
<1>2. Len(s) \in 1..Len(s) /\ 1 \in 1..Len(s)
    BY <1>1
<1>3. s[Len(s)] \in 0..9 /\ s[1] \in 0..9
    BY <1>2, ElementOfSeq DEF Texts
<1>4. \A i \in 1..Len(s) - 1 : s[i] \in 0..9
    BY <1>1, ElementOfSeq DEF Texts
<1>5. SubSeq(s, 1, Len(s) - 1) \in Texts /\ Len(SubSeq(s, 1, Len(s) - 1)) = Len(s) - 1
    <2>1. Len(s) - 1 \in Nat /\ Len(s) - 1 <= Len(s)
        BY <1>1
    <2> QED BY <2>1, Beginning DEF Texts
<1>6. Tail(s) \in Texts /\ Len(Tail(s)) = Len(s) - 1
    BY HeadTailProperties DEF Texts
<1> QED BY <1>1, <1>2, <1>3, <1>5, <1>6

\* The recursion of value is one: by length.
LEMMA ValueDefined ==
    /\ value \in [Texts -> Nat]
    /\ \A s \in Texts :
          value[s] = IF s = <<>> THEN 0 ELSE 10 * value[SubSeq(s, 1, Len(s) - 1)] + s[Len(s)]
<1> DEFINE stop == {<<>>}
           Some == Texts \ stop
           rank == [s \in Texts |-> Len(s)]
           base == [s \in Texts |-> 0]
           prev == [s \in Some |-> SubSeq(s, 1, Len(s) - 1)]
           step == [p \in Some \X Nat |-> 10 * p[2] + p[1][Len(p[1])]]
           Body(f) == [s \in Seq(0..9) |->
                         IF s = <<>> THEN 0 ELSE 10 * f[SubSeq(s, 1, Len(s) - 1)] + s[Len(s)]]
<1>1. rank \in [Texts -> Nat] /\ base \in [Texts -> Nat]
    BY LenProperties DEF Texts
<1>2. prev \in [Some -> Texts] /\ \A s \in Some : rank[prev[s]] < rank[s]
    BY TextParts
<1>3. step \in [Some \X Nat -> Nat]
    <2>1. ASSUME NEW s \in Some, NEW n \in Nat PROVE 10 * n + s[Len(s)] \in Nat
        <3>1. s[Len(s)] \in 0..9
            BY TextParts
        <3> QED BY <3>1
    <2> QED BY <2>1
<1>4. stop \in SUBSET Texts
    BY EmptySeq DEF Texts
<1>5. PICK f : Follows(f, Texts, Nat, stop, base, prev, step)
    <2>1. Descends(Texts, Nat, rank, stop, base, prev, step)
        BY <1>1, <1>2, <1>3, <1>4 DEF Descends
    <2> HIDE DEF rank, base, prev, step, stop
    <2> QED BY <2>1, Recursion
<1>6. ASSUME NEW s \in Texts
      PROVE  f[s] = IF s = <<>> THEN 0 ELSE 10 * f[SubSeq(s, 1, Len(s) - 1)] + s[Len(s)]
    <2>1. s # <<>> => SubSeq(s, 1, Len(s) - 1) \in Texts
        BY TextParts
    <2> QED BY <1>5, <2>1 DEF Follows
<1>7. f = Body(f)
    BY <1>5, <1>6 DEF Texts, Follows
<1>8. value = Body(value)
    BY <1>7 DEF value
<1>9. \A s \in Texts :
         value[s] = IF s = <<>> THEN 0 ELSE 10 * value[SubSeq(s, 1, Len(s) - 1)] + s[Len(s)]
    BY <1>8 DEF Texts
<1> DEFINE S == {n \in Nat : \A s \in Texts : Len(s) <= n => value[s] \in Nat}
<1>10. 0 \in S
    <2>1. ASSUME NEW s \in Texts, Len(s) <= 0 PROVE value[s] \in Nat
        <3>1. s = <<>>
            BY <2>1, TextParts
        <3> QED BY <1>9, <3>1
    <2> QED BY <2>1
<1>11. ASSUME NEW n \in Nat, n \in S PROVE n + 1 \in S
    <2> SUFFICES ASSUME NEW s \in Texts, Len(s) <= n + 1, s # <<>> PROVE value[s] \in Nat
        BY <1>9
    <2>1. /\ SubSeq(s, 1, Len(s) - 1) \in Texts /\ Len(SubSeq(s, 1, Len(s) - 1)) <= n
          /\ s[Len(s)] \in 0..9
        BY TextParts
    <2>2. value[SubSeq(s, 1, Len(s) - 1)] \in Nat
        BY <1>11, <2>1
    <2>3. value[s] = 10 * value[SubSeq(s, 1, Len(s) - 1)] + s[Len(s)]
        BY <1>9
    <2> DEFINE v == value[SubSeq(s, 1, Len(s) - 1)]
               d == s[Len(s)]
    <2>4. v \in Nat /\ d \in 0..9 /\ value[s] = 10 * v + d
        BY <2>1, <2>2, <2>3
    <2> HIDE DEF v, d
    <2> QED BY <2>4
<1>12. Nat \subseteq S
    <2> HIDE DEF S
    <2> QED BY <1>10, <1>11, EveryNatural
<1>13. \A s \in Texts : value[s] \in Nat
    <2>1. \A s \in Texts : Len(s) \in Nat
        BY LenProperties DEF Texts
    <2> QED BY <1>12, <2>1
<1>14. DOMAIN value = Texts
    BY <1>8 DEF Texts
<1>15. value \in [Texts -> Nat]
    BY <1>8, <1>13, <1>14 DEF Texts
<1> QED BY <1>9, <1>15

\* What holds of the empty text and is kept by one more digit holds of all.
LEMMA TextInduction ==
    ASSUME NEW S, <<>> \in S, \A s \in Texts, d \in 0..9 : s \in S => Append(s, d) \in S
    PROVE  Texts \subseteq S
<1> DEFINE N == {n \in Nat : \A s \in Texts : Len(s) = n => s \in S}
<1>1. 0 \in N
    <2>1. \A s \in Texts : Len(s) = 0 => s = <<>>
        BY TextParts
    <2> QED BY <2>1
<1>2. ASSUME NEW n \in Nat, n \in N PROVE n + 1 \in N
    <2> SUFFICES ASSUME NEW s \in Texts, Len(s) = n + 1 PROVE s \in S
        OBVIOUS
    <2>1. s # <<>>
        BY EmptySeq
    <2>2. PICK t \in Texts, d \in 0..9 : s = Append(t, d)
        BY <2>1, SequenceEmptyOrAppend DEF Texts
    <2>3. Len(s) = Len(t) + 1 /\ Len(t) \in Nat
        BY <2>2, AppendProperties, LenProperties DEF Texts
    <2>4. Len(t) = n
        BY <2>3
    <2> QED BY <1>2, <2>2, <2>4
<1>3. Nat \subseteq N
    <2> HIDE DEF N
    <2> QED BY <1>1, <1>2, EveryNatural
<1>4. \A s \in Texts : Len(s) \in Nat
    BY LenProperties DEF Texts
<1> QED BY <1>3, <1>4

LEMMA Chopped ==
    ASSUME NEW S, NEW s \in Seq(S), NEW d \in S
    PROVE  SubSeq(Append(s, d), 1, Len(Append(s, d)) - 1) = s /\ Append(s, d)[Len(Append(s, d))] = d
OBVIOUS

LEMMA ValueEmpty == <<>> \in Texts /\ value[<<>>] = 0
BY EmptySeq, ValueDefined DEF Texts

\* One more digit: ten times as much, and the digit.
LEMMA ValueAppend ==
    ASSUME NEW s \in Texts, NEW d \in 0..9
    PROVE  Append(s, d) \in Texts /\ value[Append(s, d)] = 10 * value[s] + d
<1> DEFINE t == Append(s, d)
<1>1. t \in Texts /\ t # <<>>
    BY AppendProperties DEF Texts
<1>2. SubSeq(t, 1, Len(t) - 1) = s /\ t[Len(t)] = d
    BY Chopped DEF Texts
<1> HIDE DEF t
<1>3. value[t] = 10 * value[SubSeq(t, 1, Len(t) - 1)] + t[Len(t)]
    BY <1>1, ValueDefined
<1>4. value[t] = 10 * value[s] + d
    BY <1>2, <1>3, Zenon
<1> QED BY <1>1, <1>4 DEF t

LEMMA ZerosGrow ==
    ASSUME NEW n \in Nat
    PROVE  /\ Zeros(n) \in Texts /\ Len(Zeros(n)) = n
           /\ Zeros(n + 1) = Append(Zeros(n), 0)
           /\ Zeros(n + 1) = <<0>> \o Zeros(n)
<1>1. \A m \in Nat : Zeros(m) \in Seq(0..9) /\ Len(Zeros(m)) = m /\ \A i \in 1..m : Zeros(m)[i] = 0
    BY DEF Zeros
<1>2. Zeros(n + 1) = Append(Zeros(n), 0)
    BY DEF Zeros
<1>3. Zeros(n + 1) = <<0>> \o Zeros(n)
    BY DEF Zeros
<1> QED BY <1>1, <1>2, <1>3 DEF Texts

LEMMA ZerosAreZero ==
    ASSUME NEW n \in Nat
    PROVE  Zeros(n) \in Texts /\ value[Zeros(n)] = 0
<1> DEFINE S == {k \in Nat : value[Zeros(k)] = 0}
<1>1. 0 \in S
    <2>1. Zeros(0) = <<>>
        BY ZerosGrow, TextParts
    <2> QED BY <2>1, ValueEmpty
<1>2. ASSUME NEW k \in Nat, k \in S PROVE k + 1 \in S
    <2>1. Zeros(k) \in Texts /\ Zeros(k + 1) = Append(Zeros(k), 0)
        BY ZerosGrow
    <2>2. \A d \in 0..9 : value[Append(Zeros(k), d)] = 10 * value[Zeros(k)] + d
        BY <2>1, ValueAppend
    <2>3. value[Append(Zeros(k), 0)] = 10 * 0 + 0
        BY <1>2, <2>2
    <2>4. value[Zeros(k + 1)] = 10 * 0 + 0
        BY <2>1, <2>3, Zenon
    <2> QED BY <2>4
<1> HIDE DEF S
<1>3. n \in S
    BY <1>1, <1>2, EveryNatural
<1> QED BY <1>3, ZerosGrow DEF S

LEMMA AppendAssociates ==
    ASSUME NEW S, NEW s \in Seq(S), NEW t \in Seq(S), NEW d \in S
    PROVE  s \o Append(t, d) = Append(s \o t, d) /\ s \o t \in Seq(S)
OBVIOUS

\* Zeros in front do not count.
LEMMA LeadingZeros ==
    ASSUME NEW n \in Nat, NEW s \in Texts
    PROVE  Zeros(n) \o s \in Texts /\ value[Zeros(n) \o s] = value[s]
<1> DEFINE S == {t \in Texts : value[Zeros(n) \o t] = value[t]}
           z == Zeros(n)
<1>1. z \in Texts /\ value[z] = 0
    BY ZerosAreZero
<1>2. <<>> \in S
    <2>1. z \o <<>> = z
        BY <1>1, ConcatEmptySeq DEF Texts
    <2> QED BY <1>1, <2>1, ValueEmpty
<1>3. ASSUME NEW t \in Texts, NEW d \in 0..9, t \in S PROVE Append(t, d) \in S
    <2> HIDE DEF z
    <2>1. z \o Append(t, d) = Append(z \o t, d) /\ z \o t \in Texts
        BY <1>1, AppendAssociates DEF Texts
    <2>2. /\ value[Append(z \o t, d)] = 10 * value[z \o t] + d
          /\ value[Append(t, d)] = 10 * value[t] + d /\ Append(t, d) \in Texts
        BY <2>1, ValueAppend
    <2>3. value[z \o t] = value[t]
        BY <1>3 DEF z
    <2>4. value[z \o Append(t, d)] = value[Append(t, d)]
        BY <2>1, <2>2, <2>3, Zenon
    <2> QED BY <2>2, <2>4 DEF z
<1>4. s \in S
    <2> HIDE DEF S
    <2> QED BY <1>2, <1>3, TextInduction
<1>5. z \o s \in Texts
    <2> HIDE DEF z
    <2> QED BY <1>1, ConcatProperties DEF Texts
<1> QED BY <1>4, <1>5

\* The recursion of tenTo is one.
LEMMA TenToDefined ==
    /\ tenTo \in [Nat -> Nat] /\ tenTo[0] = 1
    /\ \A n \in Nat : tenTo[n + 1] = 10 * tenTo[n]
<1> DEFINE stop == {0}
           rank == [n \in Nat |-> n]
           base == [n \in Nat |-> 1]
           prev == [n \in Nat \ stop |-> n - 1]
           step == [p \in (Nat \ stop) \X Nat |-> 10 * p[2]]
           Body(f) == [n \in Nat |-> IF n = 0 THEN 1 ELSE 10 * f[n - 1]]
<1>1. PICK f : Follows(f, Nat, Nat, stop, base, prev, step)
    <2>1. step \in [(Nat \ stop) \X Nat -> Nat]
        OBVIOUS
    <2>2. Descends(Nat, Nat, rank, stop, base, prev, step)
        BY <2>1 DEF Descends
    <2> HIDE DEF rank, base, prev, step, stop
    <2> QED BY <2>2, Recursion
<1>2. ASSUME NEW n \in Nat PROVE f[n] = IF n = 0 THEN 1 ELSE 10 * f[n - 1]
    <2>1. n # 0 => n - 1 \in Nat
        OBVIOUS
    <2>2. f \in [Nat -> Nat] /\ f[n] = IF n \in stop THEN base[n] ELSE step[<<n, f[prev[n]]>>]
        BY <1>1 DEF Follows
    <2>3. n # 0 => prev[n] = n - 1 /\ f[n - 1] \in Nat
        BY <2>1, <2>2
    <2> QED BY <2>2, <2>3
<1>3. f = Body(f)
    BY <1>1, <1>2 DEF Follows
<1>4. tenTo = Body(tenTo)
    BY <1>3 DEF tenTo
<1> DEFINE S == {n \in Nat : tenTo[n] \in Nat}
<1>5. tenTo[0] = 1
    BY <1>4
<1>6. \A n \in Nat : tenTo[n + 1] = 10 * tenTo[n]
    <2>1. \A n \in Nat : n + 1 \in Nat /\ n + 1 # 0 /\ (n + 1) - 1 = n
        OBVIOUS
    <2>2. ASSUME NEW n \in Nat PROVE tenTo[n + 1] = 10 * tenTo[(n + 1) - 1]
        BY <1>4, <2>1
    <2> QED BY <2>1, <2>2
<1>7. 0 \in S /\ \A n \in Nat : n \in S => n + 1 \in S
    BY <1>5, <1>6
<1>8. Nat \subseteq S
    <2> HIDE DEF S
    <2> QED BY <1>7, EveryNatural
<1>9. tenTo \in [Nat -> Nat]
    BY <1>4, <1>8
<1> QED BY <1>5, <1>6, <1>9

LEMMA Tenfold ==
    ASSUME NEW x \in Nat, NEW y \in Nat, NEW z \in Nat, NEW t \in Nat, y = x * z, t = 10 * z
    PROVE  10 * y + 0 = x * t
OBVIOUS

\* Zeros behind count ten times each.
LEMMA TrailingZeros ==
    ASSUME NEW n \in Nat, NEW s \in Texts
    PROVE  s \o Zeros(n) \in Texts /\ value[s \o Zeros(n)] = value[s] * tenTo[n]
<1> DEFINE S == {k \in Nat : value[s \o Zeros(k)] = value[s] * tenTo[k]}
<1>1. 0 \in S
    <2>1. s \o Zeros(0) = s
        <3>1. Zeros(0) = <<>>
            BY ZerosGrow, TextParts
        <3> QED BY <3>1, ConcatEmptySeq DEF Texts
    <2>2. value[s] \in Nat
        BY ValueDefined
    <2>3. value[s] * 1 = value[s]
        BY <2>2
    <2> QED BY <2>1, <2>3, TenToDefined
<1>2. ASSUME NEW k \in Nat, k \in S PROVE k + 1 \in S
    <2> DEFINE z == Zeros(k)
    <2>1. z \in Texts /\ Zeros(k + 1) = Append(z, 0)
        BY ZerosGrow
    <2> HIDE DEF z
    <2>2. \A d \in 0..9 : s \o Append(z, d) = Append(s \o z, d) /\ s \o z \in Texts
        BY <2>1, AppendAssociates DEF Texts
    <2>3. \A d \in 0..9 : value[Append(s \o z, d)] = 10 * value[s \o z] + d
        BY <2>2, ValueAppend
    <2>4. 0 \in 0..9
        OBVIOUS
    <2>5. value[s \o Zeros(k + 1)] = 10 * value[s \o z] + 0
        BY <2>1, <2>2, <2>3, <2>4, Zenon
    <2>6. value[s \o z] = value[s] * tenTo[k]
        BY <1>2 DEF z
    <2>7. value[s] \in Nat /\ value[s \o z] \in Nat /\ tenTo[k] \in Nat /\ tenTo[k + 1] \in Nat
        <3>1. s \o z \in Texts /\ k \in Nat /\ k + 1 \in Nat
            BY <2>2, <2>4
        <3>2. value[s] \in Nat /\ value[s \o z] \in Nat
            BY <3>1, ValueDefined
        <3>3. tenTo[k] \in Nat /\ tenTo[k + 1] \in Nat
            BY <3>1, TenToDefined
        <3> QED BY <3>2, <3>3
    <2>8. 10 * value[s \o z] + 0 = value[s] * tenTo[k + 1]
        BY <2>6, <2>7, Tenfold, TenToDefined
    <2>9. value[s \o Zeros(k + 1)] = value[s] * tenTo[k + 1]
        BY <2>5, <2>8, Zenon
    <2> QED BY <2>9
<1>3. n \in S
    <2> HIDE DEF S
    <2> QED BY <1>1, <1>2, EveryNatural
<1>4. s \o Zeros(n) \in Texts
    <2>1. Zeros(n) \in Texts
        BY ZerosGrow
    <2> HIDE DEF S
    <2> QED BY <2>1, ConcatProperties DEF Texts
<1> QED BY <1>3, <1>4
-----------------------------------------------------------------------------
\* The recursion of strip is one: by length.
LEMMA StripDefined ==
    /\ strip \in [Texts -> Texts]
    /\ \A s \in Texts : strip[s] = IF s = <<>> THEN <<0>> ELSE IF s[1] = 0 THEN strip[Tail(s)] ELSE s
<1> DEFINE stop == {s \in Texts : s = <<>> \/ s[1] # 0}
           rank == [s \in Texts |-> Len(s)]
           base == [s \in Texts |-> IF s = <<>> THEN <<0>> ELSE s]
           prev == [s \in Texts \ stop |-> Tail(s)]
           step == [p \in (Texts \ stop) \X Texts |-> p[2]]
           Body(f) == [s \in Seq(0..9) |-> IF s = <<>> THEN <<0>>
                                           ELSE IF s[1] = 0 THEN f[Tail(s)] ELSE s]
<1>1. <<0>> \in Texts
    BY DEF Texts
<1>2. PICK f : Follows(f, Texts, Texts, stop, base, prev, step)
    <2>1. step \in [(Texts \ stop) \X Texts -> Texts]
        OBVIOUS
    <2>2. base \in [Texts -> Texts]
        BY <1>1
    <2>3. rank \in [Texts -> Nat]
        BY LenProperties DEF Texts
    <2>4. prev \in [Texts \ stop -> Texts] /\ \A s \in Texts \ stop : rank[prev[s]] < rank[s]
        BY TextParts
    <2>5. Descends(Texts, Texts, rank, stop, base, prev, step)
        <3> HIDE DEF rank, base, prev, step
        <3> QED BY <2>1, <2>2, <2>3, <2>4 DEF Descends
    <2> HIDE DEF rank, base, prev, step, stop
    <2> QED BY <2>5, Recursion
<1>3. ASSUME NEW s \in Texts
      PROVE  f[s] = IF s = <<>> THEN <<0>> ELSE IF s[1] = 0 THEN f[Tail(s)] ELSE s
    <2>1. s # <<>> => Tail(s) \in Texts
        BY TextParts
    <2> QED BY <1>2, <2>1 DEF Follows
<1>4. f = Body(f)
    BY <1>2, <1>3 DEF Follows, Texts
<1>5. strip = Body(strip)
    BY <1>4 DEF strip
<1>6. \A s \in Texts : strip[s] = IF s = <<>> THEN <<0>> ELSE IF s[1] = 0 THEN strip[Tail(s)] ELSE s
    BY <1>5 DEF Texts
<1> DEFINE S == {n \in Nat : \A s \in Texts : Len(s) <= n => strip[s] \in Texts}
<1>7. 0 \in S
    <2>1. \A s \in Texts : Len(s) <= 0 => s = <<>>
        BY TextParts
    <2> QED BY <1>1, <1>6, <2>1
<1>8. ASSUME NEW n \in Nat, n \in S PROVE n + 1 \in S
    <2> SUFFICES ASSUME NEW s \in Texts, Len(s) <= n + 1, s # <<>>, s[1] = 0 PROVE strip[s] \in Texts
        BY <1>1, <1>6
    <2>1. Tail(s) \in Texts /\ Len(Tail(s)) <= n
        BY TextParts
    <2> QED BY <1>6, <1>8, <2>1
<1>9. Nat \subseteq S
    <2> HIDE DEF S
    <2> QED BY <1>7, <1>8, EveryNatural
<1>10. \A s \in Texts : strip[s] \in Texts
    <2>1. \A s \in Texts : Len(s) \in Nat
        BY LenProperties DEF Texts
    <2> QED BY <1>9, <2>1
<1>11. strip \in [Texts -> Texts]
    <2>1. DOMAIN strip = Texts /\ strip = [s \in Texts |-> strip[s]]
        BY <1>5 DEF Texts
    <2> QED BY <1>10, <2>1
<1> QED BY <1>6, <1>11

LEMMA StripKeepsValue ==
    ASSUME NEW s \in Texts
    PROVE  strip[s] \in Texts /\ value[strip[s]] = value[s]
<1> DEFINE S == {n \in Nat : \A t \in Texts : Len(t) <= n => value[strip[t]] = value[t]}
<1>1. value[<<0>>] = value[<<>>]
    <2>1. <<0>> = Zeros(1) /\ 1 \in Nat
        BY DEF Zeros
    <2>2. value[Zeros(1)] = 0
        BY <2>1, ZerosAreZero
    <2> QED BY <2>1, <2>2, ValueEmpty
<1>2. 0 \in S
    <2>1. \A t \in Texts : Len(t) <= 0 => t = <<>>
        BY TextParts
    <2> QED BY <1>1, <2>1, StripDefined
<1>3. ASSUME NEW n \in Nat, n \in S PROVE n + 1 \in S
    <2> SUFFICES ASSUME NEW t \in Texts, Len(t) <= n + 1, t # <<>>, t[1] = 0
                 PROVE  value[strip[t]] = value[t]
        BY <1>1, StripDefined
    <2>1. Tail(t) \in Texts /\ Len(Tail(t)) <= n
        BY TextParts
    <2>2. strip[t] = strip[Tail(t)]
        BY StripDefined
    <2>3. t = Zeros(1) \o Tail(t)
        BY DEF Texts, Zeros
    <2>4. value[Zeros(1) \o Tail(t)] = value[Tail(t)]
        BY <2>1, LeadingZeros
    <2>5. value[strip[Tail(t)]] = value[Tail(t)]
        BY <1>3, <2>1
    <2> QED BY <2>2, <2>3, <2>4, <2>5, Zenon
<1>4. Len(s) \in S
    <2>1. Len(s) \in Nat
        BY LenProperties DEF Texts
    <2> HIDE DEF S
    <2> QED BY <1>2, <1>3, <2>1, EveryNatural
<1> QED BY <1>4, StripDefined

LEMMA StripsZeros ==
    ASSUME NEW n \in Nat, NEW s \in Texts
    PROVE  strip[Zeros(n) \o s] = strip[s]
<1> DEFINE S == {k \in Nat : strip[Zeros(k) \o s] = strip[s]}
<1>1. 0 \in S
    <2>1. Zeros(0) = <<>>
        BY ZerosGrow, TextParts
    <2>2. Zeros(0) \o s = s
        BY <2>1, ConcatEmptySeq DEF Texts
    <2> QED BY <2>2
<1>2. ASSUME NEW k \in Nat, k \in S PROVE k + 1 \in S
    <2> DEFINE z == Zeros(k)
               t == Zeros(k) \o s
    <2>1. Zeros(k + 1) = <<0>> \o z /\ z \in Texts /\ t \in Texts
        BY ZerosGrow, LeadingZeros
    <2> HIDE DEF z
    <2>2. (<<0>> \o z) \o s = <<0>> \o (z \o s)
        BY <2>1 DEF Texts
    <2>3. Zeros(k + 1) \o s = <<0>> \o t
        BY <2>1, <2>2, Zenon DEF z
    <2> HIDE DEF t
    <2> DEFINE u == <<0>> \o t
    <2>4. u \in Texts /\ u # <<>> /\ u[1] = 0 /\ Tail(u) = t
        BY <2>1 DEF Texts
    <2> HIDE DEF u
    <2>5. strip[u] = strip[t]
        BY <2>4, StripDefined
    <2>6. strip[t] = strip[s]
        BY <1>2 DEF t
    <2>7. strip[Zeros(k + 1) \o s] = strip[s]
        BY <2>3, <2>5, <2>6, Zenon DEF u
    <2> QED BY <2>7
<1>3. n \in S
    <2> HIDE DEF S
    <2> QED BY <1>1, <1>2, EveryNatural
<1> QED BY <1>3
-----------------------------------------------------------------------------
\* The recursion of digits is one: n \div 10 is less than n.
LEMMA DigitsDefined ==
    /\ digits \in [Nat -> Texts]
    /\ \A n \in Nat : digits[n] = IF n < 10 THEN <<n>> ELSE Append(digits[n \div 10], n % 10)
<1> DEFINE stop == {n \in Nat : n < 10}
           rank == [n \in Nat |-> n]
           base == [n \in Nat |-> IF n < 10 THEN <<n>> ELSE <<0>>]
           prev == [n \in Nat \ stop |-> n \div 10]
           step == [p \in (Nat \ stop) \X Texts |-> Append(p[2], p[1] % 10)]
           Body(f) == [n \in Nat |-> IF n < 10 THEN <<n>> ELSE Append(f[n \div 10], n % 10)]
<1>1. \A n \in Nat : n % 10 \in 0..9 /\ n \div 10 \in Nat /\ (n >= 10 => n \div 10 < n)
    OBVIOUS
<1>2. \A n \in Nat : n < 10 => <<n>> \in Texts
    BY DEF Texts
<1>3. \A s \in Texts, d \in 0..9 : Append(s, d) \in Texts
    BY ValueAppend
<1>4. PICK f : Follows(f, Nat, Texts, stop, base, prev, step)
    <2>1. step \in [(Nat \ stop) \X Texts -> Texts]
        BY <1>1, <1>3
    <2>2. base \in [Nat -> Texts]
        <3>1. <<0>> \in Texts
            BY DEF Texts
        <3> QED BY <1>2, <3>1
    <2>3. rank \in [Nat -> Nat] /\ stop \in SUBSET Nat
        OBVIOUS
    <2>4. prev \in [Nat \ stop -> Nat] /\ \A n \in Nat \ stop : rank[prev[n]] < rank[n]
        BY <1>1
    <2>5. Descends(Nat, Texts, rank, stop, base, prev, step)
        <3> HIDE DEF rank, base, prev, step
        <3> QED BY <2>1, <2>2, <2>3, <2>4 DEF Descends
    <2> HIDE DEF rank, base, prev, step, stop
    <2> QED BY <2>5, Recursion
<1>5. ASSUME NEW n \in Nat
      PROVE  f[n] = IF n < 10 THEN <<n>> ELSE Append(f[n \div 10], n % 10)
    <2>1. f \in [Nat -> Texts] /\ f[n] = IF n \in stop THEN base[n] ELSE step[<<n, f[prev[n]]>>]
        BY <1>4 DEF Follows
    <2>2. CASE n < 10
        BY <2>1, <2>2
    <2>3. CASE ~(n < 10)
        <3>1. prev[n] = n \div 10 /\ f[n \div 10] \in Texts
            BY <1>1, <2>1, <2>3
        <3>2. f[n] = step[<<n, f[n \div 10]>>]
            BY <2>1, <2>3, <3>1
        <3> QED BY <2>3, <3>1, <3>2
    <2> QED BY <2>2, <2>3
<1>6. f = Body(f)
    BY <1>4, <1>5 DEF Follows
<1>7. digits = Body(digits)
    BY <1>6 DEF digits
<1>8. \A n \in Nat : digits[n] = IF n < 10 THEN <<n>> ELSE Append(digits[n \div 10], n % 10)
    BY <1>7
<1>9. ASSUME NEW n \in Nat, n < 10 PROVE digits[n] \in Texts
    <2>1. digits[n] = <<n>>
        BY <1>8, <1>9
    <2> QED BY <1>2, <1>9, <2>1
<1>10. ASSUME NEW n \in Nat, n >= 10, digits[n \div 10] \in Texts PROVE digits[n] \in Texts
    <2>1. digits[n] = Append(digits[n \div 10], n % 10)
        <3>1. ~(n < 10)
            BY <1>10
        <3> QED BY <1>8, <3>1, Zenon
    <2>2. n % 10 \in 0..9
        BY <1>1
    <2> QED BY <1>3, <1>10, <2>1, <2>2
<1> DEFINE S == {n \in Nat : \A m \in Nat : m <= n => digits[m] \in Texts}
<1>11. 0 \in S
    BY <1>9
<1>12. ASSUME NEW n \in Nat, n \in S PROVE n + 1 \in S
    <2> SUFFICES ASSUME NEW m \in Nat, m <= n + 1, m >= 10 PROVE digits[m] \in Texts
        BY <1>9
    <2>1. m \div 10 \in Nat /\ m \div 10 <= n
        BY <1>1
    <2>2. digits[m \div 10] \in Texts
        BY <1>12, <2>1
    <2> QED BY <1>10, <2>2
<1>13. Nat \subseteq S
    <2> HIDE DEF S
    <2> QED BY <1>11, <1>12, EveryNatural
<1>14. digits \in [Nat -> Texts]
    <2>1. \A n \in Nat : digits[n] \in Texts
        BY <1>13
    <2>2. digits = [n \in Nat |-> digits[n]]
        BY <1>7
    <2> QED BY <2>1, <2>2
<1> QED BY <1>8, <1>14

\* The digits of a number stand for it.
LEMMA DigitsValue ==
    ASSUME NEW n \in Nat
    PROVE  digits[n] \in Texts /\ value[digits[n]] = n
<1> DEFINE S == {k \in Nat : \A m \in Nat : m <= k => value[digits[m]] = m}
<1>1. ASSUME NEW m \in Nat, m < 10 PROVE value[digits[m]] = m
    <2>1. digits[m] = Append(<<>>, m) /\ m \in 0..9
        BY <1>1, DigitsDefined
    <2>2. value[Append(<<>>, m)] = 10 * 0 + m
        BY <2>1, ValueEmpty, ValueAppend
    <2> QED BY <2>1, <2>2
<1>2. 0 \in S
    BY <1>1
<1>3. ASSUME NEW k \in Nat, k \in S PROVE k + 1 \in S
    <2> SUFFICES ASSUME NEW m \in Nat, m <= k + 1, m >= 10 PROVE value[digits[m]] = m
        BY <1>1
    <2>1. m \div 10 \in Nat /\ m \div 10 <= k /\ m % 10 \in 0..9 /\ 10 * (m \div 10) + (m % 10) = m
        OBVIOUS
    <2>2. value[digits[m \div 10]] = m \div 10
        BY <1>3, <2>1
    <2>3. digits[m \div 10] \in Texts /\ digits[m] = Append(digits[m \div 10], m % 10)
        BY <2>1, DigitsDefined
    <2>4. value[digits[m]] = 10 * (m \div 10) + (m % 10)
        BY <2>1, <2>2, <2>3, ValueAppend
    <2> QED BY <2>1, <2>4
<1>4. n \in S
    <2> HIDE DEF S
    <2> QED BY <1>2, <1>3, EveryNatural
<1> QED BY <1>4, DigitsDefined
-----------------------------------------------------------------------------
\* A text cut n digits before its end.
LEMMA CutText ==
    ASSUME NEW S, NEW s \in Seq(S), NEW n \in Nat, n < Len(s)
    PROVE  /\ SubSeq(s, 1, Len(s) - n) \in Seq(S)
           /\ SubSeq(s, Len(s) - n + 1, Len(s)) \in Seq(S)
           /\ Len(SubSeq(s, Len(s) - n + 1, Len(s))) = n
           /\ SubSeq(s, 1, Len(s) - n) \o SubSeq(s, Len(s) - n + 1, Len(s)) = s
<1>1. SubSeq(s, 1, Len(s) - n) \in Seq(S)
    OBVIOUS
<1>2. SubSeq(s, Len(s) - n + 1, Len(s)) \in Seq(S) /\ Len(SubSeq(s, Len(s) - n + 1, Len(s))) = n
    OBVIOUS
<1>3. SubSeq(s, 1, Len(s) - n) \o SubSeq(s, Len(s) - n + 1, Len(s)) = SubSeq(s, 1, Len(s))
    <2>1. 1 \in 1..Len(s) + 1 /\ Len(s) - n \in 1 - 1..Len(s) /\ Len(s) \in Len(s) - n..Len(s)
        OBVIOUS
    <2> QED BY <2>1, ConcatAdjacentSubSeq
<1>4. SubSeq(s, 1, Len(s)) = s
    BY SubSeqFull
<1> QED BY <1>1, <1>2, <1>3, <1>4, Zenon

\* A fixed point string of d decimals stands for the number it was made of.
LEMMA FixedPointKeeps ==
    ASSUME NEW s \in Texts, NEW d \in Nat
    PROVE  LET p == WeiToFixedPoint(s, d) IN
           /\ p.whole \in Texts /\ p.frac \in Texts /\ Len(p.frac) = d
           /\ Amount(p) = value[s]
           /\ strip[p.whole \o p.frac] = strip[s]
<1> DEFINE p == WeiToFixedPoint(s, d)
<1>0. Len(s) \in Nat
    BY LenProperties DEF Texts
<1>1. CASE Len(s) <= d
    <2> DEFINE z == Zeros(d - Len(s))
    <2>1. p.whole = Zeros(1) /\ p.frac = z \o s
        BY <1>1 DEF WeiToFixedPoint, Zeros
    <2>2. z \in Texts /\ Len(z) = d - Len(s) /\ Zeros(1) \in Texts
        <3>1. d - Len(s) \in Nat /\ 1 \in Nat
            BY <1>0, <1>1
        <3> QED BY <3>1, ZerosGrow, Zenon
    <2>3. z \o s \in Texts /\ value[z \o s] = value[s] /\ strip[z \o s] = strip[s]
        BY <1>0, <1>1, LeadingZeros, StripsZeros
    <2>4. Len(z \o s) = d
        <3> HIDE DEF z
        <3>1. Len(z \o s) = Len(z) + Len(s)
            BY <2>2, ConcatProperties DEF Texts
        <3> QED BY <1>0, <2>2, <3>1
    <2>5. value[Zeros(1) \o (z \o s)] = value[z \o s] /\ strip[Zeros(1) \o (z \o s)] = strip[z \o s]
        BY <2>3, LeadingZeros, StripsZeros
    <2> HIDE DEF z, p
    <2>6. Amount(p) = value[s] /\ strip[p.whole \o p.frac] = strip[s]
        BY <2>1, <2>3, <2>5, Zenon DEF Amount
    <2>7. p.whole \in Texts /\ p.frac \in Texts /\ Len(p.frac) = d
        BY <2>1, <2>2, <2>3, <2>4, Zenon
    <2> QED BY <2>6, <2>7 DEF p
<1>2. CASE ~(Len(s) <= d)
    <2>1. p.whole = SubSeq(s, 1, Len(s) - d) /\ p.frac = SubSeq(s, Len(s) - d + 1, Len(s))
        BY <1>2 DEF WeiToFixedPoint
    <2>2. d < Len(s)
        BY <1>0, <1>2
    <2>3. /\ SubSeq(s, 1, Len(s) - d) \in Texts /\ SubSeq(s, Len(s) - d + 1, Len(s)) \in Texts
          /\ Len(SubSeq(s, Len(s) - d + 1, Len(s))) = d
          /\ SubSeq(s, 1, Len(s) - d) \o SubSeq(s, Len(s) - d + 1, Len(s)) = s
        BY <2>2, CutText DEF Texts
    <2> HIDE DEF p
    <2>4. p.whole \o p.frac = s
        BY <2>1, <2>3, Zenon
    <2>5. Amount(p) = value[s] /\ strip[p.whole \o p.frac] = strip[s]
        BY <2>4, Zenon DEF Amount
    <2>6. p.whole \in Texts /\ p.frac \in Texts /\ Len(p.frac) = d
        BY <2>1, <2>3, Zenon
    <2> QED BY <2>5, <2>6 DEF p
<1> QED BY <1>1, <1>2

\* Back in wei it is that number times the decimals it lacks; with too many of them, 0.
LEMMA WeiOfFixedPoint ==
    ASSUME NEW p, p.whole \in Texts, p.frac \in Texts, NEW d \in Nat
    PROVE  /\ Amount(p) \in Nat
           /\ value[FixedPointToWei(p, d)] =
                 IF Len(p.frac) > d THEN 0 ELSE Amount(p) * tenTo[d - Len(p.frac)]
<1> DEFINE t == p.whole \o p.frac
<1>1. t \in Texts /\ Len(p.frac) \in Nat
    BY ConcatProperties, LenProperties DEF Texts
<1>2. Amount(p) = value[t] /\ Amount(p) \in Nat
    BY <1>1, ValueDefined DEF Amount
<1>3. CASE Len(p.frac) > d
    <2>1. FixedPointToWei(p, d) = <<>>
        BY <1>3 DEF FixedPointToWei, Invalid
    <2>2. value[FixedPointToWei(p, d)] = 0
        BY <2>1, ValueEmpty
    <2> QED BY <1>2, <1>3, <2>2
<1>4. CASE ~(Len(p.frac) > d)
    <2> DEFINE n == d - Len(p.frac)
               u == t \o Zeros(n)
    <2>1. n \in Nat
        BY <1>1, <1>4
    <2>2. Zeros(n) \in Texts
        BY <2>1, ZerosGrow
    <2>3. FixedPointToWei(p, d) = strip[p.whole \o p.frac \o Zeros(n)]
        BY <1>4 DEF FixedPointToWei
    <2>4. p.whole \o p.frac \o Zeros(n) = u
        OBVIOUS
    <2>5. u \in Texts /\ value[u] = value[t] * tenTo[n]
        BY <1>1, <2>1, TrailingZeros
    <2> HIDE DEF t, u, n
    <2>6. value[FixedPointToWei(p, d)] = value[u]
        BY <2>3, <2>4, <2>5, StripKeepsValue
    <2>7. value[FixedPointToWei(p, d)] = Amount(p) * tenTo[n]
        BY <1>2, <2>5, <2>6, Zenon
    <2> QED BY <1>2, <1>4, <2>7 DEF n
<1> QED BY <1>3, <1>4

\* To fixed point and back, only leading zeros go.
LEMMA ThereAndBack ==
    ASSUME NEW s \in Texts, NEW d \in Nat
    PROVE  /\ FixedPointToWei(WeiToFixedPoint(s, d), d) = strip[s]
           /\ value[FixedPointToWei(WeiToFixedPoint(s, d), d)] = value[s]
<1> DEFINE p == WeiToFixedPoint(s, d)
<1>1. /\ p.whole \in Texts /\ p.frac \in Texts /\ Len(p.frac) = d
      /\ strip[p.whole \o p.frac] = strip[s]
    BY FixedPointKeeps
<1>2. Zeros(0) = <<>>
    BY ZerosGrow, TextParts
<1> HIDE DEF p
<1>3. FixedPointToWei(p, d) = strip[p.whole \o p.frac \o Zeros(0)]
    BY <1>1 DEF FixedPointToWei
<1>4. p.whole \o p.frac \o Zeros(0) = p.whole \o p.frac
    <2>1. p.whole \o p.frac \in Seq(0..9)
        BY <1>1, ConcatProperties DEF Texts
    <2> QED BY <1>2, <2>1, ConcatEmptySeq
<1>5. FixedPointToWei(p, d) = strip[s]
    BY <1>1, <1>3, <1>4, Zenon
<1>6. value[strip[s]] = value[s]
    BY StripKeepsValue
<1>7. value[FixedPointToWei(p, d)] = value[s]
    BY <1>5, <1>6, Zenon
<1> QED BY <1>5, <1>7 DEF p

\* A number on screen is read back as itself.
LEMMA ShownAmount ==
    ASSUME NEW n \in Nat, NEW d \in Nat
    PROVE  value[FixedPointToWei(Shown(n, d), d)] = n /\ Amount(Shown(n, d)) = n
<1>1. digits[n] \in Texts /\ value[digits[n]] = n
    BY DigitsValue
<1>2. Amount(WeiToFixedPoint(digits[n], d)) = value[digits[n]]
    BY <1>1, FixedPointKeeps
<1>3. value[FixedPointToWei(WeiToFixedPoint(digits[n], d), d)] = value[digits[n]]
    BY <1>1, ThereAndBack
<1> QED BY <1>1, <1>2, <1>3, Zenon DEF Shown
-----------------------------------------------------------------------------
\* Amounts: wrapping around.

\* The range of a number is not empty, and U takes every number into it.
LEMMA NumbersFit ==
    /\ 2 ^ Width \in Nat \ {0}
    /\ \A n \in Nat : U(n) \in 0..2 ^ Width - 1 /\ U(n) <= n /\ (n < 2 ^ Width => U(n) = n)
    /\ Number \subseteq Nat /\ \A n \in Number : n < 2 ^ Width
<1>1. 2 ^ Width \in Nat
    <2>1. Width \in Nat
        BY AmountsAssumption
    <2>2. IsFiniteSet(1..Width) /\ Cardinality(1..Width) = Width
        BY <2>1, FS_Interval
    <2>3. Cardinality(SUBSET (1..Width)) = 2 ^ Cardinality(1..Width) /\ IsFiniteSet(SUBSET (1..Width))
        BY <2>2, FS_SUBSET
    <2>4. Cardinality(SUBSET (1..Width)) \in Nat
        BY <2>3, FS_CardinalityType
    <2> QED BY <2>2, <2>3, <2>4
<1> DEFINE M == 2 ^ Width
<1>2. M # 0
    <2>1. Width \in Nat
        BY AmountsAssumption
    <2>2. IsFiniteSet(1..Width) /\ Cardinality(1..Width) = Width
        BY <2>1, FS_Interval
    <2>3. Cardinality(SUBSET (1..Width)) = 2 ^ Cardinality(1..Width) /\ IsFiniteSet(SUBSET (1..Width))
        BY <2>2, FS_SUBSET
    <2>4. SUBSET (1..Width) # {}
        OBVIOUS
    <2>5. Cardinality(SUBSET (1..Width)) # 0
        BY <2>3, <2>4, FS_EmptySet
    <2> QED BY <2>2, <2>3, <2>5
<1>3. Number \subseteq 0..M - 1
    BY AmountsAssumption
<1>4. \A n : U(n) = n % M
    BY DEF U
<1> HIDE DEF M
<1>5. M \in Nat \ {0}
    BY <1>1, <1>2 DEF M
<1>6. ASSUME NEW n \in Nat PROVE n % M \in 0..M - 1 /\ n % M <= n /\ (n < M => n % M = n)
    BY <1>5
<1>7. Number \subseteq Nat /\ \A n \in Number : n < M
    BY <1>3, <1>5
<1> QED BY <1>4, <1>5, <1>6, <1>7 DEF M

\* A product that wraps around is smaller by at least the range, so it does not divide
\* back to its factor.
LEMMA WrapsExactly ==
    ASSUME NEW x \in Nat, NEW y \in Nat \ {0}, NEW z, z = x * y
    PROVE  /\ Wraps(U(z), y, x) <=> z >= 2 ^ Width
           /\ ~Wraps(U(z), y, x) => U(z) = z
<1> DEFINE M == 2 ^ Width
           r == U(z)
<1>1. z \in Nat /\ z \div y = x
    OBVIOUS
<1>2. M \in Nat /\ r \in 0..M - 1 /\ (z < M => r = z)
    BY <1>1, NumbersFit
<1>3. ASSUME z >= M PROVE r \div y # x
    <2> HIDE DEF r, M
    <2>1. r < z /\ r \in Nat
        BY <1>1, <1>2, <1>3
    <2>2. ASSUME r \div y = x PROVE FALSE
        <3>1. r >= y * (r \div y)
            BY <2>1
        <3>2. r >= y * x
            BY <2>2, <3>1
        <3> QED BY <2>1, <3>2
    <2> QED BY <2>2
<1> HIDE DEF r
<1> QED BY <1>1, <1>2, <1>3 DEF Wraps, r

LEMMA ProductGrows ==
    ASSUME NEW x \in Nat, NEW y \in Nat \ {0}
    PROVE  x <= x * y /\ x * y \in Nat
OBVIOUS

LEMMA QuotientOf ==
    ASSUME NEW x \in Nat, NEW y \in Nat \ {0}
    PROVE  x \div y \in Nat
OBVIOUS

\* calcExchangeAmountOut divides by the second reserve and by the last sum.
LEMMA ExchangeThrows ==
    ASSUME NEW a \in Number, NEW b \in Number, NEW c \in Number
    PROVE  /\ Wraps(U(a * 997), 997, a) <=> a * 997 >= 2 ^ Width
           /\ ExchangeDividesByZero(a, b, c) <=>
                 a * 997 < 2 ^ Width /\ (c = 0 \/ (a = 0 /\ b = 0))
<1> DEFINE x == a * 997
           k == 997
<1>1. a \in Nat /\ x \in Nat /\ 2 ^ Width \in Nat /\ k \in Nat \ {0} /\ x = a * k
    BY NumbersFit
<1> HIDE DEF x, k
<1>2. Wraps(U(x), k, a) <=> x >= 2 ^ Width
    BY <1>1, WrapsExactly
<1>3. ~(x >= 2 ^ Width) <=> x < 2 ^ Width
    BY <1>1
<1> QED BY <1>2, <1>3 DEF ExchangeDividesByZero, x, k

\* calcExchangeAmountOut: every product that wraps around is noticed.
LEMMA Exchanged ==
    ASSUME NEW a \in Number, NEW b \in Number, NEW c \in Number, c # 0, a # 0 \/ b # 0
    PROVE  /\ CalcExchangeAmountOut(a, b, c) \in Texts
           /\ value[CalcExchangeAmountOut(a, b, c)] =
                IF a * 997 * c < 2 ^ Width /\ b * 1000 + a * 997 < 2 ^ Width
                THEN (a * 997 * c) \div (b * 1000 + a * 997) ELSE 0
<1> DEFINE M == 2 ^ Width
           x == a * 997
           y == b * 1000
           w == U(x)
           n == U(w * c)
           e == U(y)
           s == U(e + w)
           ok == a * 997 * c < M /\ b * 1000 + a * 997 < M
<1>1. a \in Nat /\ b \in Nat /\ c \in Nat \ {0} /\ M \in Nat \ {0} /\ a < M
    BY NumbersFit
<1>2. x \in Nat /\ y \in Nat /\ x + y # 0 /\ x * c \in Nat /\ x <= x * c
    <2>1. x \in Nat /\ y \in Nat /\ x + y # 0
        BY <1>1
    <2> HIDE DEF x, y
    <2> QED BY <1>1, <2>1, ProductGrows
<1>3. w \in Nat /\ (Wraps(w, 997, a) <=> x >= M) /\ (~Wraps(w, 997, a) => w = x)
    <2>1. w \in Nat
        BY <1>2, NumbersFit
    <2> DEFINE k == 997
    <2>2. k \in Nat \ {0} /\ x = a * k
        OBVIOUS
    <2> HIDE DEF x, k
    <2>3. (Wraps(U(x), k, a) <=> x >= M) /\ (~Wraps(U(x), k, a) => U(x) = x)
        BY <1>1, <2>2, WrapsExactly
    <2> QED BY <2>1, <2>3 DEF k
<1>4. e \in 0..M - 1 /\ (Wraps(e, 1000, b) <=> y >= M) /\ (~Wraps(e, 1000, b) => e = y)
    <2>1. e \in 0..M - 1
        BY <1>2, NumbersFit
    <2> DEFINE k == 1000
    <2>2. k \in Nat \ {0} /\ y = b * k
        OBVIOUS
    <2> HIDE DEF y, k
    <2>3. (Wraps(U(y), k, b) <=> y >= M) /\ (~Wraps(U(y), k, b) => U(y) = y)
        BY <1>1, <2>2, WrapsExactly
    <2> QED BY <2>1, <2>3 DEF k
<1>5. n \in Nat /\ (Wraps(n, c, w) <=> w * c >= M) /\ (~Wraps(n, c, w) => n = w * c)
    <2> HIDE DEF w
    <2> DEFINE z == w * c
    <2>1. z \in Nat /\ z = w * c
        BY <1>1, <1>3
    <2> HIDE DEF z
    <2>2. U(z) \in Nat /\ (Wraps(U(z), c, w) <=> z >= M) /\ (~Wraps(U(z), c, w) => U(z) = z)
        BY <1>1, <1>3, <2>1, NumbersFit, WrapsExactly
    <2> QED BY <2>2 DEF z
<1> DEFINE bad == Wraps(w, 997, a) \/ Wraps(n, c, w) \/ Wraps(e, 1000, b) \/ s < e
<1>6. CalcExchangeAmountOut(a, b, c) = IF bad THEN Invalid ELSE digits[n \div s]
    BY DEF CalcExchangeAmountOut
<1>7. s \in 0..M - 1 /\ (e + w < M => s = e + w)
    <2> HIDE DEF e, w
    <2>1. e + w \in Nat
        BY <1>1, <1>3, <1>4
    <2> QED BY <2>1, NumbersFit
<1> HIDE DEF w, n, e, s, x, y, M
<1>8. ok <=> x * c < M /\ y + x < M
    BY DEF ok, x, y
<1> HIDE DEF ok
<1>9. CASE ~bad
    <2>1. w = x /\ n = x * c /\ e = y /\ x < M /\ x * c < M /\ y < M
        BY <1>1, <1>2, <1>3, <1>4, <1>5, <1>9
    <2>2. y + x < M
        <3> SUFFICES ASSUME ~(y + x < M) PROVE FALSE
            OBVIOUS
        <3>1. s = (y + x) % M
            BY <2>1 DEF s, U, M
        <3>2. (y + x) % M = y + x - M
            BY <1>1, <1>2, <2>1
        <3>3. s < e
            BY <1>1, <1>2, <2>1, <3>1, <3>2
        <3> QED BY <1>9, <3>3
    <2>3. ok /\ s = y + x
        BY <1>7, <1>8, <2>1, <2>2
    <2>4. y + x \in Nat \ {0}
        BY <1>2
    <2>5. (x * c) \div (y + x) \in Nat
        BY <1>2, <2>4, QuotientOf
    <2>6. CalcExchangeAmountOut(a, b, c) = digits[(x * c) \div (y + x)]
        BY <1>6, <1>9, <2>1, <2>3, Zenon
    <2>7. /\ CalcExchangeAmountOut(a, b, c) \in Texts
          /\ value[CalcExchangeAmountOut(a, b, c)] = (x * c) \div (y + x)
        BY <2>5, <2>6, DigitsValue
    <2> QED BY <2>3, <2>7 DEF ok, x, y, M
<1>10. CASE bad
    <2>1. CalcExchangeAmountOut(a, b, c) = <<>>
        BY <1>6, <1>10 DEF Invalid
    <2>2. CalcExchangeAmountOut(a, b, c) \in Texts /\ value[CalcExchangeAmountOut(a, b, c)] = 0
        BY <2>1, ValueEmpty
    <2>3. ~ok
        <3> SUFFICES ASSUME x * c < M, y + x < M PROVE FALSE
            BY <1>8
        <3>1. x < M /\ y < M
            BY <1>1, <1>2
        <3>2. w = x /\ e = y /\ ~Wraps(w, 997, a) /\ ~Wraps(e, 1000, b)
            BY <1>1, <1>2, <1>3, <1>4, <3>1
        <3>3. ~Wraps(n, c, w)
            BY <1>1, <1>2, <1>5, <3>2
        <3>4. s = y + x /\ ~(s < e)
            BY <1>2, <1>7, <3>2
        <3> QED BY <1>10, <3>2, <3>3, <3>4
    <2> QED BY <2>2, <2>3 DEF ok, M
<1> QED BY <1>9, <1>10

\* With nothing to get, only what overflows is answered.
LEMMA ExchangedFully ==
    ASSUME NEW a \in Number, NEW b \in Number, NEW c \in Number, ~ExchangeDividesByZero(a, b, c)
    PROVE  /\ CalcExchangeAmountOut(a, b, c) \in Texts
           /\ value[CalcExchangeAmountOut(a, b, c)] =
                IF a * 997 * c < 2 ^ Width /\ b * 1000 + a * 997 < 2 ^ Width
                THEN (a * 997 * c) \div (b * 1000 + a * 997) ELSE 0
<1>1. a \in Nat /\ b \in Nat /\ c \in Nat /\ 2 ^ Width \in Nat \ {0}
    BY NumbersFit
<1>2. CASE a * 997 >= 2 ^ Width
    <2>1. CalcExchangeAmountOut(a, b, c) = <<>>
        <3>1. Wraps(U(a * 997), 997, a)
            BY <1>2, ExchangeThrows
        <3> HIDE DEF Wraps, U
        <3> QED BY <3>1 DEF CalcExchangeAmountOut, Invalid
    <2>2. ~(b * 1000 + a * 997 < 2 ^ Width)
        BY <1>1, <1>2
    <2> QED BY <2>1, <2>2, ValueEmpty
<1>3. CASE ~(a * 997 >= 2 ^ Width)
    <2>1. c # 0 /\ (a # 0 \/ b # 0)
        BY <1>1, <1>3, ExchangeThrows
    <2> QED BY <2>1, Exchanged
<1> QED BY <1>2, <1>3

\* The pool tests only that both factors come back out of the product.
LEMMA DividesBack ==
    ASSUME NEW x \in Nat, NEW c \in Nat \ {0}
    PROVE  LET n == U(U(x * 1000) * c) IN
           /\ (n \div c) \div 1000 = x <=> x * 1000 * c < 2 ^ Width
           /\ x * 1000 * c < 2 ^ Width => n = x * 1000 * c
<1> DEFINE M == 2 ^ Width
           y == x * 1000
           w == U(y)
           n == U(w * c)
<1>1. y \in Nat /\ y * c \in Nat /\ y <= y * c
    <2>1. y \in Nat
        OBVIOUS
    <2> HIDE DEF y
    <2> QED BY <2>1, ProductGrows
<1>2. w \in Nat /\ w <= y /\ (y < M => w = y)
    BY <1>1, NumbersFit
<1> HIDE DEF w
<1>3. w * c \in Nat
    BY <1>2
<1>4. n \in 0..M - 1 /\ n <= w * c /\ (w * c < M => n = w * c) /\ M \in Nat
    BY <1>3, NumbersFit
<1> HIDE DEF n, M
<1>5. ASSUME y * c < M PROVE n = y * c /\ (n \div c) \div 1000 = x
    <2>1. n = y * c
        BY <1>1, <1>2, <1>4, <1>5
    <2>2. (y * c) \div c = y
        <3> HIDE DEF y
        <3> QED BY <1>1
    <2>3. y \div 1000 = x
        OBVIOUS
    <2> QED BY <2>1, <2>2, <2>3
<1>6. ASSUME (n \div c) \div 1000 = x PROVE y * c < M
    <2> DEFINE q == n \div c
    <2>1. q \in Nat /\ q * c <= n
        BY <1>4
    <2> HIDE DEF q
    <2>2. q >= x * 1000
        BY <1>6, <2>1 DEF q
    <2>3. q >= y
        BY <2>2
    <2> HIDE DEF y
    <2>4. y * c <= q * c
        BY <1>1, <2>1, <2>3
    <2> QED BY <1>1, <1>4, <2>1, <2>4
<1> QED BY <1>5, <1>6 DEF y, n, w, M

\* calcLiquidityAmountOut divides by the second reserve and by the first.
LEMMA LiquidityThrows ==
    ASSUME NEW a \in Number, NEW b \in Number, NEW c \in Number
    PROVE  LiquidityDividesByZero(a, b, c) <=> c = 0 \/ (b = 0 /\ a * 1000 * c < 2 ^ Width)
<1>1. a \in Nat /\ b \in Nat /\ c \in Nat
    BY NumbersFit
<1>2. ASSUME c # 0
      PROVE  (U(U(a * 1000) * c) \div c) \div 1000 = a <=> a * 1000 * c < 2 ^ Width
    BY <1>1, <1>2, DividesBack
<1> DEFINE n == U(U(a * 1000) * c)
<1>3. LiquidityDividesByZero(a, b, c) <=> c = 0 \/ (b = 0 /\ (n \div c) \div 1000 = a)
    BY Zenon DEF LiquidityDividesByZero
<1> HIDE DEF n
<1>4. c # 0 => ((n \div c) \div 1000 = a <=> a * 1000 * c < 2 ^ Width)
    BY <1>2 DEF n
<1> DEFINE back == (n \div c) \div 1000 = a
           fits == a * 1000 * c < 2 ^ Width
<1>5. LiquidityDividesByZero(a, b, c) <=> c = 0 \/ (b = 0 /\ back)
    BY <1>3
<1>6. c # 0 => (back <=> fits)
    BY <1>4
<1> HIDE DEF back, fits
<1>7. LiquidityDividesByZero(a, b, c) <=> c = 0 \/ (b = 0 /\ fits)
    BY <1>5, <1>6
<1> QED BY <1>7 DEF fits

LEMMA CancelThousand ==
    ASSUME NEW a \in Nat, NEW b \in Nat \ {0}, NEW c \in Nat
    PROVE  (a * 1000 * c) \div (b * 1000) = (a * c) \div b
<1> DEFINE z == a * c
           q == z \div b
<1>1. z \in Nat /\ a * 1000 * c = 1000 * z
    OBVIOUS
<1> HIDE DEF z
<1>2. q \in Nat /\ z % b \in 0..b - 1 /\ z = b * q + (z % b)
    BY <1>1
<1> DEFINE r == z % b
<1> HIDE DEF q, r
<1>3. 1000 * z = (b * 1000) * q + 1000 * r /\ 1000 * r < b * 1000 /\ 1000 * r \in Nat
    BY <1>1, <1>2 DEF r
<1>4. (1000 * z) \div (b * 1000) = q
    BY <1>1, <1>2, <1>3
<1> QED BY <1>1, <1>4 DEF q, z

\* calcLiquidityAmountOut: one test for two products.
LEMMA Pooled ==
    ASSUME NEW a \in Number, NEW b \in Number, NEW c \in Number, ~LiquidityDividesByZero(a, b, c)
    PROVE  /\ CalcLiquidityAmountOut(a, b, c) \in Texts
           /\ value[CalcLiquidityAmountOut(a, b, c)] =
                IF a * 1000 * c < 2 ^ Width /\ b * 1000 < 2 ^ Width THEN (a * c) \div b ELSE 0
<1> DEFINE n == U(U(a * 1000) * c)
           e == U(b * 1000)
           ok == a * 1000 * c < 2 ^ Width /\ b * 1000 < 2 ^ Width
<1>1. a \in Nat /\ b \in Nat /\ c \in Nat \ {0}
    BY NumbersFit DEF LiquidityDividesByZero
<1>2. /\ (n \div c) \div 1000 = a <=> a * 1000 * c < 2 ^ Width
      /\ a * 1000 * c < 2 ^ Width => n = a * 1000 * c
    BY <1>1, DividesBack
<1>3. /\ Wraps(e, 1000, b) <=> b * 1000 >= 2 ^ Width
      /\ ~Wraps(e, 1000, b) => e = b * 1000
    <2> DEFINE y == b * 1000
    <2> DEFINE k == 1000
    <2>1. y = b * k /\ k \in Nat \ {0}
        OBVIOUS
    <2> HIDE DEF y, k
    <2>2. /\ Wraps(U(y), k, b) <=> y >= 2 ^ Width
          /\ ~Wraps(U(y), k, b) => U(y) = y
        BY <1>1, <2>1, WrapsExactly
    <2> QED BY <2>2 DEF y, k
<1>4. CalcLiquidityAmountOut(a, b, c) =
         IF (n \div c) \div 1000 # a \/ Wraps(e, 1000, b) THEN Invalid ELSE digits[n \div e]
    BY DEF CalcLiquidityAmountOut
<1> HIDE DEF n, e
<1>5. CASE ok
    <2>1. b * 1000 \in Nat /\ 2 ^ Width \in Nat
        BY <1>1, NumbersFit
    <2>2. ~(b * 1000 >= 2 ^ Width)
        BY <1>5, <2>1
    <2>3. CalcLiquidityAmountOut(a, b, c) = digits[(a * 1000 * c) \div (b * 1000)]
        BY <1>2, <1>3, <1>4, <1>5, <2>2
    <2>0. b \in Nat \ {0}
        BY <1>1, <1>5, LiquidityThrows
    <2>4. (a * 1000 * c) \div (b * 1000) = (a * c) \div b
        BY <1>1, <2>0, CancelThousand
    <2>5. (a * c) \div b \in Nat
        <3>1. a * c \in Nat
            BY <1>1
        <3> QED BY <2>0, <3>1, QuotientOf
    <2>6. /\ CalcLiquidityAmountOut(a, b, c) \in Texts
          /\ value[CalcLiquidityAmountOut(a, b, c)] = (a * c) \div b
        BY <2>3, <2>4, <2>5, DigitsValue
    <2> QED BY <1>5, <2>6
<1>6. CASE ~ok
    <2>1. b * 1000 \in Nat /\ 2 ^ Width \in Nat
        BY <1>1, NumbersFit
    <2>2. b * 1000 < 2 ^ Width \/ b * 1000 >= 2 ^ Width
        BY <2>1
    <2>3. CalcLiquidityAmountOut(a, b, c) = <<>>
        BY <1>2, <1>3, <1>4, <1>6, <2>2 DEF Invalid
    <2>4. CalcLiquidityAmountOut(a, b, c) \in Texts /\ value[CalcLiquidityAmountOut(a, b, c)] = 0
        BY <2>3, ValueEmpty
    <2> QED BY <1>6, <2>4
<1> QED BY <1>5, <1>6
-----------------------------------------------------------------------------
\* Amounts: each computation, and all of them.

\* Inputs are texts, and decimals are numbers.
LEMMA TypedTexts ==
    /\ Decimals \subseteq Nat /\ GasDecimals \in Nat
    /\ Text \subseteq Texts /\ Wei \subseteq Texts
    /\ \A h \in Wei : strip[h] = h
    /\ \A t \in Typed : t.whole \in Texts /\ t.frac \in Texts
<1>1. ASSUME NEW k \in 0..MaxDigits, NEW s \in [1..k -> Digit] PROVE s \in Seq(0..9)
    <2>1. Digit \subseteq 0..9 /\ k \in Nat
        BY AmountsAssumption
    <2>2. s \in [1..k -> 0..9]
        BY <2>1
    <2> QED BY <2>1, <2>2, SeqDef
<1>2. Text \subseteq Texts
    BY <1>1 DEF Text, Texts
<1>3. \A t \in Typed : t.whole \in Text /\ t.frac \in Text
    BY DEF Typed
<1>4. Wei \subseteq Text /\ \A h \in Wei : strip[h] = h
    BY DEF Wei
<1> QED BY <1>2, <1>3, <1>4, AmountsAssumption

\* fixedPointToWei after weiToFixedPoint, of what is typed, and compared.
LEMMA Converted ==
    ASSUME NEW h \in Wei, NEW t \in Typed, NEW d \in Decimals
    PROVE  /\ FixedPointToWei(WeiToFixedPoint(h, d), d) = h
           /\ Len(t.frac) > d =>
                 /\ FixedPointToWei(t, d) = Invalid
                 /\ ~HasInsufficientFunds(WeiToFixedPoint(h, d), t, d)
           /\ ~(Len(t.frac) > d) =>
                 /\ value[FixedPointToWei(t, d)] = Amount(t) * tenTo[d - Len(t.frac)]
                 /\ HasInsufficientFunds(WeiToFixedPoint(h, d), t, d) <=>
                       Amount(t) * tenTo[d - Len(t.frac)] > value[h]
<1>1. h \in Texts /\ strip[h] = h /\ d \in Nat /\ t.whole \in Texts /\ t.frac \in Texts
    BY TypedTexts
<1>2. /\ FixedPointToWei(WeiToFixedPoint(h, d), d) = h
      /\ value[FixedPointToWei(WeiToFixedPoint(h, d), d)] = value[h] /\ value[h] \in Nat
    BY <1>1, ThereAndBack, ValueDefined
<1>3. value[FixedPointToWei(t, d)] = IF Len(t.frac) > d THEN 0 ELSE Amount(t) * tenTo[d - Len(t.frac)]
    BY <1>1, WeiOfFixedPoint
<1>4. HasInsufficientFunds(WeiToFixedPoint(h, d), t, d) <=> value[FixedPointToWei(t, d)] > value[h]
    BY <1>2 DEF HasInsufficientFunds
<1>5. Len(t.frac) > d => FixedPointToWei(t, d) = Invalid
    BY DEF FixedPointToWei
<1>6. ~(0 > value[h])
    BY <1>2
<1> HIDE DEF Invalid
<1> QED BY <1>2, <1>3, <1>4, <1>5, <1>6, Zenon

\* getRealMaxAVAXAmount, and what calculateTransactionCost makes of it.
LEMMA SentExactly ==
    ASSUME NEW a \in Number, NEW b \in Number, NEW c \in Number, NEW d \in Decimals,
           b * c < 2 ^ Width
    PROVE  LET price == Shown(c, GasDecimals)
               largest == GetRealMaxAVAXAmount(Shown(a, d), b, price, d) IN
           /\ Amount(largest) = IF b * c > a THEN 0 ELSE a - b * c
           /\ b * c <= a => Amount(CalculateTransactionCost(largest, b, price, d)) = a
<1> DEFINE price == Shown(c, GasDecimals)
           largest == GetRealMaxAVAXAmount(Shown(a, d), b, price, d)
           fee == b * c
           n == IF fee > a THEN 0 ELSE a - fee
<1>1. /\ a \in Nat /\ b \in Nat /\ c \in Nat /\ d \in Nat /\ GasDecimals \in Nat
      /\ fee \in Nat /\ a < 2 ^ Width
    BY NumbersFit, TypedTexts
<1>2. Fee(b, price) = fee
    <2>1. value[FixedPointToWei(price, GasDecimals)] = c
        BY <1>1, ShownAmount
    <2>2. U(fee) = fee
        BY <1>1, NumbersFit
    <2> QED BY <2>1, <2>2 DEF Fee
<1>3. value[FixedPointToWei(Shown(a, d), d)] = a
    BY <1>1, ShownAmount
<1>4. n \in Nat /\ (fee <= a => n + fee = a)
    BY <1>1
<1> HIDE DEF price, fee
<1>5. largest = Shown(n, d)
    BY <1>2, <1>3 DEF GetRealMaxAVAXAmount, Shown
<1> HIDE DEF n, largest
<1>6. Amount(largest) = n /\ value[FixedPointToWei(largest, d)] = n
    BY <1>1, <1>4, <1>5, ShownAmount
<1>7. ASSUME fee <= a PROVE Amount(CalculateTransactionCost(largest, b, price, d)) = a
    <2>1. U(n + fee) = a
        BY <1>1, <1>4, <1>7, NumbersFit
    <2>2. CalculateTransactionCost(largest, b, price, d) = Shown(a, d)
        BY <1>2, <1>6, <2>1 DEF CalculateTransactionCost, Shown
    <2> QED BY <1>1, <2>2, ShownAmount
<1> QED BY <1>6, <1>7 DEF n, fee, largest, price

\* Every call of the screens.
LEMMA ComputeExact ==
    ASSUME input \in Input, Compute
    PROVE  input' = input /\ AmountsExact'
<1> DEFINE i == input
           d == input.d
           Converts == [fn : {"convert"}, held : Wei, typed : Typed, d : Decimals]
           Exchanges == [fn : {"exchange"}, a : Number, b : Number, c : Number, d : Decimals, e : Decimals]
           Computes == [fn : {"liquidity", "send"}, a : Number, b : Number, c : Number, d : Decimals]
<1>1. input' = input /\ output = NotYet
    BY DEF Compute
<1>2. input \in Converts \/ input \in Exchanges \/ input \in Computes
    BY DEF Input
<1> HIDE DEF Converts, Exchanges, Computes
<1>3. CASE /\ i.fn = "convert"
           /\ output' = <<FixedPointToWei(WeiToFixedPoint(i.held, d), d),
                          FixedPointToWei(i.typed, d),
                          HasInsufficientFunds(WeiToFixedPoint(i.held, d), i.typed, d)>>
    <2>1. i.held \in Wei /\ i.typed \in Typed /\ d \in Decimals
        BY <1>2, <1>3 DEF Converts, Exchanges, Computes
    <2> HIDE DEF Invalid
    <2> DEFINE x == FixedPointToWei(WeiToFixedPoint(i.held, d), d)
               y == FixedPointToWei(i.typed, d)
               z == HasInsufficientFunds(WeiToFixedPoint(i.held, d), i.typed, d)
               m == Amount(i.typed) * tenTo[d - Len(i.typed.frac)]
    <2>2. output'[1] = x /\ output'[2] = y /\ output'[3] = z
        BY <1>3
    <2>3. /\ x = i.held
          /\ IF Len(i.typed.frac) > d THEN y = Invalid /\ ~z
             ELSE value[y] = m /\ (z <=> m > value[i.held])
        BY <2>1, Converted
    <2> HIDE DEF x, y, z
    <2>4. /\ output'[1] = i.held
          /\ IF Len(i.typed.frac) > d THEN output'[2] = Invalid /\ ~output'[3]
             ELSE value[output'[2]] = m /\ (output'[3] <=> m > value[i.held])
        BY <2>2, <2>3, Zenon
    <2> QED BY <1>1, <1>3, <2>4 DEF AmountsExact, Exact
<1>4. CASE /\ i.fn = "exchange"
           /\ output' = CalculateExchangeAmount(Shown(i.a, d), i.b, i.c, d, i.e)
    <2>1. /\ i.a \in Number /\ i.b \in Number /\ i.c \in Number /\ d \in Nat /\ i.e \in Nat
          /\ i.a \in Nat
        BY <1>2, <1>4, TypedTexts, NumbersFit DEF Converts, Exchanges, Computes
    <2> DEFINE x == CalcExchangeAmountOut(i.a, i.b, i.c)
               throws == i.a * 997 < 2 ^ Width /\ (i.c = 0 \/ (i.a = 0 /\ i.b = 0))
               exactly == IF i.a * 997 * i.c < 2 ^ Width /\ i.b * 1000 + i.a * 997 < 2 ^ Width
                          THEN (i.a * 997 * i.c) \div (i.b * 1000 + i.a * 997) ELSE 0
    <2>2. output' = IF ExchangeDividesByZero(i.a, i.b, i.c) THEN Thrown
                    ELSE <<WeiToFixedPoint(x, i.e)>>
        <3>1. value[FixedPointToWei(Shown(i.a, d), d)] = i.a
            BY <2>1, ShownAmount
        <3> QED BY <1>4, <3>1, Zenon DEF CalculateExchangeAmount
    <2>3. ExchangeDividesByZero(i.a, i.b, i.c) <=> throws
        BY <2>1, ExchangeThrows
    <2>4. ASSUME ~throws PROVE x \in Texts /\ value[x] = exactly
        BY <2>1, <2>3, <2>4, ExchangedFully
    <2> HIDE DEF x, exactly, throws
    <2>5. ASSUME ~throws PROVE Len(output'[1].frac) = i.e /\ Amount(output'[1]) = exactly
        <3>1. output'[1] = WeiToFixedPoint(x, i.e)
            BY <2>2, <2>3, <2>5
        <3>2. x \in Texts /\ value[x] = exactly
            BY <2>4, <2>5
        <3>3. /\ Amount(WeiToFixedPoint(x, i.e)) = value[x]
              /\ Len(WeiToFixedPoint(x, i.e).frac) = i.e
            BY <2>1, <3>2, FixedPointKeeps
        <3> QED BY <3>1, <3>2, <3>3, Zenon
    <2>6. IF throws THEN output' = Thrown
          ELSE Len(output'[1].frac) = i.e /\ Amount(output'[1]) = exactly
        BY <2>2, <2>3, <2>5, Zenon
    <2> QED BY <1>1, <1>4, <2>6 DEF AmountsExact, Exact, throws, exactly
<1>5. CASE /\ i.fn = "liquidity"
           /\ output' = CalculateAddLiquidityAmount(Shown(i.a, d), i.b, i.c, d)
    <2>1. i.a \in Number /\ i.b \in Number /\ i.c \in Number /\ d \in Nat /\ i.a \in Nat
        BY <1>2, <1>5, TypedTexts, NumbersFit DEF Converts, Exchanges, Computes
    <2> DEFINE x == CalcLiquidityAmountOut(i.a, i.b, i.c)
               throws == i.c = 0 \/ (i.b = 0 /\ i.a * 1000 * i.c < 2 ^ Width)
               exactly == IF i.a * 1000 * i.c < 2 ^ Width /\ i.b * 1000 < 2 ^ Width
                          THEN (i.a * i.c) \div i.b ELSE 0
    <2>2. output' = IF LiquidityDividesByZero(i.a, i.b, i.c) THEN Thrown
                    ELSE <<WeiToFixedPoint(x, d)>>
        <3>1. value[FixedPointToWei(Shown(i.a, d), d)] = i.a
            BY <2>1, ShownAmount
        <3> QED BY <1>5, <3>1, Zenon DEF CalculateAddLiquidityAmount
    <2>3. LiquidityDividesByZero(i.a, i.b, i.c) <=> throws
        BY <2>1, LiquidityThrows
    <2>4. ASSUME ~throws PROVE x \in Texts /\ value[x] = exactly
        BY <2>1, <2>3, <2>4, Pooled
    <2> HIDE DEF x, exactly, throws
    <2>5. ASSUME ~throws PROVE Amount(output'[1]) = exactly
        <3>1. output'[1] = WeiToFixedPoint(x, d)
            BY <2>2, <2>3, <2>5
        <3>2. x \in Texts /\ value[x] = exactly
            BY <2>4, <2>5
        <3>3. Amount(WeiToFixedPoint(x, d)) = value[x]
            BY <2>1, <3>2, FixedPointKeeps
        <3> QED BY <3>1, <3>2, <3>3, Zenon
    <2>6. IF throws THEN output' = Thrown ELSE Amount(output'[1]) = exactly
        BY <2>2, <2>3, <2>5, Zenon
    <2> QED BY <1>1, <1>5, <2>6 DEF AmountsExact, Exact, throws, exactly
<1>6. ASSUME i.fn = "send",
             LET gasPrice == Shown(i.c, GasDecimals)
                 largest == GetRealMaxAVAXAmount(Shown(i.a, d), i.b, gasPrice, d) IN
             output' = <<largest, CalculateTransactionCost(largest, i.b, gasPrice, d)>>
      PROVE  AmountsExact'
    <2>1. i.a \in Number /\ i.b \in Number /\ i.c \in Number /\ d \in Decimals
        BY <1>2, <1>6 DEF Converts, Exchanges, Computes
    <2> DEFINE fee == i.b * i.c
    <2>2. fee < 2 ^ Width =>
             /\ Amount(output'[1]) = IF fee > i.a THEN 0 ELSE i.a - fee
             /\ fee <= i.a => Amount(output'[2]) = i.a
        BY <1>6, <2>1, SentExactly
    <2> QED BY <1>1, <1>6, <2>2 DEF AmountsExact, Exact
<1>7. \/ /\ i.fn = "convert"
         /\ output' = <<FixedPointToWei(WeiToFixedPoint(i.held, d), d),
                        FixedPointToWei(i.typed, d),
                        HasInsufficientFunds(WeiToFixedPoint(i.held, d), i.typed, d)>>
      \/ /\ i.fn = "exchange"
         /\ output' = CalculateExchangeAmount(Shown(i.a, d), i.b, i.c, d, i.e)
      \/ /\ i.fn = "liquidity"
         /\ output' = CalculateAddLiquidityAmount(Shown(i.a, d), i.b, i.c, d)
      \/ LET gasPrice == Shown(i.c, GasDecimals)
             largest == GetRealMaxAVAXAmount(Shown(i.a, d), i.b, gasPrice, d) IN
         /\ i.fn = "send"
         /\ output' = <<largest, CalculateTransactionCost(largest, i.b, gasPrice, d)>>
    BY Zenon DEF Compute
<1> QED BY <1>1, <1>3, <1>4, <1>5, <1>6, <1>7

LEMMA AmountStart == AmountInit => input \in Input /\ AmountsExact
BY DEF AmountInit, AmountsExact

LEMMA AmountStep ==
    input \in Input /\ AmountsExact /\ [Compute]_amountVars => input' \in Input /\ AmountsExact'
<1> SUFFICES ASSUME input \in Input, AmountsExact, [Compute]_amountVars
             PROVE  input' \in Input /\ AmountsExact'
    OBVIOUS
<1>1. CASE Compute
    <2>1. input' = input /\ AmountsExact'
        BY <1>1, ComputeExact
    <2> HIDE DEF AmountsExact
    <2> QED BY <2>1
<1>2. CASE UNCHANGED amountVars
    <2>1. input' = input /\ output' = output
        BY <1>2 DEF amountVars
    <2> QED BY <2>1, Zenon DEF AmountsExact
<1> QED BY <1>1, <1>2

\* However an amount is converted, exchanged, pooled or sent, and whatever its size, the
\* wallet shows what plain arithmetic gives, or 0 where that would not fit; on an empty
\* pool it throws instead.
THEOREM AmountsComeOutRight == AmountSpec => []AmountsExact
<1> DEFINE Inv == input \in Input /\ AmountsExact
<1>1. AmountInit => Inv
    BY AmountStart
<1>2. Inv /\ [Compute]_amountVars => Inv'
    BY AmountStep
<1>3. Inv => AmountsExact
    OBVIOUS
<1> HIDE DEF Inv
<1> QED BY <1>1, <1>2, <1>3, PTL DEF AmountSpec
=============================================================================
