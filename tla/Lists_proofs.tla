---------------------------- MODULE Lists_proofs ----------------------------
(* What the operators on named lists (Resources) and on the tree of a table   *)
(* file (AugeasTree) compute, for lists and trees of every length.            *)
(* The proofs go by induction over a SET of numbers or of lists.              *)
EXTENDS AugeasTree, FiniteSetTheorems, WellFoundedInduction, NaturalsInduction, TLAPS

LEMMA NatInduct ==
  ASSUME NEW G, 0 \in G, \A k \in Nat : k \in G => k + 1 \in G
  PROVE  Nat \subseteq G
<1> DEFINE bad == Nat \ G
<1> SUFFICES ASSUME bad # {} PROVE FALSE
  OBVIOUS
<1>1. PICK k \in bad : \A j \in bad : ~ (<<j, k>> \in OpToRel(<, Nat))
  <2> HIDE DEF bad
  <2>1. bad \subseteq Nat
    BY DEF bad
  <2> QED BY <2>1, NatLessThanWellFounded, WFMin
<1>2. k \in Nat /\ k \notin G
  OBVIOUS
<1>3. k # 0 /\ k - 1 \in Nat /\ k - 1 < k /\ (k - 1) + 1 = k
  BY <1>2
<1>4. <<k - 1, k>> \in OpToRel(<, Nat)
  BY <1>2, <1>3 DEF OpToRel
<1>5. k - 1 \in G
  BY <1>1, <1>3, <1>4
<1> QED BY <1>2, <1>3, <1>5

LEMMA SeqInduct ==
  ASSUME NEW S, NEW G, <<>> \in G,
         \A s \in Seq(S), x \in S : s \in G => Append(s, x) \in G
  PROVE  Seq(S) \subseteq G
<1> DEFINE N == {k \in Nat : \A s \in Seq(S) : Len(s) = k => s \in G}
<1>1. 0 \in N
  <2>1. ASSUME NEW s \in Seq(S), Len(s) = 0 PROVE s = <<>>
    BY <2>1
  <2> QED BY <2>1
<1>2. ASSUME NEW k \in Nat, k \in N PROVE k + 1 \in N
  <2> SUFFICES ASSUME NEW s \in Seq(S), Len(s) = k + 1 PROVE s \in G
    BY <1>2
  <2> DEFINE t == SubSeq(s, 1, k)
  <2>1. t \in Seq(S) /\ Len(t) = k /\ \A i \in 1..k : t[i] = s[i]
    BY <1>2
  <2>2. s[k + 1] \in S
    BY <1>2
  <2>3. Append(t, s[k + 1]) = s
    BY <1>2, <2>1, <2>2
  <2>4. t \in G
    BY <1>2, <2>1
  <2> QED BY <2>1, <2>2, <2>3, <2>4
<1> HIDE DEF N
<1>3. Nat \subseteq N
  BY <1>1, <1>2, NatInduct
<1>4. ASSUME NEW s \in Seq(S) PROVE s \in G
  <2>1. Len(s) \in N
    BY <1>3
  <2> QED BY <2>1 DEF N
<1> QED BY <1>4

-----------------------------------------------------------------------------
(* Sift. *)

\* The parts that Sift makes of the first members.
IsPart(f, s, n, keep) ==
  f = [i \in 0..Len(s) |->
         IF i = 0 THEN <<>>
         ELSE IF (s[i].name = n) = keep THEN Append(f[i - 1], s[i]) ELSE f[i - 1]]

LEMMA SiftDef ==
  ASSUME NEW s, NEW n, NEW keep
  PROVE  Sift(s, n, keep) = (CHOOSE f : IsPart(f, s, n, keep))[Len(s)]
BY DEF Sift, IsPart

\* How a list with one more member is sifted.
SiftStep(p, x, n, keep) == IF (x.name = n) = keep THEN Append(p, x) ELSE p

\* What the part is after i members.
LEMMA PartSteps ==
  ASSUME NEW f, NEW s, NEW n, NEW keep, IsPart(f, s, n, keep), Len(s) \in Nat
  PROVE  f[0] = <<>> /\ \A i \in 1..Len(s) : f[i] = SiftStep(f[i - 1], s[i], n, keep)
<1> DEFINE body(i) == IF i = 0 THEN <<>> ELSE SiftStep(f[i - 1], s[i], n, keep)
<1>1. f = [i \in 0..Len(s) |-> body(i)]
  BY DEF IsPart, SiftStep
<1> HIDE DEF body
<1>2. \A i \in 0..Len(s) : f[i] = body(i)
  BY <1>1
<1>3. 0 \in 0..Len(s) /\ \A i \in 1..Len(s) : i \in 0..Len(s) /\ i # 0
  OBVIOUS
<1> QED BY <1>2, <1>3 DEF body

LEMMA PartExists ==
  ASSUME NEW S, NEW n, NEW keep
  PROVE  \A s \in Seq(S) : \E f \in [0..Len(s) -> Seq(S)] : IsPart(f, s, n, keep)
<1> DEFINE G == {s \in Seq(S) : \E f \in [0..Len(s) -> Seq(S)] : IsPart(f, s, n, keep)}
<1>1. <<>> \in G
  <2> DEFINE o == <<>>
             f == [i \in 0..0 |-> o]
  <2>1. o \in Seq(S) /\ Len(o) = 0
    OBVIOUS
  <2> HIDE DEF o
  <2>2. f \in [0..Len(o) -> Seq(S)] /\ f = [i \in 0..Len(o) |-> o]
    BY <2>1
  <2>3. f = [i \in 0..Len(o) |-> IF i = 0 THEN o ELSE SiftStep(f[i - 1], o[i], n, keep)]
    BY <2>1
  <2> HIDE DEF f
  <2>4. IsPart(f, o, n, keep)
    BY <2>3 DEF IsPart, SiftStep, o
  <2> QED BY <2>1, <2>2, <2>4 DEF o
<1>2. ASSUME NEW s \in Seq(S), NEW x \in S, s \in G PROVE Append(s, x) \in G
  <2>1. PICK f \in [0..Len(s) -> Seq(S)] : IsPart(f, s, n, keep)
    BY <1>2
  <2> DEFINE t == Append(s, x)
             k == Len(s)
             g == [i \in 0..k + 1 |-> IF i = k + 1 THEN SiftStep(f[k], x, n, keep) ELSE f[i]]
  <2>2. t \in Seq(S) /\ Len(t) = k + 1 /\ t[k + 1] = x /\ k \in Nat /\ \A i \in 1..k : t[i] = s[i]
    OBVIOUS
  <2> HIDE DEF t
  <2>3. g \in [0..k + 1 -> Seq(S)]
    BY <2>1, <2>2 DEF SiftStep
  <2>4. f[0] = <<>> /\ \A i \in 1..k : f[i] = SiftStep(f[i - 1], s[i], n, keep)
    BY <2>1, <2>2, PartSteps
  <2>5. g[0] = <<>> /\ \A i \in 1..k + 1 : g[i] = SiftStep(g[i - 1], t[i], n, keep)
    <3>1. \A i \in 0..k : g[i] = f[i]
      BY <2>2
    <3>2. g[k + 1] = SiftStep(f[k], x, n, keep)
      BY <2>2
    <3> HIDE DEF g
    <3>3. \A i \in 1..k : i - 1 \in 0..k /\ i \in 0..k
      BY <2>2
    <3> QED BY <2>2, <2>4, <3>1, <3>2, <3>3
  <2> HIDE DEF g
  <2>6. IsPart(g, t, n, keep)
    <3>1. g = [i \in 0..k + 1 |-> IF i = 0 THEN <<>> ELSE SiftStep(g[i - 1], t[i], n, keep)]
      BY <2>2, <2>3, <2>5
    <3> QED BY <2>2, <3>1 DEF IsPart, SiftStep
  <2>7. t \in G
    BY <2>2, <2>3, <2>6
  <2> QED BY <2>7 DEF t
<1> HIDE DEF G
<1>3. Seq(S) \subseteq G
  BY <1>1, <1>2, SeqInduct
<1> QED BY <1>3 DEF G

\* The first parts of a list do not depend on what follows.
LEMMA PartsAgree ==
  ASSUME NEW S, NEW s \in Seq(S), NEW x \in S, NEW n, NEW keep,
         NEW f, IsPart(f, s, n, keep), NEW g, IsPart(g, Append(s, x), n, keep)
  PROVE  /\ f[Len(s)] = g[Len(s)]
         /\ g[Len(s) + 1] = SiftStep(g[Len(s)], x, n, keep)
<1> DEFINE t == Append(s, x)
           k == Len(s)
           G == {i \in Nat : i <= k => f[i] = g[i]}
<1>1. t \in Seq(S) /\ Len(t) = k + 1 /\ t[k + 1] = x /\ k \in Nat /\ \A i \in 1..k : t[i] = s[i]
  OBVIOUS
<1>2. f[0] = <<>> /\ \A i \in 1..k : f[i] = SiftStep(f[i - 1], s[i], n, keep)
  BY <1>1, PartSteps
<1>9. IsPart(g, t, n, keep)
  OBVIOUS
<1> HIDE DEF t
<1>3. g[0] = <<>> /\ \A i \in 1..k + 1 : g[i] = SiftStep(g[i - 1], t[i], n, keep)
  <2>1. Len(t) \in Nat /\ Len(t) = k + 1
    BY <1>1
  <2>2. g[0] = <<>> /\ \A i \in 1..Len(t) : g[i] = SiftStep(g[i - 1], t[i], n, keep)
    BY <1>9, <2>1, PartSteps
  <2> QED BY <2>1, <2>2
<1>4. 0 \in G
  BY <1>2, <1>3
<1>5. ASSUME NEW i \in Nat, i \in G PROVE i + 1 \in G
  <2> SUFFICES ASSUME i + 1 <= k PROVE f[i + 1] = g[i + 1]
    OBVIOUS
  <2>1. i + 1 \in 1..k /\ i + 1 \in 1..k + 1 /\ (i + 1) - 1 = i /\ f[i] = g[i]
    BY <1>1, <1>5
  <2>2. t[i + 1] = s[i + 1]
    BY <1>1, <2>1
  <2>3. f[i + 1] = SiftStep(f[(i + 1) - 1], s[i + 1], n, keep)
    BY <1>2, <2>1
  <2>4. g[i + 1] = SiftStep(g[(i + 1) - 1], t[i + 1], n, keep)
    BY <1>3, <2>1
  <2> QED BY <2>1, <2>2, <2>3, <2>4
<1> HIDE DEF G
<1>6. Nat \subseteq G
  BY <1>4, <1>5, NatInduct
<1>7. f[k] = g[k]
  BY <1>1, <1>6 DEF G
<1>8. g[k + 1] = SiftStep(g[(k + 1) - 1], t[k + 1], n, keep) /\ (k + 1) - 1 = k
  BY <1>1, <1>3
<1> QED BY <1>1, <1>7, <1>8

\* Sift, one member at a time.
LEMMA SiftEmpty ==
  ASSUME NEW n, NEW keep
  PROVE  Sift(<<>>, n, keep) = <<>>
<1> DEFINE f == CHOOSE h : IsPart(h, <<>>, n, keep)
<1>1. \E h : IsPart(h, <<>>, n, keep)
  <2>1. <<>> \in Seq({})
    OBVIOUS
  <2> QED BY <2>1, PartExists
<1>2. IsPart(f, <<>>, n, keep) /\ Len(<<>>) = 0
  BY <1>1
<1>3. f[0] = <<>>
  BY <1>2 DEF IsPart
<1> QED BY <1>2, <1>3, SiftDef

LEMMA SiftAppend ==
  ASSUME NEW S, NEW s \in Seq(S), NEW x \in S, NEW n, NEW keep
  PROVE  /\ Sift(s, n, keep) \in Seq(S)
         /\ Sift(Append(s, x), n, keep) = SiftStep(Sift(s, n, keep), x, n, keep)
<1> DEFINE f == CHOOSE h : IsPart(h, s, n, keep)
           g == CHOOSE h : IsPart(h, Append(s, x), n, keep)
<1>1. PICK h \in [0..Len(s) -> Seq(S)] : IsPart(h, s, n, keep)
  BY PartExists
<1>2. IsPart(f, s, n, keep)
  BY <1>1
<1>3. \E e : IsPart(e, Append(s, x), n, keep)
  BY PartExists
<1>4. IsPart(g, Append(s, x), n, keep)
  BY <1>3
<1>5. Sift(s, n, keep) = f[Len(s)] /\ Sift(Append(s, x), n, keep) = g[Len(s) + 1]
  BY SiftDef
<1> HIDE DEF f, g
<1>6. f[Len(s)] = g[Len(s)] /\ h[Len(s)] = g[Len(s)] /\ g[Len(s) + 1] = SiftStep(g[Len(s)], x, n, keep)
  BY <1>1, <1>2, <1>4, PartsAgree
<1> QED BY <1>1, <1>5, <1>6

\* The list is as long as it was, or one longer.
LEMMA SeqParts ==
  ASSUME NEW S, NEW s \in Seq(S), NEW x \in S
  PROVE  /\ Append(s, x) \in Seq(S) /\ Len(Append(s, x)) = Len(s) + 1 /\ Len(s) \in Nat
         /\ Append(s, x)[Len(s) + 1] = x /\ \A i \in 1..Len(s) : Append(s, x)[i] = s[i]
         /\ 1..Len(s) + 1 = 1..Len(s) \cup {Len(s) + 1}
         /\ Append(s, x) # <<>>
OBVIOUS

LEMMA SeqSplit ==
  ASSUME NEW S, NEW t \in Seq(S), NEW k \in Nat, Len(t) = k + 1
  PROVE  \E s \in Seq(S), x \in S : t = Append(s, x) /\ Len(s) = k
<1> DEFINE s == SubSeq(t, 1, k)
<1>1. s \in Seq(S) /\ Len(s) = k /\ \A i \in 1..k : t[i] = s[i]
  OBVIOUS
<1>2. t[k + 1] \in S
  OBVIOUS
<1>3. t = Append(s, t[k + 1])
  BY <1>1, <1>2
<1> QED BY <1>1, <1>2, <1>3

\* The positions of the members with the name n.
PositionsOf(s, n) == {i \in 1..Len(s) : s[i].name = n}

LEMMA UnderEmpty ==
  ASSUME NEW n
  PROVE  Under(<<>>, n) = <<>> /\ Without(<<>>, n) = <<>>
BY SiftEmpty DEF Under, Without

LEMMA UnderAppend ==
  ASSUME NEW S, NEW s \in Seq(S), NEW x \in S, NEW n
  PROVE  /\ Under(s, n) \in Seq(S) /\ Without(s, n) \in Seq(S)
         /\ Under(Append(s, x), n) = IF x.name = n THEN Append(Under(s, n), x) ELSE Under(s, n)
         /\ Without(Append(s, x), n) = IF x.name = n THEN Without(s, n) ELSE Append(Without(s, n), x)
<1> DEFINE yes == TRUE
           no == FALSE
<1>1. Under(s, n) = Sift(s, n, yes) /\ Under(Append(s, x), n) = Sift(Append(s, x), n, yes)
  BY DEF Under
<1>2. Without(s, n) = Sift(s, n, no) /\ Without(Append(s, x), n) = Sift(Append(s, x), n, no)
  BY DEF Without
<1>3. \A p : SiftStep(p, x, n, yes) = IF x.name = n THEN Append(p, x) ELSE p
  BY DEF SiftStep
<1>4. \A p : SiftStep(p, x, n, no) = IF x.name = n THEN p ELSE Append(p, x)
  BY DEF SiftStep
<1> HIDE DEF yes, no
<1>5. /\ Sift(s, n, yes) \in Seq(S)
      /\ Sift(Append(s, x), n, yes) = SiftStep(Sift(s, n, yes), x, n, yes)
  BY SiftAppend
<1>6. /\ Sift(s, n, no) \in Seq(S)
      /\ Sift(Append(s, x), n, no) = SiftStep(Sift(s, n, no), x, n, no)
  BY SiftAppend
<1> QED BY <1>1, <1>2, <1>3, <1>4, <1>5, <1>6

LEMMA UnderType ==
  ASSUME NEW S, NEW n
  PROVE  \A s \in Seq(S) : Under(s, n) \in Seq(S) /\ Without(s, n) \in Seq(S)
<1> DEFINE G == {s \in Seq(S) : Under(s, n) \in Seq(S) /\ Without(s, n) \in Seq(S)}
<1>1. <<>> \in G
  <2> DEFINE o == <<>>
  <2>1. o \in Seq(S) /\ Under(o, n) = o /\ Without(o, n) = o
    BY UnderEmpty
  <2> QED BY <2>1
<1>2. ASSUME NEW s \in Seq(S), NEW x \in S, s \in G PROVE Append(s, x) \in G
  <2>1. /\ Under(s, n) \in Seq(S) /\ Without(s, n) \in Seq(S)
        /\ Under(Append(s, x), n) = IF x.name = n THEN Append(Under(s, n), x) ELSE Under(s, n)
        /\ Without(Append(s, x), n) = IF x.name = n THEN Without(s, n) ELSE Append(Without(s, n), x)
    BY UnderAppend
  <2>2. \A p \in Seq(S) : Append(p, x) \in Seq(S)
    OBVIOUS
  <2> QED BY <2>1, <2>2
<1> HIDE DEF G
<1>3. Seq(S) \subseteq G
  BY <1>1, <1>2, SeqInduct
<1> QED BY <1>3 DEF G

\* As many members as positions.
LEMMA UnderLength ==
  ASSUME NEW S, NEW n
  PROVE  \A s \in Seq(S) : /\ IsFiniteSet(PositionsOf(s, n))
                           /\ Len(Under(s, n)) = Cardinality(PositionsOf(s, n))
<1> DEFINE G == {s \in Seq(S) : /\ IsFiniteSet(PositionsOf(s, n))
                                /\ Len(Under(s, n)) = Cardinality(PositionsOf(s, n))}
<1>1. <<>> \in G
  <2>1. PositionsOf(<<>>, n) = {}
    BY DEF PositionsOf
  <2>2. Len(<<>>) = 0
    OBVIOUS
  <2> QED BY <2>1, <2>2, UnderEmpty, FS_EmptySet
<1>2. ASSUME NEW s \in Seq(S), NEW x \in S, s \in G PROVE Append(s, x) \in G
  <2> DEFINE t == Append(s, x)
             k == Len(s) + 1
  <2>1. t \in Seq(S) /\ Len(t) = k /\ t[k] = x /\ Len(s) \in Nat
        /\ (\A i \in 1..Len(s) : t[i] = s[i]) /\ 1..k = 1..Len(s) \cup {k}
    BY SeqParts
  <2>2. /\ Under(s, n) \in Seq(S)
        /\ Under(t, n) = IF x.name = n THEN Append(Under(s, n), x) ELSE Under(s, n)
    BY UnderAppend
  <2>3. IsFiniteSet(PositionsOf(s, n)) /\ Len(Under(s, n)) = Cardinality(PositionsOf(s, n))
    BY <1>2
  <2> HIDE DEF t, k
  <2>4. CASE x.name = n
    <3>1. PositionsOf(t, n) = PositionsOf(s, n) \cup {k}
      BY <2>1, <2>4 DEF PositionsOf
    <3>2. k \notin PositionsOf(s, n)
      BY DEF PositionsOf, k
    <3>3. Len(Under(t, n)) = Len(Under(s, n)) + 1
      BY <2>2, <2>4
    <3> QED BY <2>1, <2>3, <3>1, <3>2, <3>3, FS_AddElement DEF t
  <2>5. CASE x.name # n
    <3>1. PositionsOf(t, n) = PositionsOf(s, n)
      BY <2>1, <2>5 DEF PositionsOf
    <3> QED BY <2>1, <2>2, <2>3, <2>5, <3>1 DEF t
  <2> QED BY <2>4, <2>5
<1> HIDE DEF G
<1>3. Seq(S) \subseteq G
  BY <1>1, <1>2, SeqInduct
<1> QED BY <1>3 DEF G

LEMMA UnderNone ==
  ASSUME NEW S, NEW n, NEW s \in Seq(S)
  PROVE  Under(s, n) = <<>> <=> PositionsOf(s, n) = {}
<1>1. Under(s, n) \in Seq(S)
  BY UnderType
<1>2. IsFiniteSet(PositionsOf(s, n)) /\ Len(Under(s, n)) = Cardinality(PositionsOf(s, n))
  BY UnderLength
<1>3. Cardinality(PositionsOf(s, n)) = 0 <=> PositionsOf(s, n) = {}
  BY <1>2, FS_EmptySet
<1>4. Len(Under(s, n)) = 0 <=> Under(s, n) = <<>>
  BY <1>1
<1> QED BY <1>2, <1>3, <1>4

\* The only member with the name.
LEMMA UnderOne ==
  ASSUME NEW S, NEW n
  PROVE  \A s \in Seq(S) : \A j : PositionsOf(s, n) = {j} => Under(s, n) = <<s[j]>>
<1> DEFINE G == {s \in Seq(S) : \A j : PositionsOf(s, n) = {j} => Under(s, n) = <<s[j]>>}
<1>1. <<>> \in G
  <2>1. PositionsOf(<<>>, n) = {}
    BY DEF PositionsOf
  <2> QED BY <2>1
<1>2. ASSUME NEW s \in Seq(S), NEW x \in S, s \in G PROVE Append(s, x) \in G
  <2> DEFINE t == Append(s, x)
             k == Len(s) + 1
  <2>1. t \in Seq(S) /\ Len(t) = k /\ t[k] = x /\ Len(s) \in Nat
        /\ (\A i \in 1..Len(s) : t[i] = s[i]) /\ 1..k = 1..Len(s) \cup {k}
    BY SeqParts
  <2>2. /\ Under(s, n) \in Seq(S)
        /\ Under(t, n) = IF x.name = n THEN Append(Under(s, n), x) ELSE Under(s, n)
    BY UnderAppend
  <2>3. k \notin 1..Len(s)
    BY <2>1
  <2> HIDE DEF t, k
  <2>4. ASSUME NEW j, PositionsOf(t, n) = {j} PROVE Under(t, n) = <<t[j]>>
    <3>1. CASE x.name = n
      <4>1. j = k /\ PositionsOf(s, n) = {}
        BY <2>1, <2>3, <2>4, <3>1 DEF PositionsOf
      <4>2. Under(s, n) = <<>>
        BY <4>1, UnderNone
      <4> QED BY <2>1, <2>2, <3>1, <4>1, <4>2
    <3>2. CASE x.name # n
      <4>1. PositionsOf(s, n) = {j} /\ t[j] = s[j]
        BY <2>1, <2>4, <3>2 DEF PositionsOf
      <4> QED BY <1>2, <2>2, <3>2, <4>1
    <3> QED BY <3>1, <3>2
  <2> QED BY <2>1, <2>4 DEF t
<1> HIDE DEF G
<1>3. Seq(S) \subseteq G
  BY <1>1, <1>2, SeqInduct
<1> QED BY <1>3 DEF G

\* Two lists with the same members of the name n at the same positions.
SameAt(s, t, n) ==
  \A i \in 1..Len(s) : (s[i].name = n <=> t[i].name = n) /\ (s[i].name = n => s[i] = t[i])

LEMMA UnderSame ==
  ASSUME NEW S, NEW n
  PROVE  \A s, t \in Seq(S) : Len(s) = Len(t) /\ SameAt(s, t, n) => Under(s, n) = Under(t, n)
<1> DEFINE G == {s \in Seq(S) : \A t \in Seq(S) :
                   Len(s) = Len(t) /\ SameAt(s, t, n) => Under(s, n) = Under(t, n)}
<1>1. <<>> \in G
  <2>1. ASSUME NEW t \in Seq(S), Len(<<>>) = Len(t) PROVE t = <<>>
    BY <2>1
  <2> QED BY <2>1
<1>2. ASSUME NEW s \in Seq(S), NEW x \in S, s \in G PROVE Append(s, x) \in G
  <2>1. /\ Append(s, x) \in Seq(S) /\ Len(Append(s, x)) = Len(s) + 1 /\ Len(s) \in Nat
        /\ Append(s, x)[Len(s) + 1] = x /\ \A i \in 1..Len(s) : Append(s, x)[i] = s[i]
        /\ 1..Len(s) + 1 = 1..Len(s) \cup {Len(s) + 1}
    BY SeqParts
  <2>2. ASSUME NEW w \in Seq(S), Len(Append(s, x)) = Len(w), SameAt(Append(s, x), w, n)
        PROVE  Under(Append(s, x), n) = Under(w, n)
    <3>1. PICK t \in Seq(S), y \in S : w = Append(t, y) /\ Len(t) = Len(s)
      BY <2>1, <2>2, SeqSplit
    <3>2. w[Len(s) + 1] = y /\ \A i \in 1..Len(s) : w[i] = t[i]
      BY <3>1, SeqParts
    <3>3. SameAt(s, t, n) /\ (x.name = n <=> y.name = n) /\ (x.name = n => x = y)
      BY <2>1, <2>2, <3>2 DEF SameAt
    <3>4. Under(s, n) = Under(t, n)
      BY <1>2, <3>1, <3>3
    <3>5. /\ Under(Append(s, x), n) = IF x.name = n THEN Append(Under(s, n), x) ELSE Under(s, n)
          /\ Under(w, n) = IF y.name = n THEN Append(Under(t, n), y) ELSE Under(t, n)
      BY <3>1, UnderAppend
    <3> QED BY <3>3, <3>4, <3>5
  <2> QED BY <2>1, <2>2
<1> HIDE DEF G
<1>3. Seq(S) \subseteq G
  BY <1>1, <1>2, SeqInduct
<1> QED BY <1>3 DEF G

\* What is left without the name m.
LEMMA UnderWithout ==
  ASSUME NEW S, NEW m, NEW n
  PROVE  \A s \in Seq(S) : Under(Without(s, m), n) = IF m = n THEN <<>> ELSE Under(s, n)
<1> DEFINE G == {s \in Seq(S) : Under(Without(s, m), n) = IF m = n THEN <<>> ELSE Under(s, n)}
<1>1. <<>> \in G
  BY UnderEmpty
<1>2. ASSUME NEW s \in Seq(S), NEW x \in S, s \in G PROVE Append(s, x) \in G
  <2>1. /\ Without(s, m) \in Seq(S)
        /\ Without(Append(s, x), m) = IF x.name = m THEN Without(s, m) ELSE Append(Without(s, m), x)
    BY UnderAppend
  <2>2. Under(Append(s, x), n) = IF x.name = n THEN Append(Under(s, n), x) ELSE Under(s, n)
    BY UnderAppend
  <2>3. Under(Append(Without(s, m), x), n) =
          IF x.name = n THEN Append(Under(Without(s, m), n), x) ELSE Under(Without(s, m), n)
    BY <2>1, UnderAppend
  <2>4. Append(s, x) \in Seq(S)
    OBVIOUS
  <2>5. Under(Without(s, m), n) = IF m = n THEN <<>> ELSE Under(s, n)
    BY <1>2
  <2>6. CASE x.name = m
    <3>1. Under(Without(Append(s, x), m), n) = Under(Without(s, m), n)
      BY <2>1, <2>6
    <3> QED BY <2>2, <2>4, <2>5, <2>6, <3>1
  <2>7. CASE x.name # m
    <3>1. Under(Without(Append(s, x), m), n) =
            IF x.name = n THEN Append(Under(Without(s, m), n), x) ELSE Under(Without(s, m), n)
      BY <2>1, <2>3, <2>7
    <3>2. CASE m = n
      BY <2>4, <2>5, <2>7, <3>1, <3>2
    <3>3. CASE m # n
      BY <2>2, <2>4, <2>5, <3>1, <3>3
    <3> QED BY <3>2, <3>3
  <2> QED BY <2>6, <2>7
<1> HIDE DEF G
<1>3. Seq(S) \subseteq G
  BY <1>1, <1>2, SeqInduct
<1> QED BY <1>3 DEF G

-----------------------------------------------------------------------------
(* The lists provider::set and get() put together. *)

\* A value is carried along 1..k by a step that depends on the position.
StepsOf(S, k) == [1..k -> [S -> S]]

IsFold(f, S, b, k, step) ==
  /\ f \in [0..k -> S]
  /\ f[0] = b
  /\ \A i \in 1..k : f[i] = step[i][f[i - 1]]

LEMMA FoldExists ==
  ASSUME NEW S, NEW b \in S, NEW k \in Nat, NEW step \in StepsOf(S, k)
  PROVE  \E f : IsFold(f, S, b, k, step)
<1> USE DEF StepsOf
<1> DEFINE Good(f, m) == f \in [0..m -> S] /\ f[0] = b /\ \A i \in 1..m : f[i] = step[i][f[i - 1]]
           G == {m \in Nat : m <= k => \E f : Good(f, m)}
<1>1. 0 \in G
  <2> DEFINE f == [i \in 0..0 |-> b]
  <2>1. Good(f, 0)
    OBVIOUS
  <2> HIDE DEF f
  <2> QED BY <2>1
<1>2. ASSUME NEW m \in Nat, m \in G PROVE m + 1 \in G
  <2> SUFFICES ASSUME m + 1 <= k PROVE \E f : Good(f, m + 1)
    OBVIOUS
  <2>1. PICK f : Good(f, m)
    BY <1>2
  <2> DEFINE v == step[m + 1][f[m]]
             g == [i \in 0..m + 1 |-> IF i = m + 1 THEN v ELSE f[i]]
  <2>2. v \in S
    <3>1. f[m] \in S /\ m + 1 \in 1..k
      BY <2>1
    <3> QED BY <3>1
  <2>3. g \in [0..m + 1 -> S]
    BY <2>1, <2>2
  <2>4. g[m + 1] = v /\ \A i \in 0..m : g[i] = f[i]
    OBVIOUS
  <2> HIDE DEF g
  <2>5. \A i \in 1..m + 1 : i = m + 1 \/ (i \in 1..m /\ i - 1 \in 0..m /\ i \in 0..m)
    OBVIOUS
  <2>6. 0 \in 0..m /\ m \in 0..m /\ (m + 1) - 1 = m
    OBVIOUS
  <2>7. Good(g, m + 1)
    BY <2>1, <2>3, <2>4, <2>5, <2>6
  <2> HIDE DEF Good
  <2> QED BY <2>7
<1> HIDE DEF G
<1>3. Nat \subseteq G
  BY <1>1, <1>2, NatInduct
<1>4. \E f : Good(f, k)
  BY <1>3 DEF G
<1> QED BY <1>4 DEF IsFold

\* The parts that FlattenSeq makes of the first lists.
IsFlat(f, seqs) ==
  f = [i \in 1..Len(seqs) |-> IF i = 1 THEN seqs[i] ELSE f[i - 1] \o seqs[i]]

LEMMA FlattenDef ==
  ASSUME NEW seqs, Len(seqs) # 0
  PROVE  FlattenSeq(seqs) = (CHOOSE f : IsFlat(f, seqs))[Len(seqs)]
BY DEF FlattenSeq, IsFlat

LEMMA FlatExists ==
  ASSUME NEW S, NEW seqs \in Seq(Seq(S)), Len(seqs) # 0
  PROVE  \E f : IsFlat(f, seqs)
<1> DEFINE k == Len(seqs)
           step == [i \in 1..k |-> [acc \in Seq(S) |-> acc \o seqs[i]]]
           b == <<>>
<1>1. k \in Nat /\ b \in Seq(S) /\ \A i \in 1..k : seqs[i] \in Seq(S)
  OBVIOUS
<1>2. \A i \in 1..k, acc \in Seq(S) : acc \o seqs[i] \in Seq(S)
  BY <1>1
<1>3. step \in [1..k -> [Seq(S) -> Seq(S)]]
  BY <1>2
<1>4. \A i \in 1..k, acc \in Seq(S) : step[i][acc] = acc \o seqs[i]
  OBVIOUS
<1>5. \A s \in Seq(S) : b \o s = s
  OBVIOUS
<1> HIDE DEF b, step, k
<1>6. PICK f \in [0..k -> Seq(S)] : f[0] = b /\ \A i \in 1..k : f[i] = step[i][f[i - 1]]
  <2> DEFINE T == Seq(S)
  <2>1. b \in T /\ k \in Nat /\ step \in StepsOf(T, k)
    BY <1>1, <1>3 DEF StepsOf
  <2> HIDE DEF T
  <2>2. \E f : IsFold(f, T, b, k, step)
    BY <2>1, FoldExists
  <2> QED BY <2>2 DEF IsFold, T
<1> DEFINE g == [i \in 1..k |-> f[i]]
<1>7. ASSUME NEW i \in 1..k PROVE g[i] = IF i = 1 THEN seqs[i] ELSE g[i - 1] \o seqs[i]
  <2>1. i - 1 \in 0..k /\ (i # 1 => i - 1 \in 1..k) /\ (i = 1 => i - 1 = 0)
    BY <1>1
  <2>2. f[i - 1] \in Seq(S) /\ f[i] = f[i - 1] \o seqs[i]
    BY <1>4, <1>6, <2>1
  <2>3. CASE i = 1
    BY <1>1, <1>5, <1>6, <2>1, <2>2, <2>3
  <2>4. CASE i # 1
    BY <2>1, <2>2, <2>4
  <2> QED BY <2>3, <2>4
<1>8. g = [i \in 1..k |-> g[i]]
  OBVIOUS
<1> HIDE DEF g
<1>9. g = [i \in 1..k |-> IF i = 1 THEN seqs[i] ELSE g[i - 1] \o seqs[i]]
  BY <1>7, <1>8
<1> QED BY <1>9 DEF IsFlat, k

\* FlattenSeq adds one list after the other.
LEMMA FlattenSteps ==
  ASSUME NEW S, NEW seqs \in Seq(Seq(S))
  PROVE  \E f \in [0..Len(seqs) -> Seq(S)] :
           /\ f[0] = <<>> /\ \A i \in 1..Len(seqs) : f[i] = f[i - 1] \o seqs[i]
           /\ FlattenSeq(seqs) = f[Len(seqs)]
<1> DEFINE o == <<>>
           k == Len(seqs)
           Steps(h) == /\ h[0] = o /\ \A i \in 1..k : h[i] = h[i - 1] \o seqs[i]
                       /\ FlattenSeq(seqs) = h[k]
<1>1. k \in Nat /\ o \in Seq(S) /\ (\A i \in 1..k : seqs[i] \in Seq(S)) /\ \A s \in Seq(S) : o \o s = s
  OBVIOUS
<1>2. ASSUME k = 0 PROVE \E h \in [0..k -> Seq(S)] : Steps(h)
  <2> DEFINE f == [i \in 0..0 |-> o]
  <2>1. FlattenSeq(seqs) = o
    BY <1>2 DEF FlattenSeq
  <2> HIDE DEF o
  <2>2. f \in [0..k -> Seq(S)] /\ f[0] = o /\ f[k] = o
    BY <1>1, <1>2
  <2> HIDE DEF f
  <2>3. Steps(f)
    BY <1>2, <2>1, <2>2
  <2> HIDE DEF Steps
  <2> QED BY <2>2, <2>3
<1>3. ASSUME k # 0 PROVE \E h \in [0..k -> Seq(S)] : Steps(h)
  <2> DEFINE g == CHOOSE h : IsFlat(h, seqs)
             f == [i \in 0..k |-> IF i = 0 THEN o ELSE g[i]]
             G == {m \in Nat : m <= k => f[m] \in Seq(S)}
  <2>1. IsFlat(g, seqs)
    BY <1>3, FlatExists
  <2>2. FlattenSeq(seqs) = g[k]
    BY <1>3, FlattenDef
  <2> HIDE DEF g
  <2>3. \A i \in 1..k : g[i] = IF i = 1 THEN seqs[i] ELSE g[i - 1] \o seqs[i]
    <3> DEFINE body(i) == IF i = 1 THEN seqs[i] ELSE g[i - 1] \o seqs[i]
    <3>1. g = [i \in 1..k |-> body(i)]
      BY <2>1 DEF IsFlat
    <3> HIDE DEF body, k
    <3>2. \A i \in 1..k : g[i] = body(i)
      BY <3>1
    <3> QED BY <3>2 DEF body
  <2> HIDE DEF k, o
  <2>4. f[0] = o /\ \A i \in 1..k : f[i] = g[i]
    BY <1>1
  <2>6. f = [i \in 0..k |-> f[i]]
    OBVIOUS
  <2> HIDE DEF f
  <2>5. ASSUME NEW i \in 1..k PROVE f[i] = f[i - 1] \o seqs[i]
    <3>1. CASE i = 1
      BY <1>1, <2>3, <2>4, <3>1, i - 1 = 0
    <3>2. CASE i # 1
      <4>1. i - 1 \in 1..k
        BY <1>1, <3>2
      <4> QED BY <2>3, <2>4, <3>2, <4>1
    <3> QED BY <3>1, <3>2
  <2>7. 0 \in G
    BY <1>1, <2>4
  <2>8. ASSUME NEW m \in Nat, m \in G PROVE m + 1 \in G
    <3> SUFFICES ASSUME m + 1 <= k PROVE f[m + 1] \in Seq(S)
      OBVIOUS
    <3>1. m + 1 \in 1..k /\ (m + 1) - 1 = m /\ f[m] \in Seq(S)
      BY <1>1, <2>8
    <3>2. f[m + 1] = f[m] \o seqs[m + 1]
      BY <2>5, <3>1
    <3>3. seqs[m + 1] \in Seq(S)
      BY <1>1, <3>1
    <3> QED BY <3>1, <3>2, <3>3
  <2> HIDE DEF G
  <2>9. Nat \subseteq G
    BY <2>7, <2>8, NatInduct
  <2>10. f \in [0..k -> Seq(S)]
    <3>1. \A i \in 0..k : f[i] \in Seq(S)
      BY <1>1, <2>9 DEF G
    <3> QED BY <2>6, <3>1
  <2>11. FlattenSeq(seqs) = f[k]
    BY <1>1, <1>3, <2>2, <2>4
  <2>12. Steps(f)
    BY <2>4, <2>5, <2>11
  <2> HIDE DEF Steps
  <2> QED BY <2>10, <2>12
<1>4. \E h \in [0..k -> Seq(S)] : Steps(h)
  BY <1>2, <1>3
<1> QED BY <1>4

LEMMA ConcatFacts ==
  ASSUME NEW S, NEW s \in Seq(S), NEW t \in Seq(S)
  PROVE  /\ s \o t \in Seq(S) /\ Len(s \o t) = Len(s) + Len(t)
         /\ Len(s) \in Nat /\ Len(t) \in Nat
         /\ \A k \in 1..Len(s) : (s \o t)[k] = s[k]
         /\ \A k \in 1..Len(t) : (s \o t)[Len(s) + k] = t[k]
OBVIOUS

\* What holds of each list, and of two in a row when of both, holds of all.
LEMMA FlattenClosed ==
  ASSUME NEW S, NEW T, T \subseteq Seq(S), <<>> \in T, \A s, t \in T : s \o t \in T,
         NEW seqs \in Seq(T)
  PROVE  FlattenSeq(seqs) \in T
<1>1. seqs \in Seq(Seq(S)) /\ Len(seqs) \in Nat /\ \A i \in 1..Len(seqs) : seqs[i] \in T
  OBVIOUS
<1>2. PICK f \in [0..Len(seqs) -> Seq(S)] :
        /\ f[0] = <<>> /\ \A i \in 1..Len(seqs) : f[i] = f[i - 1] \o seqs[i]
        /\ FlattenSeq(seqs) = f[Len(seqs)]
  BY <1>1, FlattenSteps
<1> DEFINE G == {m \in Nat : m <= Len(seqs) => f[m] \in T}
<1>3. 0 \in G
  BY <1>2
<1>4. ASSUME NEW m \in Nat, m \in G PROVE m + 1 \in G
  <2> SUFFICES ASSUME m + 1 <= Len(seqs) PROVE f[m + 1] \in T
    OBVIOUS
  <2>1. m + 1 \in 1..Len(seqs) /\ (m + 1) - 1 = m /\ f[m] \in T
    BY <1>1, <1>4
  <2>2. f[m + 1] = f[m] \o seqs[m + 1] /\ seqs[m + 1] \in T
    BY <1>1, <1>2, <2>1
  <2> QED BY <2>1, <2>2
<1> HIDE DEF G
<1>5. Nat \subseteq G
  BY <1>3, <1>4, NatInduct
<1>6. Len(seqs) \in G
  BY <1>1, <1>5
<1> QED BY <1>1, <1>2, <1>6 DEF G

LEMMA FlattenType ==
  ASSUME NEW S, NEW seqs \in Seq(Seq(S))
  PROVE  FlattenSeq(seqs) \in Seq(S)
<1> DEFINE T == Seq(S)
<1>1. T \subseteq Seq(S) /\ <<>> \in T /\ \A s, t \in T : s \o t \in T
  OBVIOUS
<1>2. seqs \in Seq(T)
  OBVIOUS
<1> HIDE DEF T
<1>3. FlattenSeq(seqs) \in T
  BY <1>1, <1>2, FlattenClosed
<1> QED BY <1>3 DEF T

\* Nothing in the lists is lost.
LEMMA FlattenHolds ==
  ASSUME NEW S, NEW seqs \in Seq(Seq(S)), NEW i \in 1..Len(seqs), NEW j \in 1..Len(seqs[i])
  PROVE  \E k \in 1..Len(FlattenSeq(seqs)) : FlattenSeq(seqs)[k] = seqs[i][j]
<1>1. Len(seqs) \in Nat /\ \A h \in 1..Len(seqs) : seqs[h] \in Seq(S)
  OBVIOUS
<1>2. PICK f \in [0..Len(seqs) -> Seq(S)] :
        /\ f[0] = <<>> /\ \A h \in 1..Len(seqs) : f[h] = f[h - 1] \o seqs[h]
        /\ FlattenSeq(seqs) = f[Len(seqs)]
  BY FlattenSteps
<1> DEFINE x == seqs[i][j]
           Has(s) == \E k \in 1..Len(s) : s[k] = x
           G == {m \in Nat : m <= Len(seqs) /\ i <= m => Has(f[m])}
<1>3. Has(seqs[i])
  OBVIOUS
<1>4. ASSUME NEW s \in Seq(S), NEW t \in Seq(S), Has(s) \/ Has(t) PROVE Has(s \o t)
  <2>1. /\ Len(s \o t) = Len(s) + Len(t) /\ Len(s) \in Nat /\ Len(t) \in Nat
        /\ \A k \in 1..Len(s) : (s \o t)[k] = s[k]
        /\ \A k \in 1..Len(t) : (s \o t)[Len(s) + k] = t[k]
    BY ConcatFacts
  <2>2. CASE Has(s)
    BY <2>1, <2>2
  <2>3. CASE Has(t)
    <3>1. PICK k \in 1..Len(t) : t[k] = x
      BY <2>3
    <3>2. Len(s) + k \in 1..Len(s \o t)
      BY <2>1
    <3> QED BY <2>1, <3>1, <3>2
  <2> QED BY <1>4, <2>2, <2>3
<1> HIDE DEF Has
<1>5. 0 \in G
  OBVIOUS
<1>6. ASSUME NEW m \in Nat, m \in G PROVE m + 1 \in G
  <2> SUFFICES ASSUME m + 1 <= Len(seqs), i <= m + 1 PROVE Has(f[m + 1])
    OBVIOUS
  <2>1. m + 1 \in 1..Len(seqs) /\ (m + 1) - 1 = m /\ m \in 0..Len(seqs)
    BY <1>1
  <2>2. f[m + 1] = f[m] \o seqs[m + 1] /\ f[m] \in Seq(S) /\ seqs[m + 1] \in Seq(S)
    BY <1>1, <1>2, <2>1
  <2>3. Has(f[m]) \/ Has(seqs[m + 1])
    BY <1>3, <1>6, <2>1
  <2> QED BY <1>4, <2>2, <2>3
<1> HIDE DEF G
<1>7. Nat \subseteq G
  BY <1>5, <1>6, NatInduct
<1>8. Has(f[Len(seqs)])
  <2>1. Len(seqs) \in G
    BY <1>1, <1>7
  <2>2. Len(seqs) <= Len(seqs) /\ i <= Len(seqs)
    BY <1>1
  <2> QED BY <2>1, <2>2 DEF G
<1> QED BY <1>2, <1>8 DEF Has

\* The members that Under keeps are those with the name.
LEMMA UnderMembers ==
  ASSUME NEW S, NEW n
  PROVE  \A s \in Seq(S) : Under(s, n) \in Seq({x \in S : x.name = n})
<1> DEFINE N == {x \in S : x.name = n}
           G == {s \in Seq(S) : Under(s, n) \in Seq(N)}
<1>1. <<>> \in G
  <2>1. <<>> \in Seq(S) /\ <<>> \in Seq(N)
    OBVIOUS
  <2> QED BY <2>1, UnderEmpty
<1>2. ASSUME NEW s \in Seq(S), NEW x \in S, s \in G PROVE Append(s, x) \in G
  <2>1. Append(s, x) \in Seq(S) /\ Under(s, n) \in Seq(N)
    BY <1>2
  <2>2. CASE x.name = n
    <3>1. Under(Append(s, x), n) = Append(Under(s, n), x) /\ x \in N
      BY <2>2, UnderAppend
    <3> HIDE DEF N
    <3> QED BY <2>1, <3>1
  <2>3. CASE x.name # n
    <3>1. Under(Append(s, x), n) = Under(s, n)
      BY <2>3, UnderAppend
    <3> QED BY <2>1, <3>1
  <2> QED BY <2>2, <2>3
<1> HIDE DEF G
<1>3. Seq(S) \subseteq G
  BY <1>1, <1>2, SeqInduct
<1> QED BY <1>3 DEF G

\* Pair makes updates of the shoulds: of the resources get() found under their
\* name or, when there are none, of a blank one.
LEMMA PairType ==
  ASSUME NEW W, NEW R, NEW U, NEW Attr, NEW shoulds \in Seq(W), NEW iss \in Seq(R),
         \A w \in W : \/ \E j \in 1..Len(iss) : iss[j].name = w.name
                      \/ Update(Blank(w.name, Attr), w) \in U,
         \A w \in W, r \in R : r.name # w.name \/ Update(r, w) \in U
  PROVE  Pair(shoulds, iss, Attr) \in Seq(U)
<1> DEFINE same(i) == Under(iss, shoulds[i].name)
           part(i) == IF same(i) = <<>> THEN <<Update(Blank(shoulds[i].name, Attr), shoulds[i])>>
                      ELSE [j \in DOMAIN same(i) |-> Update(same(i)[j], shoulds[i])]
           parts == [i \in DOMAIN shoulds |-> part(i)]
<1>1. \A i \in DOMAIN shoulds : shoulds[i] \in W
  OBVIOUS
<1>2. ASSUME NEW i \in DOMAIN shoulds PROVE part(i) \in Seq(U)
  <2>1. shoulds[i] \in W
    BY <1>1
  <2>2. CASE same(i) = <<>>
    <3>1. PositionsOf(iss, shoulds[i].name) = {}
      BY <2>2, UnderNone
    <3>2. ~ \E j \in 1..Len(iss) : iss[j].name = shoulds[i].name
      BY <3>1 DEF PositionsOf
    <3>3. Update(Blank(shoulds[i].name, Attr), shoulds[i]) \in U
      BY <2>1, <3>2
    <3>4. \A u \in U : <<u>> \in Seq(U)
      OBVIOUS
    <3> QED BY <2>2, <3>3, <3>4
  <2>3. CASE same(i) # <<>>
    <3> DEFINE t == same(i)
               N == {x \in R : x.name = shoulds[i].name}
    <3>1. t \in Seq(N)
      BY UnderMembers
    <3> HIDE DEF t, N
    <3>2. DOMAIN t = 1..Len(t) /\ Len(t) \in Nat /\ \A j \in 1..Len(t) : t[j] \in N
      BY <3>1
    <3>3. \A j \in 1..Len(t) : Update(t[j], shoulds[i]) \in U
      BY <2>1, <3>2 DEF N
    <3> DEFINE up(j) == Update(t[j], shoulds[i])
    <3> HIDE DEF up
    <3>4. [j \in DOMAIN t |-> up(j)] \in Seq(U)
      BY <3>2, <3>3 DEF up
    <3> QED BY <2>3, <3>4 DEF up, t
  <2> QED BY <2>2, <2>3
<1>3. Pair(shoulds, iss, Attr) = FlattenSeq(parts)
  BY DEF Pair
<1> HIDE DEF part
<1>4. DOMAIN shoulds = 1..Len(shoulds) /\ Len(shoulds) \in Nat
  OBVIOUS
<1>5. parts \in Seq(Seq(U))
  BY <1>2, <1>4
<1> QED BY <1>3, <1>5, FlattenType

\* No should is without an update.
LEMMA PairHolds ==
  ASSUME NEW W, NEW R, NEW Attr, NEW shoulds \in Seq(W), NEW iss \in Seq(R),
         NEW i \in 1..Len(shoulds)
  PROVE  \E k \in 1..Len(Pair(shoulds, iss, Attr)) : Pair(shoulds, iss, Attr)[k].should = shoulds[i]
<1> DEFINE U == [is: R \cup {Blank(w.name, Attr) : w \in W}, should: W]
           same(h) == Under(iss, shoulds[h].name)
           part(h) == IF same(h) = <<>> THEN <<Update(Blank(shoulds[h].name, Attr), shoulds[h])>>
                      ELSE [j \in DOMAIN same(h) |-> Update(same(h)[j], shoulds[h])]
           parts == [h \in DOMAIN shoulds |-> part(h)]
<1>1. \A h \in DOMAIN shoulds : shoulds[h] \in W /\ same(h) \in Seq(R)
  BY UnderType
<1>2. ASSUME NEW h \in DOMAIN shoulds
      PROVE  part(h) \in Seq(U) /\ Len(part(h)) \in Nat \ {0} /\ part(h)[1].should = shoulds[h]
  <2>1. shoulds[h] \in W
    BY <1>1
  <2>2. CASE same(h) = <<>>
    <3> DEFINE b == Update(Blank(shoulds[h].name, Attr), shoulds[h])
    <3>1. b \in U /\ b.should = shoulds[h]
      BY <2>1 DEF Update
    <3>2. part(h) = <<b>>
      BY <2>2
    <3> HIDE DEF b, U, part
    <3> QED BY <3>1, <3>2
  <2>3. CASE same(h) # <<>>
    <3> DEFINE t == same(h)
               up(j) == Update(t[j], shoulds[h])
               p == [j \in DOMAIN t |-> up(j)]
    <3>1. t \in Seq(R)
      BY <1>1
    <3>2. part(h) = p /\ t # <<>>
      BY <2>3
    <3> HIDE DEF t, part
    <3>3. DOMAIN t = 1..Len(t) /\ Len(t) \in Nat \ {0} /\ \A j \in 1..Len(t) : t[j] \in R
      BY <3>1, <3>2
    <3>4. \A j \in 1..Len(t) : up(j) \in U /\ up(j).should = shoulds[h]
      BY <2>1, <3>3 DEF Update
    <3> HIDE DEF up, U
    <3>5. p \in Seq(U) /\ Len(p) = Len(t) /\ p[1] = up(1) /\ 1 \in 1..Len(t)
      BY <3>3, <3>4
    <3> QED BY <3>2, <3>3, <3>4, <3>5
  <2> QED BY <2>2, <2>3
<1>3. Pair(shoulds, iss, Attr) = FlattenSeq(parts)
  BY DEF Pair
<1> HIDE DEF part, U
<1>4. DOMAIN shoulds = 1..Len(shoulds) /\ Len(shoulds) \in Nat
  OBVIOUS
<1>5. parts \in Seq(Seq(U)) /\ Len(parts) = Len(shoulds) /\ parts[i] = part(i)
  BY <1>2, <1>4
<1>6. i \in 1..Len(parts) /\ 1 \in 1..Len(parts[i])
  BY <1>2, <1>4, <1>5
<1> HIDE DEF parts
<1>7. \A j \in 1..Len(parts[i]) :
        \E k \in 1..Len(FlattenSeq(parts)) : FlattenSeq(parts)[k] = parts[i][j]
  BY <1>5, <1>6, FlattenHolds
<1>8. \E k \in 1..Len(FlattenSeq(parts)) : FlattenSeq(parts)[k] = part(i)[1]
  BY <1>5, <1>6, <1>7
<1>9. part(i)[1].should = shoulds[i]
  BY <1>2, <1>4
<1> QED BY <1>3, <1>8, <1>9

\* The parts that AddAbsent makes for the first names.
IsAdded(f, rsrcs, names, Attr) ==
  f = [i \in 0..Len(names) |->
         IF i = 0 THEN rsrcs
         ELSE IF \E j \in DOMAIN f[i - 1] : f[i - 1][j].name = names[i] THEN f[i - 1]
         ELSE Append(f[i - 1], Resource(names[i], [Blank(names[i], Attr).attrs
                                                     EXCEPT !["ensure"] = "absent"]))]

LEMMA AddedDef ==
  ASSUME NEW rsrcs, NEW names, NEW Attr
  PROVE  AddAbsent(rsrcs, names, Attr) =
           (CHOOSE f : IsAdded(f, rsrcs, names, Attr))[Len(names)]
BY DEF AddAbsent, IsAdded

\* AddAbsent adds only resources of the kind an absent name has.
LEMMA AddAbsentType ==
  ASSUME NEW R, NEW N, NEW Attr, NEW rsrcs \in Seq(R), NEW names \in Seq(N),
         \A n \in N : Resource(n, [Blank(n, Attr).attrs EXCEPT !["ensure"] = "absent"]) \in R
  PROVE  AddAbsent(rsrcs, names, Attr) \in Seq(R)
<1> DEFINE k == Len(names)
           new(i) == Resource(names[i], [Blank(names[i], Attr).attrs EXCEPT !["ensure"] = "absent"])
           add(i, acc) == IF \E j \in DOMAIN acc : acc[j].name = names[i] THEN acc
                          ELSE Append(acc, new(i))
           step == [i \in 1..k |-> [acc \in Seq(R) |-> add(i, acc)]]
<1>1. k \in Nat /\ \A i \in 1..k : names[i] \in N
  OBVIOUS
<1>2. \A i \in 1..k : new(i) \in R
  BY <1>1
<1> HIDE DEF k
<1>3. \A i \in 1..k, acc \in Seq(R) : add(i, acc) \in Seq(R)
  <2> HIDE DEF new
  <2> QED BY <1>2
<1>4. \A f : IsAdded(f, rsrcs, names, Attr) <=>
             f = [i \in 0..k |-> IF i = 0 THEN rsrcs ELSE add(i, f[i - 1])]
  BY DEF IsAdded, k
<1> HIDE DEF add
<1>5. step \in [1..k -> [Seq(R) -> Seq(R)]] /\ \A i \in 1..k, acc \in Seq(R) : step[i][acc] = add(i, acc)
  BY <1>3
<1> HIDE DEF step
<1>6. PICK g \in [0..k -> Seq(R)] : g[0] = rsrcs /\ \A i \in 1..k : g[i] = step[i][g[i - 1]]
  <2> DEFINE T == Seq(R)
  <2>1. rsrcs \in T /\ k \in Nat /\ step \in StepsOf(T, k)
    BY <1>1, <1>5 DEF StepsOf
  <2> HIDE DEF T
  <2>2. \E g : IsFold(g, T, rsrcs, k, step)
    BY <2>1, FoldExists
  <2> QED BY <2>2 DEF IsFold, T
<1>7. g = [i \in 0..k |-> IF i = 0 THEN rsrcs ELSE add(i, g[i - 1])]
  <2>1. ASSUME NEW i \in 0..k PROVE g[i] = IF i = 0 THEN rsrcs ELSE add(i, g[i - 1])
    <3>1. CASE i = 0
      BY <1>6, <3>1
    <3>2. CASE i # 0
      <4>1. i \in 1..k /\ i - 1 \in 0..k
        BY <1>1, <3>2
      <4>2. g[i - 1] \in Seq(R)
        BY <4>1
      <4> QED BY <1>5, <1>6, <3>2, <4>1, <4>2
    <3> QED BY <3>1, <3>2
  <2> QED BY <2>1
<1> DEFINE f == CHOOSE h : IsAdded(h, rsrcs, names, Attr)
<1>8. IsAdded(f, rsrcs, names, Attr)
  BY <1>4, <1>7
<1>9. AddAbsent(rsrcs, names, Attr) = f[k]
  BY AddedDef DEF k
<1> HIDE DEF f
<1>10. f[0] = rsrcs /\ \A i \in 1..k : f[i] = add(i, f[i - 1])
  <2> DEFINE body(i) == IF i = 0 THEN rsrcs ELSE add(i, f[i - 1])
  <2>1. f = [i \in 0..k |-> body(i)]
    BY <1>4, <1>8
  <2> HIDE DEF body
  <2>2. \A i \in 0..k : f[i] = body(i)
    BY <2>1
  <2>3. 0 \in 0..k /\ \A i \in 1..k : i \in 0..k /\ i # 0
    BY <1>1
  <2> QED BY <2>2, <2>3 DEF body
<1> DEFINE G == {m \in Nat : m <= k => f[m] \in Seq(R)}
<1>11. 0 \in G
  BY <1>10
<1>12. ASSUME NEW m \in Nat, m \in G PROVE m + 1 \in G
  <2>1. m + 1 <= k => m + 1 \in 1..k /\ (m + 1) - 1 = m /\ m <= k
    BY <1>1
  <2> QED BY <1>3, <1>10, <1>12, <2>1
<1> HIDE DEF G
<1>13. Nat \subseteq G
  BY <1>11, <1>12, NatInduct
<1> QED BY <1>1, <1>9, <1>13 DEF G

\* The attributes that MaybeAdd goes through, and the lists it makes.
DueAttrs(attrs, upd) == IF Desired(upd, "ensure") = "absent" THEN <<"ensure">> ELSE attrs

Missing(c, a, upd) == IF Exists(c, a) THEN c ELSE AddDiff(c, a, upd)

AreMissing(f, c, due, upd) ==
  f = [i \in 0..Len(due) |-> IF i = 0 THEN c ELSE Missing(f[i - 1], due[i], upd)]

LEMMA MissingDef ==
  ASSUME NEW c, NEW attrs, NEW upd
  PROVE  MaybeAdd(c, attrs, upd) =
           (CHOOSE f : AreMissing(f, c, DueAttrs(attrs, upd), upd))[Len(DueAttrs(attrs, upd))]
BY DEF MaybeAdd, AreMissing, DueAttrs, Missing

\* The change that an update makes to an attribute.
Diff(upd, a) == Change(a, upd.should.attrs[a], upd.is.attrs[a])

LEMMA MissingFacts ==
  ASSUME NEW T, NEW c \in Seq(T), NEW a, NEW upd, Changed(upd, a) => Diff(upd, a) \in T
  PROVE  /\ Missing(c, a, upd) \in Seq(T)
         /\ \A b : Exists(c, b) => Exists(Missing(c, a, upd), b)
         /\ Changed(upd, a) => Exists(Missing(c, a, upd), a)
<1>1. CASE Exists(c, a) \/ ~ Changed(upd, a)
  BY <1>1 DEF Missing, AddDiff
<1>2. CASE ~ Exists(c, a) /\ Changed(upd, a)
  <2> DEFINE x == Diff(upd, a)
             d == Append(c, x)
  <2>1. Missing(c, a, upd) = d /\ x \in T /\ x.attr = a
    BY <1>2 DEF Missing, AddDiff, Diff, Change
  <2> HIDE DEF x
  <2>2. /\ d \in Seq(T) /\ Len(d) = Len(c) + 1 /\ Len(c) \in Nat /\ d[Len(c) + 1] = x
        /\ \A i \in 1..Len(c) : d[i] = c[i]
    BY <2>1, SeqParts
  <2>3. DOMAIN c = 1..Len(c) /\ DOMAIN d = 1..Len(d)
    BY <2>2
  <2> HIDE DEF d
  <2>4. \A b : Exists(c, b) => Exists(d, b)
    BY <2>2, <2>3 DEF Exists
  <2>5. Exists(d, a)
    <3>1. Len(c) + 1 \in DOMAIN d
      BY <2>2, <2>3
    <3> QED BY <2>1, <2>2, <3>1 DEF Exists
  <2> QED BY <2>1, <2>2, <2>4, <2>5
<1> QED BY <1>1, <1>2

\* MaybeAdd keeps what is on record and puts every difference on record.
LEMMA MaybeAddFacts ==
  ASSUME NEW T, NEW c \in Seq(T), NEW A, "ensure" \in A, NEW attrs \in Seq(A), NEW upd,
         \A a \in A : Changed(upd, a) => Diff(upd, a) \in T
  PROVE  LET m == MaybeAdd(c, attrs, upd)
             due == DueAttrs(attrs, upd)
         IN  /\ m \in Seq(T)
             /\ \A a : Exists(c, a) => Exists(m, a)
             /\ \A i \in 1..Len(due) : Changed(upd, due[i]) => Exists(m, due[i])
<1> DEFINE due == DueAttrs(attrs, upd)
           k == Len(due)
           step == [i \in 1..k |-> [d \in Seq(T) |-> Missing(d, due[i], upd)]]
<1>1. due \in Seq(A)
  BY DEF DueAttrs
<1> HIDE DEF due
<1>2. k \in Nat /\ \A i \in 1..k : due[i] \in A
  BY <1>1
<1>3. \A i \in 1..k, d \in Seq(T) :
        /\ Missing(d, due[i], upd) \in Seq(T)
        /\ \A b : Exists(d, b) => Exists(Missing(d, due[i], upd), b)
        /\ Changed(upd, due[i]) => Exists(Missing(d, due[i], upd), due[i])
  BY <1>2, MissingFacts
<1>4. \A f : AreMissing(f, c, due, upd) <=>
             f = [i \in 0..k |-> IF i = 0 THEN c ELSE Missing(f[i - 1], due[i], upd)]
  BY DEF AreMissing
<1> HIDE DEF k
<1>5. step \in [1..k -> [Seq(T) -> Seq(T)]] /\ \A i \in 1..k, d \in Seq(T) : step[i][d] = Missing(d, due[i], upd)
  BY <1>3
<1> HIDE DEF step
<1>6. PICK g \in [0..k -> Seq(T)] : g[0] = c /\ \A i \in 1..k : g[i] = step[i][g[i - 1]]
  <2> DEFINE S == Seq(T)
  <2>1. c \in S /\ k \in Nat /\ step \in StepsOf(S, k)
    BY <1>2, <1>5 DEF StepsOf
  <2> HIDE DEF S
  <2>2. \E g : IsFold(g, S, c, k, step)
    BY <2>1, FoldExists
  <2> QED BY <2>2 DEF IsFold, S
<1>7. g = [i \in 0..k |-> IF i = 0 THEN c ELSE Missing(g[i - 1], due[i], upd)]
  <2>1. ASSUME NEW i \in 0..k PROVE g[i] = IF i = 0 THEN c ELSE Missing(g[i - 1], due[i], upd)
    <3>1. CASE i = 0
      BY <1>6, <3>1
    <3>2. CASE i # 0
      <4>1. i \in 1..k /\ i - 1 \in 0..k
        BY <1>2, <3>2
      <4>2. g[i - 1] \in Seq(T)
        BY <4>1
      <4> QED BY <1>5, <1>6, <3>2, <4>1, <4>2
    <3> QED BY <3>1, <3>2
  <2> QED BY <2>1
<1> DEFINE f == CHOOSE h : AreMissing(h, c, due, upd)
<1>8. AreMissing(f, c, due, upd)
  BY <1>4, <1>7
<1>9. MaybeAdd(c, attrs, upd) = f[k]
  BY MissingDef DEF k, due
<1> HIDE DEF f
<1>10. f[0] = c /\ \A i \in 1..k : f[i] = Missing(f[i - 1], due[i], upd)
  <2> DEFINE body(i) == IF i = 0 THEN c ELSE Missing(f[i - 1], due[i], upd)
  <2>1. f = [i \in 0..k |-> body(i)]
    BY <1>4, <1>8
  <2> HIDE DEF body
  <2>2. \A i \in 0..k : f[i] = body(i)
    BY <2>1
  <2>3. 0 \in 0..k /\ \A i \in 1..k : i \in 0..k /\ i # 0
    BY <1>2
  <2> QED BY <2>2, <2>3 DEF body
<1> DEFINE Good(m) == /\ f[m] \in Seq(T)
                      /\ \A a : Exists(c, a) => Exists(f[m], a)
                      /\ \A i \in 1..m : Changed(upd, due[i]) => Exists(f[m], due[i])
           G == {m \in Nat : m <= k => Good(m)}
<1>11. 0 \in G
  BY <1>10
<1>12. ASSUME NEW m \in Nat, m \in G PROVE m + 1 \in G
  <2> SUFFICES ASSUME m + 1 <= k PROVE Good(m + 1)
    OBVIOUS
  <2>1. m + 1 \in 1..k /\ (m + 1) - 1 = m /\ m <= k /\ \A i \in 1..m + 1 : i = m + 1 \/ i \in 1..m
    BY <1>2
  <2>2. Good(m) /\ f[m + 1] = Missing(f[m], due[m + 1], upd)
    BY <1>10, <1>12, <2>1
  <2> QED BY <1>3, <2>1, <2>2
<1> HIDE DEF G
<1>13. Nat \subseteq G
  BY <1>11, <1>12, NatInduct
<1>14. Good(k)
  BY <1>2, <1>13 DEF G
<1> QED BY <1>9, <1>14 DEF k, due

-----------------------------------------------------------------------------
(* The tree of a table file.  T is a set of nodes. *)

\* The lines that a set of nodes has as text.
TextOf(T) == {Entry(x.name, x.data) : x \in T}

\* The text of a tree has one line per node.
LEMMA TextType ==
  ASSUME NEW T, NEW t \in Seq(T)
  PROVE  /\ Text(t) \in Seq(TextOf(T)) /\ Len(Text(t)) = Len(t)
         /\ \A i \in 1..Len(t) : Text(t)[i] = Entry(t[i].name, t[i].data) /\ Text(t)[i].name = t[i].name
         /\ \A n : PositionsOf(Text(t), n) = Matches(t, n)
<1>1. DOMAIN t = 1..Len(t) /\ Len(t) \in Nat /\ \A i \in 1..Len(t) : t[i] \in T
  OBVIOUS
<1>2. \A i \in 1..Len(t) : Entry(t[i].name, t[i].data) \in TextOf(T)
  BY <1>1 DEF TextOf
<1>3. Text(t) = [i \in 1..Len(t) |-> Entry(t[i].name, t[i].data)]
  BY <1>1 DEF Text
<1>4. Text(t) \in Seq(TextOf(T)) /\ Len(Text(t)) = Len(t)
  BY <1>1, <1>2, <1>3
<1>5. \A i \in 1..Len(t) : Text(t)[i] = Entry(t[i].name, t[i].data) /\ Text(t)[i].name = t[i].name
  BY <1>3 DEF Entry
<1>6. \A n : PositionsOf(Text(t), n) = Matches(t, n)
  BY <1>1, <1>4, <1>5 DEF PositionsOf, Matches
<1> QED BY <1>4, <1>5, <1>6

\* A name has no line in the text when no node matches it, one when one does.
LEMMA TextMatches ==
  ASSUME NEW T, NEW t \in Seq(T), NEW n
  PROVE  /\ Under(Text(t), n) = <<>> <=> Matches(t, n) = {}
         /\ IsFiniteSet(Matches(t, n)) /\ Len(Under(Text(t), n)) = Cardinality(Matches(t, n))
         /\ \A i : Matches(t, n) = {i} => Under(Text(t), n) = <<Entry(n, t[i].data)>>
<1>1. Text(t) \in Seq(TextOf(T)) /\ PositionsOf(Text(t), n) = Matches(t, n)
  BY TextType
<1>2. Under(Text(t), n) = <<>> <=> Matches(t, n) = {}
  BY <1>1, UnderNone
<1>3. IsFiniteSet(Matches(t, n)) /\ Len(Under(Text(t), n)) = Cardinality(Matches(t, n))
  BY <1>1, UnderLength
<1>4. ASSUME NEW i, Matches(t, n) = {i} PROVE Under(Text(t), n) = <<Entry(n, t[i].data)>>
  <2>1. Under(Text(t), n) = <<Text(t)[i]>>
    BY <1>1, <1>4, UnderOne
  <2>2. i \in 1..Len(t) /\ t[i].name = n
    BY <1>4 DEF Matches
  <2> QED BY <2>1, <2>2, TextType
<1> QED BY <1>2, <1>3, <1>4

\* A tree just loaded reads as the file.
LEMMA TextLoaded ==
  ASSUME NEW F, NEW T, NEW file \in Seq(F),
         \A e \in F : Node(e.name, e.data, TRUE) \in T /\ Entry(e.name, e.data) = e
  PROVE  Text(Loaded(file)) = file /\ Loaded(file) \in Seq(T)
<1>1. DOMAIN file = 1..Len(file) /\ Len(file) \in Nat /\ \A i \in 1..Len(file) : file[i] \in F
  OBVIOUS
<1>2. \A i \in 1..Len(file) : Node(file[i].name, file[i].data, TRUE) \in T
  BY <1>1
<1>3. Loaded(file) = [i \in 1..Len(file) |-> Node(file[i].name, file[i].data, TRUE)]
  BY <1>1 DEF Loaded
<1>4. Loaded(file) \in Seq(T) /\ Len(Loaded(file)) = Len(file)
  <2> DEFINE node(i) == Node(file[i].name, file[i].data, TRUE)
  <2>1. \A i \in 1..Len(file) : node(i) \in T
    BY <1>2
  <2>2. Loaded(file) = [i \in 1..Len(file) |-> node(i)]
    BY <1>3
  <2> HIDE DEF node
  <2> QED BY <1>1, <2>1, <2>2
<1>5. Text(Loaded(file)) = [i \in 1..Len(file) |-> Entry(file[i].name, file[i].data)]
  BY <1>1, <1>3 DEF Text, Node
<1>6. \A i \in 1..Len(file) : Entry(file[i].name, file[i].data) = file[i]
  BY <1>1
<1>7. Text(Loaded(file)) = file
  BY <1>1, <1>5, <1>6
<1> QED BY <1>4, <1>7

\* AppendNode adds one line.
LEMMA TextAppend ==
  ASSUME NEW T, NEW t \in Seq(T), NEW m, NEW d, NEW garbage, Node(m, d, ~ garbage) \in T
  PROVE  /\ AppendNode(t, m, d, garbage) \in Seq(T)
         /\ Under(Text(AppendNode(t, m, d, garbage)), m) = Append(Under(Text(t), m), Entry(m, d))
         /\ Matches(AppendNode(t, m, d, garbage), m) = Matches(t, m) \cup {Len(t) + 1}
         /\ \A n : n # m => Under(Text(AppendNode(t, m, d, garbage)), n) = Under(Text(t), n)
         /\ \A n : n # m => Matches(AppendNode(t, m, d, garbage), n) = Matches(t, n)
         /\ AppendNode(t, m, d, garbage)[Len(t) + 1] = Node(m, d, ~ garbage)
<1> DEFINE x == Node(m, d, ~ garbage)
           w == Append(t, x)
<1>1. /\ w \in Seq(T) /\ Len(w) = Len(t) + 1 /\ Len(t) \in Nat /\ w[Len(t) + 1] = x
      /\ (\A i \in 1..Len(t) : w[i] = t[i]) /\ 1..Len(t) + 1 = 1..Len(t) \cup {Len(t) + 1}
      /\ DOMAIN w = 1..Len(w) /\ DOMAIN t = 1..Len(t)
  OBVIOUS
<1>2. AppendNode(t, m, d, garbage) = w
  BY DEF AppendNode
<1>3. x.name = m /\ x.data = d
  BY DEF Node
<1>9. x \in T
  OBVIOUS
<1> HIDE DEF x, w
<1>4. /\ Text(t) \in Seq(TextOf(T)) /\ Len(Text(t)) = Len(t)
      /\ \A i \in 1..Len(t) : Text(t)[i] = Entry(t[i].name, t[i].data)
  BY TextType
<1>5. /\ Text(w) \in Seq(TextOf(T)) /\ Len(Text(w)) = Len(w)
      /\ \A i \in 1..Len(w) : Text(w)[i] = Entry(w[i].name, w[i].data)
  BY <1>1, TextType
<1>6. Entry(m, d) \in TextOf(T) /\ Entry(m, d).name = m
  BY <1>3, <1>9 DEF TextOf, Entry
<1>7. Text(w) = Append(Text(t), Entry(m, d))
  <2> DEFINE v == Append(Text(t), Entry(m, d))
  <2>1. /\ v \in Seq(TextOf(T)) /\ Len(v) = Len(t) + 1 /\ v[Len(t) + 1] = Entry(m, d)
        /\ \A i \in 1..Len(t) : v[i] = Text(t)[i]
    BY <1>4, <1>6
  <2> HIDE DEF v
  <2>2. \A i \in 1..Len(w) : Text(w)[i] = v[i]
    BY <1>1, <1>3, <1>4, <1>5, <2>1
  <2>3. Text(w) = v
    BY <1>1, <1>5, <2>1, <2>2
  <2> QED BY <2>3 DEF v
<1>8. \A n : Under(Text(w), n) = IF m = n THEN Append(Under(Text(t), n), Entry(m, d)) ELSE Under(Text(t), n)
  BY <1>4, <1>6, <1>7, UnderAppend
<1>10. \A n : Matches(w, n) = IF m = n THEN Matches(t, n) \cup {Len(t) + 1} ELSE Matches(t, n)
  BY <1>1, <1>3 DEF Matches
<1> QED BY <1>1, <1>2, <1>8, <1>10 DEF x

\* Rm removes the lines of one name.
LEMMA TextRm ==
  ASSUME NEW T, NEW m
  PROVE  \A t \in Seq(T) : Rm(t, m) \in Seq(T) /\ Text(Rm(t, m)) = Without(Text(t), m)
<1> DEFINE G == {t \in Seq(T) : Text(Without(t, m)) = Without(Text(t), m)}
<1>1. <<>> \in G
  <2>1. Text(<<>>) = <<>>
    BY DEF Text
  <2> QED BY <2>1, UnderEmpty
<1>2. ASSUME NEW t \in Seq(T), NEW x \in T, t \in G PROVE Append(t, x) \in G
  <2> DEFINE e == Entry(x.name, x.data)
  <2>1. ASSUME NEW s \in Seq(T) PROVE Text(Append(s, x)) = Append(Text(s), e)
    <3>1. Append(s, x) \in Seq(T) /\ Len(Append(s, x)) = Len(s) + 1 /\ Len(s) \in Nat
          /\ Append(s, x)[Len(s) + 1] = x /\ \A i \in 1..Len(s) : Append(s, x)[i] = s[i]
      BY SeqParts
    <3>2. /\ Text(s) \in Seq(TextOf(T)) /\ Len(Text(s)) = Len(s)
          /\ \A i \in 1..Len(s) : Text(s)[i] = Entry(s[i].name, s[i].data)
      BY TextType
    <3>3. /\ Text(Append(s, x)) \in Seq(TextOf(T)) /\ Len(Text(Append(s, x))) = Len(s) + 1
          /\ \A i \in 1..Len(s) + 1 : Text(Append(s, x))[i]
                = Entry(Append(s, x)[i].name, Append(s, x)[i].data)
      BY <3>1, TextType
    <3>4. e \in TextOf(T)
      BY DEF TextOf
    <3> DEFINE v == Append(Text(s), e)
               w == Append(s, x)
    <3> HIDE DEF e
    <3>5. /\ v \in Seq(TextOf(T)) /\ Len(v) = Len(s) + 1 /\ v[Len(s) + 1] = e
          /\ \A i \in 1..Len(s) : v[i] = Text(s)[i]
      BY <3>2, <3>4
    <3> HIDE DEF v, w
    <3>6. Text(w)[Len(s) + 1] = e
      BY <3>1, <3>3 DEF e, w
    <3>7. \A i \in 1..Len(s) + 1 : Text(w)[i] = v[i]
      BY <3>1, <3>2, <3>3, <3>5, <3>6 DEF w
    <3>8. Text(w) = v
      BY <3>3, <3>5, <3>7 DEF w
    <3> QED BY <3>8 DEF v, w
  <2>2. /\ Without(t, m) \in Seq(T)
        /\ Without(Append(t, x), m) = IF x.name = m THEN Without(t, m) ELSE Append(Without(t, m), x)
    BY UnderAppend
  <2>3. Text(t) \in Seq(TextOf(T)) /\ e \in TextOf(T) /\ e.name = x.name
    BY TextType DEF TextOf, Entry
  <2> HIDE DEF e
  <2>4. Without(Append(Text(t), e), m) = IF e.name = m THEN Without(Text(t), m) ELSE Append(Without(Text(t), m), e)
    BY <2>3, UnderAppend
  <2>5. Text(Append(t, x)) = Append(Text(t), e) /\ Text(Append(Without(t, m), x)) = Append(Text(Without(t, m)), e)
    BY <2>1, <2>2
  <2>6. Append(t, x) \in Seq(T)
    OBVIOUS
  <2>7. Text(Without(Append(t, x), m)) = Without(Text(Append(t, x)), m)
    BY <1>2, <2>2, <2>3, <2>4, <2>5
  <2> QED BY <2>6, <2>7
<1> HIDE DEF G
<1>3. Seq(T) \subseteq G
  BY <1>1, <1>2, SeqInduct
<1> QED BY <1>3, UnderType DEF G, Rm

LEMMA LinesAfterRm ==
  ASSUME NEW T, NEW t \in Seq(T), NEW m
  PROVE  /\ Rm(t, m) \in Seq(T)
         /\ Under(Text(Rm(t, m)), m) = <<>>
         /\ \A n : n # m => Under(Text(Rm(t, m)), n) = Under(Text(t), n)
         /\ \A n : n # m => (Matches(Rm(t, m), n) = {} <=> Matches(t, n) = {})
<1>1. Rm(t, m) \in Seq(T) /\ Text(Rm(t, m)) = Without(Text(t), m)
  BY TextRm
<1>2. Text(t) \in Seq(TextOf(T))
  BY TextType
<1>3. \A n : Under(Text(Rm(t, m)), n) = IF m = n THEN <<>> ELSE Under(Text(t), n)
  BY <1>1, <1>2, UnderWithout
<1>4. ASSUME NEW n, n # m
      PROVE  /\ Under(Text(Rm(t, m)), n) = Under(Text(t), n)
             /\ Matches(Rm(t, m), n) = {} <=> Matches(t, n) = {}
  <2>1. Under(Text(Rm(t, m)), n) = Under(Text(t), n)
    BY <1>3, <1>4
  <2> QED BY <1>1, <2>1, TextMatches
<1> QED BY <1>1, <1>3, <1>4

\* Erase takes the lines of one name away and leaves nodes that no lens puts.
LEMMA LinesAfterErase ==
  ASSUME NEW T, NEW t \in Seq(T), \A x \in T : Node(None, None, x.numbered) \in T, NEW m
  PROVE  /\ Erase(t, m) \in Seq(T)
         /\ m # None => Under(Text(Erase(t, m)), m) = <<>> /\ Matches(Erase(t, m), m) = {}
         /\ \A n : n # None /\ n # m => Under(Text(Erase(t, m)), n) = Under(Text(t), n)
         /\ Matches(Erase(t, m), None) = {} => Matches(t, m) = {} /\ Matches(t, None) = {}
         /\ Matches(t, m) = {} => Erase(t, m) = t
<1>1. DOMAIN t = 1..Len(t) /\ Len(t) \in Nat /\ \A i \in 1..Len(t) : t[i] \in T
  OBVIOUS
<1> DEFINE w == Erase(t, m)
<1>2. w = [i \in 1..Len(t) |-> IF t[i].name = m THEN Node(None, None, t[i].numbered) ELSE t[i]]
  BY <1>1 DEF Erase
<1>3. w \in Seq(T) /\ Len(w) = Len(t) /\ DOMAIN w = 1..Len(t)
  BY <1>1, <1>2
<1>4. \A i \in 1..Len(t) : (t[i].name = m => w[i].name = None) /\ (t[i].name # m => w[i] = t[i])
  BY <1>2 DEF Node
<1> HIDE DEF w
<1>5. m # None => Matches(w, m) = {}
  BY <1>3, <1>4 DEF Matches
<1>6. Matches(w, None) = {} => Matches(t, m) = {} /\ Matches(t, None) = {}
  BY <1>1, <1>3, <1>4 DEF Matches
<1>7. Matches(t, m) = {} => w = t
  BY <1>1, <1>3, <1>4 DEF Matches
<1>8. ASSUME NEW n, n # None
      PROVE  Under(Text(w), n) = IF m = n THEN <<>> ELSE Under(Text(t), n)
  <2>1. CASE m = n
    BY <1>3, <1>5, <1>8, <2>1, TextMatches
  <2>2. CASE m # n
    <3>1. /\ Text(t) \in Seq(TextOf(T)) /\ Len(Text(t)) = Len(t)
          /\ \A i \in 1..Len(t) : Text(t)[i] = Entry(t[i].name, t[i].data) /\ Text(t)[i].name = t[i].name
      BY TextType
    <3>2. /\ Text(w) \in Seq(TextOf(T)) /\ Len(Text(w)) = Len(w)
          /\ \A i \in 1..Len(w) : Text(w)[i] = Entry(w[i].name, w[i].data) /\ Text(w)[i].name = w[i].name
      BY <1>3, TextType
    <3>3. SameAt(Text(t), Text(w), n)
      <4>1. ASSUME NEW i \in 1..Len(t)
            PROVE  /\ Text(t)[i].name = n <=> Text(w)[i].name = n
                   /\ Text(t)[i].name = n => Text(t)[i] = Text(w)[i]
        <5>1. CASE t[i].name = m
          BY <1>3, <1>4, <1>8, <2>2, <3>1, <3>2, <5>1
        <5>2. CASE t[i].name # m
          BY <1>3, <1>4, <3>1, <3>2, <5>2
        <5> QED BY <5>1, <5>2
      <4> QED BY <3>1, <4>1 DEF SameAt
    <3> QED BY <1>3, <2>2, <3>1, <3>2, <3>3, UnderSame
  <2> QED BY <2>1, <2>2
<1> QED BY <1>3, <1>5, <1>6, <1>7, <1>8 DEF w

\* Rewrite gives the only line of a name new data.
LEMMA LinesAfterRewrite ==
  ASSUME NEW T, NEW t \in Seq(T), NEW m, NEW i \in Matches(t, m), NEW d,
         \A j \in Matches(t, m) : j = i,
         \A x \in T : Node(m, d, x.numbered) \in T
  PROVE  /\ Rewrite(t, i, m, d) \in Seq(T)
         /\ Under(Text(Rewrite(t, i, m, d)), m) = <<Entry(m, d)>>
         /\ \A n : n # m => Under(Text(Rewrite(t, i, m, d)), n) = Under(Text(t), n)
         /\ \A n : Matches(Rewrite(t, i, m, d), n) = Matches(t, n)
         /\ Rewrite(t, i, m, d)[i].data = d
<1>1. DOMAIN t = 1..Len(t) /\ Len(t) \in Nat /\ \A j \in 1..Len(t) : t[j] \in T
  OBVIOUS
<1>2. i \in 1..Len(t) /\ t[i].name = m /\ \A j \in 1..Len(t) : t[j].name = m => j = i
  BY <1>1 DEF Matches
<1> DEFINE w == Rewrite(t, i, m, d)
<1>3. w = [t EXCEPT ![i] = Node(m, d, t[i].numbered)]
  BY DEF Rewrite
<1>4. w \in Seq(T) /\ Len(w) = Len(t) /\ DOMAIN w = 1..Len(t)
  BY <1>1, <1>2, <1>3
<1>5. w[i].name = m /\ w[i].data = d /\ \A j \in 1..Len(t) : j # i => w[j] = t[j]
  BY <1>1, <1>2, <1>3 DEF Node
<1> HIDE DEF w
<1>6. \A n : Matches(w, n) = Matches(t, n)
  BY <1>1, <1>2, <1>4, <1>5 DEF Matches
<1>7. ASSUME NEW n
      PROVE  Under(Text(w), n) = IF m = n THEN <<Entry(m, d)>> ELSE Under(Text(t), n)
  <2>1. CASE m = n
    <3>1. Matches(w, m) = {i}
      BY <1>6
    <3> QED BY <1>4, <1>5, <2>1, <3>1, TextMatches
  <2>2. CASE m # n
    <3>1. /\ Text(t) \in Seq(TextOf(T)) /\ Len(Text(t)) = Len(t)
          /\ \A j \in 1..Len(t) : Text(t)[j] = Entry(t[j].name, t[j].data) /\ Text(t)[j].name = t[j].name
      BY TextType
    <3>2. /\ Text(w) \in Seq(TextOf(T)) /\ Len(Text(w)) = Len(w)
          /\ \A j \in 1..Len(w) : Text(w)[j] = Entry(w[j].name, w[j].data) /\ Text(w)[j].name = w[j].name
      BY <1>4, TextType
    <3>3. SameAt(Text(t), Text(w), n)
      BY <1>2, <1>4, <1>5, <2>2, <3>1, <3>2 DEF SameAt
    <3> QED BY <1>4, <2>2, <3>1, <3>2, <3>3, UnderSame
  <2> QED BY <2>1, <2>2
<1> QED BY <1>4, <1>5, <1>6, <1>7 DEF w
=============================================================================
