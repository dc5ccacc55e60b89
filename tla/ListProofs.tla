----------------------------- MODULE ListProofs ------------------------------
(* What the recursions of the models compute, for lists of every length. *)
EXTENDS Lists, SequencesExt, FiniteSetTheorems, WellFoundedInduction, TLAPS

(* A set of numbers has a least one ... *)
LEMMA Least ==
  ASSUME NEW T, T \subseteq Nat, T # {}
  PROVE  \E n \in T : \A m \in T : n <= m
<1> DEFINE R == {pair \in Nat \X Nat : pair[1] < pair[2]}
<1>1. IsWellFoundedOn(R, Nat)
  <2>1. IsWellFoundedOn(OpToRel(<, Nat), Nat)
    BY NatLessThanWellFounded, Zenon
  <2>2. OpToRel(<, Nat) = R
    BY Zenon DEF OpToRel
  <2> QED BY <2>1, <2>2, Zenon
<1>2. PICK n \in T : \A m \in T : <<m, n>> \notin R
  <2> HIDE DEF R
  <2> QED BY <1>1, WFMin
<1>3. \A m \in T : ~(m < n)
  BY <1>2
<1> QED BY <1>3

(* ... which is induction, over a set in place of a predicate. *)
LEMMA Induction ==
  ASSUME NEW T, 0 \in T, \A n \in Nat : n \in T => n + 1 \in T
  PROVE  Nat \subseteq T
<1> SUFFICES ASSUME NEW k \in Nat, k \notin T PROVE FALSE
  OBVIOUS
<1>1. PICK n \in Nat \ T : \A m \in Nat \ T : n <= m
  BY Least
<1>2. n # 0 /\ n - 1 \in Nat
  BY <1>1
<1>3. n - 1 \in T
  BY <1>1, <1>2
<1> QED BY <1>1, <1>2, <1>3

(* A recursion that stays in a set has a solution. *)
Solves(f, n, S, base, step) ==
    f \in [0 .. n -> S] /\ f[0] = base /\ \A i \in 1 .. n : f[i] = step[i][f[i - 1]]

LEMMA Recursion ==
  ASSUME NEW n \in Nat, NEW S, NEW base \in S, NEW step \in [1 .. n -> [S -> S]]
  PROVE  \E f : Solves(f, n, S, base, step)
<1> DEFINE T == {k \in Nat : k <= n => \E f : Solves(f, k, S, base, step)}
<1>1. 0 \in T
  <2>1. Solves([i \in {0} |-> base], 0, S, base, step)
    BY DEF Solves
  <2> QED BY <2>1
<1>2. ASSUME NEW k \in Nat, k \in T PROVE k + 1 \in T
  <2> SUFFICES ASSUME k + 1 <= n PROVE \E f : Solves(f, k + 1, S, base, step)
    OBVIOUS
  <2>1. PICK f : Solves(f, k, S, base, step)
    BY <1>2
  <2> DEFINE g == [i \in 0 .. k + 1 |-> IF i = k + 1 THEN step[k + 1][f[k]] ELSE f[i]]
  <2>2. k \in 0 .. k /\ k + 1 \in 1 .. n /\ f[k] \in S
    BY <2>1 DEF Solves
  <2>3. step[k + 1] \in [S -> S] /\ step[k + 1][f[k]] \in S
    BY <2>2
  <2>4. g \in [0 .. k + 1 -> S] /\ g[0] = base
    BY <2>1, <2>3 DEF Solves
  <2>5. \A i \in 1 .. k + 1 : g[i] = step[i][g[i - 1]]
    BY <2>1 DEF Solves
  <2> QED BY <2>4, <2>5 DEF Solves
<1>3. n \in T
  <2> HIDE DEF T
  <2> QED BY <1>1, <1>2, Induction
<1> QED BY <1>3

(* Only, an element at a time. *)
OnlyBy(f, S, s, keep) ==
    /\ f \in [0 .. Len(s) -> Seq(S)] /\ f[0] = <<>> /\ Only(s, keep) = f[Len(s)]
    /\ \A i \in 1 .. Len(s) : f[i] = IF s[i] \in keep THEN Append(f[i - 1], s[i]) ELSE f[i - 1]

LEMMA OnlyIs ==
  ASSUME NEW S, NEW s \in Seq(S), NEW keep
  PROVE  \E f : OnlyBy(f, S, s, keep)
<1> DEFINE Step(i, q) == IF s[i] \in keep THEN Append(q, s[i]) ELSE q
           step == [i \in 1 .. Len(s) |-> [q \in Seq(S) |-> Step(i, q)]]
<1>1. Len(s) \in Nat /\ <<>> \in Seq(S)
  OBVIOUS
<1>2. \A i \in 1 .. Len(s) : \A q \in Seq(S) : Step(i, q) \in Seq(S)
  OBVIOUS
<1> HIDE DEF Step
<1>3. PICK f : Solves(f, Len(s), Seq(S), <<>>, step)
  <2>1. step \in [1 .. Len(s) -> [Seq(S) -> Seq(S)]]
    BY <1>2
  <2> HIDE DEF step
  <2> QED BY <1>1, <2>1, Recursion
<1>4. /\ f \in [0 .. Len(s) -> Seq(S)] /\ f[0] = <<>>
      /\ \A i \in 1 .. Len(s) : f[i] = Step(i, f[i - 1])
  <2>1. \A i \in 1 .. Len(s) : \A q \in Seq(S) : step[i][q] = Step(i, q)
    OBVIOUS
  <2> HIDE DEF step
  <2>2. /\ f \in [0 .. Len(s) -> Seq(S)] /\ f[0] = <<>>
        /\ \A i \in 1 .. Len(s) : f[i] = step[i][f[i - 1]]
    BY <1>3 DEF Solves
  <2>3. \A i \in 1 .. Len(s) : f[i - 1] \in Seq(S)
    BY <1>1, <2>2
  <2> QED BY <2>1, <2>2, <2>3
<1> HIDE DEF step
<1>5. f = [i \in 0 .. Len(s) |-> IF i = 0 THEN <<>> ELSE Step(i, f[i - 1])]
  BY <1>1, <1>4
<1> DEFINE only[i \in 0 .. Len(s)] ==
              IF i = 0 THEN <<>>
              ELSE IF s[i] \in keep THEN Append(only[i - 1], s[i]) ELSE only[i - 1]
<1>6. only = [i \in 0 .. Len(s) |-> IF i = 0 THEN <<>> ELSE Step(i, only[i - 1])]
  BY <1>5, Zenon DEF Step
<1>7. Only(s, keep) = only[Len(s)]
  BY Zenon DEF Only
<1> HIDE DEF only
<1>8. \A i \in 0 .. Len(s) : only[i] = IF i = 0 THEN <<>> ELSE Step(i, only[i - 1])
  BY <1>6
<1> DEFINE T == {k \in Nat : k <= Len(s) => only[k] = f[k]}
<1>9. 0 \in T
  BY <1>1, <1>4, <1>8
<1>10. ASSUME NEW k \in Nat, k \in T PROVE k + 1 \in T
  BY <1>1, <1>4, <1>8, <1>10
<1>11. Len(s) \in T
  <2> HIDE DEF T
  <2> QED BY <1>1, <1>9, <1>10, Induction
<1>12. only[Len(s)] = f[Len(s)]
  BY <1>11
<1> QED BY <1>4, <1>7, <1>12 DEF Step, OnlyBy

(* Parts of a sequence. *)
LEMMA SeqFacts ==
  ASSUME NEW S, NEW q \in Seq(S)
  PROVE  /\ DOMAIN q = 1 .. Len(q) /\ Len(q) \in Nat /\ \A i \in 1 .. Len(q) : q[i] \in S
         /\ \A R : S \subseteq R => q \in Seq(R)
  OBVIOUS

LEMMA NotEmpty ==
  ASSUME NEW S, NEW q \in Seq(S)
  PROVE  /\ Len(q) \in Nat /\ (q # <<>> <=> Len(q) >= 1)
         /\ q # <<>> => Head(q) \in S /\ Tail(q) \in Seq(S) /\ Len(Tail(q)) = Len(q) - 1
  OBVIOUS

LEMMA TailOf ==
  ASSUME NEW S, NEW q \in Seq(S), q # <<>>, Len(q) # 1
  PROVE  Tail(q) \in Seq(S) /\ Tail(q) # <<>>
<1>1. Len(q) \in Nat /\ Len(q) >= 1 /\ Tail(q) \in Seq(S) /\ Len(Tail(q)) = Len(q) - 1
  BY NotEmpty
<1>2. Len(Tail(q)) >= 1
  BY <1>1
<1> QED BY <1>1, <1>2, NotEmpty

LEMMA PartOf ==
  ASSUME NEW S, NEW q \in Seq(S), NEW i \in 1 .. Len(q) + 1, NEW j \in i - 1 .. Len(q)
  PROVE  /\ SubSeq(q, i, j) \in Seq(S) /\ Len(SubSeq(q, i, j)) = j - i + 1
         /\ \A k \in 1 .. j - i + 1 : SubSeq(q, i, j)[k] = q[i + k - 1]
  OBVIOUS

LEMMA ToSetAppend ==
  ASSUME NEW S, NEW q \in Seq(S), NEW e \in S
  PROVE  ToSet(Append(q, e)) = ToSet(q) \cup {e}
<1> DEFINE a == Append(q, e)
<1>1. /\ DOMAIN a = 1 .. Len(q) + 1 /\ DOMAIN q = 1 .. Len(q) /\ Len(q) \in Nat
      /\ a[Len(q) + 1] = e /\ \A i \in 1 .. Len(q) : a[i] = q[i]
  OBVIOUS
<1> HIDE DEF a
<1>2. {a[i] : i \in 1 .. Len(q) + 1} = {q[i] : i \in 1 .. Len(q)} \cup {e}
  BY <1>1
<1> QED BY <1>1, <1>2 DEF ToSet, a

(* It keeps what is to be kept, and is no longer than what it was taken from. *)
LEMMA OnlyFacts ==
  ASSUME NEW S, NEW s \in Seq(S), NEW keep
  PROVE  /\ Only(s, keep) \in Seq(S) /\ Len(Only(s, keep)) <= Len(s)
         /\ ToSet(Only(s, keep)) = ToSet(s) \cap keep
<1>1. PICK f : OnlyBy(f, S, s, keep)
  BY OnlyIs
<1> DEFINE T == {k \in Nat : k <= Len(s) =>
                    Len(f[k]) <= k /\ ToSet(f[k]) = {s[i] : i \in 1 .. k} \cap keep}
<1>2. 0 \in T
  BY <1>1 DEF ToSet, OnlyBy
<1>3. ASSUME NEW k \in Nat, k \in T PROVE k + 1 \in T
  <2> SUFFICES ASSUME k + 1 <= Len(s)
               PROVE  Len(f[k + 1]) <= k + 1 /\ ToSet(f[k + 1]) = {s[i] : i \in 1 .. k + 1} \cap keep
    OBVIOUS
  <2>1. /\ k \in 0 .. Len(s) /\ k + 1 \in 1 .. Len(s) /\ s[k + 1] \in S /\ f[k] \in Seq(S)
        /\ f[k + 1] = IF s[k + 1] \in keep THEN Append(f[k], s[k + 1]) ELSE f[k]
        /\ Len(f[k]) <= k /\ ToSet(f[k]) = {s[i] : i \in 1 .. k} \cap keep
    <3>1. k \in 0 .. Len(s) /\ k + 1 \in 1 .. Len(s) /\ s[k + 1] \in S /\ (k + 1) - 1 = k
      OBVIOUS
    <3>2. f[k] \in Seq(S)
      BY <1>1, <3>1 DEF OnlyBy
    <3>3. f[k + 1] = IF s[k + 1] \in keep THEN Append(f[k], s[k + 1]) ELSE f[k]
      BY <1>1, <3>1 DEF OnlyBy
    <3>4. k <= Len(s)
      BY <3>1
    <3>5. Len(f[k]) <= k /\ ToSet(f[k]) = {s[i] : i \in 1 .. k} \cap keep
      BY <1>3, <3>4
    <3> QED BY <3>1, <3>2, <3>3, <3>5
  <2>2. {s[i] : i \in 1 .. k + 1} = {s[i] : i \in 1 .. k} \cup {s[k + 1]}
    BY <2>1
  <2>3. CASE s[k + 1] \in keep
    <3>1. ToSet(Append(f[k], s[k + 1])) = ToSet(f[k]) \cup {s[k + 1]}
      BY <2>1, ToSetAppend
    <3> QED BY <2>1, <2>2, <2>3, <3>1
  <2>4. CASE s[k + 1] \notin keep
    BY <2>1, <2>2, <2>4
  <2> QED BY <2>3, <2>4
<1>4. Len(s) \in T
  <2> HIDE DEF T
  <2> QED BY <1>2, <1>3, Induction
<1>5. ToSet(s) = {s[i] : i \in 1 .. Len(s)}
  BY DEF ToSet
<1> QED BY <1>1, <1>4, <1>5 DEF OnlyBy

(* And it keeps their order: each comes from its own place, and later ones    *)
(* from later places.                                                         *)
Places(g, q, s, k) ==
    /\ g \in [1 .. Len(q) -> 1 .. k]
    /\ \A a \in 1 .. Len(q) : q[a] = s[g[a]]
    /\ \A a, b \in 1 .. Len(q) : a < b => g[a] < g[b]

LEMMA OnlyInOrder ==
  ASSUME NEW S, NEW s \in Seq(S), NEW keep
  PROVE  \E g : Places(g, Only(s, keep), s, Len(s))
<1>1. PICK f : OnlyBy(f, S, s, keep)
  BY OnlyIs
<1> DEFINE T == {k \in Nat : k <= Len(s) => \E g : Places(g, f[k], s, k)}
<1>2. 0 \in T
  <2>1. f[0] = <<>> /\ Len(f[0]) = 0
    BY <1>1 DEF OnlyBy
  <2>2. Places([a \in {} |-> 0], f[0], s, 0)
    BY <2>1 DEF Places
  <2> QED BY <2>2
<1>3. ASSUME NEW k \in Nat, k \in T PROVE k + 1 \in T
  <2> SUFFICES ASSUME k + 1 <= Len(s) PROVE \E g : Places(g, f[k + 1], s, k + 1)
    OBVIOUS
  <2>1. /\ k \in 0 .. Len(s) /\ k + 1 \in 1 .. Len(s) /\ s[k + 1] \in S /\ f[k] \in Seq(S)
        /\ f[k + 1] = IF s[k + 1] \in keep THEN Append(f[k], s[k + 1]) ELSE f[k]
    BY <1>1 DEF OnlyBy
  <2>2. PICK g : Places(g, f[k], s, k)
    BY <1>3
  <2> DEFINE n == Len(f[k])
             h == [a \in 1 .. n + 1 |-> IF a = n + 1 THEN k + 1 ELSE g[a]]
  <2>3. n \in Nat /\ \A a \in 1 .. n : g[a] \in 1 .. k
    <3>1. n \in Nat
      BY <2>1
    <3>2. g \in [1 .. n -> 1 .. k]
      BY <2>2 DEF Places
    <3> HIDE DEF n
    <3> QED BY <3>1, <3>2
  <2>4. CASE s[k + 1] \in keep
    <3>1. f[k + 1] = Append(f[k], s[k + 1])
      BY <2>1, <2>4
    <3>2. /\ Len(f[k + 1]) = n + 1 /\ f[k + 1][n + 1] = s[k + 1]
          /\ \A a \in 1 .. n : f[k + 1][a] = f[k][a]
      BY <2>1, <3>1
    <3>3. h \in [1 .. n + 1 -> 1 .. k + 1]
      BY <2>3
    <3>4. \A a \in 1 .. n + 1 : f[k + 1][a] = s[h[a]]
      BY <2>2, <2>3, <3>2 DEF Places
    <3>5. \A a, b \in 1 .. n + 1 : a < b => h[a] < h[b]
      BY <2>2, <2>3 DEF Places
    <3> HIDE DEF h, n
    <3>6. Places(h, f[k + 1], s, k + 1)
      BY <3>2, <3>3, <3>4, <3>5 DEF Places
    <3> QED BY <3>6
  <2>5. CASE s[k + 1] \notin keep
    <3>1. f[k + 1] = f[k] /\ g \in [1 .. n -> 1 .. k + 1]
      BY <2>1, <2>2, <2>3, <2>5 DEF Places
    <3> QED BY <2>2, <3>1 DEF Places
  <2> QED BY <2>4, <2>5
<1>4. Len(s) \in T
  <2> HIDE DEF T
  <2> QED BY <1>2, <1>3, Induction
<1>5. Only(s, keep) = f[Len(s)]
  BY <1>1 DEF OnlyBy
<1> QED BY <1>4, <1>5

(* Where one that is kept comes: after those kept before it. *)
Passed(s, keep, i) == {j \in 1 .. i - 1 : s[j] \in keep}

LEMMA PassedIsFinite ==
  ASSUME NEW s, NEW keep, NEW i \in Nat
  PROVE  IsFiniteSet(Passed(s, keep, i)) /\ Cardinality(Passed(s, keep, i)) \in Nat
<1>1. IsFiniteSet(1 .. i - 1)
  BY FS_Interval
<1>2. Passed(s, keep, i) \subseteq 1 .. i - 1
  BY DEF Passed
<1> QED BY <1>1, <1>2, FS_Subset, FS_CardinalityType

LEMMA PassedOne ==
  ASSUME NEW s, NEW keep, NEW i \in Nat, i >= 1
  PROVE  Cardinality(Passed(s, keep, i + 1))
           = IF s[i] \in keep THEN Cardinality(Passed(s, keep, i)) + 1 ELSE Cardinality(Passed(s, keep, i))
<1>1. CASE s[i] \in keep
  <2>1. Passed(s, keep, i + 1) = Passed(s, keep, i) \cup {i} /\ i \notin Passed(s, keep, i)
    BY <1>1 DEF Passed
  <2> QED BY <1>1, <2>1, PassedIsFinite, FS_AddElement
<1>2. CASE s[i] \notin keep
  <2>1. Passed(s, keep, i + 1) = Passed(s, keep, i)
    BY <1>2 DEF Passed
  <2> QED BY <1>2, <2>1
<1> QED BY <1>1, <1>2

LEMMA OnlyPlaces ==
  ASSUME NEW S, NEW s \in Seq(S), NEW keep, NEW i \in 1 .. Len(s), s[i] \in keep
  PROVE  LET n == Cardinality(Passed(s, keep, i)) IN
         n \in Nat /\ n < Len(Only(s, keep)) /\ Only(s, keep)[n + 1] = s[i]
<1>1. PICK f : OnlyBy(f, S, s, keep)
  BY OnlyIs
<1> DEFINE Row(j) == Cardinality(Passed(s, keep, j))
           Found(k, j) == Row(j) < Len(f[k]) /\ f[k][Row(j) + 1] = s[j]
           T == {k \in Nat : k <= Len(s) =>
                    /\ Len(f[k]) = Row(k + 1)
                    /\ \A j \in 1 .. k : s[j] \in keep => Found(k, j)}
<1>0. \A j \in Nat : Row(j) \in Nat
  BY PassedIsFinite
<1>2. 0 \in T
  <2>1. f[0] = <<>> /\ Passed(s, keep, 1) = {}
    BY <1>1 DEF OnlyBy, Passed
  <2>2. Row(1) = 0
    BY <2>1, FS_EmptySet
  <2> QED BY <2>1, <2>2
<1>3. ASSUME NEW k \in Nat, k \in T PROVE k + 1 \in T
  <2> SUFFICES ASSUME k + 1 <= Len(s)
               PROVE  /\ Len(f[k + 1]) = Row(k + 2)
                      /\ \A j \in 1 .. k + 1 : s[j] \in keep => Found(k + 1, j)
    OBVIOUS
  <2>1. /\ k \in 0 .. Len(s) /\ k + 1 \in 1 .. Len(s) /\ s[k + 1] \in S /\ f[k] \in Seq(S)
        /\ f[k + 1] = IF s[k + 1] \in keep THEN Append(f[k], s[k + 1]) ELSE f[k]
    BY <1>1 DEF OnlyBy
  <2>2. Len(f[k]) = Row(k + 1) /\ \A j \in 1 .. k : s[j] \in keep => Found(k, j)
    BY <1>3
  <2>3. Row(k + 2) = IF s[k + 1] \in keep THEN Row(k + 1) + 1 ELSE Row(k + 1)
    <3>1. k + 1 \in Nat /\ k + 1 >= 1 /\ (k + 1) + 1 = k + 2
      OBVIOUS
    <3> QED BY <3>1, PassedOne
  <2> HIDE DEF Row
  <2>4. CASE s[k + 1] \in keep
    <3>1. /\ f[k + 1] = Append(f[k], s[k + 1]) /\ Len(f[k]) \in Nat
          /\ Len(f[k + 1]) = Len(f[k]) + 1 /\ f[k + 1][Len(f[k]) + 1] = s[k + 1]
          /\ \A a \in 1 .. Len(f[k]) : f[k + 1][a] = f[k][a]
      BY <2>1, <2>4
    <3>2. ASSUME NEW j \in 1 .. k + 1, s[j] \in keep PROVE Found(k + 1, j)
      <4>1. CASE j = k + 1
        BY <2>2, <3>1, <4>1
      <4>2. CASE j # k + 1
        <5>0. j \in 1 .. k /\ j \in Nat
          BY <4>2
        <5>1. j \in 1 .. k /\ j \in Nat /\ Row(j) \in Nat
          BY <1>0, <5>0, Zenon
        <5>2. Row(j) < Len(f[k]) /\ f[k][Row(j) + 1] = s[j]
          BY <2>2, <3>2, <5>1
        <5>3. Row(j) + 1 \in 1 .. Len(f[k])
          BY <3>1, <5>1, <5>2
        <5> QED BY <3>1, <5>2, <5>3, <5>1
      <4> QED BY <4>1, <4>2
    <3> QED BY <2>2, <2>3, <2>4, <3>1, <3>2
  <2>5. CASE s[k + 1] \notin keep
    <3>1. f[k + 1] = f[k] /\ Row(k + 2) = Row(k + 1)
      BY <2>1, <2>3, <2>5
    <3>2. ASSUME NEW j \in 1 .. k + 1, s[j] \in keep PROVE Found(k + 1, j)
      <4>1. j \in 1 .. k
        BY <2>5, <3>2
      <4> QED BY <2>2, <3>1, <3>2, <4>1
    <3> QED BY <2>2, <3>1, <3>2
  <2> QED BY <2>4, <2>5
<1>4. Len(s) \in T
  <2>1. Len(s) \in Nat
    OBVIOUS
  <2> HIDE DEF T
  <2> QED BY <1>2, <1>3, <2>1, Induction
<1>5. Only(s, keep) = f[Len(s)] /\ Len(s) \in Nat
  BY <1>1 DEF OnlyBy
<1>6. Found(Len(s), i)
  BY <1>4, <1>5
<1> QED BY <1>0, <1>5, <1>6

LEMMA Listed ==
  ASSUME NEW S, NEW n \in Nat, NEW f, DOMAIN f = 1 .. n, f = [i \in 1 .. n |-> f[i]], \A i \in 1 .. n : f[i] \in S
  PROVE  f \in Seq(S) /\ Len(f) = n
  OBVIOUS

LEMMA EndOf ==
  ASSUME NEW S, NEW q \in Seq(S), NEW i \in 1 .. Len(q) + 1, NEW n, n = Len(q)
  PROVE  /\ SubSeq(q, i, n) \in Seq(S) /\ Len(SubSeq(q, i, n)) = n - i + 1
         /\ \A k \in 1 .. n - i + 1 : SubSeq(q, i, n)[k] = q[i + k - 1]
<1>1. Len(q) \in i - 1 .. Len(q)
  OBVIOUS
<1> QED BY <1>1, PartOf

(* The numbers of a set in their order: each is where as many come up to it. *)
UpTo(S, m) == {k \in S : k <= m}

LEMMA AscendingIs ==
  ASSUME NEW N \in Nat, NEW S, S \subseteq 1 .. N
  PROVE  LET q == Ascending(S, N) IN
         /\ q \in Seq(S)
         /\ \A m \in S : Cardinality(UpTo(S, m)) \in 1 .. Len(q) /\ q[Cardinality(UpTo(S, m))] = m
         /\ \A i \in 1 .. Len(q) : Cardinality(UpTo(S, q[i])) = i
<1> DEFINE ids == [i \in 1 .. N |-> i]
           q == Only(ids, S)
<1>1. /\ ids \in Seq(1 .. N) /\ Len(ids) = N /\ \A i \in 1 .. N : ids[i] = i
  <2>1. DOMAIN ids = 1 .. N /\ ids = [i \in 1 .. N |-> ids[i]] /\ \A i \in 1 .. N : ids[i] \in 1 .. N
    OBVIOUS
  <2> HIDE DEF ids
  <2>2. ids \in Seq(1 .. N) /\ Len(ids) = N
    BY <2>1, Listed
  <2> QED BY <2>2 DEF ids
<1>2. Ascending(S, N) = q
  BY DEF Ascending
<1> HIDE DEF ids
<1>3. q \in Seq(1 .. N) /\ ToSet(q) = ToSet(ids) \cap S
  BY <1>1, OnlyFacts
<1>4. PICK g : Places(g, q, ids, N)
  BY <1>1, OnlyInOrder
<1>5. \A m \in S : LET n == Cardinality(Passed(ids, S, m)) IN n \in Nat /\ n < Len(q) /\ q[n + 1] = m
  BY <1>1, OnlyPlaces
<1> HIDE DEF q
<1>6. Len(q) \in Nat /\ DOMAIN q = 1 .. Len(q)
  BY <1>3
<1>7. \A i \in 1 .. Len(q) : q[i] \in S
  BY <1>3, <1>6 DEF ToSet
<1>8. \A i, j \in 1 .. Len(q) : q[i] = q[j] => i = j
  <2>1. \A i \in 1 .. Len(q) : g[i] \in 1 .. N /\ q[i] = g[i]
    BY <1>1, <1>4 DEF Places
  <2>2. \A i, j \in 1 .. Len(q) : i < j => g[i] < g[j]
    BY <1>4 DEF Places
  <2> QED BY <1>6, <2>1, <2>2
<1>9. ASSUME NEW m \in S
      PROVE  Cardinality(UpTo(S, m)) \in 1 .. Len(q) /\ q[Cardinality(UpTo(S, m))] = m
  <2>1. m \in 1 .. N /\ m \in Nat
    OBVIOUS
  <2>2. UpTo(S, m) = Passed(ids, S, m) \cup {m} /\ m \notin Passed(ids, S, m)
    <3>1. \A j \in 1 .. m - 1 : j \in 1 .. N /\ ids[j] = j
      BY <1>1, <2>1
    <3>2. \A k : k \in UpTo(S, m) <=> k \in S /\ k <= m
      BY DEF UpTo
    <3>3. \A k : k \in Passed(ids, S, m) <=> k \in 1 .. m - 1 /\ k \in S
      BY <3>1 DEF Passed
    <3>4. \A k \in S : k <= m <=> k \in 1 .. m - 1 \/ k = m
      <4>1. \A k \in S : k \in 1 .. N
        OBVIOUS
      <4> QED BY <2>1, <4>1
    <3>5. m \notin 1 .. m - 1
      BY <2>1
    <3> QED BY <3>2, <3>3, <3>4, <3>5
  <2>3. PICK n \in Nat : n = Cardinality(Passed(ids, S, m)) /\ n < Len(q) /\ q[n + 1] = m
    BY <1>5
  <2>4. IsFiniteSet(Passed(ids, S, m))
    BY <2>1, PassedIsFinite
  <2>5. Cardinality(UpTo(S, m)) = n + 1
    BY <2>2, <2>3, <2>4, FS_AddElement
  <2> QED BY <1>6, <2>3, <2>5
<1>10. \A i \in 1 .. Len(q) : Cardinality(UpTo(S, q[i])) = i
  BY <1>7, <1>8, <1>9
<1>11. q \in Seq(S)
  <2>1. DOMAIN q = 1 .. Len(q) /\ q = [i \in 1 .. Len(q) |-> q[i]]
    BY <1>3, <1>6
  <2> QED BY <1>6, <1>7, <2>1, Listed
<1> QED BY <1>2, <1>9, <1>10, <1>11
=============================================================================
