---------------------------- MODULE FilterProofs -----------------------------
(***************************************************************************)
(* What the list comprehension Kept returns, for every sequence and every  *)
(* set: by induction on the length, which is stated here for sets of       *)
(* numbers and rests on the least element of a set that is not empty.      *)
(* And what the sum SumBy of a finite set is: that the recursion of the    *)
(* community module's fold has one solution, and that the sum then does    *)
(* not depend on the order in which the fold takes its terms.              *)
(***************************************************************************)
EXTENDS Filters, NaturalsInduction, WellFoundedInduction, FiniteSetTheorems, TLAPS

\* A set of numbers that holds zero and the successor of each it holds is Nat.
LEMMA NatByInduction ==
    ASSUME NEW P, 0 \in P, \A n \in Nat : n \in P => n + 1 \in P
    PROVE  Nat \subseteq P
<1> SUFFICES ASSUME Nat \ P # {} PROVE FALSE
  OBVIOUS
<1>1. PICK n \in Nat \ P : \A m \in Nat \ P : <<m, n>> \notin OpToRel(<, Nat)
  BY NatLessThanWellFounded, WFMin, Nat \ P \subseteq Nat
<1>2. n # 0
  OBVIOUS
<1>3. n - 1 \in Nat /\ n - 1 < n
  BY <1>2
<1>4. n - 1 \in P
  BY <1>1, <1>3 DEF OpToRel
<1> QED
  BY <1>3, <1>4

\* The recursion of Kept has a solution, with values that are sequences.
LEMMA KeptExists ==
    ASSUME NEW S, NEW s \in Seq(S), NEW K
    PROVE  \E f : f = [n \in 0 .. Len(s) |->
                         IF n = 0 THEN <<>>
                         ELSE IF s[n] \in K THEN Append(f[n - 1], s[n]) ELSE f[n - 1]]
<1> DEFINE Solves(f, m) ==
             /\ f \in [0 .. m -> Seq(S)]
             /\ f[0] = <<>>
             /\ \A n \in 1 .. m : f[n] = IF s[n] \in K THEN Append(f[n - 1], s[n]) ELSE f[n - 1]
           P == {m \in Nat : m <= Len(s) => \E f : Solves(f, m)}
<1>0. Len(s) \in Nat
  OBVIOUS
<1>1. 0 \in P
  <2>1. PICK f : f = [n \in 0 .. 0 |-> <<>>]
    OBVIOUS
  <2>2. <<>> \in Seq(S)
    OBVIOUS
  <2>3. f \in [0 .. 0 -> Seq(S)] /\ f[0] = <<>>
    BY <2>1, <2>2
  <2>4. Solves(f, 0)
    BY <2>3
  <2> HIDE DEF Solves
  <2> QED
    BY <2>4
<1>2. ASSUME NEW m \in Nat, m \in P
      PROVE  m + 1 \in P
  <2>1. SUFFICES ASSUME m + 1 <= Len(s)
                 PROVE  \E g : Solves(g, m + 1)
    <3> HIDE DEF Solves
    <3> QED OBVIOUS
  <2>2. PICK f : Solves(f, m)
    <3> HIDE DEF Solves
    <3> QED BY <1>0, <1>2, <2>1
  <2>3. s[m + 1] \in S
    BY <1>0, <2>1
  <2>4. f[m] \in Seq(S)
    BY <2>2
  <2>5. PICK v \in Seq(S) : v = IF s[m + 1] \in K THEN Append(f[m], s[m + 1]) ELSE f[m]
    <3>1. \A t \in Seq(S), x \in S : Append(t, x) \in Seq(S)
      OBVIOUS
    <3>2. Append(f[m], s[m + 1]) \in Seq(S)
      BY <2>3, <2>4, <3>1
    <3> QED
      BY <2>4, <3>2
  <2>6. PICK g : g = [n \in 0 .. m + 1 |-> IF n = m + 1 THEN v ELSE f[n]]
    OBVIOUS
  <2>7. g \in [0 .. m + 1 -> Seq(S)]
    <3>1. \A n \in 0 .. m + 1 : n # m + 1 => n \in 0 .. m
      OBVIOUS
    <3> QED
      BY <2>2, <2>5, <2>6, <3>1
  <2>8. g[0] = <<>>
    BY <2>2, <2>6
  <2>9. ASSUME NEW n \in 1 .. m + 1
        PROVE  g[n] = IF s[n] \in K THEN Append(g[n - 1], s[n]) ELSE g[n - 1]
    <3>1. CASE n = m + 1
      <4>1. g[n] = v /\ g[n - 1] = f[m]
        BY <2>6, <3>1
      <4> QED
        BY <2>5, <3>1, <4>1
    <3>2. CASE n # m + 1
      <4>1. n \in 1 .. m /\ n - 1 \in 0 .. m + 1 /\ n - 1 # m + 1
        BY <3>2
      <4>2. g[n] = f[n] /\ g[n - 1] = f[n - 1]
        BY <2>6, <3>2, <4>1
      <4> QED
        BY <2>2, <4>1, <4>2
    <3> QED
      BY <3>1, <3>2
  <2> QED
    BY <2>7, <2>8, <2>9
<1>3. Len(s) \in P
  <2> HIDE DEF P
  <2> QED BY <1>0, <1>1, <1>2, NatByInduction
<1>4. PICK f : Solves(f, Len(s))
  <2> HIDE DEF Solves
  <2> QED BY <1>0, <1>3
<1>5. f = [n \in 0 .. Len(s) |->
             IF n = 0 THEN <<>>
             ELSE IF s[n] \in K THEN Append(f[n - 1], s[n]) ELSE f[n - 1]]
  <2>1. \A n \in 0 .. Len(s) : n # 0 => n \in 1 .. Len(s)
    BY <1>0
  <2> QED
    BY <1>4, <2>1
<1> QED
  BY <1>5

\* The recursion, unfolded.
LEMMA KeptUnfolds ==
    ASSUME NEW S, NEW s \in Seq(S), NEW K
    PROVE  \E f : /\ Kept(s, K) = f[Len(s)]
                  /\ f[0] = <<>>
                  /\ \A n \in 1 .. Len(s) :
                       f[n] = IF s[n] \in K THEN Append(f[n - 1], s[n]) ELSE f[n - 1]
<1> DEFINE Eqn(g) == g = [n \in 0 .. Len(s) |->
                         IF n = 0 THEN <<>>
                         ELSE IF s[n] \in K THEN Append(g[n - 1], s[n]) ELSE g[n - 1]]
           f == CHOOSE g : Eqn(g)
<1>1. \E g : Eqn(g)
  BY KeptExists, ZenonT(60)
<1>2. Kept(s, K) = f[Len(s)]
  BY ZenonT(60) DEF Kept
<1>3. Eqn(f)
  <2> HIDE DEF Eqn
  <2> QED BY <1>1, Zenon
<1> HIDE DEF f
<1>4. ASSUME NEW n \in 0 .. Len(s)
      PROVE  f[n] = IF n = 0 THEN <<>>
                    ELSE IF s[n] \in K THEN Append(f[n - 1], s[n]) ELSE f[n - 1]
  BY <1>3, Zenon
<1>5. Len(s) \in Nat
  OBVIOUS
<1> HIDE DEF Eqn
<1>6. f[0] = <<>>
  BY <1>4, <1>5
<1>7. ASSUME NEW n \in 1 .. Len(s)
      PROVE  f[n] = IF s[n] \in K THEN Append(f[n - 1], s[n]) ELSE f[n - 1]
  <2>1. n \in 0 .. Len(s) /\ n # 0
    BY <1>5
  <2> QED
    BY <1>4, <2>1, Zenon
<1> QED
  BY <1>2, <1>6, <1>7

\* What an Append adds.
LEMMA AppendAdds ==
    ASSUME NEW S, NEW t \in Seq(S), NEW x \in S
    PROVE  /\ Append(t, x) \in Seq(S)
           /\ Len(Append(t, x)) = Len(t) + 1
           /\ Members(Append(t, x)) = Members(t) \cup {x}
           /\ Distinct(t) /\ x \notin Members(t) => Distinct(Append(t, x))
<1>0. Len(t) \in Nat
  OBVIOUS
<1>1. PICK u : u = Append(t, x)
  OBVIOUS
<1>2. /\ u \in Seq(S) /\ Len(u) = Len(t) + 1 /\ u[Len(t) + 1] = x
      /\ \A i \in 1 .. Len(t) : u[i] = t[i]
  BY <1>1
<1>3. \A i \in 1 .. Len(u) : i \in 1 .. Len(t) \/ i = Len(t) + 1
  BY <1>0, <1>2
<1>4. \A i \in 1 .. Len(t) : i \in 1 .. Len(u)
  BY <1>0, <1>2
<1>5. Len(t) + 1 \in 1 .. Len(u)
  BY <1>0, <1>2
<1>6. Members(u) = Members(t) \cup {x}
  BY <1>2, <1>3, <1>4, <1>5 DEF Members
<1>7. ASSUME Distinct(t), x \notin Members(t)
      PROVE  Distinct(u)
  <2>1. \A i \in 1 .. Len(t) : t[i] # x
    BY <1>7 DEF Members
  <2> QED
    BY <1>2, <1>3, <1>7, <2>1 DEF Distinct
<1> QED
  BY <1>1, <1>2, <1>6, <1>7

\* What the comprehension keeps: a sequence of the same kind, no longer than
\* the old one, of exactly the old elements that pass, each as often as before
\* where no element came twice.
LEMMA KeptProperties ==
    ASSUME NEW S, NEW s \in Seq(S), NEW K
    PROVE  /\ Kept(s, K) \in Seq(S)
           /\ Len(Kept(s, K)) <= Len(s)
           /\ Members(Kept(s, K)) = Members(s) \cap K
           /\ Distinct(s) => Distinct(Kept(s, K))
<1>0. Len(s) \in Nat
  OBVIOUS
<1>1. PICK f : /\ Kept(s, K) = f[Len(s)]
               /\ f[0] = <<>>
               /\ \A n \in 1 .. Len(s) :
                    f[n] = IF s[n] \in K THEN Append(f[n - 1], s[n]) ELSE f[n - 1]
  BY KeptUnfolds
<1> DEFINE Before(m) == {s[i] : i \in 1 .. m}
           Good(m) == /\ f[m] \in Seq(S)
                      /\ Len(f[m]) <= m
                      /\ Members(f[m]) = Before(m) \cap K
                      /\ Distinct(s) => Distinct(f[m])
           P == {m \in Nat : m <= Len(s) => Good(m)}
<1>2. 0 \in P
  <2>1. f[0] \in Seq(S) /\ Len(f[0]) = 0
    BY <1>1
  <2>2. Members(f[0]) = {} /\ Before(0) = {} /\ Distinct(f[0])
    BY <2>1 DEF Members, Distinct
  <2> HIDE DEF Before
  <2> QED
    BY <2>1, <2>2
<1>3. ASSUME NEW m \in Nat, m \in P
      PROVE  m + 1 \in P
  <2>1. SUFFICES ASSUME m + 1 <= Len(s)
                 PROVE  Good(m + 1)
    OBVIOUS
  <2>2. Good(m)
    BY <1>0, <1>3, <2>1
  <2>3. s[m + 1] \in S /\ m + 1 \in 1 .. Len(s) /\ (m + 1) - 1 = m
    BY <1>0, <2>1
  <2>4. Before(m + 1) = Before(m) \cup {s[m + 1]}
    <3>1. \A i : i \in 1 .. m + 1 <=> (i \in 1 .. m \/ i = m + 1)
      OBVIOUS
    <3> QED
      BY <3>1
  <2>5. Distinct(s) => s[m + 1] \notin Before(m)
    <3>1. \A i \in 1 .. m : i \in 1 .. Len(s) /\ i # m + 1
      BY <1>0, <2>1
    <3> QED
      BY <2>3, <3>1 DEF Distinct
  <2> HIDE DEF Before
  <2>6. CASE s[m + 1] \in K
    <3>1. f[m + 1] = Append(f[m], s[m + 1])
      BY <1>1, <2>3, <2>6
    <3>2. /\ Append(f[m], s[m + 1]) \in Seq(S)
          /\ Len(Append(f[m], s[m + 1])) = Len(f[m]) + 1
          /\ Members(Append(f[m], s[m + 1])) = Members(f[m]) \cup {s[m + 1]}
          /\ Distinct(f[m]) /\ s[m + 1] \notin Members(f[m])
               => Distinct(Append(f[m], s[m + 1]))
      BY <2>2, <2>3, AppendAdds
    <3>3. Len(f[m]) \in Nat
      BY <2>2
    <3>4. Len(f[m + 1]) <= m + 1
      BY <2>2, <3>1, <3>2, <3>3
    <3>5. Members(f[m + 1]) = Before(m + 1) \cap K
      BY <2>2, <2>4, <2>6, <3>1, <3>2
    <3>6. Distinct(s) => Distinct(f[m + 1])
      BY <2>2, <2>5, <3>1, <3>2
    <3> QED
      BY <3>1, <3>2, <3>4, <3>5, <3>6
  <2>7. CASE s[m + 1] \notin K
    <3>1. f[m + 1] = f[m]
      BY <1>1, <2>3, <2>7
    <3>2. Len(f[m]) <= m + 1
      BY <2>2
    <3> QED
      BY <2>2, <2>4, <2>7, <3>1, <3>2
  <2> QED
    BY <2>6, <2>7
<1>4. Len(s) \in P
  <2> HIDE DEF P
  <2> QED BY <1>0, <1>2, <1>3, NatByInduction
<1>5. Good(Len(s))
  BY <1>0, <1>4
<1>6. Before(Len(s)) = Members(s)
  BY DEF Members
<1> QED
  BY <1>1, <1>5, <1>6

-----------------------------------------------------------------------------
(* Sums *)

\* The element a fold takes from a set first.
First(s) == CHOOSE x \in s : TRUE

\* A finite set whose elements have weights.
Weighed(w, S) == IsFiniteSet(S) /\ \A t \in S : w[t] \in Nat

\* f[s] is the weight of s, for every part s of S, as a fold computes it.
Sums(f, w, S) ==
    /\ f \in [SUBSET S -> Nat]
    /\ f = [s \in SUBSET S |-> IF s = {} THEN 0 ELSE w[First(s)] + f[s \ {First(s)}]]

\* A set without its first element is smaller by one.
LEMMA FirstRemoved ==
    ASSUME NEW s, IsFiniteSet(s), s # {}
    PROVE  /\ First(s) \in s
           /\ IsFiniteSet(s \ {First(s)})
           /\ Cardinality(s) \in Nat
           /\ Cardinality(s \ {First(s)}) \in Nat
           /\ Cardinality(s) = Cardinality(s \ {First(s)}) + 1
<1>1. First(s) \in s
  BY Zenon DEF First
<1>2. PICK x : x = First(s)
  OBVIOUS
<1>3. /\ IsFiniteSet(s \ {x})
      /\ Cardinality(s \ {x}) = Cardinality(s) - 1
  BY <1>1, <1>2, FS_RemoveElement
<1>4. Cardinality(s) \in Nat /\ Cardinality(s \ {x}) \in Nat
  BY <1>3, FS_CardinalityType
<1> QED
  BY <1>1, <1>2, <1>3, <1>4

\* The recursion of the sum has a solution.
LEMMA SumExists ==
    ASSUME NEW S, NEW w, Weighed(w, S)
    PROVE  \E f : Sums(f, w, S)
<1> USE DEF Weighed
<1> DEFINE Level(n) == {s \in SUBSET S : Cardinality(s) <= n}
           Solves(f, n) == /\ f \in [Level(n) -> Nat]
                           /\ \A s \in Level(n) :
                                f[s] = IF s = {} THEN 0
                                       ELSE w[First(s)] + f[s \ {First(s)}]
           P == {n \in Nat : \E f : Solves(f, n)}
<1>0. \A s \in SUBSET S : IsFiniteSet(s) /\ Cardinality(s) \in Nat
                            /\ Cardinality(s) <= Cardinality(S)
  BY FS_Subset, FS_CardinalityType
<1>1. \A s \in SUBSET S : s # {} =>
          /\ First(s) \in S /\ w[First(s)] \in Nat
          /\ s \ {First(s)} \in SUBSET S
          /\ Cardinality(s) = Cardinality(s \ {First(s)}) + 1
  <2> TAKE s \in SUBSET S
  <2> HAVE s # {}
  <2>1. /\ First(s) \in s /\ Cardinality(s) = Cardinality(s \ {First(s)}) + 1
    BY <1>0, FirstRemoved
  <2> QED
    BY <2>1
<1>2. 0 \in P
  <2>1. Level(0) = {{}}
    <3>1. \A s \in SUBSET S : Cardinality(s) <= 0 <=> s = {}
      BY <1>0, FS_EmptySet
    <3> QED
      BY <3>1
  <2>2. PICK f : f = [s \in Level(0) |-> 0]
    OBVIOUS
  <2>3. Solves(f, 0)
    BY <2>1, <2>2
  <2> HIDE DEF Solves
  <2> QED
    BY <2>3
<1>3. ASSUME NEW n \in Nat, n \in P
      PROVE  n + 1 \in P
  <2>1. PICK f : Solves(f, n)
    <3> HIDE DEF Solves
    <3> QED BY <1>3
  <2> DEFINE Next(s) == w[First(s)] + f[s \ {First(s)}]
  <2>2. PICK g : g = [s \in Level(n + 1) |-> IF s \in Level(n) THEN f[s] ELSE Next(s)]
    OBVIOUS
  <2>3. ASSUME NEW s \in Level(n + 1), s # {}
        PROVE  s \ {First(s)} \in Level(n) /\ s \ {First(s)} \in Level(n + 1)
    <3>1. s \in SUBSET S /\ Cardinality(s) <= n + 1
      OBVIOUS
    <3>2. s \ {First(s)} \in SUBSET S /\ Cardinality(s) = Cardinality(s \ {First(s)}) + 1
      BY <1>1, <2>3, <3>1
    <3>3. Cardinality(s \ {First(s)}) \in Nat
      BY <1>0, <3>2
    <3>4. Cardinality(s \ {First(s)}) <= n /\ Cardinality(s \ {First(s)}) <= n + 1
      BY <3>1, <3>2, <3>3
    <3> QED
      BY <3>2, <3>4
  <2>4. \A s \in Level(n) : s \in Level(n + 1)
    <3>1. \A s \in SUBSET S : Cardinality(s) <= n => Cardinality(s) <= n + 1
      BY <1>0
    <3> QED
      BY <3>1
  <2>5. {} \in Level(n)
    BY FS_EmptySet
  <2>6. \A s \in Level(n + 1) : s # {} => Next(s) \in Nat
    <3> TAKE s \in Level(n + 1)
    <3> HAVE s # {}
    <3>1. f[s \ {First(s)}] \in Nat
      BY <2>1, <2>3
    <3>2. w[First(s)] \in Nat
      BY <1>1
    <3> QED
      BY <3>1, <3>2
  <2>7. \A s \in Level(n) : f[s] \in Nat /\ f[s] = IF s = {} THEN 0 ELSE Next(s)
    BY <2>1
  <2>8. \A s \in Level(n + 1) : g[s] = IF s = {} THEN 0 ELSE Next(s)
    <3> HIDE DEF Next, Level
    <3> QED BY <2>2, <2>5, <2>7
  <2>9. g \in [Level(n + 1) -> Nat]
    <3> HIDE DEF Next, Level
    <3>1. \A s \in Level(n + 1) : (IF s \in Level(n) THEN f[s] ELSE Next(s)) \in Nat
      BY <2>5, <2>6, <2>7
    <3> QED BY <2>2, <3>1
  <2>10. \A s \in Level(n) : g[s] = f[s]
    <3> HIDE DEF Next, Level
    <3> QED BY <2>2, <2>4
  <2>11. \A s \in Level(n + 1) :
            g[s] = IF s = {} THEN 0 ELSE w[First(s)] + g[s \ {First(s)}]
    <3> TAKE s \in Level(n + 1)
    <3>1. CASE s = {}
      BY <2>8, <3>1
    <3>2. CASE s # {}
      <4>1. g[s \ {First(s)}] = f[s \ {First(s)}]
        BY <2>3, <2>10, <3>2
      <4>2. g[s] = w[First(s)] + f[s \ {First(s)}]
        BY <2>8, <3>2
      <4> QED
        BY <3>2, <4>1, <4>2
    <3> QED
      BY <3>1, <3>2
  <2>12. Solves(g, n + 1)
    BY <2>9, <2>11
  <2> HIDE DEF Solves
  <2> QED
    BY <2>12
<1>4. Cardinality(S) \in P
  <2>1. Cardinality(S) \in Nat
    BY FS_CardinalityType
  <2> HIDE DEF P
  <2> QED BY <1>2, <1>3, <2>1, NatByInduction
<1>5. PICK f : Solves(f, Cardinality(S))
  <2> HIDE DEF Solves
  <2> QED BY <1>4
<1>6. Level(Cardinality(S)) = SUBSET S
  BY <1>0
<1>7. Sums(f, w, S)
  BY <1>5, <1>6 DEF Sums
<1> QED
  BY <1>7

\* The sum of a set, and of a set without its first element.
LEMMA SumUnfolds ==
    ASSUME NEW S, NEW w, Weighed(w, S)
    PROVE  \E f : Sums(f, w, S) /\ SumBy(w, S) = f[S]
<1> DEFINE Eqn(g) == g = [s \in SUBSET S |->
                            IF s = {} THEN 0
                            ELSE w[CHOOSE x \in s : TRUE] + g[s \ {CHOOSE x \in s : TRUE}]]
           f == CHOOSE g : Eqn(g)
<1>0. PICK h : Sums(h, w, S)
  BY SumExists
<1>1. Eqn(h)
  BY <1>0, Zenon DEF Sums, First
<1>2. SumBy(w, S) = f[S]
  BY ZenonT(60) DEF SumBy, MapThenSumSet, MapThenFoldSet
<1>3. Eqn(f)
  <2> HIDE DEF Eqn
  <2> QED BY <1>1, Zenon
<1> HIDE DEF f
<1>4. ASSUME NEW s \in SUBSET S
      PROVE  f[s] = IF s = {} THEN 0 ELSE w[First(s)] + f[s \ {First(s)}]
  BY <1>3, Zenon DEF First
<1>a. f = [s \in SUBSET S |-> f[s]]
  BY <1>3, Zenon
<1>b. f = [s \in SUBSET S |-> IF s = {} THEN 0 ELSE w[First(s)] + f[s \ {First(s)}]]
  BY <1>3, Zenon DEF First
<1>c. IsFiniteSet(S) /\ \A t \in S : w[t] \in Nat
  BY DEF Weighed
<1> HIDE DEF Eqn
<1>5. f \in [SUBSET S -> Nat]
  <2> DEFINE Q == {n \in Nat : \A s \in SUBSET S : Cardinality(s) = n => f[s] \in Nat}
  <2>1. 0 \in Q
    <3>1. \A s \in SUBSET S : Cardinality(s) = 0 => s = {}
      BY <1>c, FS_Subset, FS_EmptySet
    <3>2. f[{}] = 0
      BY <1>4, {} \in SUBSET S, Zenon
    <3> QED
      BY <3>1, <3>2
  <2>2. ASSUME NEW n \in Nat, n \in Q
        PROVE  n + 1 \in Q
    <3>1. SUFFICES ASSUME NEW s \in SUBSET S, Cardinality(s) = n + 1
                   PROVE  f[s] \in Nat
      OBVIOUS
    <3>2. IsFiniteSet(s) /\ s # {}
      BY <1>c, <3>1, FS_Subset, FS_EmptySet
    <3>3. /\ First(s) \in s
          /\ Cardinality(s \ {First(s)}) \in Nat
          /\ Cardinality(s) = Cardinality(s \ {First(s)}) + 1
      BY <3>2, FirstRemoved
    <3>4. Cardinality(s \ {First(s)}) = n
      BY <3>1, <3>3
    <3>5. f[s \ {First(s)}] \in Nat /\ w[First(s)] \in Nat
      BY <1>c, <2>2, <3>3, <3>4
    <3>6. f[s] = w[First(s)] + f[s \ {First(s)}]
      BY <1>4, <3>2, Zenon
    <3> QED
      BY <3>5, <3>6
  <2>3. Nat \subseteq Q
    <3> HIDE DEF Q
    <3> QED BY <2>1, <2>2, NatByInduction
  <2>4. \A s \in SUBSET S : f[s] \in Nat
    BY <1>c, <2>3, FS_Subset, FS_CardinalityType
  <2> QED
    BY <1>a, <2>4
<1>6. Sums(f, w, S)
  BY <1>b, <1>5, Zenon DEF Sums
<1> QED
  BY <1>2, <1>6, Zenon

\* The sum of a part, and of a part without its first element.
LEMMA SumsOfPart ==
    ASSUME NEW S, NEW w, NEW f, Sums(f, w, S)
    PROVE  \A s \in SUBSET S :
              f[s] \in Nat /\ f[s] = IF s = {} THEN 0 ELSE w[First(s)] + f[s \ {First(s)}]
<1>1. f = [s \in SUBSET S |-> IF s = {} THEN 0 ELSE w[First(s)] + f[s \ {First(s)}]]
  BY Zenon DEF Sums
<1>2. \A s \in SUBSET S : f[s] = IF s = {} THEN 0 ELSE w[First(s)] + f[s \ {First(s)}]
  BY <1>1, Zenon
<1>3. \A s \in SUBSET S : f[s] \in Nat
  BY DEF Sums
<1> QED
  BY <1>2, <1>3, Zenon

\* The recursion of a set gives the sums of its subsets too.
LEMMA SumRecursion ==
    ASSUME NEW S, NEW w, Weighed(w, S)
    PROVE  /\ SumBy(w, S) \in Nat
           /\ SumBy(w, S) = IF S = {} THEN 0 ELSE w[First(S)] + SumBy(w, S \ {First(S)})
<1>0. PICK f : Sums(f, w, S) /\ SumBy(w, S) = f[S]
  BY SumUnfolds
<1>1. /\ SumBy(w, S) = f[S]
      /\ \A s \in SUBSET S :
            f[s] \in Nat /\ f[s] = IF s = {} THEN 0 ELSE w[First(s)] + f[s \ {First(s)}]
  BY <1>0, SumsOfPart
<1>2. CASE S = {}
  BY <1>1, <1>2
<1>3. CASE S # {}
  <2>1. PICK T : T = S \ {First(S)}
    OBVIOUS
  <2>2. T \subseteq S /\ IsFiniteSet(T) /\ Weighed(w, T)
    BY <2>1, FS_Subset DEF Weighed
  <2>a. PICK g : Sums(g, w, T) /\ SumBy(w, T) = g[T]
    BY <2>2, SumUnfolds
  <2>3. /\ SumBy(w, T) = g[T]
        /\ \A s \in SUBSET T :
              g[s] \in Nat /\ g[s] = IF s = {} THEN 0 ELSE w[First(s)] + g[s \ {First(s)}]
    BY <2>a, SumsOfPart
  <2> DEFINE Q == {n \in Nat : \A s \in SUBSET T : Cardinality(s) = n => f[s] = g[s]}
  <2>4. 0 \in Q
    <3>1. \A s \in SUBSET T : Cardinality(s) = 0 => s = {}
      BY <2>2, FS_Subset, FS_EmptySet
    <3> QED
      BY <1>1, <2>2, <2>3, <3>1
  <2>5. ASSUME NEW n \in Nat, n \in Q
        PROVE  n + 1 \in Q
    <3>1. SUFFICES ASSUME NEW s \in SUBSET T, Cardinality(s) = n + 1
                   PROVE  f[s] = g[s]
      OBVIOUS
    <3>2. IsFiniteSet(s) /\ s # {}
      BY <2>2, <3>1, FS_Subset, FS_EmptySet
    <3>3. /\ First(s) \in s
          /\ Cardinality(s \ {First(s)}) \in Nat
          /\ Cardinality(s) = Cardinality(s \ {First(s)}) + 1
      BY <3>2, FirstRemoved
    <3>4. Cardinality(s \ {First(s)}) = n
      BY <3>1, <3>3
    <3>5. f[s \ {First(s)}] = g[s \ {First(s)}]
      BY <2>5, <3>4
    <3>6. s \in SUBSET S
      BY <2>2
    <3> QED
      BY <1>1, <2>3, <3>2, <3>5, <3>6
  <2>6. Nat \subseteq Q
    <3> HIDE DEF Q
    <3> QED BY <2>4, <2>5, NatByInduction
  <2>7. f[T] = g[T]
    <3>1. Cardinality(T) \in Nat
      BY <2>2, FS_CardinalityType
    <3> QED
      BY <2>6, <3>1
  <2> QED
    BY <1>1, <1>3, <2>1, <2>3, <2>7
<1> QED
  BY <1>2, <1>3

\* One element more adds its weight, whichever the fold takes first.
LEMMA SumAdds ==
    ASSUME NEW S, NEW w, NEW x, Weighed(w, S), x \notin S, w[x] \in Nat
    PROVE  SumBy(w, S \cup {x}) = w[x] + SumBy(w, S)
<1> DEFINE Q == {n \in Nat : \A T \in SUBSET (S \cup {x}) : \A y \in S \cup {x} :
                     Cardinality(T) = n /\ y \notin T =>
                        SumBy(w, T \cup {y}) = w[y] + SumBy(w, T)}
<1>0. IsFiniteSet(S \cup {x}) /\ \A t \in S \cup {x} : w[t] \in Nat
  BY FS_AddElement DEF Weighed
<1>1. \A T \in SUBSET (S \cup {x}) : Weighed(w, T) /\ SumBy(w, T) \in Nat /\ Cardinality(T) \in Nat
  <2> TAKE T \in SUBSET (S \cup {x})
  <2>1. Weighed(w, T)
    BY <1>0, FS_Subset DEF Weighed
  <2> QED
    BY <2>1, SumRecursion, FS_CardinalityType DEF Weighed
<1>2. \A T \in SUBSET (S \cup {x}) : T # {} =>
          /\ First(T) \in T
          /\ Cardinality(T) = Cardinality(T \ {First(T)}) + 1
          /\ SumBy(w, T) = w[First(T)] + SumBy(w, T \ {First(T)})
  BY <1>1, SumRecursion, FirstRemoved DEF Weighed
<1>3. ASSUME NEW n \in Nat, \A m \in Nat : m < n => m \in Q
      PROVE  n \in Q
  <2>1. SUFFICES ASSUME NEW T \in SUBSET (S \cup {x}), NEW y \in S \cup {x},
                        Cardinality(T) = n, y \notin T
                 PROVE  SumBy(w, T \cup {y}) = w[y] + SumBy(w, T)
    OBVIOUS
  <2>2. PICK U \in SUBSET (S \cup {x}) : U = T \cup {y}
    OBVIOUS
  <2>3. PICK z : z = First(U)
    OBVIOUS
  <2>4. z \in U /\ SumBy(w, U) = w[z] + SumBy(w, U \ {z})
    BY <1>2, <2>2, <2>3
  <2>5. CASE z = y
    <3>1. U \ {z} = T
      BY <2>1, <2>2, <2>5
    <3> QED
      BY <2>2, <2>4, <2>5, <3>1
  <2>6. CASE z # y
    <3>1. z \in T
      BY <2>2, <2>4, <2>6
    <3>2. PICK V \in SUBSET (S \cup {x}) : V = T \ {z}
      OBVIOUS
    <3>3. Cardinality(V) \in Nat /\ Cardinality(V) < n
      <4>1. IsFiniteSet(T)
        BY <1>1 DEF Weighed
      <4>2. Cardinality(V) = Cardinality(T) - 1
        BY <3>1, <3>2, <4>1, FS_RemoveElement
      <4>3. Cardinality(V) \in Nat
        BY <1>1
      <4> QED
        BY <2>1, <4>2, <4>3
    <3>4. Cardinality(V) \in Q
      BY <1>3, <3>3
    <3>5. y \notin V /\ z \notin V /\ z \in S \cup {x}
      BY <2>1, <3>1, <3>2
    <3>6. SumBy(w, V \cup {y}) = w[y] + SumBy(w, V) /\ SumBy(w, V \cup {z}) = w[z] + SumBy(w, V)
      BY <3>4, <3>5
    <3>7. V \cup {z} = T /\ V \cup {y} = U \ {z}
      BY <2>1, <2>2, <2>6, <3>1, <3>2
    <3>8. w[z] \in Nat /\ w[y] \in Nat /\ SumBy(w, V) \in Nat
      BY <1>0, <1>1, <3>5
    <3>9. SumBy(w, U) = w[z] + (w[y] + SumBy(w, V)) /\ SumBy(w, T) = w[z] + SumBy(w, V)
      BY <2>4, <3>6, <3>7, Zenon
    <3>10. SumBy(w, U) = w[y] + SumBy(w, T)
      BY <3>8, <3>9
    <3> QED
      BY <2>2, <3>10, Zenon
  <2> QED
    BY <2>5, <2>6
<1>4. Nat \subseteq Q
  <2> DEFINE R == {n \in Nat : \A m \in Nat : m <= n => m \in Q}
  <2> HIDE DEF Q
  <2>1. 0 \in R
    <3>1. 0 \in Q
      BY <1>3
    <3> QED
      BY <3>1
  <2>2. ASSUME NEW n \in Nat, n \in R
        PROVE  n + 1 \in R
    <3>1. \A m \in Nat : m < n + 1 => m \in Q
      BY <2>2
    <3>2. n + 1 \in Q
      BY <1>3, <3>1
    <3> QED
      BY <3>1, <3>2
  <2>3. Nat \subseteq R
    <3> HIDE DEF R
    <3> QED BY <2>1, <2>2, NatByInduction
  <2> QED
    BY <2>3
<1>5. Cardinality(S) \in Nat
  BY FS_CardinalityType DEF Weighed
<1> QED
  BY <1>4, <1>5

\* Only the weights of the elements count.
LEMMA SumSame ==
    ASSUME NEW S, NEW w, NEW v, Weighed(w, S), \A t \in S : v[t] = w[t]
    PROVE  SumBy(v, S) = SumBy(w, S) /\ SumBy(w, S) \in Nat
<1> DEFINE Q == {n \in Nat : \A T \in SUBSET S : Cardinality(T) = n => SumBy(v, T) = SumBy(w, T)}
<1>0. \A T \in SUBSET S :
          IsFiniteSet(T) /\ Cardinality(T) \in Nat /\ Weighed(w, T) /\ Weighed(v, T)
  BY FS_Subset, FS_CardinalityType DEF Weighed
<1>1. \A T \in SUBSET S :
          /\ SumBy(w, T) = IF T = {} THEN 0 ELSE w[First(T)] + SumBy(w, T \ {First(T)})
          /\ SumBy(v, T) = IF T = {} THEN 0 ELSE v[First(T)] + SumBy(v, T \ {First(T)})
  BY <1>0, SumRecursion
<1>2. 0 \in Q
  <2>1. \A T \in SUBSET S : Cardinality(T) = 0 => T = {}
    BY <1>0, FS_EmptySet
  <2> QED
    BY <1>1, <2>1
<1>3. ASSUME NEW n \in Nat, n \in Q
      PROVE  n + 1 \in Q
  <2>1. SUFFICES ASSUME NEW T \in SUBSET S, Cardinality(T) = n + 1
                 PROVE  SumBy(v, T) = SumBy(w, T)
    OBVIOUS
  <2>2. IsFiniteSet(T) /\ T # {}
    BY <1>0, <2>1, FS_EmptySet
  <2>3. PICK x : x = First(T)
    OBVIOUS
  <2>4. PICK U \in SUBSET S : U = T \ {x}
    OBVIOUS
  <2>5. x \in S /\ Cardinality(U) = n
    <3>1. /\ x \in T /\ Cardinality(U) \in Nat
          /\ Cardinality(T) = Cardinality(U) + 1
      BY <2>2, <2>3, <2>4, FirstRemoved
    <3> QED
      BY <2>1, <3>1
  <2>6. SumBy(v, U) = SumBy(w, U) /\ v[x] = w[x]
    BY <1>3, <2>5
  <2>7. SumBy(w, T) = w[x] + SumBy(w, U) /\ SumBy(v, T) = v[x] + SumBy(v, U)
    BY <1>1, <2>2, <2>3, <2>4, Zenon
  <2> QED
    BY <2>6, <2>7, Zenon
<1>4. Nat \subseteq Q
  <2> HIDE DEF Q
  <2> QED BY <1>2, <1>3, NatByInduction
<1>5. SumBy(w, S) \in Nat
  BY SumRecursion
<1> QED
  BY <1>0, <1>4, <1>5

\* Two sums of which one element at most makes the difference.
LEMMA SumExchange ==
    ASSUME NEW S, NEW T, NEW w, NEW v, NEW x, Weighed(w, S), Weighed(v, T),
           S \ {x} = T \ {x}, \A t \in S \ {x} : v[t] = w[t]
    PROVE  \E rest \in Nat :
               /\ SumBy(w, S) = rest + (IF x \in S THEN w[x] ELSE 0)
               /\ SumBy(v, T) = rest + (IF x \in T THEN v[x] ELSE 0)
<1>1. PICK U : U = S \ {x}
  OBVIOUS
<1>2. Weighed(w, U) /\ Weighed(v, U) /\ x \notin U /\ \A t \in U : v[t] = w[t]
  BY <1>1, FS_Subset DEF Weighed
<1>3. PICK rest \in Nat : SumBy(w, U) = rest /\ SumBy(v, U) = rest
  BY <1>2, SumSame
<1>4. SumBy(w, S) = rest + (IF x \in S THEN w[x] ELSE 0)
  <2>1. CASE x \in S
    <3>1. S = U \cup {x} /\ w[x] \in Nat
      BY <1>1, <2>1 DEF Weighed
    <3>2. SumBy(w, U \cup {x}) = w[x] + SumBy(w, U)
      BY <1>2, <3>1, SumAdds
    <3> QED
      BY <1>3, <2>1, <3>1, <3>2
  <2>2. CASE x \notin S
    <3>1. S = U
      BY <1>1, <2>2
    <3> QED
      BY <1>3, <2>2, <3>1
  <2> QED
    BY <2>1, <2>2
<1>5. SumBy(v, T) = rest + (IF x \in T THEN v[x] ELSE 0)
  <2>1. CASE x \in T
    <3>1. T = U \cup {x} /\ v[x] \in Nat
      BY <1>1, <2>1 DEF Weighed
    <3>2. SumBy(v, U \cup {x}) = v[x] + SumBy(v, U)
      BY <1>2, <3>1, SumAdds
    <3> QED
      BY <1>3, <2>1, <3>1, <3>2
  <2>2. CASE x \notin T
    <3>1. T = U
      BY <1>1, <2>2
    <3> QED
      BY <1>3, <2>2, <3>1
  <2> QED
    BY <2>1, <2>2
<1> QED
  BY <1>3, <1>4, <1>5

\* A part weighs no more than the whole.
LEMMA SumPart ==
    ASSUME NEW S, NEW w, NEW T \in SUBSET S, Weighed(w, S)
    PROVE  SumBy(w, T) \in Nat /\ SumBy(w, S) \in Nat /\ SumBy(w, T) <= SumBy(w, S)
<1> DEFINE Q == {n \in Nat : \A U \in SUBSET S :
                    T \subseteq U /\ Cardinality(U) = n => SumBy(w, T) <= SumBy(w, U)}
<1>0. \A U \in SUBSET S : /\ IsFiniteSet(U) /\ Cardinality(U) \in Nat
                          /\ Weighed(w, U) /\ SumBy(w, U) \in Nat
  <2> TAKE U \in SUBSET S
  <2>1. IsFiniteSet(U) /\ Weighed(w, U)
    BY FS_Subset DEF Weighed
  <2> QED
    BY <2>1, FS_CardinalityType, SumRecursion
<1>1. 0 \in Q
  <2>1. \A U \in SUBSET S : Cardinality(U) = 0 => U = {}
    BY <1>0, FS_EmptySet
  <2>2. \A U \in SUBSET S : T \subseteq U /\ Cardinality(U) = 0 => T = U
    BY <2>1
  <2>3. SumBy(w, T) \in Nat
    BY <1>0
  <2> QED
    BY <2>2, <2>3
<1>2. ASSUME NEW n \in Nat, n \in Q
      PROVE  n + 1 \in Q
  <2>1. SUFFICES ASSUME NEW U \in SUBSET S, T \subseteq U, Cardinality(U) = n + 1
                 PROVE  SumBy(w, T) <= SumBy(w, U)
    OBVIOUS
  <2>2. CASE U = T
    BY <1>0, <2>2
  <2>3. CASE U # T
    <3>1. PICK x \in U : x \notin T
      BY <2>1, <2>3
    <3>2. PICK V \in SUBSET S : V = U \ {x}
      OBVIOUS
    <3>3. IsFiniteSet(V) /\ Cardinality(V) = n
      <4>1. Cardinality(V) = Cardinality(U) - 1
        BY <1>0, <3>1, <3>2, FS_RemoveElement
      <4> QED
        BY <1>0, <2>1, <4>1
    <3>4. T \subseteq V
      BY <2>1, <3>1, <3>2
    <3>5. SumBy(w, T) <= SumBy(w, V)
      BY <1>2, <3>3, <3>4
    <3>6. U = V \cup {x} /\ x \notin V /\ w[x] \in Nat
      BY <3>1, <3>2 DEF Weighed
    <3>7. SumBy(w, V \cup {x}) = w[x] + SumBy(w, V)
      BY <1>0, <3>6, SumAdds
    <3>8. SumBy(w, T) \in Nat /\ SumBy(w, V) \in Nat
      BY <1>0
    <3> QED
      BY <3>5, <3>6, <3>7, <3>8
  <2> QED
    BY <2>2, <2>3
<1>3. Nat \subseteq Q
  <2> HIDE DEF Q
  <2> QED BY <1>1, <1>2, NatByInduction
<1> QED
  BY <1>0, <1>3

=============================================================================
