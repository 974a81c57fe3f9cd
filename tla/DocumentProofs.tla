--------------------------- MODULE DocumentProofs ---------------------------
(***************************************************************************)
(* Proofs about DocumentEdits, for any document, any batches of edits and  *)
(* any saves by other programs.                                            *)
(*                                                                         *)
(* Every edit grafts a text onto the document: it replaces some sections   *)
(* in a row, or none (Graft). What stands outside moves by a fixed number  *)
(* of places and keeps the headings over it, if what is put in begins no   *)
(* higher than what follows it (LevelFits). So each edit carries what it   *)
(* does not name to where a map says (Carried, NumbersCarried), and so     *)
(* does a batch, by an induction on its edits (AppliedKeeps).              *)
(*                                                                         *)
(* The invariant (DocumentInv) says which versions the task's results      *)
(* named, and what a call under way keeps of the one it is made of.        *)
(***************************************************************************)
EXTENDS DocumentEdits, FiniteSetTheorems, SequenceTheorems, WellFoundedInduction, TLAPS

-----------------------------------------------------------------------------
\* Numbers.

\* A set of numbers that is not empty has a least one.
LEMMA LeastIs ==
  ASSUME NEW S \in SUBSET Nat, S # {}
  PROVE  \E x \in S : \A y \in S : x <= y
<1>1. PICK x \in S : \A y \in S : ~(<<y, x>> \in OpToRel(<, Nat))
  BY NatLessThanWellFounded, WFMin
<1>2. \A y \in S : ~(y < x)
  BY <1>1 DEF OpToRel
<1> QED
  BY <1>2

\* Induction up to m, on the set of the numbers for which something holds.
LEMMA Climb ==
  ASSUME NEW m \in Nat, NEW T, 0 \in T, \A n \in 1 .. m : n - 1 \in T => n \in T
  PROVE  \A n \in 0 .. m : n \in T
<1> DEFINE Bad == {n \in 0 .. m : n \notin T}
<1> SUFFICES ASSUME Bad # {} PROVE FALSE
  OBVIOUS
<1>1. Bad \in SUBSET Nat
  OBVIOUS
<1>2. PICK n \in Bad : \A k \in Bad : n <= k
  <2> HIDE DEF Bad
  <2> QED
    BY <1>1, LeastIs
<1>3. n \in 1 .. m /\ n \notin T
  BY <1>2
<1>4. n - 1 \in 0 .. m /\ ~(n <= n - 1)
  BY <1>3
<1>5. n - 1 \in T
  BY <1>2, <1>4
<1> QED
  BY <1>3, <1>5

\* Repetition of a step on the elements of a set, up to m times.
LEMMA Iterates ==
  ASSUME NEW X, NEW x \in X, NEW m \in Nat, NEW F, \A n \in 1 .. m : \A y \in X : F[n][y] \in X
  PROVE  \E f : f = [n \in 0 .. m |-> IF n = 0 THEN x ELSE F[n][f[n - 1]]] /\ f \in [0 .. m -> X]
<1> DEFINE Does(k, f) == f = [n \in 0 .. k |-> IF n = 0 THEN x ELSE F[n][f[n - 1]]]
           Has(k) == \E f : Does(k, f) /\ f \in [0 .. k -> X]
           T == {k \in 0 .. m : Has(k)}
<1>1. 0 \in T
  <2>1. Does(0, [n \in 0 .. 0 |-> x]) /\ [n \in 0 .. 0 |-> x] \in [0 .. 0 -> X]
    OBVIOUS
  <2>2. Has(0)
    BY <2>1
  <2> HIDE DEF Has
  <2> QED
    BY <2>2
<1>2. ASSUME NEW k \in 1 .. m, k - 1 \in T
      PROVE  k \in T
  <2>1. PICK f : Does(k - 1, f) /\ f \in [0 .. k - 1 -> X]
    BY <1>2
  <2> DEFINE lastTo == F[k][f[k - 1]]
             g == [n \in 0 .. k |-> IF n = k THEN lastTo ELSE f[n]]
  <2>2. g \in [0 .. k -> X]
    <3>1. f[k - 1] \in X
      BY <2>1
    <3>2. lastTo \in X
      BY <3>1
    <3> HIDE DEF lastTo
    <3> QED
      BY <2>1, <3>2
  <2>3. ASSUME NEW n \in 0 .. k
        PROVE  g[n] = IF n = 0 THEN x ELSE F[n][g[n - 1]]
    <3>1. CASE n = k
      <4>1. n # 0 /\ g[n] = lastTo /\ g[n - 1] = f[n - 1]
        BY <3>1
      <4> QED
        BY <3>1, <4>1
    <3>2. CASE n # k
      <4>1. n \in 0 .. k - 1 /\ g[n] = f[n]
        BY <3>2
      <4>2. n # 0 => g[n - 1] = f[n - 1]
        BY <4>1
      <4>3. f[n] = IF n = 0 THEN x ELSE F[n][f[n - 1]]
        BY <2>1, <4>1
      <4> HIDE DEF g
      <4> QED
        BY <4>1, <4>2, <4>3
    <3> QED
      BY <3>1, <3>2
  <2>4. Does(k, g)
    BY <2>3
  <2>5. Has(k)
    BY <2>2, <2>4
  <2> HIDE DEF Has
  <2> QED
    BY <2>5
<1>3. \A k \in 0 .. m : k \in T
  <2> HIDE DEF T
  <2> QED
    BY <1>1, <1>2, Climb
<1>4. Has(m)
  <2> HIDE DEF Has
  <2> QED
    BY <1>3
<1> QED
  BY <1>4

-----------------------------------------------------------------------------
\* The elements of a finite set by their rank: how many stand below each.
LEMMA RankIs ==
  ASSUME NEW S, IsFiniteSet(S), NEW below \in [S -> SUBSET S],
         \A x \in S : x \notin below[x],
         \A x, y \in S : x # y => x \in below[y] \/ y \in below[x],
         \A x, y \in S : x \in below[y] => below[x] \subseteq below[y]
  PROVE  /\ Cardinality(S) \in Nat
         /\ \A x \in S : Cardinality(below[x]) \in 0 .. Cardinality(S) - 1
         /\ \A x, y \in S : x \in below[y] => Cardinality(below[x]) < Cardinality(below[y])
         /\ \A n \in 1 .. Cardinality(S) : \E x \in S : Cardinality(below[x]) = n - 1
<1> DEFINE c == Cardinality(S)
           rank == [x \in S |-> Cardinality(below[x])]
<1>1. c \in Nat
  BY FS_CardinalityType
<1>2. \A x \in S : IsFiniteSet(below[x]) /\ Cardinality(below[x]) \in Nat
  BY FS_Subset, FS_CardinalityType
<1>3. ASSUME NEW x \in S
      PROVE  rank[x] \in 0 .. c - 1
  <2>1. below[x] # S /\ below[x] \in SUBSET S
    OBVIOUS
  <2>2. Cardinality(below[x]) <= c /\ c # Cardinality(below[x])
    BY <2>1, FS_Subset
  <2> QED
    BY <1>1, <1>2, <2>2
<1>4. ASSUME NEW x \in S, NEW y \in S, x \in below[y]
      PROVE  rank[x] < rank[y]
  <2>1. below[x] \in SUBSET below[y] /\ below[x] # below[y]
    BY <1>4
  <2>2. Cardinality(below[x]) <= Cardinality(below[y])
    BY <1>2, <2>1, FS_Subset
  <2>3. Cardinality(below[y]) # Cardinality(below[x])
    BY <1>2, <2>1, FS_Subset
  <2> QED
    BY <1>2, <2>2, <2>3
<1> HIDE DEF rank, c
<1>5. rank \in [S -> 0 .. c - 1]
  BY <1>3 DEF rank
<1>6. \A x, y \in S : rank[x] = rank[y] => x = y
  <2> TAKE x, y \in S
  <2>1. rank[x] \in Int /\ rank[y] \in Int
    BY <1>1, <1>3
  <2> QED
    BY <1>4, <2>1
<1>7. rank \in Injection(S, 0 .. c - 1)
  BY <1>5, <1>6 DEF Injection, IsInjective
<1>8. IsFiniteSet(0 .. c - 1) /\ Cardinality(0 .. c - 1) = c
  BY <1>1, FS_Interval
<1>9. rank \in Surjection(S, 0 .. c - 1)
  BY <1>7, <1>8, FS_Injection DEF c
<1>10. ASSUME NEW n \in 1 .. c
       PROVE  \E x \in S : rank[x] = n - 1
  <2>1. n - 1 \in 0 .. c - 1
    BY <1>1
  <2> QED
    BY <1>9, <2>1 DEF Surjection
<1> QED
  BY <1>1, <1>3, <1>4, <1>10 DEF rank, c

\* The numbers of a bounded set, ascending.
Under(S, x) == {y \in S : y < x}

Lists(s, S) ==
  /\ Cardinality(S) \in Nat
  /\ s \in [1 .. Cardinality(S) -> S] /\ s \in Seq(S) /\ Len(s) = Cardinality(S)
  /\ \A n \in 1 .. Cardinality(S) : Cardinality(Under(S, s[n])) = n - 1
  /\ \A i, j \in 1 .. Cardinality(S) : i < j => s[i] < s[j]
  /\ \A x \in S : \E n \in 1 .. Cardinality(S) : s[n] = x

LEMMA ListIs ==
  ASSUME NEW m \in Nat, NEW S \in SUBSET (0 .. m) PROVE Lists(InOrder(S), S)
<1> DEFINE s == InOrder(S)
<1> DEFINE below == [x \in S |-> {y \in S : y < x}]
<1>1. IsFiniteSet(S) /\ S \subseteq Nat
  <2> DEFINE a == 0
  <2>1. a \in Int /\ m \in Int
    OBVIOUS
  <2> HIDE DEF a
  <2>2. IsFiniteSet(a .. m)
    BY <2>1, FS_Interval
  <2>3. S \in SUBSET (a .. m)
    BY DEF a
  <2>4. IsFiniteSet(S)
    BY <2>2, <2>3, FS_Subset
  <2>5. S \subseteq Nat
    OBVIOUS
  <2> QED
    BY <2>4, <2>5
<1>3. \A x \in S : below[x] = {y \in S : y < x}
  OBVIOUS
<1>12. below \in [S -> SUBSET S]
  OBVIOUS
<1> HIDE DEF below
<1>2. /\ \A x \in S : x \notin below[x]
      /\ \A x, y \in S : x # y => x \in below[y] \/ y \in below[x]
      /\ \A x, y \in S : x \in below[y] => below[x] \subseteq below[y]
  <2>1. \A x \in S : x \in Int
    BY <1>1
  <2>2. ASSUME NEW x \in S
        PROVE  x \notin below[x]
    <3>1. x \in Int /\ below[x] = {y \in S : y < x}
      BY <1>3, <2>1
    <3>2. ~(x < x)
      BY <3>1
    <3> QED
      BY <3>1, <3>2
  <2>3. ASSUME NEW x \in S, NEW y \in S, x # y
        PROVE  x \in below[y] \/ y \in below[x]
    <3>1. x < y \/ y < x
      BY <2>1, <2>3
    <3> QED
      BY <1>3, <3>1
  <2>4. ASSUME NEW x \in S, NEW y \in S, x \in below[y], NEW z \in below[x]
        PROVE  z \in below[y]
    <3>1. x < y /\ z \in S /\ z < x
      BY <1>3, <2>4
    <3>2. z < y
      BY <2>1, <3>1
    <3> QED
      BY <1>3, <3>1, <3>2
  <2> QED
    BY <2>2, <2>3, <2>4
<1>4. /\ Cardinality(S) \in Nat
      /\ \A x \in S : Cardinality(below[x]) \in 0 .. Cardinality(S) - 1
      /\ \A x, y \in S : x \in below[y] => Cardinality(below[x]) < Cardinality(below[y])
      /\ \A n \in 1 .. Cardinality(S) : \E x \in S : Cardinality(below[x]) = n - 1
  BY <1>1, <1>2, <1>12, RankIs
<1> HIDE DEF s
<1>5. ASSUME NEW n \in 1 .. Cardinality(S)
      PROVE  s[n] \in S /\ Cardinality(below[s[n]]) = n - 1
  <2>1. n \in 1 .. Cardinality(S)
    OBVIOUS
  <2>2. s[n] = CHOOSE x \in S : Cardinality({y \in S : y < x}) = n - 1
    BY <2>1 DEF InOrder, s
  <2>3. \E x \in S : Cardinality({y \in S : y < x}) = n - 1
    <3>1. PICK x \in S : Cardinality(below[x]) = n - 1
      BY <1>4
    <3>2. Cardinality({y \in S : y < x}) = n - 1
      BY <1>3, <3>1
    <3> QED
      BY <3>2
  <2>4. s[n] \in S /\ Cardinality({y \in S : y < s[n]}) = n - 1
    BY <2>2, <2>3
  <2> QED
    BY <1>3, <2>4
<1>6. s \in [1 .. Cardinality(S) -> S]
  BY <1>5 DEF InOrder, s
<1>7. s \in Seq(S) /\ Len(s) = Cardinality(S)
  BY <1>4, <1>6
<1>8. \A n \in 1 .. Cardinality(S) : Cardinality(Under(S, s[n])) = n - 1
  <2> SUFFICES ASSUME NEW n \in 1 .. Cardinality(S)
               PROVE  Cardinality(Under(S, s[n])) = n - 1
    OBVIOUS
  <2>1. Under(S, s[n]) = below[s[n]]
    BY <1>3, <1>5 DEF Under
  <2> QED
    BY <1>5, <2>1
<1>9. \A x, y \in S : x < y => Cardinality(below[x]) < Cardinality(below[y])
  BY <1>3, <1>4
<1>10. ASSUME NEW a \in 1 .. Cardinality(S), NEW b \in 1 .. Cardinality(S), a < b
       PROVE  s[a] < s[b]
  <2>1. s[a] \in Nat /\ s[b] \in Nat /\ s[a] \in S /\ s[b] \in S
    BY <1>1, <1>5
  <2>2. Cardinality(below[s[a]]) = a - 1 /\ Cardinality(below[s[b]]) = b - 1
    BY <1>5
  <2>3. CASE s[b] < s[a]
    BY <1>4, <1>9, <1>10, <2>1, <2>2, <2>3
  <2>4. CASE s[a] = s[b]
    BY <1>4, <1>10, <2>2, <2>4
  <2> QED
    BY <2>1, <2>3, <2>4
<1>11. ASSUME NEW x \in S
       PROVE  \E n \in 1 .. Cardinality(S) : s[n] = x
  <2> DEFINE n == Cardinality(below[x]) + 1
  <2>1. n \in 1 .. Cardinality(S) /\ n - 1 = Cardinality(below[x])
    BY <1>4
  <2> HIDE DEF n
  <2>2. s[n] \in S /\ Cardinality(below[s[n]]) = Cardinality(below[x])
    BY <1>5, <2>1
  <2> DEFINE y == s[n]
  <2>5. y \in S /\ Cardinality(below[y]) = Cardinality(below[x])
    BY <2>2
  <2> HIDE DEF y
  <2>6. Cardinality(below[x]) \in Int
    BY <1>4
  <2>3. y \notin below[x] /\ x \notin below[y]
    BY <1>4, <2>5, <2>6
  <2>4. s[n] = x
    BY <1>2, <2>3, <2>5 DEF y
  <2> QED
    BY <2>1, <2>4
<1> HIDE DEF s
<1>13. Lists(s, S)
  BY <1>4, <1>6, <1>7, <1>8, <1>10, <1>11 DEF Lists
<1> QED
  BY <1>13 DEF s

LEMMA BoundedFinite ==
  ASSUME NEW m \in Nat, NEW S \in SUBSET (0 .. m) PROVE IsFiniteSet(S) /\ S \in SUBSET Nat
<1> DEFINE a == 0
<1>1. a \in Int /\ m \in Int
  OBVIOUS
<1>2. S \in SUBSET Nat
  OBVIOUS
<1>4. S \in SUBSET (a .. m)
  OBVIOUS
<1> HIDE DEF a
<1>3. IsFiniteSet(a .. m)
  BY <1>1, FS_Interval
<1> QED
  BY <1>2, <1>3, <1>4, FS_Subset

\* An ascending map of one set onto another.
Ascends(f, S, T) ==
  /\ f \in [S -> T]
  /\ \A x, y \in S : x < y => f[x] < f[y]
  /\ \A y \in T : \E x \in S : f[x] = y

\* An order is kept by an ascending map onto another set.
LEMMA ListCarried ==
  ASSUME NEW S \in SUBSET Nat, IsFiniteSet(S), NEW T \in SUBSET Nat,
         Lists(InOrder(S), S), Lists(InOrder(T), T), NEW f, Ascends(f, S, T)
  PROVE  /\ Cardinality(S) = Cardinality(T)
         /\ \A n \in 1 .. Cardinality(S) : InOrder(T)[n] = f[InOrder(S)[n]]
<1> DEFINE s == InOrder(S)
           t == InOrder(T)
<1>0. Lists(s, S) /\ Lists(t, T)
  OBVIOUS
<1> HIDE DEF s, t
<1>6. \A x \in S : x \in Nat /\ f[x] \in T /\ f[x] \in Nat
  BY DEF Ascends
<1>7. \A x, y \in S : x < y => f[x] < f[y]
  BY DEF Ascends
<1>8. \A y \in T : \E x \in S : f[x] = y
  BY DEF Ascends
<1>1. \A x, y \in S : f[x] < f[y] <=> x < y
  <2> TAKE x, y \in S
  <2>1. x \in Int /\ y \in Int /\ f[x] \in Int /\ f[y] \in Int
    BY <1>6
  <2>2. CASE x < y
    BY <1>7, <2>1, <2>2
  <2>3. CASE y < x
    BY <1>7, <2>1, <2>3
  <2>4. CASE x = y
    BY <2>1, <2>4
  <2> QED
    BY <2>1, <2>2, <2>3, <2>4
<1>2. \A x, y \in S : f[x] = f[y] => x = y
  <2> TAKE x, y \in S
  <2>1. x \in Int /\ y \in Int /\ f[x] \in Int /\ f[y] \in Int
    BY <1>6
  <2> QED
    BY <1>1, <2>1
<1>3. ASSUME NEW A \in SUBSET S, NEW B, B = {f[x] : x \in A}
      PROVE  Cardinality(A) = Cardinality(B)
  <2> DEFINE g == [x \in A |-> f[x]]
  <2>1. g \in Bijection(A, B)
    BY <1>2, <1>3 DEF Bijection, Injection, Surjection, IsInjective
  <2>2. IsFiniteSet(A)
    BY FS_Subset
  <2> HIDE DEF g
  <2>3. ExistsBijection(A, B)
    BY <2>1 DEF ExistsBijection
  <2> QED
    BY <2>2, <2>3, FS_Bijection
<1>4. Cardinality(S) = Cardinality(T)
  <2>1. T = {f[x] : x \in S}
    BY <1>6, <1>8
  <2> QED
    BY <1>3, <2>1
<1>5. ASSUME NEW n \in 1 .. Cardinality(S)
      PROVE  t[n] = f[s[n]]
  <2>1. s[n] \in S /\ Cardinality(Under(S, s[n])) = n - 1
    BY <1>0 DEF Lists
  <2>2. PICK k \in 1 .. Cardinality(T) : t[k] = f[s[n]]
    BY <1>0, <1>6, <2>1 DEF Lists
  <2>3. Cardinality(Under(T, t[k])) = k - 1
    BY <1>0, <2>2 DEF Lists
  <2>4. Under(T, t[k]) = {f[x] : x \in Under(S, s[n])}
    <3>1. Under(T, t[k]) = {y \in T : y < f[s[n]]} /\ Under(S, s[n]) = {x \in S : x < s[n]}
      BY <2>2 DEF Under
    <3>2. ASSUME NEW x \in S, x < s[n]
          PROVE  f[x] \in T /\ f[x] < f[s[n]]
      BY <1>6, <1>7, <2>1, <3>2
    <3>3. ASSUME NEW y \in T, y < f[s[n]]
          PROVE  \E x \in S : x < s[n] /\ f[x] = y
      <4>1. PICK x \in S : f[x] = y
        BY <1>8
      <4> QED
        BY <1>1, <2>1, <3>3, <4>1
    <3> QED
      BY <3>1, <3>2, <3>3
  <2>5. Under(S, s[n]) \in SUBSET S
    BY DEF Under
  <2>6. Cardinality(Under(S, s[n])) = Cardinality(Under(T, t[k]))
    BY <1>3, <2>4, <2>5
  <2>7. n - 1 = k - 1 /\ n \in Int /\ k \in Int
    BY <1>0, <1>4, <2>1, <2>3, <2>6 DEF Lists
  <2> QED
    BY <2>2, <2>7
<1> QED
  BY <1>4, <1>5 DEF s, t

\* The positions up to one of them are the first ones.
LEMMA ListInitial ==
  ASSUME NEW S \in SUBSET Nat, IsFiniteSet(S), NEW x \in Nat, NEW T, T = {y \in S : y <= x},
         Lists(InOrder(S), S), Lists(InOrder(T), T)
  PROVE  /\ Cardinality(T) <= Cardinality(S)
         /\ \A n \in 1 .. Cardinality(T) : InOrder(T)[n] = InOrder(S)[n]
<1> DEFINE s == InOrder(S)
           t == InOrder(T)
<1>0. Lists(s, S) /\ Lists(t, T)
  OBVIOUS
<1> HIDE DEF s, t
<1>1. Cardinality(T) \in Nat /\ Cardinality(S) \in Nat
  BY <1>0 DEF Lists
<1>2. Cardinality(T) <= Cardinality(S)
  <2>1. T \in SUBSET S
    OBVIOUS
  <2> QED
    BY <2>1, FS_Subset
<1>3. ASSUME NEW n \in 1 .. Cardinality(T)
      PROVE  t[n] = s[n]
  <2>1. t[n] \in T /\ t[n] \in S /\ Cardinality(Under(T, t[n])) = n - 1
    BY <1>0 DEF Lists
  <2>2. Under(T, t[n]) = Under(S, t[n])
    <3>1. \A y \in S : y < t[n] => y <= x
      <4>1. t[n] \in Nat /\ t[n] <= x
        BY <2>1
      <4> QED
        BY <4>1
    <3> QED
      BY <3>1 DEF Under
  <2>3. PICK k \in 1 .. Cardinality(S) : s[k] = t[n]
    BY <1>0, <2>1 DEF Lists
  <2>4. Cardinality(Under(S, s[k])) = k - 1
    BY <1>0, <2>3 DEF Lists
  <2>5. n - 1 = k - 1
    BY <2>1, <2>2, <2>3, <2>4
  <2>6. n = k
    BY <1>1, <2>5
  <2> QED
    BY <2>3, <2>6
<1> QED
  BY <1>2, <1>3 DEF s, t

-----------------------------------------------------------------------------
\* Headings and their paths.

LEMMA HeadingsAre ==
  ASSUME NEW d \in Seq(Sections), NEW S \in SUBSET DOMAIN d
  PROVE  /\ Lists(InOrder(S), S) /\ IsFiniteSet(S) /\ S \in SUBSET Nat
         /\ Headings(d, S) \in Seq(Heads) /\ Len(Headings(d, S)) = Cardinality(S)
         /\ DOMAIN Headings(d, S) = 1 .. Cardinality(S)
         /\ \A n \in 1 .. Cardinality(S) :
              InOrder(S)[n] \in S /\ Headings(d, S)[n] = d[InOrder(S)[n]].head
<1>1. S \in SUBSET (0 .. Len(d)) /\ Len(d) \in Nat
  OBVIOUS
<1>2. Lists(InOrder(S), S) /\ IsFiniteSet(S) /\ S \in SUBSET Nat
  BY <1>1, ListIs, BoundedFinite
<1>3. DOMAIN InOrder(S) = 1 .. Cardinality(S) /\ Cardinality(S) \in Nat
  BY <1>2 DEF Lists
<1>4. Headings(d, S) = [n \in 1 .. Cardinality(S) |-> d[InOrder(S)[n]].head]
  BY <1>3 DEF Headings
<1>5. ASSUME NEW n \in 1 .. Cardinality(S)
      PROVE  InOrder(S)[n] \in S /\ d[InOrder(S)[n]].head \in Heads
  <2>1. InOrder(S)[n] \in S
    BY <1>2 DEF Lists
  <2>2. d[InOrder(S)[n]] \in Sections
    BY <2>1
  <2> QED
    BY <2>1, <2>2 DEF Sections
<1>6. Headings(d, S) \in [1 .. Cardinality(S) -> Heads]
  BY <1>4, <1>5
<1>7. Headings(d, S) \in Seq(Heads) /\ Len(Headings(d, S)) = Cardinality(S)
  BY <1>3, <1>6
<1> QED
  BY <1>2, <1>4, <1>5, <1>7

LEMMA HeadingsCarried ==
  ASSUME NEW d \in Seq(Sections), NEW e \in Seq(Sections),
         NEW S \in SUBSET DOMAIN d, NEW T \in SUBSET DOMAIN e, NEW f, Ascends(f, S, T),
         \A x \in S : e[f[x]].head = d[x].head
  PROVE  Headings(d, S) = Headings(e, T)
<1>1. /\ Lists(InOrder(S), S) /\ IsFiniteSet(S) /\ S \in SUBSET Nat
      /\ Headings(d, S) \in Seq(Heads) /\ Len(Headings(d, S)) = Cardinality(S)
      /\ \A n \in 1 .. Cardinality(S) :
           InOrder(S)[n] \in S /\ Headings(d, S)[n] = d[InOrder(S)[n]].head
  BY HeadingsAre
<1>2. /\ Lists(InOrder(T), T) /\ T \in SUBSET Nat
      /\ Headings(e, T) \in Seq(Heads) /\ Len(Headings(e, T)) = Cardinality(T)
      /\ \A n \in 1 .. Cardinality(T) : Headings(e, T)[n] = e[InOrder(T)[n]].head
  BY HeadingsAre
<1>3. /\ Cardinality(S) = Cardinality(T)
      /\ \A n \in 1 .. Cardinality(S) : InOrder(T)[n] = f[InOrder(S)[n]]
  <2>1. S \in SUBSET Nat /\ IsFiniteSet(S) /\ Lists(InOrder(S), S)
    BY <1>1
  <2>2. T \in SUBSET Nat /\ Lists(InOrder(T), T)
    BY <1>2
  <2> QED
    BY <2>1, <2>2, ListCarried
<1>4. \A n \in 1 .. Cardinality(S) : Headings(d, S)[n] = Headings(e, T)[n]
  BY <1>1, <1>2, <1>3
<1> DEFINE p == Headings(d, S)
           q == Headings(e, T)
<1>5. p \in Seq(Heads) /\ q \in Seq(Heads) /\ Len(p) = Len(q)
  BY <1>1, <1>2, <1>3
<1>6. \A n \in 1 .. Len(p) : p[n] = q[n]
  BY <1>1, <1>4
<1> HIDE DEF p, q
<1>7. p = q
  BY <1>5, <1>6, SeqEqual, Zenon
<1> QED
  BY <1>7 DEF p, q

LEMMA FirstItems ==
  ASSUME NEW X, NEW s \in Seq(X), NEW n \in Nat, n <= Len(s)
  PROVE  /\ SubSeq(s, 1, n) \in Seq(X) /\ Len(SubSeq(s, 1, n)) = n
         /\ \A k \in 1 .. n : SubSeq(s, 1, n)[k] = s[k]
OBVIOUS

LEMMA HeadingsInitial ==
  ASSUME NEW d \in Seq(Sections), NEW S \in SUBSET DOMAIN d, NEW x \in Nat,
         NEW T, T = {y \in S : y <= x}
  PROVE  /\ Cardinality(T) <= Cardinality(S)
         /\ Headings(d, T) = SubSeq(Headings(d, S), 1, Cardinality(T))
<1>1. T \in SUBSET DOMAIN d
  OBVIOUS
<1>2. /\ Lists(InOrder(S), S) /\ IsFiniteSet(S) /\ S \in SUBSET Nat
      /\ Headings(d, S) \in Seq(Heads) /\ Len(Headings(d, S)) = Cardinality(S)
      /\ \A n \in 1 .. Cardinality(S) : Headings(d, S)[n] = d[InOrder(S)[n]].head
  BY HeadingsAre
<1>3. /\ Lists(InOrder(T), T)
      /\ Headings(d, T) \in Seq(Heads) /\ Len(Headings(d, T)) = Cardinality(T)
      /\ \A n \in 1 .. Cardinality(T) : Headings(d, T)[n] = d[InOrder(T)[n]].head
  BY <1>1, HeadingsAre
<1>4. /\ Cardinality(T) <= Cardinality(S)
      /\ \A n \in 1 .. Cardinality(T) : InOrder(T)[n] = InOrder(S)[n]
  <2>1. S \in SUBSET Nat /\ IsFiniteSet(S) /\ Lists(InOrder(S), S)
    BY <1>2
  <2>2. Lists(InOrder(T), T)
    BY <1>3
  <2> QED
    BY <2>1, <2>2, ListInitial
<1>5. Cardinality(T) \in Nat /\ Cardinality(S) \in Nat
  BY <1>2, <1>3 DEF Lists
<1> DEFINE q == SubSeq(Headings(d, S), 1, Cardinality(T))
<1>6. q \in Seq(Heads) /\ Len(q) = Cardinality(T)
      /\ \A n \in 1 .. Cardinality(T) : q[n] = Headings(d, S)[n]
  BY <1>2, <1>4, <1>5, FirstItems
<1>7. \A n \in 1 .. Cardinality(T) : Headings(d, T)[n] = q[n]
  <2> TAKE n \in 1 .. Cardinality(T)
  <2>1. n \in 1 .. Cardinality(S)
    BY <1>4, <1>5
  <2> HIDE DEF q
  <2> QED
    BY <1>2, <1>3, <1>4, <1>6, <2>1
<1> HIDE DEF q
<1>8. Headings(d, T) = q
  <2> DEFINE p == Headings(d, T)
  <2>1. p \in Seq(Heads) /\ q \in Seq(Heads) /\ Len(p) = Len(q)
    BY <1>3, <1>6
  <2>2. \A n \in 1 .. Len(p) : p[n] = q[n]
    BY <1>3, <1>7
  <2> HIDE DEF p
  <2>3. p = q
    BY <2>1, <2>2, SeqEqual, Zenon
  <2> QED
    BY <2>3 DEF p
<1> QED
  BY <1>4, <1>8 DEF q

LEMMA LevelIs ==
  ASSUME NEW d \in Seq(Sections), NEW i \in 1 .. Len(d)
  PROVE  /\ d[i] \in Sections /\ d[i].head \in Heads /\ d[i].head.level \in 1 .. 7
         /\ d[i].head.level \in Int /\ d[i].body \in Seq(STRING)
<1>1. d[i] \in Sections
  OBVIOUS
<1>2. d[i].head \in Heads /\ d[i].body \in Seq(STRING)
  BY <1>1 DEF Sections
<1>3. d[i].head.level \in 1 .. 7
  <2>1. CASE d[i].head = Preamble
    <3>1. Preamble.level = 7
      BY DEF Preamble
    <3>2. d[i].head.level = 7
      BY <2>1, <3>1
    <3> QED
      BY <3>2
  <2>2. CASE d[i].head # Preamble
    <3>1. d[i].head \in [level : 1 .. 6, num : Seq(Nat), name : STRING]
      BY <1>2, <2>2 DEF Heads
    <3>2. d[i].head.level \in 1 .. 6
      BY <3>1
    <3> QED
      BY <3>2
  <2> QED
    BY <2>1, <2>2
<1> QED
  BY <1>1, <1>2, <1>3

LEMMA OverIs ==
  ASSUME NEW d \in Seq(Sections), NEW i \in DOMAIN d
  PROVE  /\ Over(d, i) \in SUBSET DOMAIN d /\ i \in Over(d, i)
         /\ \A j \in Over(d, i) : j \in 1 .. i /\ Over(d, j) = {y \in Over(d, i) : y <= j}
<1>1. i \in 1 .. Len(d) /\ Len(d) \in Nat /\ DOMAIN d = 1 .. Len(d)
  OBVIOUS
<1>2. \A j \in 1 .. Len(d) : d[j].head.level \in Int
  BY LevelIs
<1>3. Over(d, i) \in SUBSET DOMAIN d /\ i \in Over(d, i)
  BY <1>1 DEF Over
<1>4. ASSUME NEW j \in Over(d, i)
      PROVE  j \in 1 .. i /\ Over(d, j) = {y \in Over(d, i) : y <= j}
  <2>1. j \in 1 .. i /\ \A k \in j + 1 .. i : d[k].head.level > d[j].head.level
    BY DEF Over
  <2>2. ASSUME NEW y \in Over(d, j)
        PROVE  y \in Over(d, i) /\ y <= j
    <3>1. y \in 1 .. j /\ \A k \in y + 1 .. j : d[k].head.level > d[y].head.level
      BY DEF Over
    <3>2. y \in 1 .. i
      BY <2>1, <3>1, <1>1
    <3>3. ASSUME NEW k \in y + 1 .. i
          PROVE  d[k].head.level > d[y].head.level
      <4>1. k \in 1 .. Len(d) /\ y \in 1 .. Len(d) /\ j \in 1 .. Len(d)
        BY <1>1, <2>1, <3>1
      <4>2. CASE k <= j
        BY <3>1, <4>1, <4>2
      <4>3. CASE k > j
        <5>1. d[k].head.level > d[j].head.level
          BY <2>1, <4>1, <4>3
        <5>2. y = j \/ d[j].head.level > d[y].head.level
          BY <3>1, <4>1
        <5> QED
          BY <1>2, <4>1, <5>1, <5>2
      <4> QED
        BY <4>1, <4>2, <4>3
    <3> QED
      BY <3>1, <3>2, <3>3 DEF Over
  <2>3. ASSUME NEW y \in Over(d, i), y <= j
        PROVE  y \in Over(d, j)
    <3>1. y \in 1 .. i /\ \A k \in y + 1 .. i : d[k].head.level > d[y].head.level
      BY DEF Over
    <3>2. y \in 1 .. j
      BY <1>1, <2>1, <2>3, <3>1
    <3>3. \A k \in y + 1 .. j : k \in y + 1 .. i
      BY <1>1, <2>1, <3>2
    <3> QED
      BY <3>1, <3>2, <3>3 DEF Over
  <2>4. Over(d, j) = {y \in Over(d, i) : y <= j}
    BY <2>2, <2>3
  <2> QED
    BY <2>1, <2>4
<1> QED
  BY <1>3, <1>4

\* A heading's path ends in it, and its beginnings are the paths of those it is under.
LEMMA PathIs ==
  ASSUME NEW d \in Seq(Sections), NEW i \in DOMAIN d
  PROVE  /\ Path(d, i) \in Seq(Heads) /\ Len(Path(d, i)) >= 1
         /\ Path(d, i)[Len(Path(d, i))] = d[i].head
         /\ ToSet(Path(d, i)) = {d[j].head : j \in Over(d, i)}
         /\ \A j \in Over(d, i) :
              \E n \in 1 .. Len(Path(d, i)) :
                Path(d, j) = SubSeq(Path(d, i), 1, n) /\ (n = Len(Path(d, i)) => j = i)
         /\ \A n \in 1 .. Len(Path(d, i)) :
              \E j \in Over(d, i) : Path(d, j) = SubSeq(Path(d, i), 1, n)
         /\ Parent(d, i) = Headings(d, Over(d, i) \ {i})
<1> DEFINE S == Over(d, i)
           p == Path(d, i)
           s == InOrder(S)
<1>1. S \in SUBSET DOMAIN d /\ i \in S
      /\ \A j \in S : j \in 1 .. i /\ Over(d, j) = {y \in S : y <= j}
  BY OverIs
<1> HIDE DEF S
<1>2. p = Headings(d, S)
  BY DEF Path, S
<1>3. /\ Lists(s, S) /\ IsFiniteSet(S) /\ S \in SUBSET Nat
      /\ p \in Seq(Heads) /\ Len(p) = Cardinality(S) /\ DOMAIN p = 1 .. Cardinality(S)
      /\ \A n \in 1 .. Cardinality(S) : s[n] \in S /\ p[n] = d[s[n]].head
  BY <1>1, <1>2, HeadingsAre
<1> HIDE DEF p, s
<1>4. Cardinality(S) \in Nat /\ \A x \in S : \E n \in 1 .. Cardinality(S) : s[n] = x
  BY <1>3 DEF Lists
<1>5. Cardinality(S) >= 1 /\ s[Cardinality(S)] = i
  <2>1. PICK n \in 1 .. Cardinality(S) : s[n] = i
    BY <1>1, <1>4
  <2>2. n = Cardinality(S)
    <3> SUFFICES ASSUME n # Cardinality(S) PROVE FALSE
      OBVIOUS
    <3>1. n < Cardinality(S) /\ Cardinality(S) \in 1 .. Cardinality(S)
      BY <1>4
    <3>2. s[n] < s[Cardinality(S)]
      BY <1>3, <3>1 DEF Lists
    <3>3. s[Cardinality(S)] \in 1 .. i
      BY <1>1, <1>3, <3>1
    <3> QED
      BY <2>1, <3>2, <3>3
  <2> QED
    BY <1>4, <2>1, <2>2
<1>6. ToSet(p) = {d[j].head : j \in S}
  <2>1. ToSet(p) = {p[n] : n \in 1 .. Cardinality(S)}
    BY <1>3 DEF ToSet
  <2>2. ASSUME NEW n \in 1 .. Cardinality(S)
        PROVE  p[n] \in {d[j].head : j \in S}
    BY <1>3
  <2>3. ASSUME NEW j \in S
        PROVE  d[j].head \in ToSet(p)
    <3>1. PICK n \in 1 .. Cardinality(S) : s[n] = j
      BY <1>4
    <3>2. p[n] = d[j].head
      BY <1>3, <3>1
    <3> QED
      BY <2>1, <3>2
  <2> QED
    BY <2>1, <2>2, <2>3
<1>7. ASSUME NEW n \in 1 .. Cardinality(S)
      PROVE  /\ s[n] \in S /\ Path(d, s[n]) = SubSeq(p, 1, n)
  <2>1. s[n] \in S /\ s[n] \in Nat /\ s[n] \in DOMAIN d
    BY <1>1, <1>3
  <2> DEFINE T == {y \in S : y <= s[n]}
  <2>2. Over(d, s[n]) = T
    BY <1>1, <2>1
  <2>3. T \in SUBSET DOMAIN d
    BY <1>1
  <2>4. /\ Cardinality(T) <= Cardinality(S)
        /\ Headings(d, T) = SubSeq(p, 1, Cardinality(T))
    BY <1>1, <1>2, <2>1, HeadingsInitial
  <2>5. Cardinality(T) = n
    <3> DEFINE u == Under(S, s[n])
    <3>1. Cardinality(u) = n - 1
      BY <1>3 DEF Lists
    <3>2. T = u \cup {s[n]} /\ s[n] \notin u
      BY <1>3, <2>1 DEF Under
    <3>3. IsFiniteSet(u)
      BY <1>3, FS_Subset DEF Under
    <3> HIDE DEF u, T
    <3>4. Cardinality(T) = Cardinality(u) + 1
      BY <3>2, <3>3, FS_AddElement
    <3> QED
      BY <1>4, <3>1, <3>4
  <2> HIDE DEF T
  <2> QED
    BY <2>1, <2>2, <2>4, <2>5 DEF Path
<1>8. ASSUME NEW j \in S
      PROVE  \E n \in 1 .. Len(p) : Path(d, j) = SubSeq(p, 1, n) /\ (n = Len(p) => j = i)
  <2>1. PICK n \in 1 .. Cardinality(S) : s[n] = j
    BY <1>4
  <2> QED
    BY <1>3, <1>5, <1>7, <2>1
<1>9. \A n \in 1 .. Len(p) : \E j \in S : Path(d, j) = SubSeq(p, 1, n)
  BY <1>3, <1>7
<1>10. Parent(d, i) = Headings(d, S \ {i})
  <2>1. i \in Nat \ {0} /\ i - 1 \in Nat
    <3>1. DOMAIN d = 1 .. Len(d) /\ Len(d) \in Nat
      OBVIOUS
    <3> QED
      BY <3>1
  <2>2. S \ {i} = {y \in S : y <= i - 1}
    BY <1>1, <2>1
  <2> DEFINE T == S \ {i}
  <2>3. T \in SUBSET DOMAIN d /\ Headings(d, T) = SubSeq(p, 1, Cardinality(T))
    BY <1>1, <1>2, <2>1, <2>2, HeadingsInitial
  <2>4. Cardinality(T) = Cardinality(S) - 1
    BY <1>1, <1>3, FS_RemoveElement
  <2> HIDE DEF T
  <2>5. Front(p) = SubSeq(p, 1, Cardinality(S) - 1)
    BY <1>3 DEF Front
  <2> QED
    BY <2>3, <2>4, <2>5 DEF Parent, p, T
<1> QED
  BY <1>1, <1>3, <1>5, <1>6, <1>8, <1>9, <1>10 DEF p, S

-----------------------------------------------------------------------------
\* A text put in the place of some sections, or between two.

Graft(d, a, b, text) == SubSeq(d, 1, a - 1) \o text \o SubSeq(d, b, Len(d))
Outside(d, a, b) == {m \in DOMAIN d : m < a \/ b <= m}
Moved(a, b, n, m) == IF m < a THEN m ELSE m - b + a + n

\* What is put in, and what it replaces, stands at the level of what follows or below.
LevelFits(d, a, b, text) ==
  /\ a \in 1 .. Len(d) + 1 /\ b \in a .. Len(d) + 1
  /\ b <= Len(d) =>
       /\ \A j \in a .. b - 1 : d[j].head.level >= d[b].head.level
       /\ \A k \in DOMAIN text : text[k].head.level >= d[b].head.level

LEMMA GraftIs ==
  ASSUME NEW d \in Seq(Sections), NEW text \in Seq(Sections),
         NEW a \in 1 .. Len(d) + 1, NEW b \in a .. Len(d) + 1
  PROVE  /\ Graft(d, a, b, text) \in Seq(Sections)
         /\ Len(Graft(d, a, b, text)) = (a - 1) + Len(text) + (Len(d) + 1 - b)
         /\ \A m \in 1 .. a - 1 : Graft(d, a, b, text)[m] = d[m]
         /\ \A k \in 1 .. Len(text) : Graft(d, a, b, text)[a - 1 + k] = text[k]
         /\ \A m \in b .. Len(d) : Graft(d, a, b, text)[m - b + a + Len(text)] = d[m]
<1> DEFINE n == Len(d)
           x == SubSeq(d, 1, a - 1)
           y == SubSeq(d, b, n)
           h == x \o text
           r == Graft(d, a, b, text)
<1>1. n \in Nat /\ a \in Int /\ b \in Int /\ 1 <= a /\ a <= b /\ b <= n + 1 /\ Len(text) \in Nat
  OBVIOUS
<1>2. x \in Seq(Sections) /\ Len(x) = a - 1 /\ \A m \in 1 .. a - 1 : x[m] = d[m]
  BY <1>1, FirstItems
<1>3. y \in Seq(Sections) /\ Len(y) = n + 1 - b /\ \A m \in 1 .. n + 1 - b : y[m] = d[m + b - 1]
  <2>1. \A i \in b .. n : d[i] \in Sections
    BY <1>1
  <2>2. /\ y \in Seq(Sections)
        /\ Len(y) = IF b <= n THEN n - b + 1 ELSE 0
        /\ \A i \in 1 .. n - b + 1 : y[i] = d[b + i - 1]
    BY <1>1, <2>1, SubSeqProperties
  <2> HIDE DEF y
  <2>3. \A i \in 1 .. n - b + 1 : b + i - 1 = i + b - 1
    BY <1>1
  <2> QED
    <3>1. Len(y) = n + 1 - b /\ n + 1 - b = n - b + 1
      BY <1>1, <2>2
    <3> QED
      BY <2>2, <2>3, <3>1
<1> HIDE DEF x, y
<1>4. /\ h \in Seq(Sections) /\ Len(h) = a - 1 + Len(text)
      /\ \A i \in 1 .. a - 1 + Len(text) : h[i] = IF i <= a - 1 THEN x[i] ELSE text[i - (a - 1)]
  <2>1. /\ h \in Seq(Sections) /\ Len(h) = Len(x) + Len(text)
        /\ \A i \in 1 .. Len(x) + Len(text) : h[i] = IF i <= Len(x) THEN x[i] ELSE text[i - Len(x)]
    BY <1>2, ConcatProperties, Zenon
  <2> HIDE DEF h
  <2> QED
    BY <1>2, <2>1
<1> HIDE DEF h
<1>5. r = h \o y
  BY DEF Graft, x, y, h
<1>6. /\ r \in Seq(Sections) /\ Len(r) = a - 1 + Len(text) + (n + 1 - b)
      /\ \A i \in 1 .. a - 1 + Len(text) + (n + 1 - b) :
           r[i] = IF i <= a - 1 + Len(text) THEN h[i] ELSE y[i - (a - 1 + Len(text))]
  <2> HIDE DEF r
  <2>1. /\ r \in Seq(Sections) /\ Len(r) = Len(h) + Len(y)
        /\ \A i \in 1 .. Len(h) + Len(y) : r[i] = IF i <= Len(h) THEN h[i] ELSE y[i - Len(h)]
    BY <1>3, <1>4, <1>5, ConcatProperties, Zenon
  <2> QED
    BY <1>3, <1>4, <2>1
<1> HIDE DEF r
<1>7. ASSUME NEW m \in 1 .. a - 1
      PROVE  r[m] = d[m]
  <2>1. /\ m \in 1 .. a - 1 + Len(text) + (n + 1 - b) /\ m <= a - 1 + Len(text)
        /\ m \in 1 .. a - 1 + Len(text) /\ m <= a - 1
    BY <1>1
  <2> QED
    BY <1>2, <1>4, <1>6, <2>1
<1>8. ASSUME NEW k \in 1 .. Len(text)
      PROVE  r[a - 1 + k] = text[k]
  <2>1. /\ a - 1 + k \in 1 .. a - 1 + Len(text) + (n + 1 - b) /\ a - 1 + k <= a - 1 + Len(text)
        /\ a - 1 + k \in 1 .. a - 1 + Len(text) /\ ~(a - 1 + k <= a - 1)
        /\ a - 1 + k - (a - 1) = k
    BY <1>1
  <2>2. r[a - 1 + k] = h[a - 1 + k]
    BY <1>6, <2>1
  <2>3. h[a - 1 + k] = text[a - 1 + k - (a - 1)]
    BY <1>4, <2>1
  <2> QED
    BY <2>1, <2>2, <2>3
<1>9. ASSUME NEW m \in b .. n
      PROVE  r[m - b + a + Len(text)] = d[m]
  <2> DEFINE i == m - b + a + Len(text)
             q == i - (a - 1 + Len(text))
  <2>1. i \in 1 .. a - 1 + Len(text) + (n + 1 - b) /\ ~(i <= a - 1 + Len(text))
    BY <1>1
  <2>2. q = m + 1 - b /\ q \in 1 .. n + 1 - b /\ q + b - 1 = m
    BY <1>1
  <2> HIDE DEF i
  <2>3. r[i] = y[q]
    BY <1>6, <2>1
  <2> HIDE DEF q
  <2> QED
    BY <1>3, <2>2, <2>3 DEF i
<1> QED
  BY <1>6, <1>7, <1>8, <1>9 DEF r

\* Where the places of a graft come from: what was outside of it, or the text.
Stays(d, r, a, b, n) ==
  \A m \in Outside(d, a, b) :
    /\ Moved(a, b, n, m) \in DOMAIN r
    /\ r[Moved(a, b, n, m)] = d[m]
    /\ Moved(a, b, n, m) \notin a .. a - 1 + n
Comes(text, r, a) == \A t \in a .. a - 1 + Len(text) : t \in DOMAIN r /\ r[t] = text[t - a + 1]
Whence(d, r, a, b, n) ==
  \A q \in DOMAIN r : q \in a .. a - 1 + n \/ \E m \in Outside(d, a, b) : q = Moved(a, b, n, m)
InPlace(d, a, b, n) ==
  \A m, q \in Outside(d, a, b) : m < q <=> Moved(a, b, n, m) < Moved(a, b, n, q)

LEMMA GraftPlaces ==
  ASSUME NEW d \in Seq(Sections), NEW text \in Seq(Sections),
         NEW a \in 1 .. Len(d) + 1, NEW b \in a .. Len(d) + 1,
         NEW r, r = Graft(d, a, b, text)
  PROVE  /\ r \in Seq(Sections) /\ DOMAIN r = 1 .. Len(r) /\ DOMAIN d = 1 .. Len(d)
         /\ Len(r) \in Nat /\ Len(d) \in Nat
         /\ Stays(d, r, a, b, Len(text)) /\ Comes(text, r, a)
         /\ Whence(d, r, a, b, Len(text)) /\ InPlace(d, a, b, Len(text))
<1> DEFINE n == Len(text)
<1>1. /\ r \in Seq(Sections) /\ Len(r) = (a - 1) + n + (Len(d) + 1 - b)
      /\ \A m \in 1 .. a - 1 : r[m] = d[m]
      /\ \A k \in 1 .. n : r[a - 1 + k] = text[k]
      /\ \A m \in b .. Len(d) : r[m - b + a + n] = d[m]
  BY GraftIs
<1>2. /\ Len(d) \in Nat /\ a \in Int /\ b \in Int /\ 1 <= a /\ a <= b /\ b <= Len(d) + 1
      /\ n \in Nat /\ DOMAIN d = 1 .. Len(d)
  OBVIOUS
<1> HIDE DEF n
<1>3. Len(r) \in Nat /\ DOMAIN r = 1 .. Len(r)
  BY <1>1
<1>4. ASSUME NEW m \in Outside(d, a, b)
      PROVE  /\ Moved(a, b, n, m) \in DOMAIN r /\ r[Moved(a, b, n, m)] = d[m]
             /\ Moved(a, b, n, m) \notin a .. a - 1 + n
  <2>1. m \in 1 .. Len(d) /\ (m < a \/ b <= m)
    BY <1>2 DEF Outside
  <2>2. CASE m < a
    <3>1. Moved(a, b, n, m) = m /\ m \in 1 .. a - 1 /\ m \in 1 .. Len(r)
      BY <1>1, <1>2, <2>1, <2>2 DEF Moved
    <3> QED
      BY <1>1, <1>2, <1>3, <3>1
  <2>3. CASE ~(m < a)
    <3>1. Moved(a, b, n, m) = m - b + a + n /\ m \in b .. Len(d)
      BY <1>2, <2>1, <2>3 DEF Moved
    <3>2. m - b + a + n \in 1 .. Len(r) /\ m - b + a + n \notin a .. a - 1 + n
      BY <1>1, <1>2, <3>1
    <3> QED
      BY <1>1, <1>3, <3>1, <3>2
  <2> QED
    BY <2>2, <2>3
<1>5. ASSUME NEW t \in a .. a - 1 + n
      PROVE  t \in DOMAIN r /\ r[t] = text[t - a + 1]
  <2>1. t - a + 1 \in 1 .. n /\ a - 1 + (t - a + 1) = t /\ t \in 1 .. Len(r)
    BY <1>1, <1>2
  <2>2. r[a - 1 + (t - a + 1)] = text[t - a + 1]
    BY <1>1, <2>1
  <2> QED
    BY <1>3, <2>1, <2>2
<1>6. ASSUME NEW q \in DOMAIN r, q \notin a .. a - 1 + n
      PROVE  \E m \in Outside(d, a, b) : q = Moved(a, b, n, m)
  <2>1. q \in 1 .. Len(r)
    BY <1>3
  <2>2. CASE q < a
    <3>1. q \in Outside(d, a, b) /\ Moved(a, b, n, q) = q
      BY <1>2, <2>1, <2>2 DEF Outside, Moved
    <3> QED
      BY <3>1
  <2>3. CASE ~(q < a)
    <3> DEFINE m == q - a - n + b
    <3>1. m \in b .. Len(d)
      BY <1>1, <1>2, <1>6, <2>1, <2>3
    <3>2. m - b + a + n = q
      BY <1>2, <2>1
    <3> HIDE DEF m
    <3>3. m \in Outside(d, a, b) /\ Moved(a, b, n, m) = m - b + a + n
      BY <1>2, <3>1 DEF Outside, Moved
    <3> QED
      BY <3>2, <3>3
  <2> QED
    BY <2>2, <2>3
<1>7. ASSUME NEW m \in Outside(d, a, b), NEW q \in Outside(d, a, b)
      PROVE  m < q <=> Moved(a, b, n, m) < Moved(a, b, n, q)
  <2>1. m \in 1 .. Len(d) /\ (m < a \/ b <= m) /\ q \in 1 .. Len(d) /\ (q < a \/ b <= q)
    BY <1>2 DEF Outside
  <2> QED
    BY <1>2, <2>1 DEF Moved
<1> QED
  <2>1. Stays(d, r, a, b, n)
    BY <1>4 DEF Stays
  <2>2. Comes(text, r, a)
    BY <1>5 DEF Comes, n
  <2>3. Whence(d, r, a, b, n)
    BY <1>6 DEF Whence
  <2>4. InPlace(d, a, b, n)
    BY <1>7 DEF InPlace
  <2> QED
    BY <1>1, <1>2, <1>3, <2>1, <2>2, <2>3, <2>4 DEF n

\* The headings over a section outside of the graft are outside of it, and stay.
LEMMA GraftOver ==
  ASSUME NEW d \in Seq(Sections), NEW text \in Seq(Sections), NEW a, NEW b,
         LevelFits(d, a, b, text), NEW r, r = Graft(d, a, b, text), NEW m \in Outside(d, a, b),
         NEW f, f = [j \in Over(d, m) |-> Moved(a, b, Len(text), j)]
  PROVE  /\ Over(d, m) \in SUBSET Outside(d, a, b)
         /\ Ascends(f, Over(d, m), Over(r, Moved(a, b, Len(text), m)))
<1> DEFINE n == Len(text)
           M(j) == Moved(a, b, n, j)
           L(j) == d[j].head.level
<1>1. a \in 1 .. Len(d) + 1 /\ b \in a .. Len(d) + 1
  BY DEF LevelFits
<1>2. /\ r \in Seq(Sections) /\ DOMAIN r = 1 .. Len(r) /\ DOMAIN d = 1 .. Len(d)
      /\ Len(r) \in Nat /\ Len(d) \in Nat
      /\ Stays(d, r, a, b, n) /\ Comes(text, r, a) /\ Whence(d, r, a, b, n) /\ InPlace(d, a, b, n)
  BY <1>1, GraftPlaces
<1>15. \A j \in Outside(d, a, b) :
         M(j) \in DOMAIN r /\ r[M(j)] = d[j] /\ M(j) \notin a .. a - 1 + n
  BY <1>2 DEF Stays
<1>16. \A t \in a .. a - 1 + n : t \in DOMAIN r /\ r[t] = text[t - a + 1]
  BY <1>2 DEF Comes
<1>17. \A q \in DOMAIN r : q \in a .. a - 1 + n \/ \E j \in Outside(d, a, b) : q = M(j)
  BY <1>2 DEF Whence
<1>18. \A j, q \in Outside(d, a, b) : j < q <=> M(j) < M(q)
  BY <1>2 DEF InPlace
<1>3. \A j \in 1 .. Len(d) : L(j) \in Int
  BY LevelIs
<1>4. \A j \in Outside(d, a, b) : j \in 1 .. Len(d) /\ (j < a \/ b <= j) /\ M(j) \in Nat
  BY <1>2, <1>15 DEF Outside
<1>13. Len(text) \in Nat /\ n \in Nat /\ a \in Nat /\ b \in Nat /\ a <= b
      /\ 1 <= a /\ 1 <= b
  BY <1>1, <1>2
<1>14. \A j \in Outside(d, a, b) : M(j) = IF j < a THEN j ELSE j - b + a + n
  BY DEF Moved
<1>5. m \in 1 .. Len(d) /\ (m < a \/ b <= m)
  BY <1>4
<1>6. Over(d, m) \in SUBSET Outside(d, a, b)
  <2>0. \A j \in Over(d, m) : j \in 1 .. Len(d)
    BY <1>5, <1>2 DEF Over
  <2> SUFFICES ASSUME NEW j \in Over(d, m), ~(j < a), ~(b <= j) PROVE FALSE
    BY <1>2, <2>0 DEF Outside
  <2>1. j \in 1 .. m /\ \A k \in j + 1 .. m : L(k) > L(j)
    BY DEF Over
  <2>2. j \in a .. b - 1 /\ b \in j + 1 .. m /\ b <= Len(d) /\ j \in 1 .. Len(d)
        /\ b \in 1 .. Len(d)
    BY <1>1, <1>5, <1>13, <2>1
  <2>3. L(b) > L(j) /\ L(j) >= L(b)
    BY <2>1, <2>2 DEF LevelFits
  <2> QED
    <3> DEFINE x == L(b)
               y == L(j)
    <3>1. x \in Int /\ y \in Int /\ x > y /\ y >= x
      BY <1>3, <2>2, <2>3
    <3> HIDE DEF x, y
    <3> QED
      BY <3>1
<1>7. \A t \in a .. a - 1 + n : b <= m => r[t].head.level >= L(b)
  <2> TAKE t \in a .. a - 1 + n
  <2>1. t - a + 1 \in DOMAIN text /\ r[t] = text[t - a + 1]
    BY <1>2, <1>13, <1>16
  <2>2. b <= m => b <= Len(d)
    BY <1>5, <1>13
  <2> QED
    BY <2>1, <2>2 DEF LevelFits
<1> HIDE DEF n, M
<1>8. \A j, k \in Outside(d, a, b) : M(j) = M(k) => j = k
  <2> TAKE j, k \in Outside(d, a, b)
  <2>1. j \in Nat /\ k \in Nat /\ M(j) \in Nat /\ M(k) \in Nat
    BY <1>4
  <2> QED
    BY <1>18, <2>1
<1>9. ASSUME NEW j \in Over(d, m)
      PROVE  M(j) \in Over(r, M(m))
  <2>1. j \in 1 .. m /\ j \in Outside(d, a, b) /\ \A k \in j + 1 .. m : L(k) > L(j)
    BY <1>6 DEF Over
  <2>2. M(j) \in 1 .. M(m)
    <3>1. M(j) \in DOMAIN r /\ M(m) \in DOMAIN r
      BY <1>15, <2>1
    <3>2. j = m \/ M(j) < M(m)
      BY <1>5, <1>18, <2>1
    <3> QED
      BY <1>2, <3>1, <3>2
  <2>3. ASSUME NEW q \in M(j) + 1 .. M(m)
        PROVE  r[q].head.level > r[M(j)].head.level
    <3>1. q \in DOMAIN r /\ M(j) \in Nat /\ M(m) \in Nat /\ M(j) < q /\ q <= M(m) /\ r[M(j)] = d[j]
      <4>1. M(j) \in Nat /\ M(m) \in Nat /\ M(m) \in 1 .. Len(r) /\ r[M(j)] = d[j]
        BY <1>2, <1>4, <1>15, <2>1
      <4>2. q \in Nat /\ M(j) < q /\ q <= M(m)
        BY <4>1
      <4> QED
        BY <1>2, <4>1, <4>2
    <3>2. CASE q \in a .. a - 1 + n
      <4>1. j < a /\ b <= m
        <5>1. q \in Nat /\ a <= q /\ q <= a - 1 + n
          BY <1>13, <3>2 DEF n
        <5>2. ~(j < a) => M(j) >= a + n
          <6>1. M(j) = IF j < a THEN j ELSE j - b + a + n
            BY <1>14, <2>1
          <6>2. ~(j < a) => b <= j
            BY <1>4, <2>1
          <6> QED
            BY <1>13, <2>1, <6>1, <6>2 DEF n
        <5>3. m < a => M(m) < a
          <6>1. M(m) = IF m < a THEN m ELSE m - b + a + n
            BY <1>14
          <6> QED
            BY <6>1
        <5> QED
          BY <1>5, <1>13, <3>1, <5>1, <5>2, <5>3 DEF n
      <4>2. b \in j + 1 .. m /\ b \in 1 .. Len(d) /\ j \in 1 .. Len(d)
        BY <1>5, <1>13, <2>1, <4>1
      <4>3. L(b) > L(j) /\ r[q].head.level >= L(b)
        BY <1>7, <2>1, <3>2, <4>1, <4>2 DEF n
      <4>4. r[q].head.level \in Int /\ L(b) \in Int /\ L(j) \in Int
        BY <1>2, <1>3, <3>1, <4>2, LevelIs
      <4> QED
        BY <3>1, <4>3, <4>4
    <3>3. CASE q \notin a .. a - 1 + n
      <4>1. PICK k \in Outside(d, a, b) : q = M(k)
        BY <1>17, <3>1, <3>3
      <4>2. j < k /\ (k < m \/ k = m)
        <5>1. M(j) < M(k) /\ (M(k) < M(m) \/ M(k) = M(m))
          BY <1>4, <3>1, <4>1
        <5> QED
          BY <1>8, <1>18, <2>1, <4>1, <5>1
      <4>3. k \in j + 1 .. m
        BY <1>4, <1>5, <2>1, <4>1, <4>2
      <4> QED
        BY <1>15, <2>1, <3>1, <4>1, <4>3
    <3> QED
      BY <3>2, <3>3
  <2> QED
    BY <2>2, <2>3 DEF Over
<1>10. ASSUME NEW q \in Over(r, M(m))
       PROVE  \E j \in Over(d, m) : q = M(j)
  <2>1. q \in 1 .. M(m) /\ \A k \in q + 1 .. M(m) : r[k].head.level > r[q].head.level
    BY DEF Over
  <2>2. M(m) \in 1 .. Len(r) /\ q \in DOMAIN r /\ q \in Nat
    BY <1>2, <1>4, <1>15, <2>1
  <2>3. q \notin a .. a - 1 + n
    <3> SUFFICES ASSUME q \in a .. a - 1 + n PROVE FALSE
      OBVIOUS
    <3>1. b <= m
      <4>1. m < a => M(m) < a
        <5>1. M(m) = IF m < a THEN m ELSE m - b + a + n
          BY <1>14
        <5> QED
          BY <5>1
      <4> QED
        BY <1>5, <1>13, <2>1, <2>2, <4>1 DEF n
    <3>2. b \in Outside(d, a, b) /\ b \in 1 .. Len(d)
      BY <1>2, <1>5, <1>13, <3>1 DEF Outside
    <3>3. M(b) \in q + 1 .. M(m) /\ r[M(b)] = d[b]
      <4>1. M(b) = a + n
        BY <1>13, <1>14, <3>2 DEF n
      <4>2. b = m \/ M(b) < M(m)
        BY <1>5, <1>13, <1>18, <3>1, <3>2
      <4>3. r[M(b)] = d[b] /\ M(b) \in Nat /\ M(m) \in Nat
        BY <1>4, <1>15, <3>2
      <4>4. q < a + n
        BY <1>13, <2>2 DEF n
      <4>5. M(b) > q /\ (M(b) = M(m) \/ M(b) < M(m))
        BY <4>1, <4>2, <4>4
      <4> QED
        BY <2>2, <4>3, <4>5
    <3>4. L(b) > r[q].head.level /\ r[q].head.level >= L(b)
      BY <1>7, <2>1, <3>1, <3>3 DEF n
    <3>5. r[q].head.level \in Int /\ L(b) \in Int
      BY <1>2, <1>3, <2>2, <3>2, LevelIs
    <3> QED
      BY <3>4, <3>5
  <2>4. PICK j \in Outside(d, a, b) : q = M(j)
    BY <1>17, <2>2, <2>3
  <2>5. j \in 1 .. m
    <3>1. M(j) < M(m) \/ M(j) = M(m)
      BY <2>1, <2>2, <2>4
    <3>2. j < m \/ j = m
      BY <1>8, <1>18, <2>4, <3>1
    <3> QED
      BY <1>4, <1>5, <2>4, <3>2
  <2>6. ASSUME NEW k \in j + 1 .. m
        PROVE  L(k) > L(j)
    <3>1. k \in 1 .. Len(d) /\ j < k /\ j \in 1 .. Len(d) /\ (j < a \/ b <= j)
      BY <1>4, <1>5, <2>4, <2>5
    <3>2. ASSUME NEW i \in Outside(d, a, b), j < i, i <= m
          PROVE  L(i) > L(j)
      <4>1. M(j) < M(i) /\ (M(i) < M(m) \/ M(i) = M(m)) /\ M(i) \in Nat /\ M(j) \in Nat
        <5>1. i < m \/ i = m
          BY <1>4, <1>5, <3>2
        <5> QED
          BY <1>4, <1>18, <2>4, <3>2, <5>1
      <4>2. M(i) \in q + 1 .. M(m)
        BY <2>2, <2>4, <4>1
      <4> QED
        BY <1>15, <2>1, <2>4, <4>2
    <3>3. CASE k \in Outside(d, a, b)
      BY <1>5, <3>1, <3>2, <3>3
    <3>4. CASE k \notin Outside(d, a, b)
      <4>1. k \in a .. b - 1 /\ j < a
        BY <1>2, <1>13, <3>1, <3>4 DEF Outside
      <4>2. b <= m /\ b <= Len(d) /\ b \in Outside(d, a, b) /\ b \in 1 .. Len(d)
        BY <1>2, <1>5, <1>13, <3>1, <4>1 DEF Outside
      <4>3. L(b) > L(j)
        BY <1>13, <3>1, <3>2, <4>1, <4>2
      <4>4. L(k) >= L(b)
        BY <4>1, <4>2 DEF LevelFits
      <4> QED
        BY <1>3, <3>1, <4>2, <4>3, <4>4
    <3> QED
      BY <3>3, <3>4
  <2>7. j \in Over(d, m)
    BY <2>5, <2>6 DEF Over
  <2> QED
    BY <2>4, <2>7
<1>11. /\ f \in [Over(d, m) -> Over(r, M(m))]
       /\ \A j \in Over(d, m) : f[j] = M(j)
  BY <1>9 DEF M, n
<1>12. Ascends(f, Over(d, m), Over(r, M(m)))
  <2>1. ASSUME NEW x \in Over(d, m), NEW y \in Over(d, m), x < y
        PROVE  f[x] < f[y]
    BY <1>6, <1>11, <1>18, <2>1
  <2>2. \A q \in Over(r, M(m)) : \E j \in Over(d, m) : f[j] = q
    BY <1>10, <1>11
  <2> QED
    BY <1>11, <2>1, <2>2 DEF Ascends
<1> QED
  BY <1>6, <1>12 DEF M, n

LEMMA GraftPath ==
  ASSUME NEW d \in Seq(Sections), NEW text \in Seq(Sections), NEW a, NEW b,
         LevelFits(d, a, b, text), NEW r, r = Graft(d, a, b, text), NEW m \in Outside(d, a, b)
  PROVE  Path(r, Moved(a, b, Len(text), m)) = Path(d, m)
<1> DEFINE q == Moved(a, b, Len(text), m)
           f == [j \in Over(d, m) |-> Moved(a, b, Len(text), j)]
<1>1. a \in 1 .. Len(d) + 1 /\ b \in a .. Len(d) + 1
  BY DEF LevelFits
<1>2. /\ r \in Seq(Sections)
      /\ \A j \in Outside(d, a, b) :
           Moved(a, b, Len(text), j) \in DOMAIN r /\ r[Moved(a, b, Len(text), j)] = d[j]
  BY <1>1, GraftPlaces DEF Stays
<1>3. Over(d, m) \in SUBSET Outside(d, a, b) /\ Ascends(f, Over(d, m), Over(r, q))
  BY GraftOver
<1>4. m \in DOMAIN d /\ q \in DOMAIN r
  BY <1>2 DEF Outside
<1>5. \A j \in Over(d, m) : r[f[j]].head = d[j].head
  BY <1>2, <1>3
<1> HIDE DEF f, q
<1>6. Over(d, m) \in SUBSET DOMAIN d /\ Over(r, q) \in SUBSET DOMAIN r
  BY <1>2, <1>4, OverIs
<1>7. Headings(d, Over(d, m)) = Headings(r, Over(r, q))
  BY <1>2, <1>3, <1>5, <1>6, HeadingsCarried
<1> QED
  BY <1>7 DEF Path, q
-----------------------------------------------------------------------------
\* What an edit does to the sections it does not name: g is where each of them goes.

Follows(d, r, U, g) ==
  /\ U \in SUBSET DOMAIN d /\ g \in [U -> DOMAIN r]
  /\ \A m, k \in U : m < k => g[m] < g[k]
  /\ \A m \in U : Path(r, g[m]) = Path(d, m) /\ r[g[m]].body = d[m].body
AtEnd(d, r, U, g) == \A m \in U : g[m] = Len(r) => m = Len(d)
NoSecond(d, r, U, g) ==
  \A m \in U : Having(d, Path(d, m)) = {m} => Having(r, Path(d, m)) = {g[m]}
Carried(d, r, U, g) == Follows(d, r, U, g) /\ AtEnd(d, r, U, g) /\ NoSecond(d, r, U, g)

\* The sections with the number, the level and the parents that a path ends in.
Claims(d, P) ==
  {j \in DOMAIN d : /\ Parent(d, j) = Front(P) /\ d[j].head.level = Last(P).level
                    /\ d[j].head.num = Last(P).num}
NumbersCarried(d, r, U, g) ==
  \A m \in U :
    Numbered(d, m) /\ Claims(d, Path(d, m)) = {m} => Claims(r, Path(d, m)) = {g[m]}

\* The sections from lo to hi do not take the number of one of U.
NoneClaims(d, r, U, lo, hi) ==
  \A m \in U : Numbered(d, m) /\ Claims(d, Path(d, m)) = {m} =>
    \A t \in lo .. hi : t \notin Claims(r, Path(d, m))
AtLeast(r, lo, hi, level) == \A k \in lo .. hi : r[k].head.level >= level

LEMMA Begins ==
  ASSUME NEW d \in Seq(Sections), NEW i \in DOMAIN d, NEW n \in 1 .. Len(Path(d, i))
  PROVE  \E j \in Over(d, i) : Path(d, j) = SubSeq(Path(d, i), 1, n)
BY PathIs, Zenon

LEMMA IsBeginning ==
  ASSUME NEW d \in Seq(Sections), NEW i \in DOMAIN d, NEW j \in Over(d, i)
  PROVE  \E n \in 1 .. Len(Path(d, i)) :
           Path(d, j) = SubSeq(Path(d, i), 1, n) /\ (n = Len(Path(d, i)) => j = i)
BY PathIs, Zenon

LEMMA HeadsOver ==
  ASSUME NEW d \in Seq(Sections), NEW i \in DOMAIN d
  PROVE  ToSet(Path(d, i)) = {d[j].head : j \in Over(d, i)}
BY PathIs, Zenon

LEMMA LastOfPath ==
  ASSUME NEW d \in Seq(Sections), NEW i \in DOMAIN d
  PROVE  Last(Path(d, i)) = d[i].head
BY PathIs DEF Last

\* A set with one element has no other.
LEMMA OnlyOne ==
  ASSUME NEW S, IsFiniteSet(S), Cardinality(S) = 1
  PROVE  \E x \in S : S = {x}
BY FS_Singleton

LEMMA FoundIs ==
  ASSUME NEW d \in Seq(Sections), NEW ref, Unique(d, ref)
  PROVE  \E i \in DOMAIN d : Found(d, ref) = {i}
<1>1. Found(d, ref) \in SUBSET (0 .. Len(d)) /\ Len(d) \in Nat
  BY DEF Found
<1>2. IsFiniteSet(Found(d, ref))
  BY <1>1, BoundedFinite
<1>3. PICK i \in Found(d, ref) : Found(d, ref) = {i}
  BY <1>2, OnlyOne DEF Unique
<1> QED
  BY <1>3 DEF Found

\* A path that is unique is the path of one section.
LEMMA UniquePath ==
  ASSUME NEW d \in Seq(Sections), NEW i \in DOMAIN d, NEW j \in DOMAIN d,
         Path(d, i) = Path(d, j), Unique(d, Path(d, i))
  PROVE  i = j
<1> DEFINE P == Path(d, i)
<1>1. PICK k \in DOMAIN d : Found(d, P) = {k}
  BY FoundIs
<1>2. P[Len(P)] = d[i].head /\ P[Len(P)] = d[j].head
  BY PathIs
<1>3. i \in Found(d, P) /\ j \in Found(d, P)
  <2> HIDE DEF P
  <2>1. Len(P) = 1 => d[i].head = P[1] /\ d[j].head = P[1]
    BY <1>2
  <2>2. Path(d, i) = P /\ Path(d, j) = P
    BY DEF P
  <2> QED
    BY <2>1, <2>2 DEF Found
<1> QED
  BY <1>1, <1>3

LEMMA MovedLast ==
  ASSUME NEW l \in Nat, NEW n \in Nat \ {0}, NEW a \in Nat, NEW b \in Nat, 1 <= a, a <= b,
         b <= l + 1, NEW m \in 1 .. l, m < a \/ b <= m,
         Moved(a, b, n, m) = (a - 1) + n + (l + 1 - b)
  PROVE  m = l
BY DEF Moved

LEMMA GraftCarries ==
  ASSUME NEW d \in Seq(Sections), NEW text \in Seq(Sections), NEW a, NEW b,
         LevelFits(d, a, b, text), text # <<>>, NEW r, r = Graft(d, a, b, text),
         NEW U \in SUBSET Outside(d, a, b), NEW g, g = [m \in U |-> Moved(a, b, Len(text), m)],
         \A m \in U : \A t \in a .. a - 1 + Len(text) : Path(r, t) # Path(d, m)
  PROVE  Carried(d, r, U, g)
<1> DEFINE n == Len(text)
           M(j) == Moved(a, b, n, j)
           O == Outside(d, a, b)
<1>1. a \in 1 .. Len(d) + 1 /\ b \in a .. Len(d) + 1
  BY DEF LevelFits
<1>2. /\ r \in Seq(Sections) /\ DOMAIN r = 1 .. Len(r) /\ DOMAIN d = 1 .. Len(d)
      /\ Len(r) \in Nat /\ Len(d) \in Nat
      /\ Stays(d, r, a, b, n) /\ Comes(text, r, a) /\ Whence(d, r, a, b, n) /\ InPlace(d, a, b, n)
  BY <1>1, GraftPlaces
<1>3. \A j \in O : M(j) \in DOMAIN r /\ r[M(j)] = d[j]
  BY <1>2 DEF Stays
<1>4. \A j \in O : Path(r, M(j)) = Path(d, j)
  BY GraftPath
<1>5. \A j, q \in O : j < q <=> M(j) < M(q)
  BY <1>2 DEF InPlace
<1>6. \A q \in DOMAIN r : q \in a .. a - 1 + n \/ \E j \in O : q = M(j)
  BY <1>2 DEF Whence
<1>7. \A m \in U : m \in O /\ g[m] = M(m)
  OBVIOUS
<1>8. O \in SUBSET DOMAIN d
  BY DEF Outside
<1>9. \A m \in U : \A t \in a .. a - 1 + n : Path(r, t) # Path(d, m)
  OBVIOUS
<1>10. n \in Nat \ {0} /\ a \in Nat /\ b \in Nat /\ a <= b /\ 1 <= a
  BY <1>1, <1>2
<1>11. \A m \in U : M(m) = Len(r) => m = Len(d)
  <2> SUFFICES ASSUME NEW m \in U, M(m) = Len(r), m # Len(d) PROVE FALSE
    OBVIOUS
  <2>1. m \in 1 .. Len(d) /\ (m < a \/ b <= m) /\ Len(d) \in DOMAIN d
    BY <1>2, <1>7 DEF Outside
  <2>2. Len(r) = (a - 1) + n + (Len(d) + 1 - b)
    BY <1>1, GraftIs
  <2>3. b <= Len(d) + 1 /\ Moved(a, b, n, m) = (a - 1) + n + (Len(d) + 1 - b)
    BY <1>1, <1>2, <2>2
  <2> HIDE DEF M, n
  <2> QED
    BY <1>2, <1>10, <2>1, <2>3, MovedLast
<1> HIDE DEF M, n, O
<1>12. Follows(d, r, U, g)
  <2>1. U \in SUBSET DOMAIN d
    BY <1>8 DEF O
  <2>2. g \in [U -> DOMAIN r]
    BY <1>3, <1>7 DEF M, n
  <2>3. \A m, k \in U : m < k => g[m] < g[k]
    BY <1>5, <1>7
  <2>4. \A m \in U : Path(r, g[m]) = Path(d, m) /\ r[g[m]].body = d[m].body
    BY <1>3, <1>4, <1>7
  <2> QED
    BY <2>1, <2>2, <2>3, <2>4 DEF Follows
<1>13. AtEnd(d, r, U, g)
  BY <1>7, <1>11 DEF AtEnd
<1>14. NoSecond(d, r, U, g)
  <2> SUFFICES ASSUME NEW m \in U, Having(d, Path(d, m)) = {m}
               PROVE  Having(r, Path(d, m)) = {g[m]}
    BY DEF NoSecond
  <2>1. g[m] \in Having(r, Path(d, m))
    BY <1>3, <1>4, <1>7 DEF Having
  <2>2. ASSUME NEW q \in Having(r, Path(d, m))
        PROVE  q = g[m]
    <3>1. q \in DOMAIN r /\ Path(r, q) = Path(d, m)
      BY DEF Having
    <3>2. q \notin a .. a - 1 + n
      BY <1>9, <3>1
    <3>3. PICK j \in O : q = M(j)
      BY <1>6, <3>1, <3>2
    <3>4. j \in Having(d, Path(d, m))
      BY <1>4, <1>8, <3>1, <3>3 DEF Having
    <3> QED
      BY <1>7, <3>3, <3>4
  <2> QED
    BY <2>1, <2>2
<1> QED
  BY <1>12, <1>13, <1>14 DEF Carried

LEMMA GraftCarriesNumbers ==
  ASSUME NEW d \in Seq(Sections), NEW text \in Seq(Sections), NEW a, NEW b,
         LevelFits(d, a, b, text), NEW r, r = Graft(d, a, b, text),
         NEW U \in SUBSET Outside(d, a, b), NEW g, g = [m \in U |-> Moved(a, b, Len(text), m)],
         NoneClaims(d, r, U, a, a - 1 + Len(text))
  PROVE  NumbersCarried(d, r, U, g)
<1> DEFINE n == Len(text)
           M(j) == Moved(a, b, n, j)
           O == Outside(d, a, b)
<1>1. a \in 1 .. Len(d) + 1 /\ b \in a .. Len(d) + 1
  BY DEF LevelFits
<1>2. Stays(d, r, a, b, n) /\ Whence(d, r, a, b, n)
  BY <1>1, GraftPlaces
<1>3. \A j \in O : M(j) \in DOMAIN r /\ r[M(j)] = d[j]
  BY <1>2 DEF Stays
<1>4. \A j \in O : Path(r, M(j)) = Path(d, j)
  BY GraftPath
<1>6. \A q \in DOMAIN r : q \in a .. a - 1 + n \/ \E j \in O : q = M(j)
  BY <1>2 DEF Whence
<1>7. \A m \in U : m \in O /\ g[m] = M(m)
  OBVIOUS
<1>8. O \in SUBSET DOMAIN d
  BY DEF Outside
<1>9. \A m \in U : Numbered(d, m) /\ Claims(d, Path(d, m)) = {m} =>
        \A t \in a .. a - 1 + n : t \notin Claims(r, Path(d, m))
  BY DEF NoneClaims
<1> HIDE DEF M, n, O
<1>10. ASSUME NEW j \in O, NEW P
       PROVE  j \in Claims(d, P) <=> M(j) \in Claims(r, P)
  <2>1. Parent(r, M(j)) = Parent(d, j) /\ r[M(j)].head = d[j].head
    BY <1>3, <1>4 DEF Parent
  <2>2. j \in DOMAIN d /\ M(j) \in DOMAIN r
    BY <1>3, <1>8
  <2> QED
    BY <2>1, <2>2 DEF Claims
<1> SUFFICES ASSUME NEW m \in U, Numbered(d, m), Claims(d, Path(d, m)) = {m}
             PROVE  Claims(r, Path(d, m)) = {g[m]}
  BY DEF NumbersCarried
<1>11. g[m] \in Claims(r, Path(d, m))
  BY <1>7, <1>10
<1>12. ASSUME NEW q \in Claims(r, Path(d, m))
       PROVE  q = g[m]
  <2>1. q \in DOMAIN r
    BY DEF Claims
  <2>2. q \notin a .. a - 1 + n
    BY <1>9, <1>12
  <2>3. PICK j \in O : q = M(j)
    BY <1>6, <2>1, <2>2
  <2>4. j \in Claims(d, Path(d, m))
    BY <1>10, <1>12, <2>3
  <2> QED
    BY <1>7, <2>3, <2>4
<1> QED
  BY <1>11, <1>12

\* A section that came with the text and whose path is unique is over none that was there.
LEMMA OnlyTop ==
  ASSUME NEW d \in Seq(Sections), NEW text \in Seq(Sections), NEW a, NEW b,
         LevelFits(d, a, b, text), NEW r, r = Graft(d, a, b, text),
         NEW k \in a .. a - 1 + Len(text), Unique(r, Path(r, k)),
         NEW m \in Outside(d, a, b), NEW n \in 1 .. Len(Path(d, m))
  PROVE  Path(r, k) # SubSeq(Path(d, m), 1, n)
<1> DEFINE M(j) == Moved(a, b, Len(text), j)
           O == Outside(d, a, b)
           f == [j \in Over(d, m) |-> M(j)]
<1>1. a \in 1 .. Len(d) + 1 /\ b \in a .. Len(d) + 1
  BY DEF LevelFits
<1>2. r \in Seq(Sections) /\ Stays(d, r, a, b, Len(text)) /\ Comes(text, r, a)
  BY <1>1, GraftPlaces
<1>3. \A j \in O : M(j) \in DOMAIN r /\ M(j) \notin a .. a - 1 + Len(text)
  BY <1>2 DEF Stays
<1>4. k \in DOMAIN r
  BY <1>2 DEF Comes
<1>5. Path(r, M(m)) = Path(d, m)
  BY GraftPath
<1>6. Over(d, m) \in SUBSET O /\ Ascends(f, Over(d, m), Over(r, M(m)))
  BY GraftOver
<1> SUFFICES ASSUME Path(r, k) = SubSeq(Path(d, m), 1, n) PROVE FALSE
  OBVIOUS
<1>7. PICK j \in Over(r, M(m)) : Path(r, j) = Path(r, k)
  <2> DEFINE q == M(m)
  <2>1. q \in DOMAIN r /\ Path(r, q) = Path(d, m)
    BY <1>3, <1>5
  <2> HIDE DEF q
  <2>2. \E j \in Over(r, q) : Path(r, j) = SubSeq(Path(r, q), 1, n)
    BY <1>2, <2>1, Begins
  <2> QED
    BY <2>1, <2>2 DEF q
<1>8. PICK i \in Over(d, m) : f[i] = j
  BY <1>6 DEF Ascends
<1>9. i \in O /\ j = M(i)
  BY <1>6, <1>8
<1>10. j \in DOMAIN r /\ j \notin a .. a - 1 + Len(text)
  BY <1>3, <1>9
<1> HIDE DEF M, O, f
<1>11. j = k
  BY <1>2, <1>4, <1>7, <1>10, UniquePath
<1> QED
  BY <1>10, <1>11

\* Every section that came with the text is under the last one before it of the least level.
LEMMA TextTop ==
  ASSUME NEW r \in Seq(Sections), NEW a \in Nat \ {0}, NEW z \in Nat, z <= Len(r),
         NEW level \in Int, r[a].head.level = level, AtLeast(r, a, z, level), NEW t \in a .. z
  PROVE  \E k \in a .. t : k \in Over(r, t) /\ r[k].head.level = level
<1> DEFINE S == {x \in Nat : t - x \in a .. t /\ r[t - x].head.level = level}
<1>1. t \in Nat /\ a <= t /\ t <= Len(r) /\ t \in 1 .. Len(r) /\ Len(r) \in Nat
  OBVIOUS
<1>2. t - a \in S
  <2>1. t - (t - a) = a /\ a \in a .. t /\ t - a \in Nat
    BY <1>1
  <2> QED
    BY <1>1, <2>1
<1>3. PICK x \in S : \A y \in S : x <= y
  <2>1. S \in SUBSET Nat /\ S # {}
    BY <1>2
  <2> HIDE DEF S
  <2> QED
    BY <2>1, LeastIs
<1> DEFINE k == t - x
<1>4. k \in a .. t /\ r[k].head.level = level /\ k \in 1 .. t
  BY <1>1, <1>3
<1>5. ASSUME NEW q \in k + 1 .. t
      PROVE  r[q].head.level > r[k].head.level
  <2>1. q \in a .. z /\ q \in a .. t /\ q \in 1 .. Len(r) /\ t - q \in Nat /\ t - (t - q) = q
        /\ t - q < x
    BY <1>1, <1>3, <1>4
  <2>2. t - q \notin S
    <3>1. x \in Nat /\ \A y \in S : x <= y
      BY <1>3
    <3> HIDE DEF S, k
    <3> QED
      BY <2>1, <3>1
  <2>3. r[q].head.level # level
    BY <2>1, <2>2
  <2>4. r[q].head.level \in Int /\ r[q].head.level >= level
    BY <2>1, LevelIs DEF AtLeast
  <2> QED
    BY <1>4, <2>3, <2>4
<1> HIDE DEF k
<1>6. k \in Over(r, t)
  BY <1>4, <1>5 DEF Over
<1> QED
  BY <1>4, <1>6
-----------------------------------------------------------------------------
\* The edits of the document's structure.

LEMMA EditIs ==
  ASSUME NEW e \in Edits
  PROVE  /\ e.action \in Actions /\ e.text \in Seq(Sections) /\ e.lines \in Seq(STRING)
         /\ e.old \in STRING /\ e.section \in Seq(Heads) /\ e.pinned \in BOOLEAN
         /\ e.pinned => e.section # <<>>
BY DEF Edits

Edited(d, r, e, U) ==
  /\ r \in Seq(Sections)
  /\ \E g : /\ Carried(d, r, U, g)
            /\ e.action \in {"append", "section"} => NumbersCarried(d, r, U, g)

LEMMA EndIs ==
  ASSUME NEW d \in Seq(Sections), NEW i \in DOMAIN d
  PROVE  /\ End(d, i) \in i + 1 .. Len(d) + 1
         /\ End(d, i) <= Len(d) => d[End(d, i)].head.level <= d[i].head.level
         /\ \A k \in i + 1 .. End(d, i) - 1 : d[k].head.level > d[i].head.level
<1> DEFINE next == {j \in i + 1 .. Len(d) : d[j].head.level <= d[i].head.level}
<1>1. i \in 1 .. Len(d) /\ Len(d) \in Nat
  OBVIOUS
<1>2. \A j \in 1 .. Len(d) : d[j].head.level \in Int
  BY LevelIs
<1>3. End(d, i) = IF next = {} THEN Len(d) + 1 ELSE Min(next)
  BY DEF End
<1>4. next \in SUBSET Nat /\ \A j \in next : j \in i + 1 .. Len(d)
  BY <1>1
<1>5. CASE next = {}
  <2>1. \A k \in i + 1 .. Len(d) : ~(d[k].head.level <= d[i].head.level)
    BY <1>5
  <2>2. End(d, i) = Len(d) + 1
    BY <1>3, <1>5
  <2> HIDE DEF next
  <2>3. ASSUME NEW k \in i + 1 .. Len(d) + 1 - 1
        PROVE  d[k].head.level > d[i].head.level
    <3>1. k \in i + 1 .. Len(d) /\ k \in 1 .. Len(d)
      BY <1>1
    <3> QED
      BY <1>1, <1>2, <2>1, <3>1
  <2> QED
    BY <1>1, <2>2, <2>3
<1>6. CASE next # {}
  <2>1. PICK x \in next : \A y \in next : x <= y
    <3> HIDE DEF next
    <3> QED
      BY <1>4, <1>6, LeastIs
  <2>2. End(d, i) \in next /\ \A y \in next : End(d, i) <= y
    <3> HIDE DEF next
    <3> QED
      BY <1>3, <1>6, <2>1 DEF Min
  <2> DEFINE q == End(d, i)
  <2>3. q \in i + 1 .. Len(d) /\ d[q].head.level <= d[i].head.level
    BY <2>2
  <2>4. ASSUME NEW k \in i + 1 .. q - 1
        PROVE  d[k].head.level > d[i].head.level
    <3>1. k \in i + 1 .. Len(d) /\ k \in 1 .. Len(d) /\ ~(q <= k)
      BY <1>1, <2>3
    <3>2. k \notin next
      BY <2>2, <3>1
    <3>3. ~(d[k].head.level <= d[i].head.level)
      BY <3>1, <3>2
    <3> QED
      BY <1>1, <1>2, <3>1, <3>3
  <2> HIDE DEF q
  <2>5. q \in i + 1 .. Len(d) + 1
    BY <1>1, <2>3
  <2> QED
    BY <2>3, <2>4, <2>5 DEF q
<1> QED
  BY <1>5, <1>6

LEMMA Appends ==
  ASSUME NEW d \in Seq(Sections), NEW text \in Seq(Sections)
  PROVE  d \o text = Graft(d, Len(d) + 1, Len(d) + 1, text)
<1> DEFINE n == Len(d)
<1>1. n \in Nat /\ n + 1 - 1 = n /\ n + 1 > n
  OBVIOUS
<1>2. SubSeq(d, 1, n + 1 - 1) = d
  BY <1>1, SubSeqFull
<1>3. SubSeq(d, n + 1, n) = <<>>
  BY <1>1, SubSeqEmpty
<1>4. d \o text \in Seq(Sections)
  OBVIOUS
<1>5. (d \o text) \o <<>> = d \o text
  BY <1>4, ConcatEmptySeq
<1> QED
  BY <1>2, <1>3, <1>5 DEF Graft

LEMMA AppendCarries ==
  ASSUME NEW d \in Seq(Sections), NEW e \in Edits, e.text # <<>>, NEW r \in Append_(d, e),
         NEW U \in SUBSET DOMAIN d
  PROVE  Edited(d, r, e, U)
<1> DEFINE text == e.text
           a == Len(d) + 1
           g == [m \in U |-> Moved(a, a, Len(text), m)]
<1>1. text \in Seq(Sections) /\ text # <<>> /\ a \in 1 .. Len(d) + 1 /\ a \in a .. Len(d) + 1
      /\ a = Len(d) + 1 /\ Len(d) \in Nat
  BY EditIs
<1>2. r = d \o text /\ \A i \in Len(d) + 1 .. Len(r) : AppendedFits(r, i)
  BY DEF Append_
<1> HIDE DEF text, a
<1>3. r = Graft(d, a, a, text)
  BY <1>1, <1>2, Appends
<1>4. LevelFits(d, a, a, text)
  BY <1>1 DEF LevelFits
<1>5. r \in Seq(Sections) /\ Stays(d, r, a, a, Len(text)) /\ Comes(text, r, a)
      /\ DOMAIN r = 1 .. Len(r)
  BY <1>1, <1>3, GraftPlaces
<1>6. Outside(d, a, a) = DOMAIN d /\ \A m \in DOMAIN d : Moved(a, a, Len(text), m) = m /\ m < a
  <2>1. \A m \in DOMAIN d : m < a
    BY <1>1
  <2>2. \A m \in DOMAIN d : Moved(a, a, Len(text), m) = m
    BY <2>1 DEF Moved
  <2>3. Outside(d, a, a) = DOMAIN d
    BY <2>1 DEF Outside
  <2> QED
    BY <2>1, <2>2, <2>3
<1>7. \A m \in DOMAIN d : Path(r, m) = Path(d, m)
  BY <1>1, <1>3, <1>4, <1>6, GraftPath
<1>8. \A m \in DOMAIN d : m \in DOMAIN r /\ r[m] = d[m]
  BY <1>5, <1>6 DEF Stays
<1>9. ASSUME NEW t \in a .. a - 1 + Len(text)
      PROVE  t \in DOMAIN r /\ AppendedFits(r, t) /\ \A m \in DOMAIN d : m # t
  <2>1. t \in DOMAIN r
    BY <1>5 DEF Comes
  <2>2. t \in Len(d) + 1 .. Len(r)
    BY <1>1, <1>5, <2>1
  <2> QED
    BY <1>1, <1>2, <2>1, <2>2
<1>10. \A m \in U : \A t \in a .. a - 1 + Len(text) : Path(r, t) # Path(d, m)
  <2> TAKE m \in U
  <2> TAKE t \in a .. a - 1 + Len(text)
  <2>1. Path(r, m) # Path(r, t)
    BY <1>8, <1>9 DEF AppendedFits
  <2> QED
    BY <1>7, <2>1
<1>11. ASSUME NEW m \in U, Numbered(d, m), NEW t \in a .. a - 1 + Len(text),
              t \in Claims(r, Path(d, m))
       PROVE  FALSE
  <2>1. m \in DOMAIN d /\ m \in DOMAIN r /\ r[m] = d[m] /\ Path(r, m) = Path(d, m) /\ m # t
    BY <1>7, <1>8, <1>9
  <2>2. Last(Path(d, m)) = d[m].head
    BY <2>1, LastOfPath
  <2>3. /\ Parent(r, t) = Parent(r, m) /\ r[t].head.level = r[m].head.level
        /\ r[t].head.num = r[m].head.num
    BY <1>11, <2>1, <2>2 DEF Claims, Parent
  <2>4. m \in Siblings(r, t) /\ Numbered(r, t)
    BY <1>11, <2>1, <2>3 DEF Siblings, Numbered
  <2> QED
    BY <1>9, <2>3, <2>4 DEF AppendedFits
<1>12. Carried(d, r, U, g)
  BY <1>1, <1>3, <1>4, <1>6, <1>10, GraftCarries
<1>13. NumbersCarried(d, r, U, g)
  <2>1. NoneClaims(d, r, U, a, a - 1 + Len(text))
    BY <1>11 DEF NoneClaims
  <2>2. U \in SUBSET Outside(d, a, a)
    BY <1>6
  <2> QED
    BY <1>1, <1>3, <1>4, <2>1, <2>2, GraftCarriesNumbers
<1> HIDE DEF g
<1> QED
  BY <1>5, <1>12, <1>13 DEF Edited

LEMMA InsertCarries ==
  ASSUME NEW d \in Seq(Sections), NEW e \in Edits, NEW at \in DOMAIN d,
         NEW r \in Inserted(d, e, at), NEW U \in SUBSET DOMAIN d,
         e.action \notin {"append", "section"}
  PROVE  Edited(d, r, e, U)
<1> DEFINE text == e.text
           level == d[at].head.level + (IF Child(e) THEN 1 ELSE 0)
           first == {j \in at + 1 .. End(d, at) - 1 : d[j].head.level = level}
           b == CASE e.action = "insert_before" -> at
                  [] e.action = "insert_first_child" /\ first # {} -> Min(first)
                  [] OTHER -> End(d, at)
<1>1. /\ r = Graft(d, b, b, text) /\ text # <<>> /\ text[1].head.level = level
      /\ \A k \in DOMAIN text : text[k].head.level >= level
      /\ \A k \in DOMAIN text : text[k].head.level = level => Unique(r, Path(r, b - 1 + k))
  BY DEF Inserted, Graft
<1>2. text \in Seq(Sections) /\ at \in 1 .. Len(d) /\ Len(d) \in Nat /\ DOMAIN d = 1 .. Len(d)
      /\ DOMAIN text = 1 .. Len(text) /\ Len(text) \in Nat
  BY EditIs
<1>3. \A j \in 1 .. Len(d) : d[j].head.level \in Int
  BY LevelIs
<1>4. level \in Int /\ level >= d[at].head.level
  BY <1>2, <1>3
<1>5. /\ End(d, at) \in at + 1 .. Len(d) + 1
      /\ End(d, at) <= Len(d) => d[End(d, at)].head.level <= d[at].head.level
  BY EndIs
<1>6. b \in 1 .. Len(d) + 1 /\ (b <= Len(d) => d[b].head.level <= level)
  <2>1. CASE e.action = "insert_before"
    <3>1. b = at
      BY <2>1
    <3> HIDE DEF b
    <3> QED
      BY <1>2, <1>3, <1>4, <3>1
  <2>2. CASE e.action = "insert_first_child" /\ first # {}
    <3>1. b = Min(first)
      BY <2>2
    <3>2. first \in SUBSET Nat
      BY <1>2, <1>5
    <3>3. PICK x \in first : \A y \in first : x <= y
      <4> HIDE DEF first
      <4> QED
        BY <2>2, <3>2, LeastIs
    <3>4. b \in first
      <4> HIDE DEF first, b
      <4> QED
        BY <2>2, <3>1, <3>3 DEF Min
    <3> HIDE DEF b
    <3>5. b \in at + 1 .. End(d, at) - 1 /\ d[b].head.level = level
      BY <3>4
    <3> HIDE DEF first, level
    <3> QED
      BY <1>2, <1>4, <1>5, <3>5
  <2>3. CASE e.action # "insert_before" /\ ~(e.action = "insert_first_child" /\ first # {})
    <3>1. b = End(d, at)
      BY <2>3
    <3> HIDE DEF b, level
    <3>2. b <= Len(d) => b \in 1 .. Len(d)
      BY <1>2, <1>5, <3>1
    <3> QED
      BY <1>2, <1>3, <1>4, <1>5, <3>1, <3>2
  <2> QED
    BY <2>1, <2>2, <2>3
<1> HIDE DEF text, level, first, b
<1>7. b \in b .. Len(d) + 1 /\ b \in Nat \ {0}
  BY <1>2, <1>6
<1>8. LevelFits(d, b, b, text)
  <2>1. ASSUME b <= Len(d), NEW k \in DOMAIN text
        PROVE  text[k].head.level >= d[b].head.level
    <3>1. b \in 1 .. Len(d) /\ k \in 1 .. Len(text)
      BY <1>2, <1>6, <2>1
    <3>2. text[k].head.level \in Int /\ d[b].head.level \in Int
      BY <1>2, <1>3, <3>1, LevelIs
    <3>3. text[k].head.level >= level /\ d[b].head.level <= level
      BY <1>1, <1>6, <2>1
    <3> QED
      BY <1>4, <3>2, <3>3
  <2>2. \A j \in b .. b - 1 : FALSE
    BY <1>7
  <2> QED
    BY <1>6, <1>7, <2>1, <2>2 DEF LevelFits
<1>9. Outside(d, b, b) = DOMAIN d
  BY <1>2, <1>7 DEF Outside
<1>10. r \in Seq(Sections) /\ Comes(text, r, b) /\ DOMAIN r = 1 .. Len(r) /\ Len(r) \in Nat
  BY <1>1, <1>2, <1>6, <1>7, GraftPlaces
<1>11. \A t \in b .. b - 1 + Len(text) :
         t \in DOMAIN r /\ r[t] = text[t - b + 1] /\ t - b + 1 \in DOMAIN text
         /\ b - 1 + (t - b + 1) = t
  <2> TAKE t \in b .. b - 1 + Len(text)
  <2>1. t \in DOMAIN r /\ r[t] = text[t - b + 1]
    BY <1>10 DEF Comes
  <2>2. t - b + 1 \in 1 .. Len(text) /\ b - 1 + (t - b + 1) = t
    BY <1>2, <1>7
  <2> QED
    BY <1>2, <2>1, <2>2
<1>12. Len(text) >= 1 /\ b - 1 + Len(text) <= Len(r) /\ r[b].head.level = level
  <2>1. Len(text) >= 1
    BY <1>1, <1>2
  <2>2. b - 1 + Len(text) \in b .. b - 1 + Len(text) /\ b \in b .. b - 1 + Len(text)
        /\ b - b + 1 = 1
    BY <1>2, <1>7, <2>1
  <2>3. b - 1 + Len(text) \in DOMAIN r /\ r[b] = text[b - b + 1]
    BY <1>11, <2>2
  <2> QED
    BY <1>1, <1>10, <2>1, <2>2, <2>3
<1>13. ASSUME NEW m \in U, NEW t \in b .. b - 1 + Len(text), Path(r, t) = Path(d, m)
       PROVE  FALSE
  <2>1. \A k \in b .. b - 1 + Len(text) : r[k].head.level >= level
    BY <1>1, <1>11
  <2>2. PICK k \in b .. t : k \in Over(r, t) /\ r[k].head.level = level
    <3> DEFINE z == b - 1 + Len(text)
    <3>1. z \in Nat /\ z <= Len(r) /\ t \in b .. z /\ AtLeast(r, b, z, level)
      BY <1>2, <1>7, <1>12, <2>1 DEF AtLeast
    <3> HIDE DEF z
    <3>2. r \in Seq(Sections) /\ b \in Nat \ {0} /\ level \in Int /\ r[b].head.level = level
      BY <1>4, <1>7, <1>10, <1>12
    <3>3. \E k \in b .. t : k \in Over(r, t) /\ r[k].head.level = level
      BY ONLY <3>1, <3>2, TextTop
    <3> QED
      BY <3>3
  <2>3. k \in b .. b - 1 + Len(text) /\ t \in DOMAIN r
    BY <1>2, <1>7, <1>11, <2>2
  <2>4. Unique(r, Path(r, k))
    BY <1>1, <1>11, <2>2, <2>3
  <2>5. PICK n \in 1 .. Len(Path(r, t)) : Path(r, k) = SubSeq(Path(r, t), 1, n)
    BY <1>10, <2>2, <2>3, IsBeginning
  <2> QED
    BY <1>1, <1>2, <1>8, <1>9, <1>13, <2>3, <2>4, <2>5, OnlyTop
<1> DEFINE g == [m \in U |-> Moved(b, b, Len(text), m)]
<1>14. Carried(d, r, U, g)
  BY <1>1, <1>2, <1>8, <1>9, <1>13, GraftCarries
<1> HIDE DEF g
<1> QED
  BY <1>10, <1>14 DEF Edited
LEMMA WithoutEmptyIs ==
  ASSUME NEW text \in Seq(Sections), NEW level
  PROVE  WithoutEmpty(text, level) \in Seq(Sections)
<1> DEFINE S == DOMAIN text \ EmptyPeers(text, level)
           keep == InOrder(S)
<1>1. S \in SUBSET (0 .. Len(text)) /\ Len(text) \in Nat
  OBVIOUS
<1>9. \A x \in S : text[x] \in Sections
  OBVIOUS
<1> HIDE DEF S
<1>2. Lists(keep, S) /\ IsFiniteSet(S)
  BY <1>1, ListIs, BoundedFinite
<1>3. Cardinality(S) \in Nat /\ DOMAIN keep = 1 .. Cardinality(S)
      /\ \A n \in 1 .. Cardinality(S) : keep[n] \in S
  BY <1>2, FS_CardinalityType DEF Lists
<1> HIDE DEF keep
<1>4. \A n \in 1 .. Cardinality(S) : text[keep[n]] \in Sections
  BY <1>3, <1>9
<1>5. WithoutEmpty(text, level) = [n \in 1 .. Cardinality(S) |-> text[keep[n]]]
  BY <1>3 DEF WithoutEmpty, keep, S
<1> DEFINE c == Cardinality(S)
           v(n) == text[keep[n]]
<1>6. c \in Nat /\ \A n \in 1 .. c : v(n) \in Sections
  BY <1>3, <1>4
<1>7. WithoutEmpty(text, level) = [n \in 1 .. c |-> v(n)]
  BY <1>5
<1> HIDE DEF c, v
<1>8. [n \in 1 .. c |-> v(n)] \in Seq(Sections)
  BY <1>6
<1> QED
  BY <1>7, <1>8

\* A beginning of what stands before the last is one of the whole.
LEMMA SameBeginning ==
  ASSUME NEW X, NEW p \in Seq(X), NEW q \in Seq(X), Len(p) >= 1, Len(q) >= 1,
         Front(p) = Front(q), NEW n \in 1 .. Len(p) - 1
  PROVE  n \in 1 .. Len(q) /\ SubSeq(p, 1, n) = SubSeq(q, 1, n)
<1>1. Len(p) - 1 \in Nat /\ Len(q) - 1 \in Nat /\ Len(p) - 1 <= Len(p) /\ Len(q) - 1 <= Len(q)
  OBVIOUS
<1> DEFINE f == Front(p)
           h == Front(q)
<1>2. Len(f) = Len(p) - 1 /\ \A k \in 1 .. Len(p) - 1 : f[k] = p[k]
  BY <1>1, FirstItems DEF Front
<1>3. Len(h) = Len(q) - 1 /\ \A k \in 1 .. Len(q) - 1 : h[k] = q[k]
  BY <1>1, FirstItems DEF Front
<1>4. f = h
  OBVIOUS
<1> HIDE DEF f, h
<1>5. n \in 1 .. Len(q) /\ n <= Len(p) /\ n <= Len(q) /\ n \in Nat
  BY <1>1, <1>2, <1>3, <1>4
<1>6. \A k \in 1 .. n : p[k] = q[k]
  BY <1>1, <1>2, <1>3, <1>4
<1> DEFINE u == SubSeq(p, 1, n)
           v == SubSeq(q, 1, n)
<1>7. u \in Seq(X) /\ Len(u) = n /\ \A k \in 1 .. n : u[k] = p[k]
  BY <1>5, FirstItems
<1>8. v \in Seq(X) /\ Len(v) = n /\ \A k \in 1 .. n : v[k] = q[k]
  BY <1>5, FirstItems
<1> HIDE DEF u, v
<1>9. u = v
  <2>1. Len(u) = Len(v) /\ \A k \in 1 .. Len(u) : u[k] = v[k]
    BY <1>5, <1>6, <1>7, <1>8
  <2> QED
    BY <1>7, <1>8, <2>1, SeqEqual, Zenon
<1> QED
  BY <1>5, <1>9 DEF u, v

\* Sections of one level with nothing of a lower level between them share their parents.
LEMMA SameParent ==
  ASSUME NEW d \in Seq(Sections), NEW r \in Seq(Sections), NEW i \in DOMAIN d, NEW t \in DOMAIN r,
         i <= t, r[t].head.level = d[i].head.level, AtLeast(r, i, t, d[i].head.level),
         \A j \in 1 .. i - 1 : r[j] = d[j]
  PROVE  Parent(r, t) = Parent(d, i)
<1> DEFINE lev == d[i].head.level
           S == Over(d, i) \ {i}
           T == Over(r, t) \ {t}
<1>1. i \in 1 .. Len(d) /\ t \in 1 .. Len(r) /\ Len(d) \in Nat /\ Len(r) \in Nat
      /\ i \in 1 .. Len(r)
  OBVIOUS
<1>2. \A j \in 1 .. Len(d) : d[j].head.level \in Int
  BY LevelIs
<1>3. \A j \in 1 .. Len(r) : r[j].head.level \in Int
  BY LevelIs
<1>4. lev \in Int /\ d[i].head.level = lev /\ r[t].head.level = lev
      /\ \A k \in i .. t : r[k].head.level >= lev
  BY <1>1, <1>2 DEF AtLeast
<1>5. \A j \in 1 .. i - 1 : r[j] = d[j]
  OBVIOUS
<1> HIDE DEF lev
<1>6. ASSUME NEW q \in T
      PROVE  q \in S /\ q \in 1 .. i - 1
  <2>1. q \in 1 .. t /\ q # t /\ \A k \in q + 1 .. t : r[k].head.level > r[q].head.level
    BY DEF Over
  <2>2. q \in 1 .. Len(r) /\ t \in q + 1 .. t
    BY <1>1, <2>1
  <2>3. lev > r[q].head.level /\ r[q].head.level \in Int
    BY <1>3, <1>4, <2>1, <2>2
  <2>4. q \in 1 .. i - 1
    <3>1. q \notin i .. t
      BY <1>4, <2>3
    <3> QED
      BY <1>1, <2>1, <3>1
  <2>5. ASSUME NEW k \in q + 1 .. i
        PROVE  d[k].head.level > d[q].head.level
    <3>1. d[q] = r[q]
      BY <1>5, <2>4
    <3>2. CASE k = i
      BY <1>4, <2>3, <3>1, <3>2
    <3>3. CASE k # i
      <4>1. k \in 1 .. i - 1 /\ k \in q + 1 .. t
        BY <1>1, <2>4, <3>3
      <4> QED
        BY <1>5, <2>1, <3>1, <4>1
    <3> QED
      BY <3>2, <3>3
  <2>6. q \in 1 .. i /\ q # i
    BY <1>1, <2>4
  <2> QED
    BY <2>4, <2>5, <2>6 DEF Over
<1>7. ASSUME NEW q \in S
      PROVE  q \in T
  <2>1. q \in 1 .. i /\ q # i /\ \A k \in q + 1 .. i : d[k].head.level > d[q].head.level
    BY DEF Over
  <2>2. q \in 1 .. i - 1 /\ i \in q + 1 .. i /\ q \in 1 .. Len(d) /\ d[q] = r[q]
    BY <1>1, <1>5, <2>1
  <2>3. lev > d[q].head.level /\ d[q].head.level \in Int
    BY <1>2, <1>4, <2>1, <2>2
  <2>4. ASSUME NEW k \in q + 1 .. t
        PROVE  r[k].head.level > r[q].head.level
    <3>1. CASE k < i
      <4>1. k \in 1 .. i - 1 /\ k \in q + 1 .. i
        BY <1>1, <2>1, <3>1
      <4> QED
        BY <1>5, <2>1, <2>2, <4>1
    <3>2. CASE ~(k < i)
      <4>1. k \in i .. t /\ k \in 1 .. Len(r)
        BY <1>1, <2>1, <3>2
      <4>2. r[k].head.level >= lev /\ r[k].head.level \in Int
        BY <1>3, <1>4, <4>1
      <4> QED
        BY <1>4, <2>2, <2>3, <4>2
    <3> QED
      BY <3>1, <3>2
  <2>5. q \in 1 .. t /\ q # t
    BY <1>1, <2>2
  <2> QED
    BY <2>4, <2>5 DEF Over
<1>8. S = T /\ S \in SUBSET (1 .. i - 1)
  BY <1>6, <1>7
<1>9. Parent(d, i) = Headings(d, S) /\ Parent(r, t) = Headings(r, T)
  BY PathIs
<1> HIDE DEF S, T
<1>10. Headings(d, S) = Headings(r, S)
  <2> DEFINE f == [x \in S |-> x]
  <2>1. Ascends(f, S, S)
    BY DEF Ascends
  <2>2. S \in SUBSET DOMAIN d /\ S \in SUBSET DOMAIN r
    BY <1>1, <1>8
  <2>3. \A x \in S : r[f[x]].head = d[x].head
    BY <1>5, <1>8
  <2> HIDE DEF f
  <2> QED
    BY <2>1, <2>2, <2>3, HeadingsCarried
<1> QED
  BY <1>8, <1>9, <1>10

LEMMA NamedIs ==
  ASSUME NEW d \in Seq(Sections), NEW ref \in Seq(Heads), NEW i \in Found(d, ref)
  PROVE  i \in DOMAIN d /\ d[i].head = Last(ref)
<1>1. i \in DOMAIN d
  BY DEF Found
<1>2. CASE Len(ref) = 1
  BY <1>2 DEF Found, Last
<1>3. CASE Len(ref) # 1
  <2>1. Path(d, i) = ref
    BY <1>3 DEF Found
  <2> QED
    BY <1>1, <2>1, LastOfPath
<1> QED
  BY <1>1, <1>2, <1>3
\* A section is replaced: the sections of another heading, and not under it, stay.
LEMMA SectionCarries ==
  ASSUME NEW d \in Seq(Sections), NEW e \in Edits, NEW pin, NEW i \in Found(d, e.section),
         NEW r \in SectionAt(d, e, pin, i), NEW U \in SUBSET DOMAIN d,
         \A m \in U : Last(e.section) \notin ToSet(Path(d, m))
  PROVE  Edited(d, r, e, U)
<1> DEFINE text == WithoutEmpty(e.text, d[i].head.level)
           b == End(d, i)
           lev == d[i].head.level
           z == i - 1 + Len(text)
<1>1. /\ i \in DOMAIN d /\ d[i].head = Last(e.section)
      /\ text \in Seq(Sections) /\ e.section \in Seq(Heads)
  BY EditIs, NamedIs, WithoutEmptyIs
<1>2. /\ r = Graft(d, i, b, text)
      /\ text # <<>> /\ SameHeading(d[i].head, text[1].head)
      /\ \A k \in 2 .. Len(text) : text[k].head.level <= lev => PeerFits(d, i, text[k].head)
      /\ Unique(r, IF text[1].head = d[i].head THEN e.section ELSE Path(r, i))
  BY DEF SectionAt, Graft
<1>3. i \in 1 .. Len(d) /\ Len(d) \in Nat /\ DOMAIN d = 1 .. Len(d) /\ lev \in Int
      /\ DOMAIN text = 1 .. Len(text) /\ Len(text) \in Nat /\ i \in 1 .. Len(d) + 1
  BY <1>1, LevelIs
<1>4. /\ b \in i + 1 .. Len(d) + 1 /\ b \in i .. Len(d) + 1
      /\ b <= Len(d) => d[b].head.level <= lev
      /\ \A k \in i + 1 .. b - 1 : d[k].head.level > lev
  <2>1. /\ b \in i + 1 .. Len(d) + 1
        /\ b <= Len(d) => d[b].head.level <= lev
        /\ \A k \in i + 1 .. b - 1 : d[k].head.level > lev
    BY ONLY d \in Seq(Sections), <1>1, EndIs
  <2>2. b \in i .. Len(d) + 1
    BY ONLY <1>3, <2>1
  <2> QED
    BY <2>1, <2>2
<1>5. ASSUME NEW m \in U
      PROVE  m \in Outside(d, i, b) /\ i \notin Over(d, m)
  <2>1. i \notin Over(d, m)
    BY <1>1, HeadsOver
  <2>2. m \in 1 .. Len(d)
    BY <1>3
  <2>3. ASSUME i <= m, m < b
        PROVE  FALSE
    <3>1. i \in 1 .. m /\ \A k \in i + 1 .. m : k \in i + 1 .. b - 1
      BY <1>3, <1>4, <2>2, <2>3
    <3> QED
      BY <1>4, <2>1, <3>1 DEF Over
  <2>4. m < i \/ b <= m
    BY <1>3, <1>4, <2>2, <2>3
  <2> QED
    BY <2>1, <2>4 DEF Outside
<1> HIDE DEF text, b, lev
<1>6. ASSUME NEW k \in DOMAIN text
      PROVE  /\ text[k].head.level \in Int /\ text[k].head.level >= lev
             /\ k = 1 => text[k].head.level = lev
             /\ (k # 1 /\ text[k].head.level = lev) => PeerFits(d, i, text[k].head)
  <2>1. text[k].head.level \in Int /\ k \in 1 .. Len(text)
    BY <1>1, <1>3, LevelIs
  <2>2. CASE k = 1
    BY <1>2, <1>3, <2>1, <2>2 DEF SameHeading, lev
  <2>3. CASE k # 1
    <3>1. k \in 2 .. Len(text)
      BY <1>3, <2>1, <2>3
    <3>2. text[k].head.level <= lev => PeerFits(d, i, text[k].head)
      BY <1>2, <3>1
    <3>3. text[k].head.level <= lev => text[k].head.level = lev
      BY <3>2 DEF PeerFits, lev
    <3> QED
      BY <1>3, <2>1, <2>3, <3>2, <3>3
  <2> QED
    BY <2>2, <2>3
<1>7. LevelFits(d, i, b, text)
  <2>1. ASSUME b <= Len(d), NEW j \in i .. b - 1
        PROVE  d[j].head.level >= d[b].head.level
    <3>1. j \in 1 .. Len(d) /\ b \in 1 .. Len(d) /\ (j = i \/ j \in i + 1 .. b - 1)
      BY <1>3, <1>4, <2>1
    <3>2. d[j].head.level \in Int /\ d[b].head.level \in Int
      BY <3>1, LevelIs
    <3>3. d[j].head.level >= lev
      BY <1>3, <1>4, <3>1, <3>2 DEF lev
    <3> QED
      BY <1>3, <1>4, <2>1, <3>2, <3>3
  <2>2. ASSUME b <= Len(d), NEW k \in DOMAIN text
        PROVE  text[k].head.level >= d[b].head.level
    <3>1. b \in 1 .. Len(d)
      BY <1>3, <1>4, <2>2
    <3>2. d[b].head.level \in Int
      BY <3>1, LevelIs
    <3> QED
      BY <1>3, <1>4, <1>6, <2>2, <3>2
  <2> QED
    BY <1>3, <1>4, <2>1, <2>2 DEF LevelFits
<1>8. r \in Seq(Sections) /\ Comes(text, r, i) /\ DOMAIN r = 1 .. Len(r) /\ Len(r) \in Nat
      /\ Stays(d, r, i, b, Len(text))
  BY <1>1, <1>2, <1>3, <1>4, GraftPlaces
<1>9. Len(text) >= 1 /\ z \in Nat /\ z = i - 1 + Len(text) /\ i \in i .. z
  BY <1>1, <1>2, <1>3
<1>10. ASSUME NEW t \in i .. z
       PROVE  /\ t \in DOMAIN r /\ t - i + 1 \in DOMAIN text /\ r[t] = text[t - i + 1]
              /\ (t = i <=> t - i + 1 = 1)
  <2>1. t \in DOMAIN r /\ r[t] = text[t - i + 1]
    BY <1>8 DEF Comes
  <2>2. t - i + 1 \in 1 .. Len(text) /\ (t = i <=> t - i + 1 = 1)
    BY <1>3, <1>9
  <2> QED
    BY <1>3, <2>1, <2>2
<1> HIDE DEF z
<1>11. z <= Len(r) /\ r[i] = text[1] /\ r[i].head.level = lev /\ AtLeast(r, i, z, lev)
  <2>1. z \in i .. z
    BY <1>3, <1>9
  <2>2. z \in DOMAIN r
    BY <1>10, <2>1
  <2>3. i - i + 1 = 1
    BY <1>3
  <2>4. r[i] = text[1] /\ 1 \in DOMAIN text
    BY <1>9, <1>10, <2>3
  <2>5. AtLeast(r, i, z, lev)
    BY <1>6, <1>10 DEF AtLeast
  <2> QED
    BY <1>6, <1>8, <2>2, <2>4, <2>5
<1>12. \A j \in 1 .. i - 1 : r[j] = d[j]
  BY <1>2, <1>1, <1>3, <1>4, GraftIs
\* A section of the text, at the level of the one replaced, that begins a path of U's.
<1>13. ASSUME NEW m \in U, NEW k \in i .. z, r[k].head.level = lev,
              NEW n \in 1 .. Len(Path(d, m)), Path(r, k) = SubSeq(Path(d, m), 1, n)
       PROVE  FALSE
  <2>1. k \in DOMAIN r /\ m \in DOMAIN d
    BY <1>10
  <2>2. PICK j \in Over(d, m) : Path(d, j) = Path(r, k)
    BY <1>13, <2>1, Begins
  <2>3. j \in DOMAIN d
    BY <2>1, OverIs
  <2>4. d[j].head = r[k].head
    BY <1>8, <2>1, <2>2, <2>3, LastOfPath
  <2>5. d[j].head \in ToSet(Path(d, m))
    BY <2>1, HeadsOver
  <2>6. CASE k = i
    <3>1. text[1].head # d[i].head
      BY <1>1, <1>11, <2>4, <2>5, <2>6
    <3>2. Unique(r, Path(r, k))
      BY <1>2, <2>6, <3>1
    <3>3. m \in Outside(d, i, b) /\ k \in i .. i - 1 + Len(text)
      BY <1>5, <1>9
    <3> QED
      BY <1>1, <1>2, <1>7, <1>13, <3>2, <3>3, OnlyTop
  <2>7. CASE k # i
    <3>1. PeerFits(d, i, r[k].head)
      BY <1>6, <1>10, <1>13, <2>7
    <3> QED
      BY <2>3, <2>4, <3>1 DEF PeerFits
  <2> QED
    BY <2>6, <2>7
<1>14. ASSUME NEW t \in i .. z
       PROVE  \E k \in i .. t : k \in i .. z /\ k \in Over(r, t) /\ r[k].head.level = lev
  <2>1. i \in Nat \ {0}
    BY <1>3
  <2>2. \E k \in i .. t : k \in Over(r, t) /\ r[k].head.level = lev
    <3>1. r \in Seq(Sections) /\ z \in Nat /\ z <= Len(r) /\ lev \in Int
          /\ r[i].head.level = lev /\ AtLeast(r, i, z, lev) /\ t \in i .. z
      BY <1>3, <1>8, <1>9, <1>11
    <3> QED
      BY ONLY <2>1, <3>1, TextTop
  <2>3. \A k \in i .. t : k \in i .. z
    BY <1>3, <1>9
  <2> QED
    BY <2>2, <2>3
<1>15. ASSUME NEW m \in U, NEW t \in i .. z, Path(r, t) = Path(d, m)
       PROVE  FALSE
  <2>1. PICK k \in i .. t : k \in i .. z /\ k \in Over(r, t) /\ r[k].head.level = lev
    BY <1>14
  <2>2. t \in DOMAIN r
    BY <1>10
  <2>3. PICK n \in 1 .. Len(Path(r, t)) : Path(r, k) = SubSeq(Path(r, t), 1, n)
    BY <1>8, <2>1, <2>2, IsBeginning
  <2> QED
    BY <1>13, <1>15, <2>1, <2>3
<1>16. ASSUME NEW m \in U, Numbered(d, m), Claims(d, Path(d, m)) = {m},
              NEW t \in i .. z, t \in Claims(r, Path(d, m))
       PROVE  FALSE
  <2>1. t \in DOMAIN r /\ m \in DOMAIN d
    BY <1>10
  <2>2. /\ Path(r, t) \in Seq(Heads) /\ Len(Path(r, t)) >= 1
        /\ Path(d, m) \in Seq(Heads) /\ Len(Path(d, m)) >= 1
    BY <1>8, <2>1, PathIs
  <2>3. Last(Path(d, m)) = d[m].head
    BY <2>1, LastOfPath
  <2>4. /\ Parent(r, t) = Parent(d, m) /\ Front(Path(r, t)) = Front(Path(d, m))
        /\ r[t].head.level = d[m].head.level /\ r[t].head.num = d[m].head.num
    BY <1>16, <2>3 DEF Claims, Parent
  <2>5. CASE r[t].head.level # lev
    <3>1. PICK k \in i .. t : k \in i .. z /\ k \in Over(r, t) /\ r[k].head.level = lev
      BY <1>14
    <3>2. PICK n \in 1 .. Len(Path(r, t)) :
            Path(r, k) = SubSeq(Path(r, t), 1, n) /\ (n = Len(Path(r, t)) => k = t)
      BY <1>8, <2>1, <3>1, IsBeginning
    <3> DEFINE p == Path(r, t)
               q == Path(d, m)
    <3>3. n \in 1 .. Len(p) - 1
      <4>1. n # Len(p) /\ n \in 1 .. Len(p) /\ Len(p) \in Nat
        BY <2>2, <2>5, <3>1, <3>2
      <4> HIDE DEF p
      <4> QED
        BY <4>1
    <3>4. n \in 1 .. Len(q) /\ SubSeq(p, 1, n) = SubSeq(q, 1, n)
      <4>1. p \in Seq(Heads) /\ q \in Seq(Heads) /\ Len(p) >= 1 /\ Len(q) >= 1
            /\ Front(p) = Front(q)
        BY <2>2, <2>4
      <4> HIDE DEF p, q
      <4> QED
        BY <3>3, <4>1, SameBeginning
    <3> QED
      BY <1>13, <3>1, <3>2, <3>4
  <2>6. CASE r[t].head.level = lev
    <3>1. Parent(r, t) = Parent(d, i)
      <4>1. i <= t /\ AtLeast(r, i, t, lev)
        <5>1. i <= t /\ \A k \in i .. t : k \in i .. z
          BY <1>3, <1>9
        <5> QED
          BY <1>11, <5>1 DEF AtLeast
      <4> QED
        BY <1>1, <1>8, <1>12, <2>1, <2>6, <4>1, SameParent DEF lev
    <3>2. Parent(d, m) = Parent(d, i) /\ d[m].head.level = lev
      BY <2>4, <2>6, <3>1
    <3>3. CASE t = i
      <4>1. d[i].head.num = d[m].head.num /\ d[i].head.level = d[m].head.level
        BY <1>2, <1>11, <2>4, <3>2, <3>3 DEF SameHeading, lev
      <4>2. i \in Claims(d, Path(d, m))
        BY <1>1, <2>3, <3>2, <4>1 DEF Claims, Parent
      <4>3. i = m
        BY <1>16, <4>2
      <4> QED
        BY <1>1, <1>5, <4>3, OverIs
    <3>4. CASE t # i
      <4>1. PeerFits(d, i, r[t].head)
        BY <1>6, <1>10, <2>6, <3>4
      <4>2. d[m].head = r[t].head
        BY <1>16, <2>1, <2>4, <3>2, <4>1 DEF PeerFits, lev
      <4> QED
        BY <2>1, <4>1, <4>2 DEF PeerFits
    <3> QED
      BY <3>3, <3>4
  <2> QED
    BY <2>5, <2>6
<1> DEFINE g == [m \in U |-> Moved(i, b, Len(text), m)]
<1>17. U \in SUBSET Outside(d, i, b)
  BY <1>5
<1>18. Carried(d, r, U, g)
  <2>1. \A m \in U : \A t \in i .. i - 1 + Len(text) : Path(r, t) # Path(d, m)
    BY <1>9, <1>15
  <2> QED
    BY <1>1, <1>2, <1>7, <1>17, <2>1, GraftCarries
<1>19. NumbersCarried(d, r, U, g)
  <2>1. NoneClaims(d, r, U, i, i - 1 + Len(text))
    BY <1>9, <1>16 DEF NoneClaims
  <2> QED
    BY <1>1, <1>2, <1>7, <1>17, <2>1, GraftCarriesNumbers
<1> HIDE DEF g
<1> QED
  BY <1>8, <1>18, <1>19 DEF Edited
-----------------------------------------------------------------------------
\* The edits of a section's text.

\* Where no heading changes, no path does.
LEMMA HeadsKept ==
  ASSUME NEW d \in Seq(Sections), NEW r \in Seq(Sections), Len(r) = Len(d),
         \A i \in 1 .. Len(d) : r[i].head = d[i].head, NEW m \in DOMAIN d
  PROVE  Path(r, m) = Path(d, m)
<1>1. m \in 1 .. Len(d) /\ m \in DOMAIN r /\ Len(d) \in Nat /\ DOMAIN r = DOMAIN d
  OBVIOUS
<1>2. ASSUME NEW j \in 1 .. m
      PROVE  j \in Over(r, m) <=> j \in Over(d, m)
  <2>1. \A k \in j + 1 .. m : k \in 1 .. Len(d)
    BY <1>1
  <2>2. j \in 1 .. Len(d)
    BY <1>1
  <2> QED
    BY <2>1, <2>2 DEF Over
<1>3. Over(r, m) = Over(d, m)
  <2>1. \A j \in Over(r, m) \cup Over(d, m) : j \in 1 .. m
    BY DEF Over
  <2> QED
    BY <1>2, <2>1
<1> DEFINE S == Over(d, m)
           f == [x \in S |-> x]
<1>4. S \in SUBSET DOMAIN d
  BY OverIs
<1>5. \A x \in S : r[f[x]].head = d[x].head
  BY <1>4
<1>6. Ascends(f, S, S)
  BY DEF Ascends
<1>8. S \in SUBSET DOMAIN r
  BY <1>1, <1>4
<1> HIDE DEF S, f
<1>7. Headings(d, S) = Headings(r, S)
  BY <1>4, <1>5, <1>6, <1>8, HeadingsCarried
<1> QED
  BY <1>3, <1>7 DEF Path, S

LEMMA InPlaceCarries ==
  ASSUME NEW d \in Seq(Sections), NEW r \in Seq(Sections), Len(r) = Len(d),
         \A i \in 1 .. Len(d) : r[i].head = d[i].head,
         NEW U \in SUBSET DOMAIN d, \A m \in U : r[m].body = d[m].body,
         NEW g, g = [m \in U |-> m]
  PROVE  Carried(d, r, U, g) /\ NumbersCarried(d, r, U, g)
<1>1. DOMAIN r = DOMAIN d /\ DOMAIN d = 1 .. Len(d)
  OBVIOUS
<1>2. \A m \in DOMAIN d : Path(r, m) = Path(d, m)
  BY HeadsKept
<1>3. \A m \in U : g[m] = m /\ m \in DOMAIN d
  OBVIOUS
<1>4. \A P : Having(r, P) = Having(d, P)
  BY <1>1, <1>2 DEF Having
<1>5. \A P : Claims(r, P) = Claims(d, P)
  <2>1. \A m \in DOMAIN d : r[m].head = d[m].head
    BY <1>1
  <2>2. \A m \in DOMAIN d : Parent(r, m) = Parent(d, m)
    BY <1>2 DEF Parent
  <2> QED
    BY <1>1, <2>1, <2>2 DEF Claims
<1>6. Follows(d, r, U, g)
  BY <1>1, <1>2, <1>3 DEF Follows
<1>7. AtEnd(d, r, U, g)
  BY <1>3 DEF AtEnd
<1>8. NoSecond(d, r, U, g)
  BY <1>3, <1>4 DEF NoSecond
<1>9. NumbersCarried(d, r, U, g)
  BY <1>3, <1>5 DEF NumbersCarried
<1> QED
  BY <1>6, <1>7, <1>8, <1>9 DEF Carried

LEMMA BodyEdited ==
  ASSUME NEW d \in Seq(Sections), NEW e, NEW i \in DOMAIN d, NEW body \in Seq(STRING),
         NEW r, r = [d EXCEPT ![i].body = body], NEW U \in SUBSET DOMAIN d, i \notin U
  PROVE  Edited(d, r, e, U)
<1>1. DOMAIN d = 1 .. Len(d) /\ DOMAIN r = DOMAIN d /\ Len(d) \in Nat
  OBVIOUS
<1>2. \A j \in 1 .. Len(d) : d[j] \in Sections
  OBVIOUS
<1>3. ASSUME NEW j \in 1 .. Len(d)
      PROVE  /\ r[j] \in Sections /\ r[j].head = d[j].head /\ (j # i => r[j].body = d[j].body)
  <2>1. CASE j = i
    <3>1. r[j] = [d[j] EXCEPT !.body = body]
      BY <1>1, <2>1
    <3> QED
      BY <1>2, <2>1, <3>1 DEF Sections
  <2>2. CASE j # i
    <3>1. r[j] = d[j]
      BY <1>1, <2>2
    <3> QED
      BY <1>2, <3>1
  <2> QED
    BY <2>1, <2>2
<1>4. r \in Seq(Sections) /\ Len(r) = Len(d)
  <2>1. r = [j \in 1 .. Len(d) |-> r[j]]
    BY <1>1
  <2> DEFINE n == Len(d)
             v(j) == r[j]
  <2>2. n \in Nat /\ \A j \in 1 .. n : v(j) \in Sections
    BY <1>1, <1>3
  <2>3. r = [j \in 1 .. n |-> v(j)]
    BY <2>1
  <2> HIDE DEF n, v
  <2>4. r \in Seq(Sections) /\ Len(r) = n
    BY <2>2, <2>3
  <2> QED
    BY <2>4 DEF n
<1> DEFINE g == [m \in U |-> m]
<1>5. \A m \in U : r[m].body = d[m].body
  BY <1>1, <1>3
<1>6. Carried(d, r, U, g) /\ NumbersCarried(d, r, U, g)
  BY <1>3, <1>4, <1>5, InPlaceCarries
<1> HIDE DEF g
<1> QED
  BY <1>4, <1>6 DEF Edited

LEMMA ExtendCarries ==
  ASSUME NEW d \in Seq(Sections), NEW e \in Edits, NEW U \in SUBSET DOMAIN d,
         \A m \in U : m # Len(d)
  PROVE  Edited(d, Extended(d, e.lines), e, U)
<1> DEFINE n == Len(d)
           r == Extended(d, e.lines)
<1>1. n \in Nat /\ DOMAIN d = 1 .. n /\ e.lines \in Seq(STRING)
  BY EditIs
<1>2. CASE n = 0
  <2>1. n \notin DOMAIN d
    BY <1>1, <1>2
  <2>2. r = d
    <3> DEFINE v == [d[n] EXCEPT !.body = @ \o e.lines]
    <3>1. r = [d EXCEPT ![n] = v]
      BY DEF Extended
    <3>2. DOMAIN d = {}
      BY <1>1, <1>2
    <3> HIDE DEF n, v, r
    <3>3. d = [x \in {} |-> d[x]]
      BY <3>2
    <3>4. r = [x \in {} |-> d[x]]
      BY <3>1, <3>2
    <3> QED
      BY <3>3, <3>4
  <2>3. \A m \in U : r[m].body = d[m].body
    BY <2>2
  <2>4. r \in Seq(Sections) /\ Len(r) = Len(d) /\ \A i \in 1 .. Len(d) : r[i].head = d[i].head
    BY <2>2
  <2> DEFINE g == [m \in U |-> m]
  <2> HIDE DEF r
  <2>5. Carried(d, r, U, g) /\ NumbersCarried(d, r, U, g)
    BY <2>3, <2>4, InPlaceCarries
  <2> HIDE DEF g
  <2> QED
    BY <2>4, <2>5 DEF Edited, r
<1>3. CASE n # 0
  <2> DEFINE body == d[n].body \o e.lines
  <2>1. n \in 1 .. Len(d) /\ n \in DOMAIN d
    BY <1>1, <1>3
  <2>2. d[n].body \in Seq(STRING)
    BY <2>1, LevelIs
  <2>3. body \in Seq(STRING)
    BY <1>1, <2>2
  <2>4. r = [d EXCEPT ![n].body = body]
    BY <2>1 DEF Extended
  <2>5. n \notin U
    OBVIOUS
  <2> HIDE DEF body, n, r
  <2>6. Edited(d, r, e, U)
    BY <2>1, <2>3, <2>4, <2>5, BodyEdited
  <2> QED
    BY <2>6 DEF r
<1> QED
  BY <1>2, <1>3

LEMMA SplicedIs ==
  ASSUME NEW e \in Edits
  PROVE  Spliced(e) \in Seq(STRING)
<1>1. e.lines \in Seq(STRING) /\ e.old \in STRING
  BY EditIs
<1>2. Append(e.lines, e.old) \in Seq(STRING) /\ <<e.old>> \o e.lines \in Seq(STRING)
  BY <1>1
<1> QED
  BY <1>1, <1>2 DEF Spliced

LEMMA TextCarries ==
  ASSUME NEW d \in Seq(Sections), NEW e \in Edits, NEW scope \in SUBSET DOMAIN d,
         NEW r \in TextIn(d, e, scope), NEW U \in SUBSET DOMAIN d,
         \A m \in U : e.old \notin ToSet(d[m].body)
  PROVE  Edited(d, r, e, U)
<1>1. PICK p \in Places(d, scope, e.old) : r = TextAt(d, e, p)
  BY DEF TextIn
<1>2. PICK i \in scope : p \in {i} \X DOMAIN d[i].body
  BY DEF Places
<1>3. p[1] = i /\ p[2] \in DOMAIN d[i].body /\ d[i].body[p[2]] = e.old
  BY <1>2 DEF Places
<1> DEFINE old == d[i].body
           k == p[2]
           body == SubSeq(old, 1, k - 1) \o Spliced(e) \o SubSeq(old, k + 1, Len(old))
<1>4. i \in DOMAIN d /\ i \in 1 .. Len(d)
  OBVIOUS
<1>5. old \in Seq(STRING) /\ k \in 1 .. Len(old) /\ Len(old) \in Nat
  <2>1. old \in Seq(STRING)
    BY <1>4, LevelIs
  <2> HIDE DEF old
  <2>2. k \in DOMAIN old
    BY <1>3 DEF old
  <2> QED
    BY <2>1, <2>2
<1>6. i \notin U
  <2>1. e.old \in ToSet(old)
    BY <1>3 DEF ToSet
  <2> QED
    BY <2>1
<1>7. body \in Seq(STRING)
  <2> DEFINE x == SubSeq(old, 1, k - 1)
             y == SubSeq(old, k + 1, Len(old))
  <2>1. x \in Seq(STRING)
    <3> HIDE DEF old, k
    <3>1. k - 1 \in Nat /\ k - 1 <= Len(old)
      BY <1>5
    <3> QED
      BY <1>5, <3>1, FirstItems
  <2>2. y \in Seq(STRING)
    <3> HIDE DEF old, k
    <3>1. \A q \in k + 1 .. Len(old) : old[q] \in STRING
      BY <1>5
    <3>2. k + 1 \in Int /\ Len(old) \in Int
      BY <1>5
    <3> QED
      BY <3>1, <3>2, <1>5, SubSeqProperties
  <2>3. Spliced(e) \in Seq(STRING)
    BY SplicedIs
  <2> HIDE DEF x, y
  <2>4. x \o Spliced(e) \o y \in Seq(STRING)
    BY <2>1, <2>2, <2>3
  <2> QED
    BY <2>4 DEF x, y
<1>8. r = [d EXCEPT ![i].body = body]
  BY <1>1, <1>3 DEF TextAt
<1> HIDE DEF body, old, k
<1> QED
  BY <1>4, <1>6, <1>7, <1>8, BodyEdited
-----------------------------------------------------------------------------
\* One edit, and the edits of a call in turn.

\* What one edit does not name (Untouched, for all of a call's edits).
Left(e, d) ==
  {i \in DOMAIN d :
     /\ e.action = "section" => Last(e.section) \notin ToSet(Path(d, i))
     /\ Anchored(e) => e.old \notin ToSet(d[i].body)
     /\ (e.action = "append" /\ e.text = <<>>) => i # Len(d)}

LEMMA WrittenIs ==
  ASSUME NEW e \in Edits
  PROVE  Written(e) \in Seq(Sections)
<1>1. e.text \in Seq(Sections) /\ e.lines \in Seq(STRING)
  BY EditIs
<1>2. Preamble \in Heads
  BY DEF Heads
<1>3. [head |-> Preamble, body |-> e.lines] \in Sections
  BY <1>1, <1>2 DEF Sections
<1>4. <<[head |-> Preamble, body |-> e.lines]>> \in Seq(Sections)
  BY <1>3
<1> QED
  BY <1>1, <1>4 DEF Written

LEMMA EditKeeps ==
  ASSUME NEW d \in Seq(Sections), NEW e \in Edits, NEW pin, NEW r \in Results(d, e, pin)
  PROVE  /\ r \in Seq(Sections)
         /\ e.action \notin {"create", "write"} => Edited(d, r, e, Left(e, d))
<1> DEFINE U == Left(e, d)
           at == Named(d, e.section)
<1>1. U \in SUBSET DOMAIN d
  BY DEF Left
<1>2. CASE e.action \in {"create", "write"}
  <2>1. r = Written(e)
    BY <1>2 DEF Results, Anchored
  <2> QED
    BY <1>2, <2>1, WrittenIs
<1>3. CASE e.action = "append"
  <2>1. r \in Append_(d, e)
    BY <1>3 DEF Results, Anchored
  <2>2. CASE e.text = <<>>
    <3>1. r = Extended(d, e.lines)
      BY <2>1, <2>2 DEF Append_
    <3>2. \A m \in U : m # Len(d)
      BY <1>3, <2>2 DEF Left
    <3> HIDE DEF U
    <3>3. Edited(d, r, e, U)
      BY <1>1, <3>1, <3>2, ExtendCarries
    <3> QED
      BY <3>3 DEF Edited, U
  <2>3. CASE e.text # <<>>
    <3> HIDE DEF U
    <3>1. Edited(d, r, e, U)
      BY <1>1, <2>1, <2>3, AppendCarries
    <3> QED
      BY <3>1 DEF Edited, U
  <2> QED
    BY <2>2, <2>3
<1>4. at \in SUBSET Found(d, e.section) /\ at \in SUBSET DOMAIN d
  BY DEF Named, Found
<1>5. CASE e.action = "section"
  <2>1. r \in UNION {SectionAt(d, e, pin, i) : i \in at}
    BY <1>5 DEF Results, Anchored
  <2>2. PICK i \in at : r \in SectionAt(d, e, pin, i)
    BY <2>1
  <2>3. \A m \in U : Last(e.section) \notin ToSet(Path(d, m))
    BY <1>5 DEF Left
  <2> HIDE DEF U
  <2>4. Edited(d, r, e, U)
    BY <1>1, <1>4, <2>2, <2>3, SectionCarries
  <2> QED
    BY <2>4 DEF Edited, U
<1>6. CASE Anchored(e)
  <2>1. e.action \notin {"create", "write", "append", "section"}
    BY <1>6 DEF Anchored
  <2>2. \A m \in U : e.old \notin ToSet(d[m].body)
    BY <1>6 DEF Left
  <2>3. \E scope \in SUBSET DOMAIN d : r \in TextIn(d, e, scope)
    <3>1. CASE e.section = <<>>
      <4>1. r \in TextIn(d, e, DOMAIN d)
        BY <1>6, <2>1, <3>1 DEF Results
      <4> QED
        BY <4>1
    <3>2. CASE e.section # <<>>
      <4>1. r \in UNION {TextIn(d, e, i .. End(d, i) - 1) :
                           i \in {j \in at : SectionHashNames(d, j, pin)}}
        BY <1>6, <2>1, <3>2 DEF Results
      <4>2. PICK i \in at : r \in TextIn(d, e, i .. End(d, i) - 1)
        BY <4>1
      <4>3. i \in DOMAIN d
        BY <1>4, <4>2
      <4>4. i \in 1 .. Len(d) /\ End(d, i) \in i + 1 .. Len(d) + 1 /\ DOMAIN d = 1 .. Len(d)
        BY <4>3, EndIs
      <4>5. i .. End(d, i) - 1 \in SUBSET DOMAIN d
        BY <4>4
      <4> QED
        BY <4>2, <4>5
    <3> QED
      BY <3>1, <3>2
  <2> HIDE DEF U
  <2>4. Edited(d, r, e, U)
    BY <1>1, <2>2, <2>3, TextCarries
  <2> QED
    BY <2>4 DEF Edited, U
<1>7. CASE e.action \notin {"create", "write", "append", "section"} /\ ~Anchored(e)
  <2>1. r \in UNION {Inserted(d, e, i) : i \in at}
    BY <1>7 DEF Results
  <2>2. PICK i \in at : r \in Inserted(d, e, i)
    BY <2>1
  <2>3. i \in DOMAIN d
    BY <1>4, <2>2
  <2> HIDE DEF U
  <2>4. Edited(d, r, e, U)
    BY <1>1, <1>7, <2>2, <2>3, InsertCarries
  <2> QED
    BY <2>4 DEF Edited, U
<1> QED
  BY <1>2, <1>3, <1>5, <1>6, <1>7

LEMMA SamePathSameHead ==
  ASSUME NEW d \in Seq(Sections), NEW r \in Seq(Sections), NEW m \in DOMAIN d, NEW q \in DOMAIN r,
         Path(r, q) = Path(d, m)
  PROVE  r[q].head = d[m].head
<1>1. Last(Path(d, m)) = d[m].head
  BY LastOfPath
<1>2. Last(Path(r, q)) = r[q].head
  BY LastOfPath
<1> QED
  BY <1>1, <1>2

\* What an edit left alone is not named by the next because it moved.
LEMMA LeftStays ==
  ASSUME NEW d \in Seq(Sections), NEW x \in Seq(Sections), NEW U, NEW g, Carried(d, x, U, g),
         NEW e, NEW m \in U, m \in Left(e, d)
  PROVE  g[m] \in Left(e, x)
<1>1. Follows(d, x, U, g) /\ AtEnd(d, x, U, g)
  BY DEF Carried
<1>2. g[m] \in DOMAIN x /\ Path(x, g[m]) = Path(d, m) /\ x[g[m]].body = d[m].body
  BY <1>1 DEF Follows
<1>3. g[m] = Len(x) => m = Len(d)
  BY <1>1 DEF AtEnd
<1> QED
  BY <1>2, <1>3 DEF Left

LEMMA CarriedOn ==
  ASSUME NEW d \in Seq(Sections), NEW x \in Seq(Sections), NEW r \in Seq(Sections),
         NEW U, NEW g, Carried(d, x, U, g), NEW W, NEW h, Carried(x, r, W, h),
         \A m \in U : g[m] \in W, NEW f, f = [m \in U |-> h[g[m]]]
  PROVE  /\ Carried(d, r, U, f)
         /\ NumbersCarried(d, x, U, g) /\ NumbersCarried(x, r, W, h) => NumbersCarried(d, r, U, f)
<1>1. /\ Follows(d, x, U, g) /\ AtEnd(d, x, U, g) /\ NoSecond(d, x, U, g)
      /\ Follows(x, r, W, h) /\ AtEnd(x, r, W, h) /\ NoSecond(x, r, W, h)
  BY DEF Carried
<1>2. \A m \in U : f[m] = h[g[m]] /\ g[m] \in W
  OBVIOUS
<1>3. U \in SUBSET DOMAIN d /\ \A m \in U : /\ g[m] \in DOMAIN x /\ Path(x, g[m]) = Path(d, m)
                                            /\ x[g[m]].body = d[m].body
  BY <1>1 DEF Follows
<1>4. \A q \in W : h[q] \in DOMAIN r /\ Path(r, h[q]) = Path(x, q) /\ r[h[q]].body = x[q].body
  BY <1>1 DEF Follows
<1>5. Follows(d, r, U, f)
  <2>1. f \in [U -> DOMAIN r]
    BY <1>2, <1>4
  <2>2. \A m, k \in U : m < k => f[m] < f[k]
    <3>1. \A m, k \in U : m < k => g[m] < g[k]
      BY <1>1 DEF Follows
    <3>2. \A m, k \in W : m < k => h[m] < h[k]
      BY <1>1 DEF Follows
    <3> QED
      BY <1>2, <3>1, <3>2
  <2>3. \A m \in U : Path(r, f[m]) = Path(d, m) /\ r[f[m]].body = d[m].body
    BY <1>2, <1>3, <1>4
  <2> QED
    BY <1>3, <2>1, <2>2, <2>3 DEF Follows
<1>6. AtEnd(d, r, U, f)
  BY <1>1, <1>2 DEF AtEnd
<1>7. NoSecond(d, r, U, f)
  <2> SUFFICES ASSUME NEW m \in U, Having(d, Path(d, m)) = {m}
               PROVE  Having(r, Path(d, m)) = {f[m]}
    BY DEF NoSecond
  <2>1. Having(x, Path(d, m)) = {g[m]}
    BY <1>1 DEF NoSecond
  <2>2. Having(x, Path(x, g[m])) = {g[m]}
    BY <1>3, <2>1
  <2>3. Having(r, Path(x, g[m])) = {h[g[m]]}
    BY <1>1, <1>2, <2>2 DEF NoSecond
  <2> QED
    BY <1>2, <1>3, <2>3
<1>8. ASSUME NumbersCarried(d, x, U, g), NumbersCarried(x, r, W, h)
      PROVE  NumbersCarried(d, r, U, f)
  <2> SUFFICES ASSUME NEW m \in U, Numbered(d, m), Claims(d, Path(d, m)) = {m}
               PROVE  Claims(r, Path(d, m)) = {f[m]}
    BY DEF NumbersCarried
  <2>1. Claims(x, Path(d, m)) = {g[m]}
    BY <1>8 DEF NumbersCarried
  <2>2. Claims(x, Path(x, g[m])) = {g[m]}
    BY <1>3, <2>1
  <2>3. Numbered(x, g[m])
    <3>1. x[g[m]].head = d[m].head
      BY <1>3, SamePathSameHead
    <3> QED
      BY <3>1 DEF Numbered
  <2>4. Claims(r, Path(x, g[m])) = {h[g[m]]}
    BY <1>2, <1>8, <2>2, <2>3 DEF NumbersCarried
  <2> QED
    BY <1>2, <1>3, <2>4
<1> QED
  BY <1>5, <1>6, <1>7, <1>8 DEF Carried
-----------------------------------------------------------------------------
\* The edits of a call in turn.

States == [doc : Seq(Sections), failed : BOOLEAN]
Made(d, c, k, y) ==
  Results(y.doc, c.edits[k], Rebased(c.edits[k], Pin(c, c.edits[k]), d, y.doc))
After(d, c, k, y) ==
  IF Made(d, c, k, y) = {} THEN [y EXCEPT !.failed = TRUE]
  ELSE [y EXCEPT !.doc = CHOOSE r \in Made(d, c, k, y) : TRUE]
Begun(d) == [doc |-> d, failed |-> FALSE]
InTurn(d, c, f) ==
  f = [n \in 0 .. Len(c.edits) |-> IF n = 0 THEN Begun(d) ELSE After(d, c, n, f[n - 1])]

LEMMA AfterIs ==
  ASSUME NEW d, NEW c, c.edits \in Seq(Edits), NEW k \in 1 .. Len(c.edits), NEW y \in States
  PROVE  /\ c.edits[k] \in Edits /\ y.doc \in Seq(Sections) /\ After(d, c, k, y) \in States
         /\ Made(d, c, k, y) = {} => After(d, c, k, y).doc = y.doc /\ After(d, c, k, y).failed
         /\ Made(d, c, k, y) # {} => After(d, c, k, y).doc \in Made(d, c, k, y)
<1> DEFINE M == Made(d, c, k, y)
           a == After(d, c, k, y)
<1>1. c.edits[k] \in Edits /\ y.doc \in Seq(Sections)
  BY DEF States
<1>2. \A r \in M : r \in Seq(Sections)
  BY <1>1, EditKeeps DEF Made
<1>3. CASE M = {}
  <2>1. a = [y EXCEPT !.failed = TRUE]
    BY <1>3 DEF After
  <2> HIDE DEF M, a
  <2>2. a \in States /\ a.doc = y.doc /\ a.failed
    BY <2>1 DEF States
  <2> QED
    BY <1>1, <1>3, <2>2 DEF M, a
<1>4. CASE M # {}
  <2> DEFINE r == CHOOSE x \in M : TRUE
  <2>1. a = [y EXCEPT !.doc = r]
    BY <1>4 DEF After
  <2>2. r \in M
    <3> HIDE DEF M
    <3> QED
      BY <1>4
  <2>3. r \in Seq(Sections)
    BY <1>2, <2>2
  <2> HIDE DEF M, a, r
  <2>4. a \in States /\ a.doc = r
    BY <2>1, <2>3 DEF States
  <2> QED
    BY <1>1, <1>4, <2>2, <2>4 DEF M, a
<1> QED
  BY <1>3, <1>4

LEMMA TurnsExist ==
  ASSUME NEW d \in Seq(Sections), NEW c, c.edits \in Seq(Edits)
  PROVE  \E f : InTurn(d, c, f) /\ f \in [0 .. Len(c.edits) -> States]
<1> DEFINE m == Len(c.edits)
           F == [n \in 1 .. m |-> [y \in States |-> After(d, c, n, y)]]
<1>1. m \in Nat
  OBVIOUS
<1>2. Begun(d) \in States
  BY DEF Begun, States
<1>3. \A n \in 1 .. m : \A y \in States : F[n][y] = After(d, c, n, y)
  OBVIOUS
<1>4. \A n \in 1 .. m : \A y \in States : F[n][y] \in States
  BY <1>3, AfterIs
<1> HIDE DEF F, m
<1>5. PICK f : /\ f = [n \in 0 .. m |-> IF n = 0 THEN Begun(d) ELSE F[n][f[n - 1]]]
               /\ f \in [0 .. m -> States]
  BY <1>1, <1>2, <1>4, Iterates
<1>6. ASSUME NEW n \in 0 .. m
      PROVE  f[n] = IF n = 0 THEN Begun(d) ELSE After(d, c, n, f[n - 1])
  <2>1. CASE n = 0
    BY <1>5, <2>1
  <2>2. CASE n # 0
    <3>1. n \in 1 .. m /\ n - 1 \in 0 .. m
      BY <1>1, <2>2
    <3>2. f[n - 1] \in States
      BY <1>5, <3>1
    <3>3. f[n] = F[n][f[n - 1]]
      BY <1>5, <2>2
    <3> QED
      BY <1>3, <2>2, <3>1, <3>2, <3>3
  <2> QED
    BY <2>1, <2>2
<1>7. f = [n \in 0 .. m |-> f[n]]
  BY <1>5
<1>8. f = [n \in 0 .. m |-> IF n = 0 THEN Begun(d) ELSE After(d, c, n, f[n - 1])]
  BY <1>6, <1>7
<1> QED
  BY <1>5, <1>8 DEF InTurn, m

\* Of every way to take the edits in turn, there is one, and Applied is its end.
LEMMA AppliedIs ==
  ASSUME NEW d \in Seq(Sections), NEW c, c.edits \in Seq(Edits)
  PROVE  \E f \in [0 .. Len(c.edits) -> States] :
           /\ Applied(d, c) = f[Len(c.edits)] /\ f[0] = Begun(d)
           /\ \A n \in 1 .. Len(c.edits) : f[n] = After(d, c, n, f[n - 1])
<1> DEFINE m == Len(c.edits)
           f == CHOOSE g : InTurn(d, c, g)
<1>1. m \in Nat
  OBVIOUS
<1>2. PICK g : InTurn(d, c, g) /\ g \in [0 .. m -> States]
  BY TurnsExist
<1>3. InTurn(d, c, f)
  BY <1>2
<1>4. Applied(d, c) = f[m]
  BY DEF Applied, InTurn, Begun, After, Made
<1> HIDE DEF f, m
<1>5. f = [n \in 0 .. m |-> IF n = 0 THEN Begun(d) ELSE After(d, c, n, f[n - 1])]
  BY <1>3 DEF InTurn, m
<1>6. g = [n \in 0 .. m |-> IF n = 0 THEN Begun(d) ELSE After(d, c, n, g[n - 1])]
  BY <1>2 DEF InTurn, m
<1>7. \A n \in 0 .. m : f[n] = g[n]
  <2> DEFINE T == {n \in 0 .. m : f[n] = g[n]}
  <2>1. 0 \in T
    BY <1>1, <1>5, <1>6
  <2>2. ASSUME NEW n \in 1 .. m, n - 1 \in T
        PROVE  n \in T
    <3>1. n \in 0 .. m /\ n # 0 /\ f[n - 1] = g[n - 1]
      BY <1>1, <2>2
    <3>2. f[n] = After(d, c, n, f[n - 1]) /\ g[n] = After(d, c, n, g[n - 1])
      BY <1>5, <1>6, <3>1
    <3> QED
      BY <3>1, <3>2
  <2> HIDE DEF T
  <2>3. \A n \in 0 .. m : n \in T
    BY <1>1, <2>1, <2>2, Climb
  <2> QED
    BY <2>3 DEF T
<1>8. f \in [0 .. m -> States]
  <2>1. \A n \in 0 .. m : f[n] \in States
    BY <1>2, <1>7
  <2>2. f = [n \in 0 .. m |-> f[n]]
    BY <1>5
  <2> QED
    BY <2>1, <2>2
<1>9. f[0] = Begun(d)
  BY <1>1, <1>5
<1>10. ASSUME NEW n \in 1 .. m
       PROVE  f[n] = After(d, c, n, f[n - 1])
  <2>1. n \in 0 .. m /\ n # 0
    BY <1>1
  <2> QED
    BY <1>5, <2>1
<1> QED
  BY <1>4, <1>8, <1>9, <1>10 DEF m

LEMMA AppliedTyped ==
  ASSUME NEW d \in Seq(Sections), NEW c, c.edits \in Seq(Edits)
  PROVE  Applied(d, c).doc \in Seq(Sections)
<1>1. PICK f \in [0 .. Len(c.edits) -> States] : Applied(d, c) = f[Len(c.edits)]
  BY AppliedIs
<1>2. Len(c.edits) \in 0 .. Len(c.edits)
  OBVIOUS
<1>3. Applied(d, c) \in States
  BY <1>1, <1>2
<1> QED
  BY <1>3 DEF States

\* A single edit that did not fail made something of the document.
LEMMA OneMade ==
  ASSUME NEW d \in Seq(Sections), NEW c, c.edits \in Seq(Edits), Single(c), ~Applied(d, c).failed
  PROVE  Results(d, First(c), Rebased(First(c), Pin(c, First(c)), d, d)) # {}
<1>1. Len(c.edits) = 1
  BY DEF Single
<1>2. PICK f \in [0 .. Len(c.edits) -> States] :
        /\ Applied(d, c) = f[Len(c.edits)] /\ f[0] = Begun(d)
        /\ \A n \in 1 .. Len(c.edits) : f[n] = After(d, c, n, f[n - 1])
  BY AppliedIs
<1>3. Applied(d, c) = f[1] /\ f[1] = After(d, c, 1, Begun(d))
  <2>1. 1 \in 1 .. Len(c.edits) /\ 1 - 1 = 0
    BY <1>1
  <2>2. f[1] = After(d, c, 1, f[1 - 1])
    BY <1>2, <2>1
  <2> QED
    BY <1>1, <1>2, <2>1, <2>2
<1>4. Begun(d) \in States
  BY DEF Begun, States
<1>5. 1 \in 1 .. Len(c.edits)
  BY <1>1
<1>6. Made(d, c, 1, Begun(d)) # {}
  BY <1>3, <1>4, <1>5, AfterIs
<1> QED
  BY <1>6 DEF Made, Begun, First

\* What the edits name of no section, they keep: by induction on their number.
LEMMA AppliedKeeps ==
  ASSUME NEW d \in Seq(Sections), NEW c, c.edits \in Seq(Edits), ~Whole(c)
  PROVE  \E g : /\ Carried(d, Applied(d, c).doc, Untouched(c, d), g)
                /\ (\A k \in DOMAIN c.edits : c.edits[k].action \in {"append", "section"}) =>
                     NumbersCarried(d, Applied(d, c).doc, Untouched(c, d), g)
<1> DEFINE m == Len(c.edits)
           U == Untouched(c, d)
           Adds == \A k \in DOMAIN c.edits : c.edits[k].action \in {"append", "section"}
           Kept(x) == \E g : Carried(d, x, U, g) /\ (Adds => NumbersCarried(d, x, U, g))
<1>1. PICK f \in [0 .. m -> States] :
        /\ Applied(d, c) = f[m] /\ f[0] = Begun(d)
        /\ \A n \in 1 .. m : f[n] = After(d, c, n, f[n - 1])
  BY AppliedIs
<1>2. m \in Nat /\ DOMAIN c.edits = 1 .. m
  OBVIOUS
<1>3. U \in SUBSET DOMAIN d /\ \A k \in 1 .. m : \A i \in U : i \in Left(c.edits[k], d)
  BY <1>2 DEF Untouched, Left
<1>4. \A k \in 1 .. m : c.edits[k] \in Edits /\ c.edits[k].action \notin {"create", "write"}
  BY <1>2 DEF Whole
<1>5. Adds => \A k \in 1 .. m : c.edits[k].action \in {"append", "section"}
  BY <1>2
<1>6. Kept(d)
  <2> DEFINE g == [i \in U |-> i]
  <2>1. Carried(d, d, U, g) /\ NumbersCarried(d, d, U, g)
    <3>1. \A i \in U : d[i].body = d[i].body
      OBVIOUS
    <3> HIDE DEF U
    <3> QED
      BY <1>3, <3>1, InPlaceCarries
  <2> HIDE DEF g, U, Adds
  <2> QED
    BY <2>1
<1> HIDE DEF m, U, Adds
<1>7. ASSUME NEW n \in 1 .. m, Kept(f[n - 1].doc)
      PROVE  Kept(f[n].doc)
  <2> DEFINE y == f[n - 1]
             e == c.edits[n]
             x == y.doc
             r == f[n].doc
  <2>1. y \in States /\ f[n] = After(d, c, n, y)
    <3>1. n - 1 \in 0 .. m
      BY <1>2
    <3> QED
      BY <1>1, <3>1
  <2>2. e \in Edits /\ e.action \notin {"create", "write"} /\ x \in Seq(Sections)
    BY <1>4, <2>1 DEF States
  <2>3. /\ Made(d, c, n, y) = {} => r = x
        /\ Made(d, c, n, y) # {} => r \in Made(d, c, n, y)
    <3>1. n \in 1 .. Len(c.edits)
      BY DEF m
    <3> HIDE DEF y
    <3> QED
      BY <2>1, <3>1, AfterIs
  <2>4. CASE Made(d, c, n, y) = {}
    BY <1>7, <2>3, <2>4
  <2>5. CASE Made(d, c, n, y) # {}
    <3> DEFINE W == Left(e, x)
    <3>1. r \in Results(x, e, Rebased(e, Pin(c, e), d, x))
      BY <2>3, <2>5 DEF Made
    <3> HIDE DEF r, x, e
    <3>2. r \in Seq(Sections) /\ Edited(x, r, e, W)
      BY <2>2, <3>1, EditKeeps
    <3>3. PICK h : /\ Carried(x, r, W, h)
                   /\ e.action \in {"append", "section"} => NumbersCarried(x, r, W, h)
      BY <3>2 DEF Edited
    <3>4. PICK g : Carried(d, x, U, g) /\ (Adds => NumbersCarried(d, x, U, g))
      BY <1>7 DEF x
    <3>5. \A i \in U : g[i] \in W
      <4> TAKE i \in U
      <4>1. i \in Left(e, d)
        BY <1>3 DEF e
      <4> QED
        BY <2>2, <3>4, <4>1, LeftStays
    <3> DEFINE p == [i \in U |-> h[g[i]]]
    <3> HIDE DEF W
    <3>6. /\ Carried(d, r, U, p)
          /\ NumbersCarried(d, x, U, g) /\ NumbersCarried(x, r, W, h) => NumbersCarried(d, r, U, p)
      BY <2>2, <3>2, <3>3, <3>4, <3>5, CarriedOn
    <3> HIDE DEF p
    <3>7. Adds => NumbersCarried(d, r, U, p)
      BY <1>5, <3>3, <3>4, <3>6 DEF e
    <3> QED
      BY <3>6, <3>7 DEF r
  <2> QED
    BY <2>4, <2>5
<1>8. Kept(f[0].doc)
  BY <1>1, <1>6 DEF Begun
<1>9. Kept(f[m].doc)
  <2> DEFINE T == {n \in 0 .. m : Kept(f[n].doc)}
  <2>1. 0 \in T
    BY <1>2, <1>8
  <2>2. ASSUME NEW n \in 1 .. m, n - 1 \in T
        PROVE  n \in T
    <3>1. Kept(f[n - 1].doc) /\ n \in 0 .. m
      BY <1>2, <2>2
    <3> QED
      BY <1>7, <3>1
  <2> HIDE DEF T
  <2>3. \A n \in 0 .. m : n \in T
    BY <1>2, <2>1, <2>2, Climb
  <2>4. m \in 0 .. m
    BY <1>2
  <2> QED
    BY <2>3, <2>4 DEF T
<1> QED
  BY <1>1, <1>9 DEF U, Adds, m
-----------------------------------------------------------------------------
\* What a call's edits keep: the two parts of SaveKeeps about sections and numbers.

LEMMA CompletedIs ==
  ASSUME NEW d \in Seq(Sections)
  PROVE  /\ DOMAIN Completed(d) = DOMAIN d /\ Len(Completed(d)) = Len(d)
         /\ \A i \in DOMAIN d :
              /\ Completed(d)[i].head = d[i].head
              /\ Completed(d)[i].body = [k \in DOMAIN d[i].body |-> Complete(d[i].body[k])]
<1> DEFINE b(i) == [k \in DOMAIN d[i].body |-> Complete(d[i].body[k])]
           v(i) == [d[i] EXCEPT !.body = b(i)]
           n == Len(d)
<1>1. Completed(d) = [i \in DOMAIN d |-> v(i)]
  BY DEF Completed
<1>2. n \in Nat /\ DOMAIN d = 1 .. n
  OBVIOUS
<1>3. ASSUME NEW i \in DOMAIN d
      PROVE  v(i).head = d[i].head /\ v(i).body = b(i)
  <2>1. d[i] \in Sections
    OBVIOUS
  <2> HIDE DEF b
  <2> QED
    BY <2>1 DEF Sections
<1> HIDE DEF v, n
<1>4. Completed(d) = [i \in 1 .. n |-> v(i)]
  BY <1>1, <1>2
<1>5. Len(Completed(d)) = n
  BY <1>2, <1>4
<1> QED
  BY <1>1, <1>3, <1>5 DEF n

LEMMA CompletedTyped ==
  ASSUME NEW d \in Seq(Sections), \A t \in STRING : Complete(t) \in STRING
  PROVE  Completed(d) \in Seq(Sections)
<1> DEFINE n == Len(d)
           w(i) == [k \in DOMAIN d[i].body |-> Complete(d[i].body[k])]
           v(i) == [d[i] EXCEPT !.body = w(i)]
<1>1. n \in Nat /\ DOMAIN d = 1 .. n
  OBVIOUS
<1>2. ASSUME NEW i \in 1 .. n
      PROVE  v(i) \in Sections
  <2>1. d[i] \in Sections /\ d[i].body \in Seq(STRING)
    BY LevelIs
  <2> DEFINE b == d[i].body
             m == Len(b)
             u(k) == Complete(b[k])
  <2>2. m \in Nat /\ DOMAIN b = 1 .. m /\ \A k \in 1 .. m : b[k] \in STRING
    <3> HIDE DEF b
    <3> QED
      BY <2>1 DEF b
  <2>3. \A k \in 1 .. m : u(k) \in STRING
    BY <2>2
  <2>4. w(i) = [k \in 1 .. m |-> u(k)]
    BY <2>2
  <2> HIDE DEF u, m
  <2>5. w(i) \in Seq(STRING)
    BY <2>2, <2>3, <2>4
  <2> HIDE DEF w, b
  <2> QED
    BY <2>1, <2>5 DEF Sections
<1>3. Completed(d) = [i \in 1 .. n |-> v(i)]
  BY <1>1 DEF Completed
<1> HIDE DEF v, n
<1> QED
  BY <1>1, <1>2, <1>3

\* A path, and who has it, is the same in what is saved as in what the edits made.
LEMMA SavedPaths ==
  ASSUME NEW r \in Seq(Sections), \A t \in STRING : Complete(t) \in STRING,
         NEW new, new = Completed(r)
  PROVE  /\ new \in Seq(Sections) /\ DOMAIN new = DOMAIN r
         /\ \A i \in DOMAIN r : Path(new, i) = Path(r, i) /\ new[i].head = r[i].head
         /\ \A P : Having(new, P) = Having(r, P)
         /\ \A P : Claims(new, P) = Claims(r, P)
<1>1. /\ new \in Seq(Sections) /\ DOMAIN new = DOMAIN r /\ Len(new) = Len(r)
      /\ \A i \in DOMAIN r : new[i].head = r[i].head
  BY CompletedIs, CompletedTyped
<1>2. \A i \in 1 .. Len(r) : new[i].head = r[i].head
  BY <1>1
<1>3. \A i \in DOMAIN r : Path(new, i) = Path(r, i)
  BY <1>1, <1>2, HeadsKept
<1>4. \A P : Having(new, P) = Having(r, P)
  BY <1>1, <1>3 DEF Having
<1>5. \A P : Claims(new, P) = Claims(r, P)
  <2>1. \A i \in DOMAIN r : Parent(new, i) = Parent(r, i)
    BY <1>3 DEF Parent
  <2> QED
    BY <1>1, <2>1 DEF Claims
<1> QED
  BY <1>1, <1>3, <1>4, <1>5

LEMMA HavingFinite ==
  ASSUME NEW d \in Seq(Sections), NEW P
  PROVE  IsFiniteSet(Having(d, P))
<1>1. Having(d, P) \in SUBSET (0 .. Len(d)) /\ Len(d) \in Nat
  BY DEF Having
<1> QED
  BY <1>1, BoundedFinite

LEMMA SectionsAreKept ==
  ASSUME NEW d \in Seq(Sections), NEW c, c.edits \in Seq(Edits), ~Whole(c),
         \A t \in STRING : Complete(t) \in STRING,
         NEW new, new = Completed(Applied(d, c).doc)
  PROVE  SectionsKept(c, d, new)
<1> DEFINE r == Applied(d, c).doc
           U == Untouched(c, d)
<1>1. r \in Seq(Sections)
  BY AppliedTyped
<1>2. PICK g : Carried(d, r, U, g)
  BY AppliedKeeps
<1> HIDE DEF r
<1>3. new = Completed(r)
  BY DEF r
<1>4. DOMAIN new = DOMAIN r /\ \A P : Having(new, P) = Having(r, P)
  BY <1>1, <1>3, SavedPaths
<1>5. \A i \in DOMAIN r : new[i].body = [k \in DOMAIN r[i].body |-> Complete(r[i].body[k])]
  BY <1>1, <1>3, CompletedIs
<1>6. \A i \in DOMAIN d :
        Completed(d)[i].body = [k \in DOMAIN d[i].body |-> Complete(d[i].body[k])]
  BY CompletedIs
<1>7. Follows(d, r, U, g) /\ NoSecond(d, r, U, g)
  BY <1>2 DEF Carried
<1>8. \A i \in U : /\ i \in DOMAIN d /\ g[i] \in DOMAIN r /\ Path(r, g[i]) = Path(d, i)
                   /\ r[g[i]].body = d[i].body
  BY <1>7 DEF Follows
<1> SUFFICES ASSUME NEW i \in U
             PROVE  /\ {j \in Having(new, Path(d, i)) :
                          new[j].body = Completed(d)[i].body} # {}
                    /\ Cardinality(Having(d, Path(d, i))) = 1 =>
                         /\ Cardinality(Having(new, Path(d, i))) = 1
                         /\ \A k \in U : k > i =>
                              \E j \in Having(new, Path(d, k)) : j > Min(Having(new, Path(d, i)))
  BY DEF SectionsKept
<1> HIDE DEF U
<1>9. \A k \in U : g[k] \in Having(new, Path(d, k))
  BY <1>4, <1>8 DEF Having
<1>10. new[g[i]].body = Completed(d)[i].body
  <2> DEFINE q == g[i]
  <2>1. i \in DOMAIN d /\ q \in DOMAIN r /\ r[q].body = d[i].body
    BY <1>8
  <2> HIDE DEF q
  <2>2. new[q].body = [k \in DOMAIN r[q].body |-> Complete(r[q].body[k])]
    BY <1>5, <2>1
  <2>3. Completed(d)[i].body = [k \in DOMAIN d[i].body |-> Complete(d[i].body[k])]
    BY <1>6, <2>1
  <2>4. new[q].body = Completed(d)[i].body
    BY <2>1, <2>2, <2>3
  <2> QED
    BY <2>4 DEF q
<1>11. ASSUME Cardinality(Having(d, Path(d, i))) = 1
       PROVE  /\ Cardinality(Having(new, Path(d, i))) = 1
              /\ \A k \in U : k > i =>
                   \E j \in Having(new, Path(d, k)) : j > Min(Having(new, Path(d, i)))
  <2>1. i \in Having(d, Path(d, i))
    BY <1>8 DEF Having
  <2>2. Having(d, Path(d, i)) = {i}
    BY <1>11, <2>1, HavingFinite, OnlyOne
  <2>3. Having(new, Path(d, i)) = {g[i]}
    BY <1>4, <1>7, <2>2 DEF NoSecond
  <2>4. Cardinality({g[i]}) = 1
    BY FS_Singleton
  <2>5. Min({g[i]}) = g[i]
    <3>1. g[i] \in Nat
      BY <1>1, <1>8
    <3>2. g[i] \in {g[i]} /\ \A y \in {g[i]} : g[i] <= y
      BY <3>1
    <3> QED
      BY <3>2 DEF Min
  <2>6. ASSUME NEW k \in U, k > i
        PROVE  g[k] > g[i]
    <3>1. i < k
      BY <1>8, <2>6
    <3>2. g[i] < g[k]
      BY <1>7, <3>1 DEF Follows
    <3>3. g[i] \in Nat /\ g[k] \in Nat
      BY <1>1, <1>8
    <3> QED
      BY <3>2, <3>3
  <2> QED
    BY <1>9, <2>3, <2>4, <2>5, <2>6
<1> QED
  BY <1>9, <1>10, <1>11

LEMMA NumbersAreKept ==
  ASSUME NEW d \in Seq(Sections), NEW c, c.edits \in Seq(Edits), ~Whole(c),
         \A t \in STRING : Complete(t) \in STRING,
         NEW new, new = Completed(Applied(d, c).doc)
  PROVE  NumbersKept(c, d, new)
<1> DEFINE r == Applied(d, c).doc
           U == Untouched(c, d)
           Adds == \A k \in DOMAIN c.edits : c.edits[k].action \in {"append", "section"}
<1>1. r \in Seq(Sections)
  BY AppliedTyped
<1>2. PICK g : Carried(d, r, U, g) /\ (Adds => NumbersCarried(d, r, U, g))
  BY AppliedKeeps
<1>3. new = Completed(r)
  OBVIOUS
<1> HIDE DEF r
<1>4. /\ new \in Seq(Sections) /\ DOMAIN new = DOMAIN r
      /\ \A P : Having(new, P) = Having(r, P)
      /\ \A P : Claims(new, P) = Claims(r, P)
  BY <1>1, <1>3, SavedPaths
<1> SUFFICES ASSUME Adds, NEW i \in U, Numbered(d, i), NEW j \in Having(new, Path(d, i)),
                    NEW k \in Siblings(new, j), new[k].head.num = new[j].head.num
             PROVE  \E h \in Siblings(d, i) : d[h].head.num = new[k].head.num
  BY DEF NumbersKept
<1>5. NumbersCarried(d, r, U, g)
  BY <1>2
<1>6. i \in DOMAIN d /\ j \in DOMAIN new /\ Path(new, j) = Path(d, i)
  BY DEF Untouched, Having
<1> DEFINE P == Path(d, i)
<1>7. new[j].head = d[i].head /\ Last(P) = d[i].head
  BY <1>4, <1>6, SamePathSameHead, LastOfPath
<1>8. k \in DOMAIN new /\ k # j /\ new[k].head.level = new[j].head.level
      /\ Parent(new, k) = Parent(new, j)
  BY DEF Siblings
<1>9. Parent(new, j) = Front(P) /\ Parent(d, i) = Front(P)
  BY <1>6 DEF Parent
<1>10. k \in Claims(new, P) /\ j \in Claims(new, P) /\ i \in Claims(d, P)
  BY <1>6, <1>7, <1>8, <1>9 DEF Claims
<1>11. Claims(d, P) # {i}
  <2> SUFFICES ASSUME Claims(d, P) = {i} PROVE FALSE
    OBVIOUS
  <2>1. Claims(r, P) = {g[i]}
    BY <1>5 DEF NumbersCarried
  <2> QED
    BY <1>4, <1>8, <1>10, <2>1
<1>12. PICK h \in Claims(d, P) : h # i
  BY <1>10, <1>11
<1>13. h \in Siblings(d, i) /\ d[h].head.num = new[k].head.num
  BY <1>7, <1>9, <1>12 DEF Claims, Siblings
<1> QED
  BY <1>13
-----------------------------------------------------------------------------
\* The inductive invariant.

Versions == Seq(Sections)
Calling ==
  [phase : {"called", "staged", "checked"}, edits : Seq(Edits) \ {<<>>},
   sent : Versions \cup {None, Malformed}, pin : Versions \cup {Malformed},
   expected : Versions \cup {None, Malformed}, old : Versions \cup {Absent},
   result : Versions \cup {Absent}, raced : BOOLEAN]

Typed ==
  /\ doc \in Versions \cup {Absent} /\ last \in Versions \cup {None} /\ given \subseteq Versions
  /\ chained \in {last, None} /\ (written <=> last # None) /\ withheld \in BOOLEAN
  /\ call \in Calling \cup {Idle}
  /\ calls \in 0 .. Len(Calls) /\ others \in 0 .. MaxOthers /\ looks \in 0 .. MaxLooks

\* The last save is a version that the task's results named.
LastGiven == last # None => last \in given

\* The version a call expects is the one it was sent with, or one the task's results
\* named when it was sent with none; only a first append is sent with one and has none.
NamedBy(c, versions) ==
  /\ c.sent \in versions \cup {None, Malformed} /\ c.pin \in versions \cup {Malformed}
  /\ (c.expected # c.sent /\ c.expected # None) => (c.sent = None /\ c.expected \in versions)
  /\ (c.expected = None /\ c.sent # None) => (Single(c) /\ First(c).action = "create")
Sent == call # Idle => NamedBy(call, given)

\* What a staged result keeps of the version it was made of, and why that was named.
HashNamed(c, d, versions) ==
  \/ c.sent = d
  \/ c.sent = None /\ d \in versions
  \/ /\ c.sent = None /\ SelfPinned(c)
     /\ First(c).pinned => \E i \in Found(d, First(c).section) : c.pin \in {Extent(d, i), d}
SoundEdit(c, versions) ==
  /\ c.result \in Versions
  /\ c.old # Absent =>
       /\ HashNamed(c, c.old, versions)
       /\ ~Whole(c) => SectionsKept(c, c.old, c.result) /\ NumbersKept(c, c.old, c.result)
Staged == call.phase \in {"staged", "checked"} => SoundEdit(call, given)

NotChanged == call.phase = "checked" => (call.raced \/ doc = call.old)

DocumentInv == Typed /\ LastGiven /\ Sent /\ Staged /\ NotChanged

LEMMA CallingIs ==
  ASSUME NEW c \in Calling
  PROVE  /\ c.phase \in {"called", "staged", "checked"}
         /\ c.edits \in Seq(Edits) /\ c.edits # <<>> /\ First(c) \in Edits
         /\ c.sent \in Versions \cup {None, Malformed} /\ c.pin \in Versions \cup {Malformed}
         /\ c.expected \in Versions \cup {None, Malformed}
         /\ c.old \in Versions \cup {Absent} /\ c.result \in Versions \cup {Absent}
         /\ c.raced \in BOOLEAN /\ c # Idle
<1>1. /\ c.phase \in {"called", "staged", "checked"} /\ c.edits \in Seq(Edits) \ {<<>>}
      /\ c.sent \in Versions \cup {None, Malformed} /\ c.pin \in Versions \cup {Malformed}
      /\ c.expected \in Versions \cup {None, Malformed}
      /\ c.old \in Versions \cup {Absent} /\ c.result \in Versions \cup {Absent}
      /\ c.raced \in BOOLEAN
  BY DEF Calling
<1>2. Idle.phase = "idle"
  BY DEF Idle
<1>3. c # Idle
  BY <1>1, <1>2
<1>4. First(c) \in Edits
  <2> DEFINE s == c.edits
  <2>1. s \in Seq(Edits) /\ s # <<>>
    BY <1>1
  <2> HIDE DEF s
  <2>2. s[1] \in Edits
    BY <2>1
  <2> QED
    BY <2>2 DEF First, s
<1> QED
  BY <1>1, <1>3, <1>4

\* What is said of a call depends on its edits, its hash and its pin.
Same(c, b) == c.edits = b.edits /\ c.sent = b.sent /\ c.pin = b.pin

LEMMA SameSoundEdit ==
  ASSUME NEW c, NEW b, NEW versions, Same(c, b), c.old = b.old, c.result = b.result,
         SoundEdit(c, versions)
  PROVE  SoundEdit(b, versions)
<1>1. First(b) = First(c) /\ (Single(b) <=> Single(c)) /\ (Whole(b) <=> Whole(c))
      /\ \A d : Untouched(b, d) = Untouched(c, d)
  BY DEF Same, First, Single, Whole, Untouched
<1>2. SelfPinned(b) <=> SelfPinned(c)
  BY <1>1 DEF SelfPinned
<1>3. HashNamed(c, c.old, versions) => HashNamed(b, b.old, versions)
  BY <1>1, <1>2 DEF HashNamed, Same
<1>4. SectionsKept(c, c.old, c.result) => SectionsKept(b, b.old, b.result)
  BY <1>1 DEF SectionsKept
<1>5. NumbersKept(c, c.old, c.result) => NumbersKept(b, b.old, b.result)
  BY <1>1 DEF NumbersKept, Same
<1> QED
  BY <1>1, <1>3, <1>4, <1>5 DEF SoundEdit

LEMMA ExtentTyped ==
  ASSUME NEW d \in Seq(Sections), NEW i \in 1 .. Len(d)
  PROVE  Extent(d, i) \in Seq(Sections)
<1>1. i \in DOMAIN d /\ i \in Int /\ Len(d) \in Nat
  OBVIOUS
<1> DEFINE b == End(d, i) - 1
<1>2. b \in Int /\ b <= Len(d)
  BY <1>1, EndIs
<1> HIDE DEF b
<1>3. \A k \in i .. b : d[k] \in Sections
  BY <1>1, <1>2
<1>4. SubSeq(d, i, b) \in Seq(Sections)
  BY <1>1, <1>2, <1>3, SubSeqProperties
<1> QED
  BY <1>4 DEF Extent, b

LEMMA DocumentStarts == Init => DocumentInv
<1> SUFFICES ASSUME Init PROVE DocumentInv
  OBVIOUS
<1>1. Idle.phase = "idle"
  BY DEF Idle
<1>2. Len(Calls) \in Nat /\ MaxOthers \in Nat /\ MaxLooks \in Nat
  BY CallsAssumption, BoundsAssumption
<1>3. Typed
  <2>1. doc \in Versions \cup {Absent}
    BY TextsAssumption DEF Init, Versions
  <2>2. calls \in 0 .. Len(Calls) /\ others \in 0 .. MaxOthers /\ looks \in 0 .. MaxLooks
    <3>1. calls = 0 /\ others = 0 /\ looks = 0
      BY DEF Init
    <3> QED
      BY <1>2, <3>1
  <2>3. last = None /\ written = FALSE /\ withheld = FALSE /\ chained = None
        /\ call = Idle /\ given = {}
    BY DEF Init
  <2> QED
    BY <2>1, <2>2, <2>3 DEF Typed
<1> QED
  BY <1>1, <1>3 DEF Init, DocumentInv, LastGiven, Sent, Staged, NotChanged

LEMMA PhaseIs ==
  ASSUME Typed
  PROVE  /\ call \in Calling \/ call = Idle
         /\ call.phase = "idle" <=> call = Idle
         /\ call.phase \in {"called", "staged", "checked"} <=> call \in Calling
<1>1. call \in Calling \/ call = Idle
  BY DEF Typed
<1>2. Idle.phase = "idle"
  BY DEF Idle
<1>3. CASE call \in Calling
  <2>1. call.phase \in {"called", "staged", "checked"} /\ call # Idle
    BY <1>3, CallingIs
  <2> QED
    BY <1>3, <2>1
<1>4. CASE call = Idle
  <2>1. call.phase = "idle"
    BY <1>2, <1>4
  <2>2. call \notin Calling
    BY <2>1, CallingIs
  <2> QED
    BY <1>4, <2>1, <2>2
<1> QED
  BY <1>1, <1>3, <1>4

\* A change of a call that leaves alone what it was called with.
LEMMA ChangedCall ==
  ASSUME NEW c \in Calling, NEW b \in Calling, Same(c, b), c.expected = b.expected,
         NEW versions, NamedBy(c, versions)
  PROVE  NamedBy(b, versions)
BY DEF NamedBy, Same, Single, First

LEMMA OtherKeeps == ASSUME DocumentInv, Other PROVE DocumentInv'
<1>1. Typed /\ LastGiven /\ Sent /\ Staged /\ NotChanged
  BY DEF DocumentInv
<1>2. /\ others < MaxOthers /\ others' = others + 1 /\ doc' \in (Others \cup {Absent}) \ {doc}
      /\ call' = IF call.phase = "checked" THEN [call EXCEPT !.raced = TRUE] ELSE call
      /\ last' = last /\ written' = written /\ withheld' = withheld /\ chained' = chained
      /\ given' = given /\ calls' = calls /\ looks' = looks
  BY DEF Other, task
<1>3. /\ call' \in Calling <=> call \in Calling
      /\ call' \in Calling \/ call' = Idle
      /\ call \in Calling =>
           /\ Same(call, call') /\ call'.expected = call.expected /\ call'.phase = call.phase
           /\ call'.old = call.old /\ call'.result = call.result
           /\ (call.phase = "checked" => call'.raced)
  <2>1. CASE call.phase = "checked"
    <3>1. call \in Calling /\ call' = [call EXCEPT !.raced = TRUE]
      BY <1>1, <1>2, <2>1, PhaseIs
    <3>2. /\ call' \in Calling /\ call'.raced
          /\ call'.edits = call.edits /\ call'.sent = call.sent /\ call'.pin = call.pin
          /\ call'.expected = call.expected /\ call'.phase = call.phase
          /\ call'.old = call.old /\ call'.result = call.result
      BY <3>1 DEF Calling
    <3> QED
      BY <3>1, <3>2 DEF Same
  <2>2. CASE call.phase # "checked"
    BY <1>1, <1>2, <2>2, PhaseIs DEF Same
  <2> QED
    BY <2>1, <2>2
<1>4. Typed'
  <2>1. doc' \in Versions \cup {Absent}
    BY <1>2, TextsAssumption DEF Versions
  <2>2. others' \in 0 .. MaxOthers
    BY <1>1, <1>2, BoundsAssumption DEF Typed
  <2> QED
    BY <1>1, <1>2, <1>3, <2>1, <2>2 DEF Typed
<1>5. Sent'
  <2>1. ASSUME call' # Idle
        PROVE  NamedBy(call', given')
    <3>1. call \in Calling /\ call' \in Calling /\ call # Idle
      BY <1>3, <2>1, CallingIs
    <3>2. NamedBy(call, given)
      BY <1>1, <3>1 DEF Sent
    <3> QED
      BY <1>2, <1>3, <3>1, <3>2, ChangedCall
  <2> QED
    BY <2>1 DEF Sent
<1>6. Staged'
  <2>1. ASSUME call'.phase \in {"staged", "checked"}
        PROVE  SoundEdit(call', given')
    <3>1. call' \in Calling
      <4>1. call' # Idle
        BY <2>1 DEF Idle
      <4> QED
        BY <1>3, <4>1
    <3> QED
      BY <1>1, <1>2, <1>3, <2>1, <3>1, SameSoundEdit DEF Staged
  <2> QED
    BY <2>1 DEF Staged
<1>7. NotChanged'
  <2>1. ASSUME call'.phase = "checked"
        PROVE  call'.raced
    <3>1. call' # Idle
      BY <2>1 DEF Idle
    <3> QED
      BY <1>3, <2>1, <3>1
  <2> QED
    BY <2>1 DEF NotChanged
<1>8. LastGiven'
  BY <1>1, <1>2 DEF LastGiven
<1> QED
  BY <1>4, <1>5, <1>6, <1>7, <1>8 DEF DocumentInv

\* A step that leaves the document and the call alone.
LEMMA RestKeeps ==
  ASSUME DocumentInv, call' = call, doc' = doc, Typed', LastGiven', call = Idle
  PROVE  DocumentInv'
<1>1. call'.phase = "idle" /\ call' = Idle
  BY DEF Idle
<1> QED
  BY <1>1 DEF DocumentInv, Sent, Staged, NotChanged

\* A step that ends the call.
LEMMA EndKeeps ==
  ASSUME call' = Idle, Typed', LastGiven'
  PROVE  DocumentInv'
<1>1. call'.phase = "idle" /\ call' = Idle
  BY DEF Idle
<1> QED
  BY <1>1 DEF DocumentInv, Sent, Staged, NotChanged

LEMMA InspectKeeps == ASSUME DocumentInv, Inspect PROVE DocumentInv'
<1>1. Typed /\ LastGiven
  BY DEF DocumentInv
<1>2. /\ call = Idle /\ Known /\ looks < MaxLooks /\ looks' = looks + 1
      /\ \E i \in 0 .. Len(doc) :
           given' = given \cup {doc} \cup (IF i = 0 THEN {} ELSE {Extent(doc, i)})
      /\ doc' = doc /\ last' = last /\ written' = written /\ withheld' = withheld
      /\ chained' = chained /\ call' = call /\ calls' = calls /\ others' = others
  BY DEF Inspect, task
<1>3. doc \in Seq(Sections)
  BY <1>1, <1>2 DEF Typed, Known, Versions
<1>4. given' \subseteq Versions /\ given \subseteq given'
  <2>1. PICK i \in 0 .. Len(doc) :
          given' = given \cup {doc} \cup (IF i = 0 THEN {} ELSE {Extent(doc, i)})
    BY <1>2
  <2>2. i # 0 => Extent(doc, i) \in Seq(Sections)
    <3>1. i # 0 => i \in 1 .. Len(doc)
      BY <1>3
    <3> QED
      BY <1>3, <3>1, ExtentTyped
  <2> QED
    BY <1>1, <1>3, <2>1, <2>2 DEF Typed, Versions
<1>5. looks' \in 0 .. MaxLooks
  BY <1>1, <1>2, BoundsAssumption DEF Typed
<1>6. Typed'
  BY <1>1, <1>2, <1>4, <1>5 DEF Typed
<1>7. LastGiven'
  BY <1>1, <1>2, <1>4 DEF LastGiven
<1> QED
  BY <1>2, <1>6, <1>7, RestKeeps

LEMMA RefuseKeeps == ASSUME DocumentInv, Refuse PROVE DocumentInv'
<1>1. Typed /\ LastGiven
  BY DEF DocumentInv
<1>2. /\ call' = Idle /\ doc' = doc /\ last' = last /\ written' = written
      /\ withheld' = withheld /\ chained' = chained /\ calls' = calls /\ others' = others
      /\ looks' = looks
  BY DEF Refuse, Refused, task
<1>3. given' = given \/ (doc # Absent /\ given' = given \cup {doc})
  <2>1. CASE Exists(call) /\ Told({doc})
    BY <2>1 DEF Told, Exists, Known
  <2>2. CASE (Missing(call) \/ HashMissing(call)) /\ Told({})
    BY <2>2 DEF Told
  <2>3. CASE Stale(call) /\ call.expected # Malformed /\ Told(IF doc = last THEN {doc} ELSE {})
    BY <2>3 DEF Told, Stale, Known
  <2>4. CASE Stale(call) /\ call.expected = Malformed /\ \E t \in {{}, {doc}} : Told(t)
    BY <2>4 DEF Told, Stale, Known
  <2>5. CASE Fails(call) /\ Told({})
    BY <2>5 DEF Told
  <2>6. CASE ~Fails(call) /\ Unchanged(call) /\ Told({doc})
    BY <2>6 DEF Told, Unchanged, Known
  <2> QED
    BY <2>1, <2>2, <2>3, <2>4, <2>5, <2>6 DEF Refuse
<1>4. given' \subseteq Versions /\ given \subseteq given'
  BY <1>1, <1>3 DEF Typed
<1>5. Typed'
  BY <1>1, <1>2, <1>4 DEF Typed
<1>6. LastGiven'
  BY <1>1, <1>2, <1>4 DEF LastGiven
<1> QED
  BY <1>2, <1>5, <1>6, EndKeeps

LEMMA SaveDropKeeps == ASSUME DocumentInv, Save \/ Drop PROVE DocumentInv'
<1>1. Typed /\ LastGiven /\ Staged
  BY DEF DocumentInv
<1>2. CASE Save
  <2>1. /\ call.phase = "checked" /\ doc' = call.result /\ last' = call.result
        /\ chained' = call.result /\ written' = TRUE /\ withheld' = FALSE /\ call' = Idle
        /\ given' = given \cup {call.result} /\ calls' = calls /\ others' = others
        /\ looks' = looks
    BY <1>2 DEF Save, Told
  <2>2. call.result \in Versions
    BY <1>1, <2>1 DEF Staged, SoundEdit
  <2>3. call.result # None
    BY <2>2, HashesAssumption DEF Versions
  <2>4. Typed'
    BY <1>1, <2>1, <2>2, <2>3 DEF Typed
  <2>5. LastGiven'
    BY <2>1 DEF LastGiven
  <2> QED
    BY <2>1, <2>4, <2>5, EndKeeps
<1>3. CASE Drop
  <2>1. /\ call' = Idle /\ doc' = doc /\ last' = last /\ written' = written
        /\ withheld' = withheld /\ chained' = chained /\ calls' = calls /\ others' = others
        /\ looks' = looks /\ given' = given
    BY <1>3 DEF Drop, task
  <2>2. Typed'
    BY <1>1, <2>1 DEF Typed
  <2>3. LastGiven'
    BY <1>1, <2>1 DEF LastGiven
  <2> QED
    BY <2>1, <2>2, <2>3, EndKeeps
<1> QED
  BY <1>2, <1>3

LEMMA TaskKeeps == ASSUME DocumentInv, NewResponse \/ Truncated \/ NewTask PROVE DocumentInv'
<1>1. Typed /\ LastGiven
  BY DEF DocumentInv
<1>2. call = Idle /\ call' = call /\ doc' = doc /\ calls' = calls /\ others' = others
      /\ looks' = looks
  BY DEF NewResponse, Truncated, NewTask
<1>3. CASE NewResponse
  <2>1. chained' = None /\ last' = last /\ written' = written /\ withheld' = withheld
        /\ given' = given
    BY <1>3 DEF NewResponse
  <2>2. Typed' /\ LastGiven'
    BY <1>1, <1>2, <2>1 DEF Typed, LastGiven
  <2> QED
    BY <1>2, <2>2, RestKeeps
<1>4. CASE Truncated
  <2>1. chained' = chained /\ last' = last /\ written' = written /\ withheld' = TRUE
        /\ given' = given
    BY <1>4 DEF Truncated
  <2>2. Typed' /\ LastGiven'
    BY <1>1, <1>2, <2>1 DEF Typed, LastGiven
  <2> QED
    BY <1>2, <2>2, RestKeeps
<1>5. CASE NewTask
  <2>1. chained' = None /\ last' = None /\ written' = FALSE /\ withheld' = FALSE /\ given' = {}
    BY <1>5 DEF NewTask, ClearTask
  <2>2. Typed' /\ LastGiven'
    BY <1>1, <1>2, <2>1 DEF Typed, LastGiven
  <2> QED
    BY <1>2, <2>2, RestKeeps
<1> QED
  BY <1>3, <1>4, <1>5

LEMMA CheckKeeps == ASSUME DocumentInv, Check PROVE DocumentInv'
<1>1. Typed /\ LastGiven /\ Sent /\ Staged
  BY DEF DocumentInv
<1>2. /\ call.phase = "staged"
      /\ call' = IF SameAsRead(call) THEN [call EXCEPT !.phase = "checked"] ELSE Idle
      /\ doc' = doc /\ last' = last /\ written' = written /\ withheld' = withheld
      /\ chained' = chained /\ given' = given /\ calls' = calls /\ others' = others
      /\ looks' = looks
  BY DEF Check, task
<1>3. LastGiven'
  BY <1>1, <1>2 DEF LastGiven
<1>4. CASE ~SameAsRead(call)
  <2>1. Typed'
    BY <1>1, <1>2, <1>4 DEF Typed
  <2> QED
    BY <1>2, <1>3, <1>4, <2>1, EndKeeps
<1>5. CASE SameAsRead(call)
  <2>1. call \in Calling /\ call # Idle
    BY <1>1, <1>2, PhaseIs, CallingIs
  <2>2. /\ call' \in Calling /\ call'.phase = "checked" /\ call'.expected = call.expected
        /\ call'.edits = call.edits /\ call'.sent = call.sent /\ call'.pin = call.pin
        /\ call'.old = call.old /\ call'.result = call.result
    BY <1>2, <1>5, <2>1 DEF Calling
  <2>3. Typed'
    BY <1>1, <1>2, <2>2 DEF Typed
  <2>4. Same(call, call')
    BY <2>2 DEF Same
  <2>5. Sent'
    <3>1. NamedBy(call, given)
      BY <1>1, <2>1 DEF Sent
    <3>2. NamedBy(call', given)
      BY <2>1, <2>2, <2>4, <3>1, ChangedCall
    <3> QED
      BY <1>2, <3>2 DEF Sent
  <2>6. Staged'
    <3>1. SoundEdit(call, given)
      BY <1>1, <1>2 DEF Staged
    <3>2. SoundEdit(call', given)
      BY <2>2, <2>4, <3>1, SameSoundEdit
    <3> QED
      BY <1>2, <3>2 DEF Staged
  <2>7. NotChanged'
    BY <1>2, <1>5, <2>2 DEF NotChanged, SameAsRead
  <2> QED
    BY <1>3, <2>3, <2>5, <2>6, <2>7 DEF DocumentInv
<1> QED
  BY <1>4, <1>5

\* A call whose single edit pins itself was refused unless its pin was the document's
\* or its section's.
LEMMA PinHolds ==
  ASSUME NEW d \in Seq(Sections), NEW c \in Calling, SelfPinned(c), First(c).pinned,
         ~Applied(d, c).failed
  PROVE  \E i \in Found(d, First(c).section) : c.pin \in {Extent(d, i), d}
<1> DEFINE e == First(c)
           pin == Rebased(e, c.pin, d, d)
<1>1. c.edits \in Seq(Edits) /\ e \in Edits /\ c.pin \in Versions \cup {Malformed}
  BY CallingIs
<1>2. e.section # <<>>
  BY <1>1 DEF Edits
<1>3. Pin(c, e) = c.pin
  BY DEF Pin
<1>4. Single(c) /\ (Anchored(e) \/ e.action = "section")
  BY DEF SelfPinned
<1>5. Results(d, e, pin) # {}
  BY <1>1, <1>3, <1>4, OneMade
<1>6. c.pin # None
  BY <1>1, HashesAssumption DEF Versions
<1>7. pin = c.pin \/ c.pin = d
  BY DEF Rebased
<1> HIDE DEF e, pin
<1>8. \E i \in Named(d, e.section) : SectionHashNames(d, i, pin)
  <2>1. CASE e.action = "section"
    <3>1. Results(d, e, pin) = UNION {SectionAt(d, e, pin, i) : i \in Named(d, e.section)}
      BY <2>1 DEF Results, Anchored
    <3>2. PICK i \in Named(d, e.section) : SectionAt(d, e, pin, i) # {}
      BY <1>5, <3>1
    <3> QED
      BY <3>2 DEF SectionAt
  <2>2. CASE Anchored(e)
    <3>1. e.action \in {"replace_text", "delete_text", "insert_before_text", "insert_after_text"}
      BY <2>2 DEF Anchored
    <3>2. Results(d, e, pin) =
            UNION {TextIn(d, e, i .. End(d, i) - 1) :
                     i \in {j \in Named(d, e.section) : SectionHashNames(d, j, pin)}}
      BY <1>2, <2>2, <3>1 DEF Results, e
    <3> QED
      BY <1>5, <3>2
  <2> QED
    BY <1>4, <2>1, <2>2
<1>9. PICK i \in Named(d, e.section) : SectionHashNames(d, i, pin)
  BY <1>8
<1>10. i \in Found(d, e.section)
  BY DEF Named
<1>11. c.pin \in {Extent(d, i), d}
  BY <1>6, <1>7, <1>9 DEF SectionHashNames
<1> QED
  BY <1>10, <1>11 DEF e

\* A call that is neither refused for its hash nor for its pin names the version it is
\* staged over.
LEMMA StagePinned ==
  ASSUME NEW c \in Calling, NamedBy(c, given), Known, doc \in Seq(Sections),
         ~Exists(c), ~HashMissing(c), ~Stale(c), ~Applied(doc, c).failed
  PROVE  HashNamed(c, doc, given)
<1>1. c.expected \in {None, doc}
  BY DEF Stale
<1>2. CASE c.expected = None
  <2>1. SelfPinned(c)
    BY <1>2 DEF HashMissing
  <2>2. First(c).action # "create"
    BY <2>1 DEF SelfPinned, Anchored
  <2>3. c.sent = None
    BY <1>2, <2>2 DEF NamedBy
  <2>4. First(c).pinned => \E i \in Found(doc, First(c).section) : c.pin \in {Extent(doc, i), doc}
    BY <2>1, PinHolds
  <2> QED
    BY <2>1, <2>3, <2>4 DEF HashNamed
<1>3. CASE c.expected = doc
  <2>1. doc # None
    BY HashesAssumption
  <2> QED
    BY <1>3, <2>1 DEF NamedBy, HashNamed
<1> QED
  BY <1>1, <1>2, <1>3

LEMMA StageKeeps ==
  ASSUME DocumentInv, Stage, \A t \in STRING : Complete(t) \in STRING
  PROVE  DocumentInv'
<1> DEFINE new == Completed(Applied(OnDisk, call).doc)
<1>1. Typed /\ LastGiven /\ Sent
  BY DEF DocumentInv
<1>2. /\ call.phase = "called" /\ ~Exists(call) /\ ~HashMissing(call) /\ ~Stale(call)
      /\ ~Fails(call) /\ call' = [call EXCEPT !.phase = "staged", !.old = doc, !.result = new]
      /\ doc' = doc /\ last' = last /\ written' = written /\ withheld' = withheld
      /\ chained' = chained /\ given' = given /\ calls' = calls /\ others' = others
      /\ looks' = looks
  BY DEF Stage, task
<1>3. call \in Calling /\ call # Idle
  BY <1>1, <1>2, PhaseIs, CallingIs
<1>4. call.edits \in Seq(Edits)
  BY <1>3, CallingIs
<1>5. OnDisk \in Seq(Sections) /\ (Known => OnDisk = doc) /\ doc \in Versions \cup {Absent}
  BY <1>1 DEF OnDisk, Known, Typed, Versions
<1>6. Applied(OnDisk, call).doc \in Seq(Sections)
  BY <1>4, <1>5, AppliedTyped
<1>7. new \in Versions
  BY <1>6, CompletedTyped DEF Versions
<1>8. /\ call' \in Calling /\ call'.phase = "staged" /\ call'.expected = call.expected
      /\ call'.edits = call.edits /\ call'.sent = call.sent /\ call'.pin = call.pin
      /\ call'.old = doc /\ call'.result = new
  <2> HIDE DEF new
  <2> QED
    BY <1>2, <1>3, <1>5, <1>7 DEF Calling
<1>9. Same(call, call')
  BY <1>8 DEF Same
<1>10. NamedBy(call, given)
  BY <1>1, <1>3 DEF Sent
<1>11. Sent'
  <2>1. NamedBy(call', given)
    BY <1>3, <1>8, <1>9, <1>10, ChangedCall
  <2> QED
    BY <1>2, <2>1 DEF Sent
<1>12. Staged'
  <2>1. ASSUME doc # Absent
        PROVE  /\ HashNamed(call, doc, given)
               /\ ~Whole(call) => SectionsKept(call, doc, new) /\ NumbersKept(call, doc, new)
    <3>1. Known /\ OnDisk = doc /\ doc \in Seq(Sections)
      BY <1>5, <2>1 DEF Known
    <3>2. ~Applied(doc, call).failed
      BY <1>2, <3>1 DEF Fails
    <3>3. HashNamed(call, doc, given)
      BY <1>2, <1>3, <1>10, <3>1, <3>2, StagePinned
    <3>4. new = Completed(Applied(doc, call).doc)
      BY <3>1
    <3> HIDE DEF new
    <3>5. ~Whole(call) => SectionsKept(call, doc, new)
      BY <1>4, <3>1, <3>4, SectionsAreKept
    <3>6. ~Whole(call) => NumbersKept(call, doc, new)
      BY <1>4, <3>1, <3>4, NumbersAreKept
    <3> QED
      BY <3>3, <3>5, <3>6
  <2> DEFINE b == [call EXCEPT !.old = doc, !.result = new]
  <2>2. /\ b.edits = call.edits /\ b.sent = call.sent /\ b.pin = call.pin
        /\ b.old = doc /\ b.result = new
    <3> HIDE DEF new
    <3> QED
      BY <1>3 DEF Calling
  <2> HIDE DEF b, new
  <2>3. SoundEdit(b, given)
    <3>1. Same(call, b)
      BY <2>2 DEF Same
    <3>2. /\ First(b) = First(call) /\ (Single(b) <=> Single(call))
          /\ (Whole(b) <=> Whole(call)) /\ \A d : Untouched(b, d) = Untouched(call, d)
      BY <2>2 DEF First, Single, Whole, Untouched
    <3>3. doc # Absent => HashNamed(b, doc, given)
      BY <2>1, <2>2, <3>2 DEF HashNamed, SelfPinned
    <3>4. SectionsKept(call, doc, new) => SectionsKept(b, doc, new)
      BY <3>2 DEF SectionsKept
    <3>5. NumbersKept(call, doc, new) => NumbersKept(b, doc, new)
      BY <2>2, <3>2 DEF NumbersKept
    <3> QED
      BY <1>7, <2>1, <2>2, <3>2, <3>3, <3>4, <3>5 DEF SoundEdit
  <2>4. Same(b, call')
    BY <1>8, <2>2 DEF Same
  <2>5. SoundEdit(call', given')
    BY <1>2, <1>8, <2>2, <2>3, <2>4, SameSoundEdit
  <2> QED
    BY <2>5 DEF Staged
<1>13. Typed' /\ LastGiven'
  BY <1>1, <1>2, <1>8 DEF Typed, LastGiven
<1>14. NotChanged'
  BY <1>8 DEF NotChanged
<1> QED
  BY <1>11, <1>12, <1>13, <1>14 DEF DocumentInv

\* The call as the model sends it, before any hash is filled in.
CallOf(edits, sent, pin) ==
  [phase |-> "called", edits |-> edits, sent |-> sent, pin |-> pin, expected |-> sent,
   old |-> Absent, result |-> Absent, raced |-> FALSE]

\* A first append is a create: the same call with another action and no hash.
LEMMA MadeCreate ==
  ASSUME NEW c \in Calling, First(c).action = "append"
  PROVE  LET b == [c EXCEPT !.edits[1].action = "create", !.expected = None]
         IN  /\ b \in Calling /\ b.sent = c.sent /\ b.pin = c.pin /\ b.phase = c.phase
             /\ b.expected = None /\ Len(b.edits) = Len(c.edits) /\ First(b).action = "create"
<1> DEFINE b == [c EXCEPT !.edits[1].action = "create", !.expected = None]
           e == [First(c) EXCEPT !.action = "create"]
           s == [c.edits EXCEPT ![1] = e]
<1>1. c.edits \in Seq(Edits) /\ c.edits # <<>> /\ First(c) \in Edits
  BY CallingIs
<1>2. e \in Edits
  <2>1. First(c) \in [action : Actions, text : Seq(Sections), lines : Seq(STRING), old : STRING,
                      section : Seq(Heads), pinned : BOOLEAN]
    BY <1>1 DEF Edits
  <2>2. "create" \in Actions
    BY DEF Actions
  <2>3. /\ e \in [action : Actions, text : Seq(Sections), lines : Seq(STRING), old : STRING,
                  section : Seq(Heads), pinned : BOOLEAN]
        /\ e.pinned = First(c).pinned /\ e.section = First(c).section
    BY <2>1, <2>2
  <2> QED
    BY <1>1, <2>3 DEF Edits
<1>3. e.action = "create"
  BY <1>1 DEF Edits
<1>4. s \in Seq(Edits) \ {<<>>} /\ Len(s) = Len(c.edits) /\ s[1].action = "create"
  <2> DEFINE t == c.edits
  <2>1. t \in Seq(Edits) /\ t # <<>>
    BY <1>1
  <2> HIDE DEF t, e
  <2>2. [t EXCEPT ![1] = e] \in Seq(Edits) \ {<<>>} /\ Len([t EXCEPT ![1] = e]) = Len(t)
        /\ [t EXCEPT ![1] = e][1] = e
    BY <1>2, <2>1
  <2> QED
    BY <1>3, <2>2 DEF t
<1>5. b = [[c EXCEPT !.edits = s] EXCEPT !.expected = None]
  <2>1. [c.edits[1] EXCEPT !.action = "create"] = e
    BY DEF First
  <2> QED
    BY <2>1 DEF Calling
<1> HIDE DEF b, s
<1> DEFINE a == [[c EXCEPT !.edits = s] EXCEPT !.expected = None]
<1>6. /\ a \in Calling /\ a.sent = c.sent /\ a.pin = c.pin /\ a.phase = c.phase
      /\ a.expected = None /\ a.edits = s
  BY <1>4 DEF Calling
<1> HIDE DEF a
<1>7. b = a
  BY <1>5 DEF a
<1> QED
  BY <1>4, <1>6, <1>7 DEF First, b

LEMMA DocumentCallKeeps == ASSUME DocumentInv, Call PROVE DocumentInv'
<1>1. Typed /\ LastGiven
  BY DEF DocumentInv
<1>2. PICK edits \in Calls[calls'], sent \in given \cup {None, Malformed},
           pin \in given \cup {Malformed} :
             call' = Normalised(Chained(CallOf(edits, sent, pin)))
  BY DEF Call, CallOf
<1>3. /\ call = Idle /\ calls < Len(Calls) /\ calls' = calls + 1
      /\ doc' = doc /\ last' = last /\ written' = written /\ withheld' = withheld
      /\ chained' = chained /\ given' = given /\ others' = others /\ looks' = looks
  BY DEF Call, task
<1>4. calls' \in 1 .. Len(Calls) /\ calls' \in 0 .. Len(Calls)
  BY <1>1, <1>3, CallsAssumption DEF Typed
<1>5. edits \in Seq(Edits) \ {<<>>}
  BY <1>2, <1>4, CallsAssumption
<1> DEFINE c == CallOf(edits, sent, pin)
           h == Chained(c)
           n == Normalised(h)
<1>6. /\ c \in Calling /\ c.sent = sent /\ c.pin = pin /\ c.expected = sent
      /\ c.edits = edits /\ c.phase = "called"
  BY <1>1, <1>2, <1>5 DEF CallOf, Calling, Typed
<1>7. NamedBy(c, given)
  BY <1>2, <1>6 DEF NamedBy
<1>8. last # None => last \in given /\ last \in Versions /\ last # Malformed
  BY <1>1, HashesAssumption DEF LastGiven, Typed, Versions
<1> HIDE DEF c
<1>9. h \in Calling /\ NamedBy(h, given) /\ h.phase = "called"
  <2>1. CASE chained = None \/ c.sent # None \/ First(c).action = "create"
    BY <1>6, <1>7, <2>1 DEF Chained
  <2>2. CASE ~(chained = None \/ c.sent # None \/ First(c).action = "create")
    <3>1. h = [c EXCEPT !.expected = chained]
      BY <2>2 DEF Chained
    <3>2. chained \in Versions /\ chained \in given
      BY <1>1, <1>8, <2>2 DEF Typed
    <3>3. /\ h \in Calling /\ h.sent = None /\ h.expected = chained /\ h.pin = c.pin
          /\ h.phase = "called"
      BY <1>6, <2>2, <3>1, <3>2 DEF Calling
    <3>4. h.expected # None
      BY <2>2, <3>3
    <3>5. c.pin \in given \cup {Malformed}
      BY <1>7 DEF NamedBy
    <3> HIDE DEF h
    <3> QED
      BY <3>2, <3>3, <3>4, <3>5 DEF NamedBy
  <2> QED
    BY <2>1, <2>2
<1> HIDE DEF h
<1>10. n \in Calling /\ NamedBy(n, given) /\ n.phase = "called"
  <2> DEFINE create == Single(h) /\ First(h).action = "append" /\ ~Known
             again == Single(h) /\ Structural(First(h)) /\ h.expected = None /\ last # None
                      /\ doc = last
  <2>1. ~(create /\ again)
    BY <1>8, HashesAssumption DEF Known, Versions
  <2>2. CASE create
    <3>1. n = [h EXCEPT !.edits[1].action = "create", !.expected = None]
      BY <2>1, <2>2 DEF Normalised
    <3>2. /\ n \in Calling /\ n.sent = h.sent /\ n.pin = h.pin /\ n.phase = "called"
          /\ n.expected = None /\ Len(n.edits) = Len(h.edits) /\ First(n).action = "create"
      BY <1>9, <2>2, <3>1, MadeCreate
    <3> HIDE DEF n
    <3> QED
      BY <1>9, <2>2, <3>2 DEF NamedBy, Single
  <2>3. CASE again
    <3>1. n = [h EXCEPT !.expected = last]
      BY <2>1, <2>3 DEF Normalised
    <3>2. /\ n \in Calling /\ n.sent = h.sent /\ n.pin = h.pin /\ n.phase = "called"
          /\ n.expected = last /\ n.edits = h.edits
      BY <1>8, <1>9, <2>3, <3>1 DEF Calling
    <3>3. h.sent = None
      <4>1. First(h).action # "create"
        BY <2>3 DEF Structural
      <4> QED
        BY <1>9, <2>3, <4>1 DEF NamedBy
    <3> HIDE DEF n
    <3> QED
      BY <1>8, <1>9, <2>3, <3>2, <3>3 DEF NamedBy
  <2>4. CASE ~create /\ ~again
    BY <1>9, <2>4 DEF Normalised
  <2> QED
    BY <2>2, <2>3, <2>4
<1> HIDE DEF n
<1>11. call' = n
  BY <1>2 DEF n, h, c
<1>12. Typed' /\ LastGiven'
  BY <1>1, <1>3, <1>4, <1>10, <1>11 DEF Typed, LastGiven
<1>13. Sent' /\ Staged' /\ NotChanged'
  BY <1>3, <1>10, <1>11 DEF Sent, Staged, NotChanged
<1> QED
  BY <1>12, <1>13 DEF DocumentInv
-----------------------------------------------------------------------------
\* The theorems.

LEMMA DocumentSteps ==
  ASSUME DocumentInv, [Next]_vars, \A t \in STRING : Complete(t) \in STRING
  PROVE  DocumentInv'
<1>1. CASE Next
  BY <1>1, OtherKeeps, InspectKeeps, DocumentCallKeeps, RefuseKeeps, StageKeeps, CheckKeeps,
     SaveDropKeeps, TaskKeeps DEF Next
<1>2. CASE UNCHANGED vars
  <2>1. /\ doc' = doc /\ last' = last /\ written' = written /\ withheld' = withheld
        /\ chained' = chained /\ call' = call /\ given' = given /\ calls' = calls
        /\ others' = others /\ looks' = looks
    BY <1>2 DEF vars
  <2> QED
    BY <2>1 DEF DocumentInv, Typed, LastGiven, Sent, Staged, NotChanged
<1> QED
  BY <1>1, <1>2

LEMMA StepsKeep ==
  ASSUME DocumentInv, [Next]_vars
  PROVE  SaveKeeps
<1> SUFFICES ASSUME others' = others, doc' # doc
             PROVE  /\ call.old = Absent => ~Known
                    /\ (Known /\ ~call.raced) =>
                         /\ PinnedSave(call, doc)
                         /\ ~Whole(call) =>
                              SectionsKept(call, doc, doc') /\ NumbersKept(call, doc, doc')
  BY DEF SaveKeeps
<1>1. Typed /\ Staged /\ NotChanged
  BY DEF DocumentInv
<1>2. Save
  <2>1. ~Other
    BY <1>1 DEF Other, Typed
  <2> QED
    BY <2>1 DEF Next, vars, Inspect, Call, Refuse, Refused, Stage, Check, Drop, NewResponse,
                Truncated, NewTask
<1>3. call.phase = "checked" /\ (call.old = Absent => ~Known) /\ doc' = call.result
  BY <1>2 DEF Save
<1>4. SoundEdit(call, given)
  BY <1>1, <1>3 DEF Staged
<1>5. ASSUME Known, ~call.raced
      PROVE  /\ PinnedSave(call, doc)
             /\ ~Whole(call) => SectionsKept(call, doc, doc') /\ NumbersKept(call, doc, doc')
  <2>1. call.old = doc /\ doc # Absent
    BY <1>1, <1>3, <1>5 DEF NotChanged, Known
  <2>2. HashNamed(call, doc, given)
    BY <1>4, <2>1 DEF SoundEdit
  <2>3. PinnedSave(call, doc)
    BY <2>2 DEF HashNamed, PinnedSave
  <2> QED
    BY <1>3, <1>4, <2>1, <2>3 DEF SoundEdit
<1> QED
  BY <1>3, <1>5

LEMMA DocumentHolds ==
  ASSUME \A t \in STRING : Complete(t) \in STRING
  PROVE  Spec => []DocumentInv
<1>1. DocumentInv /\ [Next]_vars => DocumentInv'
  BY DocumentSteps
<1> QED
  BY <1>1, DocumentStarts, PTL DEF Spec

LEMMA DocumentTypes == DocumentInv => TypeOK
<1> SUFFICES ASSUME DocumentInv PROVE TypeOK
  OBVIOUS
<1>1. Typed
  BY DEF DocumentInv
<1>2. call.phase \in {"idle", "called", "staged", "checked"}
  BY <1>1, PhaseIs, CallingIs
<1> QED
  BY <1>1, <1>2 DEF Typed, TypeOK, Versions

\* The variables of the document tools keep their types, whatever the calls, the other
\* programs and the completion of citations do.
THEOREM DocumentTyped ==
  ASSUME \A t \in STRING : Complete(t) \in STRING
  PROVE  Spec => []TypeOK
BY DocumentTypes, DocumentHolds, PTL

\* A save replaces the document only in a version that the call or an earlier result of the
\* task named, and loses nothing of it but what the call's edits name: persist_document_edit
\* after apply_document_edit, for every document, every batch of edits (the texts of anchored
\* edits carry no heading lines) and any number of saves by other programs.
THEOREM DocumentIsKept ==
  ASSUME \A t \in STRING : Complete(t) \in STRING
  PROVE  Spec => DocumentKept
<1>1. DocumentInv /\ [Next]_vars => SaveKeeps
  BY StepsKeep
<1>2. Spec => [][Next]_vars
  BY DEF Spec
<1>3. Spec => [][SaveKeeps]_vars
  BY <1>1, <1>2, DocumentHolds, PTL
<1> QED
  BY <1>3 DEF DocumentKept
=============================================================================
