------------------------------ MODULE KeptProofs ------------------------------
(***************************************************************************)
(* Proofs about Memories and TaskPlan, as MCStores composes them, for any  *)
(* constants.  What the first keeps within a limit is a sum over a         *)
(* sequence, and a batch of the second is a loop over one, so both climb   *)
(* (StoresProofs, Climb).                                                  *)
(*                                                                         *)
(* Memories: a save or a deletion works on a copy, so each copy along the  *)
(* way has to be a store in its own right (Whole): what drops entries,     *)
(* puts one first or marks one in a review keeps it so.  A cursor counts   *)
(* while the generation stands, and no step changes the entries without    *)
(* moving that on (Listed).                                                *)
(*                                                                         *)
(* TaskPlan: an operation puts items in, takes one out or gives one a text *)
(* (Puts, Removes, Retexts), and whatever it does the plan stays a good    *)
(* one (Good) and the completed items stay as they stand (Steady), but for *)
(* the one it completes or reopens (Adds, Takes).  Along a batch, what it  *)
(* will report as completed is what is completed by now or still waits     *)
(* (Live), and what it leaves alone keeps its order before the rest        *)
(* (Ranked); both are needed when the oldest items leave at the end.       *)
(*                                                                         *)
(* The types of the parts of MCStores need more than their properties do:  *)
(* the bounds the guards keep (ChoiceBounded, ConfigBounded, PlanBounded,  *)
(* StoreBounded, KeptBounded) beside the invariants proved before.         *)
(***************************************************************************)
EXTENDS StoresProofs, FiniteSetTheorems

-----------------------------------------------------------------------------
\* Memories.

Items == [id : Nat, key : Keys \cup {Store!Nil}, body : Bodies, kind : Store!Kinds,
          sources : SUBSET (Paths \X Nat), status : Store!Statuses, revision : Nat]

LEMMA SizeNat ==
  ASSUME NEW e \in Items
  PROVE  /\ Store!Size(e) \in Nat /\ e.body \in Nat /\ e.body <= Store!Size(e)
         /\ e.status = "active" => Store!Size(e) = e.body
<1>1. e.body \in Nat
  BY StoreAssumption DEF Items
<1> QED
  BY <1>1 DEF Store!Size

\* f holds the totals of the sizes up to each place of s.
Totals(s, m, f) == f = [n \in 0 .. m |-> IF n = 0 THEN 0 ELSE f[n - 1] + Store!Size(s[n])]

LEMMA TotalsExist ==
  ASSUME NEW s \in Seq(Items)
  PROVE  \E f \in [0 .. Len(s) -> Nat] : Totals(s, Len(s), f)
<1> DEFINE Has(k) == \E f \in [0 .. k -> Nat] : Totals(s, k, f)
           T == {k \in 0 .. Len(s) : Has(k)}
<1>1. 0 \in T
  <2>1. [n \in 0 .. 0 |-> 0] \in [0 .. 0 -> Nat] /\ Totals(s, 0, [n \in 0 .. 0 |-> 0])
    BY DEF Totals
  <2> QED
    BY <2>1
<1>2. ASSUME NEW k \in 1 .. Len(s), k - 1 \in T PROVE k \in T
  <2>1. PICK f \in [0 .. k - 1 -> Nat] : Totals(s, k - 1, f)
    BY <1>2
  <2>2. Store!Size(s[k]) \in Nat
    BY SizeNat
  <2> DEFINE g == [n \in 0 .. k |-> IF n = k THEN f[k - 1] + Store!Size(s[k]) ELSE f[n]]
  <2>3. g \in [0 .. k -> Nat]
    BY <2>1, <2>2
  <2>4. ASSUME NEW n \in 0 .. k
        PROVE  g[n] = IF n = 0 THEN 0 ELSE g[n - 1] + Store!Size(s[n])
    BY <2>1 DEF Totals
  <2>5. Totals(s, k, g)
    BY <2>3, <2>4 DEF Totals
  <2> QED
    BY <2>3, <2>5
<1>3. Len(s) \in T
  <2> HIDE DEF T
  <2>1. \A k \in 1 .. Len(s) : k - 1 \in T => k \in T
    BY <1>2
  <2>2. Len(s) \in Nat
    OBVIOUS
  <2>3. \A k \in 0 .. Len(s) : k \in T
    BY <1>1, <2>1, <2>2, Climb
  <2> QED
    BY <2>2, <2>3
<1>4. Has(Len(s))
  <2> HIDE DEF Has
  <2> QED
    BY <1>3
<1> QED
  BY <1>4

LEMMA TotalsOrdered ==
  ASSUME NEW s \in Seq(Items), NEW f \in [0 .. Len(s) -> Nat], Totals(s, Len(s), f),
         NEW t \in Seq(Items), NEW g \in [0 .. Len(t) -> Nat], Totals(t, Len(t), g),
         NEW k \in 0 .. Len(s), k <= Len(t),
         \A n \in 1 .. k : Store!Size(s[n]) <= Store!Size(t[n])
  PROVE  f[k] <= g[k]
<1> DEFINE T == {n \in 0 .. k : f[n] <= g[n]}
<1>1. 0 \in T
  BY DEF Totals
<1>2. ASSUME NEW n \in 1 .. k, n - 1 \in T PROVE n \in T
  <2>1. n \in 0 .. Len(s) /\ n \in 0 .. Len(t) /\ n - 1 \in 0 .. Len(s) /\ n - 1 \in 0 .. Len(t)
        /\ n # 0
    OBVIOUS
  <2>2. f[n] = f[n - 1] + Store!Size(s[n]) /\ g[n] = g[n - 1] + Store!Size(t[n])
    BY <2>1 DEF Totals
  <2>3. s[n] \in Items /\ t[n] \in Items
    OBVIOUS
  <2>4. Store!Size(s[n]) \in Nat /\ Store!Size(t[n]) \in Nat
    BY <2>3, SizeNat
  <2>5. f[n - 1] \in Nat /\ g[n - 1] \in Nat /\ f[n - 1] <= g[n - 1]
    BY <1>2, <2>1
  <2>6. f[n] <= g[n]
    BY <2>2, <2>4, <2>5
  <2> QED
    BY <2>6
<1>3. k \in T
  <2> HIDE DEF T
  <2>1. \A n \in 1 .. k : n - 1 \in T => n \in T
    BY <1>2
  <2>2. k \in Nat
    OBVIOUS
  <2>3. \A n \in 0 .. k : n \in T
    BY <1>1, <2>1, <2>2, Climb
  <2> QED
    BY <2>2, <2>3
<1> QED
  BY <1>3

LEMMA TotalsAgree ==
  ASSUME NEW s, NEW m \in Nat, NEW f, NEW g, Totals(s, m, f), Totals(s, m, g)
  PROVE  f[m] = g[m]
<1> DEFINE T == {n \in 0 .. m : f[n] = g[n]}
<1>1. 0 \in T
  BY DEF Totals
<1>2. ASSUME NEW n \in 1 .. m, n - 1 \in T PROVE n \in T
  <2>1. n \in 0 .. m /\ n # 0
    OBVIOUS
  <2>2. f[n] = f[n - 1] + Store!Size(s[n]) /\ g[n] = g[n - 1] + Store!Size(s[n])
    BY <2>1 DEF Totals
  <2> QED
    BY <1>2, <2>1, <2>2
<1>3. m \in T
  <2> HIDE DEF T
  <2>1. \A n \in 1 .. m : n - 1 \in T => n \in T
    BY <1>2
  <2>2. m \in Nat
    OBVIOUS
  <2>3. \A n \in 0 .. m : n \in T
    BY <1>1, <2>1, <2>2, Climb
  <2> QED
    BY <2>2, <2>3
<1> QED
  BY <1>3

LEMMA BytesIs ==
  ASSUME NEW s \in Seq(Items), NEW f, Totals(s, Len(s), f)
  PROVE  Store!Bytes(s) = f[Len(s)]
<1> DEFINE g == CHOOSE x : Totals(s, Len(s), x)
<1>1. Totals(s, Len(s), g)
  BY TotalsExist
<1>2. Store!Bytes(s) = g[Len(s)]
  BY DEF Store!Bytes, Totals
<1> HIDE DEF g
<1>3. Len(s) \in Nat
  OBVIOUS
<1>4. f[Len(s)] = g[Len(s)]
  BY <1>1, <1>3, TotalsAgree
<1> QED
  BY <1>2, <1>4

LEMMA SizesNat ==
  ASSUME NEW s \in Seq(Items)
  PROVE  Store!Bytes(s) \in Nat /\ (Len(s) = 0 => Store!Bytes(s) = 0)
<1>1. PICK f \in [0 .. Len(s) -> Nat] : Totals(s, Len(s), f)
  BY TotalsExist
<1>2. Store!Bytes(s) = f[Len(s)]
  BY <1>1, BytesIs
<1>3. Len(s) \in 0 .. Len(s)
  OBVIOUS
<1> QED
  BY <1>1, <1>2, <1>3 DEF Totals

LEMMA BytesOrdered ==
  ASSUME NEW s \in Seq(Items), NEW t \in Seq(Items), Len(s) = Len(t),
         \A n \in 1 .. Len(s) : Store!Size(s[n]) <= Store!Size(t[n])
  PROVE  Store!Bytes(s) <= Store!Bytes(t)
<1>1. PICK f \in [0 .. Len(s) -> Nat] : Totals(s, Len(s), f)
  BY TotalsExist
<1>2. PICK g \in [0 .. Len(t) -> Nat] : Totals(t, Len(t), g)
  BY TotalsExist
<1>3. Store!Bytes(s) = f[Len(s)] /\ Store!Bytes(t) = g[Len(t)]
  BY <1>1, <1>2, BytesIs
<1>4. Len(s) \in 0 .. Len(s) /\ Len(s) <= Len(t)
  OBVIOUS
<1>5. f[Len(s)] <= g[Len(s)]
  BY <1>1, <1>2, <1>4, TotalsOrdered
<1> QED
  BY <1>3, <1>5

LEMMA BytesAppend ==
  ASSUME NEW s \in Seq(Items), NEW e \in Items
  PROVE  Store!Bytes(Append(s, e)) = Store!Bytes(s) + Store!Size(e)
<1> DEFINE t == Append(s, e)
<1>1. t \in Seq(Items) /\ Len(t) = Len(s) + 1 /\ t[Len(s) + 1] = e
      /\ \A n \in 1 .. Len(s) : t[n] = s[n]
  OBVIOUS
<1> HIDE DEF t
<1>2. PICK g \in [0 .. Len(t) -> Nat] : Totals(t, Len(t), g)
  BY <1>1, TotalsExist
<1> DEFINE f == [n \in 0 .. Len(s) |-> g[n]]
<1>3. Totals(s, Len(s), f)
  <2>1. ASSUME NEW n \in 0 .. Len(s)
        PROVE  f[n] = IF n = 0 THEN 0 ELSE f[n - 1] + Store!Size(s[n])
    <3>1. n \in 0 .. Len(t)
      BY <1>1
    <3>2. g[n] = IF n = 0 THEN 0 ELSE g[n - 1] + Store!Size(t[n])
      BY <1>2, <3>1 DEF Totals
    <3>3. CASE n = 0
      BY <3>2, <3>3
    <3>4. CASE n # 0
      <4>1. n - 1 \in 0 .. Len(s) /\ n \in 1 .. Len(s)
        BY <3>4
      <4> QED
        BY <1>1, <3>2, <3>4, <4>1
    <3> QED
      BY <3>3, <3>4
  <2> QED
    BY <2>1 DEF Totals
<1>4. g[Len(t)] = g[Len(s)] + Store!Size(e)
  <2>1. Len(t) \in 0 .. Len(t) /\ Len(t) # 0 /\ Len(t) - 1 = Len(s)
    BY <1>1
  <2> QED
    BY <1>1, <1>2, <2>1 DEF Totals
<1>5. f[Len(s)] = g[Len(s)]
  OBVIOUS
<1>6. Store!Bytes(t) = g[Len(t)]
  BY <1>1, <1>2, BytesIs
<1>7. Store!Bytes(s) = f[Len(s)]
  <2> HIDE DEF f
  <2> QED
    BY <1>3, BytesIs
<1> QED
  BY <1>4, <1>5, <1>6, <1>7 DEF t

-----------------------------------------------------------------------------
\* The entries without the notes of a review, and what they take.
Awake(s) == [i \in DOMAIN s |-> [s[i] EXCEPT !.status = "active"]]
Held(s) == Store!Bytes(Awake(s))

LEMMA AppendIs ==
  ASSUME NEW s \in Seq(Items), NEW e \in Items
  PROVE  /\ Append(s, e) \in Seq(Items) /\ Len(Append(s, e)) = Len(s) + 1
         /\ Append(s, e)[Len(s) + 1] = e /\ \A i \in 1 .. Len(s) : Append(s, e)[i] = s[i]
OBVIOUS

LEMMA AwakeIs ==
  ASSUME NEW s \in Seq(Items)
  PROVE  /\ Awake(s) \in Seq(Items) /\ Len(Awake(s)) = Len(s)
         /\ \A i \in 1 .. Len(s) :
              Awake(s)[i] = [s[i] EXCEPT !.status = "active"] /\ Store!Size(Awake(s)[i]) = s[i].body
<1> DEFINE a == Awake(s)
<1>1. a = [i \in 1 .. Len(s) |-> [s[i] EXCEPT !.status = "active"]]
  <2>1. DOMAIN s = 1 .. Len(s)
    OBVIOUS
  <2> QED
    BY <2>1 DEF Awake
<1>2. ASSUME NEW i \in 1 .. Len(s)
      PROVE  /\ a[i] \in Items /\ a[i] = [s[i] EXCEPT !.status = "active"]
             /\ Store!Size(a[i]) = s[i].body
  <2>1. s[i] \in Items /\ a[i] = [s[i] EXCEPT !.status = "active"]
    BY <1>1
  <2> HIDE DEF a
  <2>2. a[i] \in Items /\ a[i].status = "active" /\ a[i].body = s[i].body
    BY <2>1 DEF Items, Store!Statuses
  <2> QED
    BY <2>1, <2>2, SizeNat
<1>3. a = [i \in 1 .. Len(s) |-> a[i]]
  BY <1>1
<1> HIDE DEF a
<1>4. a \in Seq(Items) /\ Len(a) = Len(s)
  BY <1>2, <1>3
<1> QED
  BY <1>2, <1>4 DEF a

LEMMA HeldNat == ASSUME NEW s \in Seq(Items) PROVE Held(s) \in Nat
BY AwakeIs, SizesNat DEF Held

LEMMA HeldAtMost ==
  ASSUME NEW s \in Seq(Items)
  PROVE  Held(s) <= Store!Bytes(s)
<1> DEFINE a == Awake(s)
<1>1. a \in Seq(Items) /\ Len(a) = Len(s) /\ \A i \in 1 .. Len(s) : Store!Size(a[i]) = s[i].body
  BY AwakeIs
<1> HIDE DEF a
<1>2. \A i \in 1 .. Len(a) : Store!Size(a[i]) <= Store!Size(s[i])
  <2> SUFFICES ASSUME NEW i \in 1 .. Len(a) PROVE Store!Size(a[i]) <= Store!Size(s[i])
    OBVIOUS
  <2>1. s[i] \in Items
    BY <1>1
  <2> QED
    BY <1>1, <2>1, SizeNat
<1>3. Store!Bytes(a) <= Store!Bytes(s)
  BY <1>1, <1>2, BytesOrdered
<1> QED
  BY <1>3 DEF a, Held

LEMMA HeldAppend ==
  ASSUME NEW s \in Seq(Items), NEW e \in Items
  PROVE  Held(Append(s, e)) = Held(s) + e.body
<1> DEFINE w == [e EXCEPT !.status = "active"]
           t == Append(s, e)
<1>1. w \in Items /\ w.status = "active" /\ w.body = e.body
  BY DEF Items, Store!Statuses
<1>2. t \in Seq(Items) /\ Len(t) = Len(s) + 1 /\ t[Len(s) + 1] = e
      /\ \A i \in 1 .. Len(s) : t[i] = s[i]
  OBVIOUS
<1>3. Awake(s) \in Seq(Items) /\ Len(Awake(s)) = Len(s)
      /\ \A i \in 1 .. Len(s) : Awake(s)[i] = [s[i] EXCEPT !.status = "active"]
  BY AwakeIs
<1>4. Awake(t) \in Seq(Items) /\ Len(Awake(t)) = Len(t)
      /\ \A i \in 1 .. Len(t) : Awake(t)[i] = [t[i] EXCEPT !.status = "active"]
  <2> HIDE DEF t
  <2> QED
    BY <1>2, AwakeIs
<1>5. Awake(t) = Append(Awake(s), w)
  <2> DEFINE z == Awake(s)
             x == Append(z, w)
             y == Awake(t)
  <2>1. z \in Seq(Items) /\ Len(z) = Len(s)
    BY <1>3
  <2>2. x \in Seq(Items) /\ Len(x) = Len(s) + 1 /\ x[Len(s) + 1] = w
        /\ \A i \in 1 .. Len(s) : x[i] = z[i]
    <3> HIDE DEF z, w
    <3>1. w \in Items /\ z \in Seq(Items) /\ Len(z) = Len(s)
      BY <1>1, <2>1
    <3> QED
      BY <3>1, AppendIs
  <2>3. y \in Seq(Items) /\ Len(y) = Len(s) + 1
    <3> HIDE DEF t
    <3> QED
      BY <1>2, <1>4
  <2>4. ASSUME NEW i \in 1 .. Len(s) + 1 PROVE y[i] = x[i]
    <3>1. CASE i = Len(s) + 1
      <4>1. i \in 1 .. Len(t)
        BY <1>2
      <4>2. y[i] = [t[i] EXCEPT !.status = "active"] /\ t[i] = e
        BY <1>2, <1>4, <3>1, <4>1
      <4> QED
        BY <2>2, <3>1, <4>2
    <3>2. CASE i # Len(s) + 1
      <4>1. i \in 1 .. Len(t) /\ i \in 1 .. Len(s)
        BY <1>2, <3>2
      <4>2. y[i] = [t[i] EXCEPT !.status = "active"] /\ t[i] = s[i]
        BY <1>2, <1>4, <4>1
      <4>3. x[i] = [s[i] EXCEPT !.status = "active"]
        BY <1>3, <2>2, <4>1
      <4> QED
        BY <4>2, <4>3
    <3> QED
      BY <3>1, <3>2
  <2> HIDE DEF x, y
  <2>5. x = y
    BY <2>2, <2>3, <2>4
  <2> QED
    BY <2>5 DEF x, y
<1>6. Store!Bytes(Append(Awake(s), w)) = Store!Bytes(Awake(s)) + Store!Size(w)
  <2> HIDE DEF w
  <2> QED
    BY <1>1, <1>3, BytesAppend
<1>7. Store!Size(w) = e.body
  <2> HIDE DEF w
  <2> QED
    BY <1>1, SizeNat
<1> QED
  BY <1>5, <1>6, <1>7 DEF Held

-----------------------------------------------------------------------------
\* No two entries have one id, or one key.
Unlike(s) ==
  \A i, j \in 1 .. Len(s) : i # j =>
    s[i].id # s[j].id /\ (s[i].key = Store!Nil \/ s[i].key # s[j].key)

\* x is what dropping `ids` leaves of the first n entries of s.
Left(s, ids, n, x) ==
  /\ x \in Seq(Items) /\ Len(x) <= n
  /\ \A i \in 1 .. Len(x) : \E j \in 1 .. n : x[i] = s[j] /\ s[j].id \notin ids
  /\ \A j \in 1 .. n : s[j].id \notin ids => \E i \in 1 .. Len(x) : x[i] = s[j]
  /\ Unlike(s) => Unlike(x)

Drops(s, ids, m, f) ==
  f = [n \in 0 .. m |->
         IF n = 0 THEN <<>> ELSE IF s[n].id \in ids THEN f[n - 1] ELSE Append(f[n - 1], s[n])]

LEMMA DropsExist ==
  ASSUME NEW s, NEW ids, NEW m \in Nat
  PROVE  \E f : Drops(s, ids, m, f)
<1> DEFINE Has(k) == \E f : Drops(s, ids, k, f)
           T == {k \in 0 .. m : Has(k)}
<1>1. 0 \in T
  <2>1. Drops(s, ids, 0, [n \in 0 .. 0 |-> <<>>])
    BY DEF Drops
  <2> QED
    BY <2>1
<1>2. ASSUME NEW k \in 1 .. m, k - 1 \in T PROVE k \in T
  <2>1. PICK f : Drops(s, ids, k - 1, f)
    BY <1>2
  <2> DEFINE last == IF s[k].id \in ids THEN f[k - 1] ELSE Append(f[k - 1], s[k])
             g == [n \in 0 .. k |-> IF n = k THEN last ELSE f[n]]
  <2>2. ASSUME NEW n \in 0 .. k
        PROVE  g[n] = IF n = 0 THEN <<>>
                      ELSE IF s[n].id \in ids THEN g[n - 1] ELSE Append(g[n - 1], s[n])
    <3>1. CASE n = k
      <4>1. n # 0 /\ g[n] = last /\ g[n - 1] = f[n - 1]
        BY <3>1
      <4> QED
        BY <3>1, <4>1
    <3>2. CASE n # k
      <4>1. n \in 0 .. k - 1 /\ g[n] = f[n]
        BY <3>2
      <4>2. n # 0 => g[n - 1] = f[n - 1]
        BY <4>1
      <4> HIDE DEF g
      <4> QED
        BY <2>1, <4>1, <4>2 DEF Drops
    <3> QED
      BY <3>1, <3>2
  <2>3. Drops(s, ids, k, g)
    BY <2>2 DEF Drops
  <2>4. Has(k)
    BY <2>3
  <2> HIDE DEF Has
  <2> QED
    BY <2>4
<1>3. m \in T
  <2> HIDE DEF T
  <2>1. \A k \in 1 .. m : k - 1 \in T => k \in T
    BY <1>2
  <2>2. \A k \in 0 .. m : k \in T
    BY <1>1, <2>1, Climb
  <2> QED
    BY <2>2
<1>4. Has(m)
  <2> HIDE DEF Has
  <2> QED
    BY <1>3
<1> QED
  BY <1>4

LEMMA LeftNext ==
  ASSUME NEW s \in Seq(Items), NEW ids, NEW n \in 1 .. Len(s), NEW x, Left(s, ids, n - 1, x)
  PROVE  /\ s[n].id \in ids => Left(s, ids, n, x)
         /\ s[n].id \notin ids => Left(s, ids, n, Append(x, s[n]))
<1>1. s[n] \in Items
  OBVIOUS
<1>2. ASSUME s[n].id \in ids PROVE Left(s, ids, n, x)
  BY <1>2 DEF Left
<1>3. ASSUME s[n].id \notin ids PROVE Left(s, ids, n, Append(x, s[n]))
  <2> DEFINE y == Append(x, s[n])
  <2>1. x \in Seq(Items) /\ y \in Seq(Items) /\ Len(y) = Len(x) + 1 /\ y[Len(x) + 1] = s[n]
        /\ \A i \in 1 .. Len(x) : y[i] = x[i]
    BY <1>1 DEF Left
  <2> HIDE DEF y
  <2>2. ASSUME NEW i \in 1 .. Len(y)
        PROVE  \E j \in 1 .. n : y[i] = s[j] /\ s[j].id \notin ids
    BY <1>3, <2>1 DEF Left
  <2>3. ASSUME NEW j \in 1 .. n, s[j].id \notin ids PROVE \E i \in 1 .. Len(y) : y[i] = s[j]
    <3>1. CASE j = n
      <4>1. Len(x) + 1 \in 1 .. Len(y)
        BY <2>1
      <4> QED
        BY <2>1, <3>1, <4>1
    <3>2. CASE j # n
      <4>1. j \in 1 .. n - 1
        BY <3>2
      <4>2. PICK i \in 1 .. Len(x) : x[i] = s[j]
        BY <2>3, <4>1 DEF Left
      <4>3. i \in 1 .. Len(y) /\ y[i] = s[j]
        BY <2>1, <4>2
      <4> QED
        BY <4>3
    <3> QED
      BY <3>1, <3>2
  <2>4. ASSUME Unlike(s) PROVE Unlike(y)
    <3>1. Unlike(x)
      BY <2>4 DEF Left
    <3>2. ASSUME NEW i \in 1 .. Len(x)
          PROVE  /\ x[i].id # s[n].id
                 /\ x[i].key = Store!Nil \/ x[i].key # s[n].key
                 /\ s[n].key = Store!Nil \/ x[i].key # s[n].key
      <4>1. PICK j \in 1 .. n - 1 : x[i] = s[j]
        BY DEF Left
      <4>2. j \in 1 .. Len(s) /\ n \in 1 .. Len(s) /\ j # n
        OBVIOUS
      <4> QED
        BY <2>4, <4>1, <4>2 DEF Unlike
    <3>3. ASSUME NEW i \in 1 .. Len(y), NEW j \in 1 .. Len(y), i # j
          PROVE  y[i].id # y[j].id /\ (y[i].key = Store!Nil \/ y[i].key # y[j].key)
      <4>1. i \in 1 .. Len(x) \/ i = Len(x) + 1
        BY <2>1
      <4>2. j \in 1 .. Len(x) \/ j = Len(x) + 1
        BY <2>1
      <4> QED
        BY <2>1, <3>1, <3>2, <3>3, <4>1, <4>2 DEF Unlike
    <3> QED
      BY <3>3 DEF Unlike
  <2>5. Len(y) <= n
    BY <2>1 DEF Left
  <2> QED
    BY <2>1, <2>2, <2>3, <2>4, <2>5 DEF Left, y
<1> QED
  BY <1>2, <1>3

LEMMA DropIs ==
  ASSUME NEW s \in Seq(Items), NEW ids
  PROVE  /\ Left(s, ids, Len(s), Store!Drop(s, ids))
         /\ Held(Store!Drop(s, ids)) <= Held(s)
<1> DEFINE f == CHOOSE x : Drops(s, ids, Len(s), x)
<1>1. Drops(s, ids, Len(s), f)
  BY DropsExist
<1>2. Store!Drop(s, ids) = f[Len(s)]
  BY DEF Store!Drop, Drops
<1> HIDE DEF f
<1>3. PICK g \in [0 .. Len(s) -> Nat] : Totals(Awake(s), Len(s), g)
  BY AwakeIs, TotalsExist
<1>4. Held(s) = g[Len(s)]
  BY <1>3, AwakeIs, BytesIs DEF Held
<1> DEFINE Good(n) == Left(s, ids, n, f[n]) /\ Held(f[n]) <= g[n]
           T == {n \in 0 .. Len(s) : Good(n)}
<1>5. 0 \in T
  <2>1. f[0] = <<>> /\ g[0] = 0
    BY <1>1, <1>3 DEF Drops, Totals
  <2>2. Left(s, ids, 0, <<>>)
    BY DEF Left, Unlike
  <2>3. Held(<<>>) = 0
    <3>1. <<>> \in Seq(Items) /\ Len(<<>>) = 0
      OBVIOUS
    <3>2. Awake(<<>>) \in Seq(Items) /\ Len(Awake(<<>>)) = 0
      BY <3>1, AwakeIs
    <3> QED
      BY <3>2, SizesNat DEF Held
  <2> QED
    BY <2>1, <2>2, <2>3
<1>6. ASSUME NEW n \in 1 .. Len(s), n - 1 \in T PROVE n \in T
  <2>1. Left(s, ids, n - 1, f[n - 1]) /\ Held(f[n - 1]) <= g[n - 1]
    BY <1>6
  <2>2. n \in 0 .. Len(s) /\ n - 1 \in 0 .. Len(s) /\ n # 0 /\ s[n] \in Items
    OBVIOUS
  <2>3. f[n] = IF s[n].id \in ids THEN f[n - 1] ELSE Append(f[n - 1], s[n])
    BY <1>1, <2>2 DEF Drops
  <2>4. g[n] = g[n - 1] + s[n].body
    BY <1>3, <2>2, AwakeIs DEF Totals
  <2>5. s[n].body \in Nat /\ g[n - 1] \in Nat
    BY <1>3, <2>2, SizeNat
  <2>6. Left(s, ids, n, f[n])
    BY <2>1, <2>3, LeftNext
  <2>7. f[n - 1] \in Seq(Items)
    BY <2>1 DEF Left
  <2>8. Held(f[n - 1]) \in Nat /\ Held(Append(f[n - 1], s[n])) = Held(f[n - 1]) + s[n].body
    BY <2>2, <2>7, HeldNat, HeldAppend
  <2>9. Held(f[n]) <= g[n]
    BY <2>1, <2>3, <2>4, <2>5, <2>8
  <2> QED
    BY <2>2, <2>6, <2>9
<1>7. Good(Len(s))
  <2> HIDE DEF T
  <2>1. \A n \in 1 .. Len(s) : n - 1 \in T => n \in T
    BY <1>6
  <2>2. Len(s) \in Nat
    OBVIOUS
  <2>3. \A n \in 0 .. Len(s) : n \in T
    BY <1>5, <2>1, <2>2, Climb
  <2>4. Len(s) \in T
    BY <2>2, <2>3
  <2> QED
    BY <2>4 DEF T
<1> QED
  BY <1>2, <1>4, <1>7

-----------------------------------------------------------------------------
Ids(s) == {s[i].id : i \in 1 .. Len(s)}

\* A store whose ids are at most `top`, within the limits.
Whole(s, top) ==
  /\ s \in Seq(Items) /\ \A i \in 1 .. Len(s) : s[i].id \in 1 .. top
  /\ Unlike(s) /\ Len(s) <= MaxCount /\ Held(s) <= MaxBytes
  /\ \A i \in 1 .. Len(s) : s[i].status = "active" =>
       s[i].kind = "decision" \/ (s[i].kind = "observed" /\ s[i].sources # {})

LEMMA DropWhole ==
  ASSUME NEW s, NEW top \in Nat, Whole(s, top), NEW ids
  PROVE  /\ Whole(Store!Drop(s, ids), top) /\ Ids(Store!Drop(s, ids)) = Ids(s) \ ids
         /\ \A i \in 1 .. Len(Store!Drop(s, ids)) :
              \E j \in 1 .. Len(s) : Store!Drop(s, ids)[i] = s[j] /\ s[j].id \notin ids
<1> DEFINE d == Store!Drop(s, ids)
<1>1. s \in Seq(Items) /\ Unlike(s) /\ Len(s) \in Nat
  BY DEF Whole
<1>2. Left(s, ids, Len(s), d) /\ Held(d) <= Held(s)
  BY <1>1, DropIs
<1> HIDE DEF d
<1>3. d \in Seq(Items) /\ Len(d) <= Len(s) /\ Unlike(d)
  BY <1>1, <1>2 DEF Left
<1>4. \A i \in 1 .. Len(d) : \E j \in 1 .. Len(s) : d[i] = s[j] /\ s[j].id \notin ids
  BY <1>2 DEF Left
<1>5. \A j \in 1 .. Len(s) : s[j].id \notin ids => \E i \in 1 .. Len(d) : d[i] = s[j]
  BY <1>2 DEF Left
<1>6. Ids(d) = Ids(s) \ ids
  <2>1. ASSUME NEW x \in Ids(d) PROVE x \in Ids(s) \ ids
    BY <1>4 DEF Ids
  <2>2. ASSUME NEW x \in Ids(s) \ ids PROVE x \in Ids(d)
    <3>1. PICK j \in 1 .. Len(s) : x = s[j].id
      BY DEF Ids
    <3>2. PICK i \in 1 .. Len(d) : d[i] = s[j]
      BY <1>5, <3>1
    <3> QED
      BY <3>1, <3>2 DEF Ids
  <2> QED
    BY <2>1, <2>2
<1>7. Len(d) <= MaxCount /\ Held(d) <= MaxBytes
  BY <1>1, <1>2, <1>3, HeldNat, StoreAssumption DEF Whole
<1>8. Whole(d, top)
  BY <1>3, <1>4, <1>7 DEF Whole
<1> QED
  BY <1>4, <1>6, <1>8 DEF d

LEMMA ReviewedWhole ==
  ASSUME NEW s, NEW top \in Nat, Whole(s, top), NEW changed
  PROVE  /\ Whole(Store!Reviewed(s, changed), top)
         /\ Len(Store!Reviewed(s, changed)) = Len(s)
         /\ Ids(Store!Reviewed(s, changed)) = Ids(s)
         /\ \A i \in 1 .. Len(s) :
              /\ Store!Reviewed(s, changed)[i].id = s[i].id
              /\ Store!Reviewed(s, changed)[i].status = "active" =>
                   Store!Reviewed(s, changed)[i] = s[i] /\ ~Store!Stale(s[i], changed)
         /\ ~Store!AnyStale(s, changed) => Store!Reviewed(s, changed) = s
<1> DEFINE r == Store!Reviewed(s, changed)
<1>1. s \in Seq(Items) /\ Len(s) \in Nat
  BY DEF Whole
<1>2. r = [i \in 1 .. Len(s) |->
             IF Store!Stale(s[i], changed)
             THEN [s[i] EXCEPT !.status = "needs_review", !.revision = @ + 1] ELSE s[i]]
  <2>1. DOMAIN s = 1 .. Len(s)
    BY <1>1
  <2> QED
    BY <2>1 DEF Store!Reviewed
<1>3. ASSUME NEW i \in 1 .. Len(s)
      PROVE  /\ r[i] \in Items /\ r[i].id = s[i].id /\ r[i].key = s[i].key /\ r[i].body = s[i].body
             /\ r[i].status = "active" => r[i] = s[i] /\ ~Store!Stale(s[i], changed)
  <2>1. s[i] \in Items
    BY <1>1
  <2>2. CASE Store!Stale(s[i], changed)
    <3>1. r[i] = [s[i] EXCEPT !.status = "needs_review", !.revision = s[i].revision + 1]
      BY <1>2, <2>2
    <3>2. s[i].revision + 1 \in Nat
      BY <2>1 DEF Items
    <3> HIDE DEF r
    <3> QED
      BY <2>1, <3>1, <3>2 DEF Items, Store!Statuses
  <2>3. CASE ~Store!Stale(s[i], changed)
    <3>1. r[i] = s[i]
      BY <1>2, <2>3
    <3> HIDE DEF r
    <3> QED
      BY <2>1, <2>3, <3>1
  <2> QED
    BY <2>2, <2>3
<1>4. ASSUME ~Store!AnyStale(s, changed) PROVE r = s
  <2>1. ASSUME NEW i \in 1 .. Len(s) PROVE r[i] = s[i]
    <3>1. s[i] \in Store!Range(s)
      BY <1>1 DEF Store!Range
    <3>2. ~Store!Stale(s[i], changed)
      BY <1>4, <3>1 DEF Store!AnyStale
    <3> QED
      BY <1>2, <3>2
  <2>2. s = [i \in 1 .. Len(s) |-> s[i]]
    BY <1>1
  <2>3. r = [i \in 1 .. Len(s) |-> r[i]]
    BY <1>2
  <2> HIDE DEF r
  <2> QED
    BY <2>1, <2>2, <2>3
<1>5. r = [i \in 1 .. Len(s) |-> r[i]]
  BY <1>2
<1> HIDE DEF r
<1>6. r \in Seq(Items) /\ Len(r) = Len(s)
  BY <1>1, <1>3, <1>5
<1>7. Ids(r) = Ids(s)
  BY <1>3, <1>6 DEF Ids
<1>8. Held(r) <= MaxBytes
  <2> DEFINE a == Awake(r)
             b == Awake(s)
  <2>1. /\ a \in Seq(Items) /\ Len(a) = Len(r) /\ \A i \in 1 .. Len(r) : Store!Size(a[i]) = r[i].body
        /\ b \in Seq(Items) /\ Len(b) = Len(s) /\ \A i \in 1 .. Len(s) : Store!Size(b[i]) = s[i].body
    BY <1>1, <1>6, AwakeIs
  <2> HIDE DEF a, b
  <2>2. \A i \in 1 .. Len(a) : Store!Size(a[i]) <= Store!Size(b[i])
    <3> SUFFICES ASSUME NEW i \in 1 .. Len(a) PROVE Store!Size(a[i]) <= Store!Size(b[i])
      OBVIOUS
    <3>1. i \in 1 .. Len(s) /\ s[i] \in Items /\ r[i].body = s[i].body
      BY <1>1, <1>3, <1>6, <2>1
    <3>2. s[i].body \in Nat
      BY <3>1, SizeNat
    <3> QED
      BY <1>6, <2>1, <3>1, <3>2
  <2>3. Store!Bytes(a) <= Store!Bytes(b)
    BY <1>6, <2>1, <2>2, BytesOrdered
  <2>4. Store!Bytes(a) \in Nat /\ Store!Bytes(b) \in Nat /\ Store!Bytes(b) <= MaxBytes
    <3>1. Store!Bytes(b) <= MaxBytes
      BY DEF b, Whole, Held
    <3> QED
      BY <2>1, <3>1, SizesNat
  <2>5. Store!Bytes(a) <= MaxBytes
    BY <2>3, <2>4, StoreAssumption
  <2> QED
    BY <2>5 DEF a, Held
<1>9. Whole(r, top)
  <2>1. Unlike(r)
    BY <1>3, <1>6 DEF Whole, Unlike
  <2> QED
    BY <1>3, <1>6, <1>8, <2>1 DEF Whole
<1> QED
  BY <1>3, <1>4, <1>6, <1>7, <1>9 DEF r

-----------------------------------------------------------------------------
Input(in) ==
  /\ in.key \in Keys \cup {Store!Nil} /\ in.body \in Bodies /\ in.kind \in Store!Kinds
  /\ in.sources \in SUBSET (Paths \X Nat)

\* An entry put before what is left of the others.
LEMMA PutWhole ==
  ASSUME NEW d, NEW top \in Nat, Whole(d, top), NEW e \in Items, NEW max \in Nat,
         top <= max, e.id \in 1 .. max,
         \A i \in 1 .. Len(d) : d[i].id # e.id /\ (e.key # Store!Nil => d[i].key # e.key),
         e.status = "active" => e.kind = "decision" \/ (e.kind = "observed" /\ e.sources # {}),
         Len(<<e>> \o d) <= MaxCount, Store!Bytes(<<e>> \o d) <= MaxBytes
  PROVE  Whole(<<e>> \o d, max) /\ Ids(<<e>> \o d) = {e.id} \cup Ids(d)
<1> DEFINE s == <<e>> \o d
<1>1. d \in Seq(Items) /\ Len(d) \in Nat
  BY DEF Whole
<1>2. s \in Seq(Items) /\ Len(s) = Len(d) + 1 /\ s[1] = e /\ \A i \in 1 .. Len(d) : s[i + 1] = d[i]
  BY <1>1
<1>3. Len(s) <= MaxCount /\ Store!Bytes(s) <= MaxBytes
  OBVIOUS
<1> HIDE DEF s
<1>4. \A i \in 1 .. Len(s) : i = 1 \/ (i - 1 \in 1 .. Len(d) /\ s[i] = d[i - 1])
  <2> SUFFICES ASSUME NEW i \in 1 .. Len(s), i # 1 PROVE i - 1 \in 1 .. Len(d) /\ s[i] = d[i - 1]
    OBVIOUS
  <2>1. i - 1 \in 1 .. Len(d) /\ (i - 1) + 1 = i
    BY <1>1, <1>2
  <2> QED
    BY <1>2, <2>1
<1>5. Unlike(s)
  <2>1. ASSUME NEW i \in 1 .. Len(s), NEW j \in 1 .. Len(s), i # j
        PROVE  s[i].id # s[j].id /\ (s[i].key = Store!Nil \/ s[i].key # s[j].key)
    <3>1. CASE i = 1
      BY <1>2, <1>4, <2>1, <3>1
    <3>2. CASE i # 1 /\ j = 1
      BY <1>2, <1>4, <3>2
    <3>3. CASE i # 1 /\ j # 1
      <4>1. i - 1 \in 1 .. Len(d) /\ j - 1 \in 1 .. Len(d) /\ i - 1 # j - 1
            /\ s[i] = d[i - 1] /\ s[j] = d[j - 1]
        BY <1>4, <2>1, <3>3
      <4> QED
        BY <4>1 DEF Whole, Unlike
    <3> QED
      BY <3>1, <3>2, <3>3
  <2> QED
    BY <2>1 DEF Unlike
<1>6. Held(s) <= MaxBytes
  <2>1. Held(s) \in Nat /\ Store!Bytes(s) \in Nat /\ Held(s) <= Store!Bytes(s)
    BY <1>2, HeldNat, HeldAtMost, SizesNat
  <2> QED
    BY <1>3, <2>1, StoreAssumption
<1>7. \A i \in 1 .. Len(s) : s[i].id \in 1 .. max
  BY <1>2, <1>4 DEF Whole
<1>8. \A i \in 1 .. Len(s) : s[i].status = "active" =>
        s[i].kind = "decision" \/ (s[i].kind = "observed" /\ s[i].sources # {})
  BY <1>2, <1>4 DEF Whole
<1>9. Whole(s, max)
  BY <1>2, <1>3, <1>5, <1>6, <1>7, <1>8 DEF Whole
<1>10. Ids(s) = {e.id} \cup Ids(d)
  <2>1. 1 \in 1 .. Len(s) /\ \A i \in 1 .. Len(d) : i + 1 \in 1 .. Len(s)
    BY <1>1, <1>2
  <2>2. e.id \in Ids(s) /\ \A i \in 1 .. Len(d) : d[i].id \in Ids(s)
    BY <1>2, <2>1 DEF Ids
  <2>3. \A i \in 1 .. Len(s) : s[i].id \in {e.id} \cup Ids(d)
    BY <1>2, <1>4 DEF Ids
  <2> QED
    BY <2>2, <2>3 DEF Ids
<1> QED
  BY <1>9, <1>10 DEF s

LEMMA MadeIs ==
  ASSUME NEW in, Input(in), NEW id \in Nat, NEW number \in Nat,
         NEW e, e = Store!Made(in, id, number)
  PROVE  /\ e \in Items /\ e.id = id /\ e.key = in.key
         /\ e.status = "active" => e.kind = "decision" \/ (e.kind = "observed" /\ e.sources # {})
BY DEF Input, Items, Store!Made, Store!StatusOf, Store!Kinds, Store!Statuses

LEMMA SaveWhole ==
  ASSUME NEW s, lastId \in Nat, Whole(s, lastId), NEW in, Input(in), Store!Save(s, in).ok,
         NEW r, r = Store!Save(s, in)
  PROVE  /\ r.id \in Nat /\ r.id \in Ids(r.store) /\ Ids(s) \subseteq Ids(r.store)
         /\ Whole(r.store, IF r.id > lastId THEN r.id ELSE lastId)
<1> DEFINE own == Store!Owner(s, in.key)
           old == CHOOSE e \in Store!Range(s) : e.id \in own
           same == {e \in Store!Range(s) : Store!Same(e, in)}
           found == CHOOSE e \in same : TRUE
           id == IF own = {} THEN lastId + 1 ELSE old.id
           number == IF own = {} THEN 1 ELSE old.revision + 1
           made == Store!Made(in, id, number)
           rest == Store!Drop(s, own)
           next == <<made>> \o rest
<1>1. s \in Seq(Items) /\ Len(s) \in Nat
  BY DEF Whole
<1>2. \A e \in Store!Range(s) : \E i \in 1 .. Len(s) : e = s[i]
  BY <1>1 DEF Store!Range
<1>3. \A i \in 1 .. Len(s) : s[i] \in Store!Range(s)
  BY <1>1 DEF Store!Range
<1>4. \/ same # {} /\ r.store = s /\ r.id = found.id
      \/ r.store = next /\ r.id = id /\ Len(next) <= MaxCount /\ Store!Bytes(next) <= MaxBytes
  BY Zenon DEF Store!Save
<1>5. CASE same # {} /\ r.store = s /\ r.id = found.id
  <2>1. found \in Store!Range(s)
    BY <1>5
  <2>2. PICK i \in 1 .. Len(s) : found = s[i]
    BY <1>2, <2>1
  <2>3. r.id = s[i].id /\ s[i].id \in 1 .. lastId /\ s[i].id \in Ids(s)
    BY <1>5, <2>2 DEF Whole, Ids
  <2> QED
    BY <1>5, <2>3
<1>6. CASE r.store = next /\ r.id = id /\ Len(next) <= MaxCount /\ Store!Bytes(next) <= MaxBytes
  <2>1. own # {} => old \in Store!Range(s) /\ old.id \in own
    <3> SUFFICES ASSUME own # {} PROVE \E e \in Store!Range(s) : e.id \in own
      OBVIOUS
    <3> QED
      BY DEF Store!Owner
  <2>2. own # {} => old.id \in 1 .. lastId /\ old.revision \in Nat
    <3> SUFFICES ASSUME own # {} PROVE old.id \in 1 .. lastId /\ old.revision \in Nat
      OBVIOUS
    <3>1. PICK i \in 1 .. Len(s) : old = s[i]
      BY <1>2, <2>1
    <3>2. s[i] \in Items /\ s[i].id \in 1 .. lastId
      BY <1>1 DEF Whole
    <3> HIDE DEF old
    <3> QED
      BY <3>1, <3>2 DEF Items
  <2> DEFINE max == IF id > lastId THEN id ELSE lastId
  <2>3. id \in Nat /\ number \in Nat /\ max \in Nat /\ lastId <= max /\ id \in 1 .. max
    <3> HIDE DEF own, old
    <3> QED
      BY <2>2
  <2>4. made \in Items /\ made.id = id /\ made.key = in.key
        /\ (made.status = "active" =>
              made.kind = "decision" \/ (made.kind = "observed" /\ made.sources # {}))
    <3> HIDE DEF id, number, own, old
    <3>1. made = Store!Made(in, id, number)
      OBVIOUS
    <3> HIDE DEF made
    <3> QED
      BY <2>3, <3>1, MadeIs
  <2>5. /\ Whole(rest, lastId) /\ Ids(rest) = Ids(s) \ own
        /\ \A i \in 1 .. Len(rest) : \E j \in 1 .. Len(s) : rest[i] = s[j] /\ s[j].id \notin own
    BY DropWhole
  <2>6. ASSUME NEW i \in 1 .. Len(rest)
        PROVE  rest[i].id # made.id /\ (made.key # Store!Nil => rest[i].key # made.key)
    <3>1. PICK j \in 1 .. Len(s) : rest[i] = s[j] /\ s[j].id \notin own
      BY <2>5
    <3>2. s[j].id \in 1 .. lastId /\ s[j] \in Store!Range(s)
      BY <1>3 DEF Whole
    <3>3. s[j].id # id
      <4> HIDE DEF own, old
      <4> QED
        BY <2>1, <3>1, <3>2
    <3>4. in.key # Store!Nil => s[j].key # in.key
      BY <3>1, <3>2 DEF Store!Owner
    <3> HIDE DEF made, rest
    <3> QED
      BY <2>4, <3>1, <3>3, <3>4
  <2>7. Whole(next, max) /\ Ids(next) = {id} \cup Ids(rest)
    <3> HIDE DEF made, rest, max, id, own, old, same, found
    <3>1. made.id \in 1 .. max
      BY <2>3, <2>4
    <3>2. Len(<<made>> \o rest) <= MaxCount /\ Store!Bytes(<<made>> \o rest) <= MaxBytes
      BY <1>6
    <3>3. Whole(<<made>> \o rest, max) /\ Ids(<<made>> \o rest) = {made.id} \cup Ids(rest)
      BY <2>3, <2>4, <2>5, <2>6, <3>1, <3>2, PutWhole
    <3> QED
      BY <2>4, <3>3
  <2>8. Ids(s) \subseteq Ids(next)
    <3> SUFFICES ASSUME NEW x \in Ids(s), x \in own PROVE x = id
      BY <2>5, <2>7
    <3>1. PICK i \in 1 .. Len(s) : s[i].id = x /\ in.key # Store!Nil /\ s[i].key = in.key
      BY <1>2 DEF Store!Owner
    <3>2. PICK j \in 1 .. Len(s) : s[j].id = old.id /\ s[j].key = in.key
      <4>1. old.id \in own
        BY <2>1
      <4> HIDE DEF old
      <4>2. PICK e \in Store!Range(s) : e.id = old.id /\ e.key = in.key
        BY <4>1 DEF Store!Owner
      <4> QED
        BY <1>2, <4>2
    <3>3. i = j
      BY <3>1, <3>2 DEF Whole, Unlike
    <3> QED
      BY <3>1, <3>2, <3>3
  <2> HIDE DEF next, id, max
  <2>9. r.id \in Nat /\ r.id \in Ids(r.store) /\ Ids(s) \subseteq Ids(r.store)
    BY <1>6, <2>3, <2>7, <2>8
  <2>10. Whole(r.store, IF r.id > lastId THEN r.id ELSE lastId)
    BY <1>6, <2>7 DEF max
  <2> QED
    BY <2>9, <2>10
<1> QED
  BY <1>4, <1>5, <1>6

-----------------------------------------------------------------------------
\* The listing of s begins with `ids`.
Begins(ids, s) == Len(ids) <= Len(s) /\ \A i \in 1 .. Len(ids) : ids[i] = s[i].id

StoreTyped ==
  /\ lastId \in Nat /\ generation \in Nat
  /\ files \in [Paths -> Nat] /\ sources \in SUBSET (Paths \X Nat)
  /\ page \in [from : Nat \cup {Store!Nil}, shown : Seq(Nat)]
Listed ==
  /\ page.from = Store!Nil \/ page.from <= generation
  /\ page.from = generation => Begins(page.shown, memories)

StoreInv == StoreTyped /\ Whole(memories, lastId) /\ refs \in SUBSET Ids(memories) /\ Listed

LEMMA RangeIs ==
  ASSUME NEW s, NEW top, Whole(s, top)
  PROVE  /\ s \in Seq(Items) /\ Len(s) \in Nat /\ DOMAIN s = 1 .. Len(s)
         /\ \A e \in Store!Range(s) : \E i \in 1 .. Len(s) : e = s[i]
         /\ \A i \in 1 .. Len(s) : s[i] \in Store!Range(s)
BY DEF Whole, Store!Range

LEMMA StoredIs == ASSUME StoreInv PROVE Store!Stored = Ids(memories)
<1>1. Whole(memories, lastId)
  BY DEF StoreInv
<1>2. ASSUME NEW x \in Store!Stored PROVE x \in Ids(memories)
  BY <1>1, RangeIs DEF Store!Stored, Store!Entries, Ids
<1>3. ASSUME NEW x \in Ids(memories) PROVE x \in Store!Stored
  BY <1>1, RangeIs DEF Store!Stored, Store!Entries, Ids
<1> QED
  BY <1>2, <1>3

\* A step that leaves the store of its entries `s`, reviewed.
LEMMA BecomesKeeps ==
  ASSUME StoreInv, NEW s, NEW top \in Nat, Whole(s, top), NEW g \in Nat, NEW changed,
         Store!Becomes(s, g, changed), (s = memories /\ g = generation) \/ g > generation
  PROVE  /\ Whole(memories', top) /\ Ids(memories') = Ids(s)
         /\ generation' \in Nat /\ generation <= generation'
         /\ generation' = generation => memories' = memories
         /\ \A e \in Store!Range(memories') :
              e.status = "active" => e \in Store!Range(s) /\ ~Store!Stale(e, changed)
<1>1. /\ memories' = Store!Reviewed(s, changed)
      /\ generation' = g + (IF Store!AnyStale(s, changed) THEN 1 ELSE 0)
  BY DEF Store!Becomes
<1>2. /\ Whole(memories', top) /\ Ids(memories') = Ids(s) /\ Len(memories') = Len(s)
      /\ ~Store!AnyStale(s, changed) => memories' = s
      /\ \A i \in 1 .. Len(s) :
           memories'[i].status = "active" => memories'[i] = s[i] /\ ~Store!Stale(s[i], changed)
  BY <1>1, ReviewedWhole
<1>3. generation \in Nat
  BY DEF StoreInv, StoreTyped
<1>4. generation' \in Nat /\ generation <= generation'
      /\ (generation' = generation => g = generation /\ ~Store!AnyStale(s, changed))
  BY <1>1, <1>3
<1>5. generation' = generation => memories' = memories
  BY <1>2, <1>3, <1>4
<1>6. ASSUME NEW e \in Store!Range(memories'), e.status = "active"
      PROVE  e \in Store!Range(s) /\ ~Store!Stale(e, changed)
  <2>1. PICK i \in 1 .. Len(memories') : e = memories'[i]
    BY <1>2, RangeIs
  <2>2. e = s[i] /\ ~Store!Stale(s[i], changed) /\ i \in 1 .. Len(s)
    BY <1>2, <1>6, <2>1
  <2> QED
    BY <2>2, RangeIs
<1> QED
  BY <1>2, <1>4, <1>5, <1>6

LEMMA ListedStays ==
  ASSUME StoreInv, generation' \in Nat, generation <= generation',
         generation' = generation => memories' = memories, page' = page
  PROVE  Listed'
<1>1. page.from = Store!Nil \/ (page.from \in Nat /\ page.from <= generation)
  BY DEF StoreInv, StoreTyped, Listed
<1>2. generation \in Nat /\ (page.from = generation => Begins(page.shown, memories))
  BY DEF StoreInv, StoreTyped, Listed
<1>3. page'.from = Store!Nil \/ page'.from <= generation'
  BY <1>1, <1>2
<1>4. ASSUME page'.from = generation' PROVE Begins(page'.shown, memories')
  <2>1. generation' = generation
    BY <1>1, <1>2, <1>4 DEF Store!Nil
  <2> QED
    BY <1>2, <1>4, <2>1
<1> QED
  BY <1>3, <1>4 DEF Listed

\* What is active was current: the files bear out what is not stale.
LEMMA CurrentIs ==
  ASSUME StoreInv, NEW e \in Items, e.status = "active", ~Store!Stale(e, files)
  PROVE  \A s \in e.sources : files[s[1]] = s[2]
<1> SUFFICES ASSUME NEW s \in e.sources PROVE files[s[1]] = s[2]
  OBVIOUS
<1>1. s[1] \in Paths
  BY DEF Items
<1>2. files[s[1]] \in Nat
  BY <1>1 DEF StoreInv, StoreTyped
<1> QED
  BY <1>2 DEF Store!Stale, Store!Nil

LEMMA AddsReviewed ==
  ASSUME StoreInv, NEW top, Whole(memories', top),
         \A e \in Store!Range(memories') : e.status = "active" => ~Store!Stale(e, files)
  PROVE  Store!AddsCurrent
<1> SUFFICES ASSUME NEW e \in Store!Range(memories'), e.status = "active"
             PROVE  \A s \in e.sources : files[s[1]] = s[2]
  BY DEF Store!AddsCurrent
<1>1. e \in Items
  BY RangeIs
<1> QED
  BY <1>1, CurrentIs

LEMMA EditKeeps ==
  ASSUME StoreInv, NEW p \in Paths, Store!Edit(p) PROVE StoreInv' /\ Store!AddsCurrent
<1>1. files' \in [Paths -> Nat]
  BY DEF StoreInv, StoreTyped, Store!Edit
<1>2. UNCHANGED <<memories, lastId, generation, sources, refs, page>>
  BY DEF Store!Edit
<1>3. StoreInv'
  BY <1>1, <1>2 DEF StoreInv, StoreTyped, Listed
<1>4. Store!AddsCurrent
  BY <1>2 DEF Store!AddsCurrent, Store!Entries
<1> QED
  BY <1>3, <1>4

LEMMA ObserveKeeps ==
  ASSUME StoreInv, NEW p \in Paths, Store!Observe(p) PROVE StoreInv' /\ Store!AddsCurrent
<1> DEFINE changed == [q \in Paths |-> IF q = p THEN files[p] ELSE Store!Nil]
<1>1. Store!Becomes(memories, generation, changed) /\ sources' = sources \cup {<<p, files[p]>>}
      /\ UNCHANGED <<lastId, files, refs, page>>
  BY DEF Store!Observe
<1> HIDE DEF changed
<1>2. /\ Whole(memories', lastId) /\ Ids(memories') = Ids(memories)
      /\ generation' \in Nat /\ generation <= generation'
      /\ generation' = generation => memories' = memories
      /\ \A e \in Store!Range(memories') : e.status = "active" => e \in Store!Range(memories)
  BY <1>1, BecomesKeeps DEF StoreInv, StoreTyped
<1>3. sources' \in SUBSET (Paths \X Nat)
  BY <1>1 DEF StoreInv, StoreTyped
<1>4. Listed'
  BY <1>1, <1>2, ListedStays
<1>5. StoreInv'
  BY <1>1, <1>2, <1>3, <1>4 DEF StoreInv, StoreTyped
<1>6. Store!AddsCurrent
  BY <1>2 DEF Store!AddsCurrent, Store!Entries
<1> QED
  BY <1>5, <1>6

LEMMA InputIs ==
  ASSUME StoreInv, NEW in \in Store!Inputs
  PROVE  Input(in) /\ Input(Store!Sent(in)) /\ \A r : Input([Store!Sent(in) EXCEPT !.revision = r])
<1>1. Store!Known \in SUBSET (Paths \X Nat)
  <2>1. ASSUME NEW e \in Store!Entries PROVE e.sources \in SUBSET (Paths \X Nat)
    <3>1. e \in Items
      BY RangeIs DEF StoreInv, Store!Entries
    <3> QED
      BY <3>1 DEF Items
  <2> QED
    BY <2>1 DEF Store!Known, StoreInv, StoreTyped
<1>2. in.sources \in SUBSET (Paths \X Nat)
  BY <1>1 DEF Store!Inputs
<1>3. /\ in.key \in Keys \cup {Store!Nil} /\ in.body \in Bodies /\ in.kind \in Store!Kinds
      /\ in = [key |-> in.key, body |-> in.body, kind |-> in.kind, sources |-> in.sources,
               revision |-> in.revision]
  BY DEF Store!Inputs
<1>4. Input(in)
  BY <1>2, <1>3 DEF Input
<1>5. \A r : Input([in EXCEPT !.revision = r])
  BY <1>2, <1>3 DEF Input
<1>6. Store!Sent(in) = in \/ Store!Sent(in) = [in EXCEPT !.revision = Store!Nil]
  BY DEF Store!Sent
<1>7. ASSUME NEW r PROVE Input([Store!Sent(in) EXCEPT !.revision = r])
  <2>1. CASE Store!Sent(in) = in
    BY <1>5, <2>1
  <2>2. CASE Store!Sent(in) = [in EXCEPT !.revision = Store!Nil]
    <3> DEFINE x == Store!Sent(in)
    <3>1. x = [key |-> in.key, body |-> in.body, kind |-> in.kind, sources |-> in.sources,
               revision |-> Store!Nil]
      BY <1>3, <2>2
    <3> HIDE DEF x
    <3>2. Input([x EXCEPT !.revision = r])
      BY <1>2, <1>3, <3>1 DEF Input
    <3> QED
      BY <3>2 DEF x
  <2> QED
    BY <1>6, <2>1, <2>2
<1> QED
  BY <1>4, <1>5, <1>6, <1>7

LEMMA WriteKeeps ==
  ASSUME StoreInv, NEW in \in Store!Inputs, Store!Write(in) PROVE StoreInv' /\ Store!AddsCurrent
<1> DEFINE sent == Store!Sent(in)
           r == Store!Save(memories, sent)
           grown == IF r.store = memories THEN generation ELSE generation + 1
           top == IF r.id > lastId THEN r.id ELSE lastId
<1>1. /\ r.ok /\ lastId' = top /\ Store!Becomes(r.store, grown, files)
      /\ UNCHANGED <<sources, files, refs, page>>
  BY DEF Store!Write
<1>2. Input(sent)
  BY InputIs
<1>3. lastId \in Nat /\ generation \in Nat /\ Whole(memories, lastId)
  BY DEF StoreInv, StoreTyped
<1> HIDE DEF sent
<1>4. r.id \in Nat /\ Ids(memories) \subseteq Ids(r.store) /\ Whole(r.store, top)
  BY <1>1, <1>2, <1>3, SaveWhole
<1> HIDE DEF r
<1>5. top \in Nat
  BY <1>3, <1>4
<1>6. grown \in Nat /\ ((r.store = memories /\ grown = generation) \/ grown > generation)
  BY <1>3
<1> HIDE DEF grown, top
<1>7. /\ Whole(memories', top) /\ Ids(memories') = Ids(r.store)
      /\ generation' \in Nat /\ generation <= generation'
      /\ generation' = generation => memories' = memories
      /\ \A e \in Store!Range(memories') : e.status = "active" => ~Store!Stale(e, files)
  BY <1>1, <1>4, <1>5, <1>6, BecomesKeeps
<1>8. Listed'
  BY <1>1, <1>7, ListedStays
<1>9. refs' \in SUBSET Ids(memories')
  BY <1>1, <1>4, <1>7 DEF StoreInv
<1>10. StoreInv'
  BY <1>1, <1>5, <1>7, <1>8, <1>9 DEF StoreInv, StoreTyped
<1>11. Store!AddsCurrent
  BY <1>7, AddsReviewed
<1> QED
  BY <1>10, <1>11

LEMMA ReadKeeps == ASSUME StoreInv, Store!Read PROVE StoreInv' /\ Store!AddsCurrent
<1>1. Store!Becomes(memories, generation, files) /\ UNCHANGED <<lastId, sources, files, refs, page>>
  BY DEF Store!Read
<1>2. /\ Whole(memories', lastId) /\ Ids(memories') = Ids(memories)
      /\ generation' \in Nat /\ generation <= generation'
      /\ generation' = generation => memories' = memories
      /\ \A e \in Store!Range(memories') : e.status = "active" => ~Store!Stale(e, files)
  BY <1>1, BecomesKeeps DEF StoreInv, StoreTyped
<1>3. Listed'
  BY <1>1, <1>2, ListedStays
<1>4. StoreInv'
  BY <1>1, <1>2, <1>3 DEF StoreInv, StoreTyped
<1>5. Store!AddsCurrent
  BY <1>2, AddsReviewed
<1> QED
  BY <1>4, <1>5

LEMMA CountPositive ==
  ASSUME StoreInv, NEW ids, ids # {}, ids \subseteq Store!Stored
  PROVE  Store!Cardinality(ids) \in Nat /\ Store!Cardinality(ids) > 0
<1>1. lastId \in Nat /\ \A x \in Ids(memories) : x \in 1 .. lastId
  BY DEF StoreInv, StoreTyped, Whole, Ids
<1>2. ids \in SUBSET Nat /\ \A n \in ids : n <= lastId
  BY <1>1, StoredIs
<1>3. IsFiniteSet(ids)
  BY <1>1, <1>2, FS_BoundedSetOfNaturals
<1>4. Cardinality(ids) \in Nat /\ Cardinality(ids) > 0
  BY <1>3, FS_CardinalityType, FS_EmptySet
<1>5. Store!Cardinality(ids) = Cardinality(ids)
  BY DEF Store!Cardinality, Cardinality
<1> QED
  BY <1>4, <1>5

LEMMA DeleteKeeps ==
  ASSUME StoreInv, NEW ids, Store!Delete(ids) PROVE StoreInv' /\ Store!AddsCurrent
<1>1. /\ ids # {} /\ ids \subseteq Store!Stored /\ ids \cap refs = {}
      /\ memories' = Store!Drop(memories, ids) /\ generation' = generation + Store!Cardinality(ids)
      /\ UNCHANGED <<lastId, sources, files, refs, page>>
  BY DEF Store!Delete
<1>2. Store!Cardinality(ids) \in Nat /\ Store!Cardinality(ids) > 0
  BY <1>1, CountPositive
<1>3. lastId \in Nat /\ generation \in Nat /\ Whole(memories, lastId)
  BY DEF StoreInv, StoreTyped
<1>4. /\ Whole(memories', lastId) /\ Ids(memories') = Ids(memories) \ ids
      /\ \A i \in 1 .. Len(memories') : \E j \in 1 .. Len(memories) : memories'[i] = memories[j]
  BY <1>1, <1>3, DropWhole
<1>5. generation' \in Nat /\ generation' > generation
  BY <1>1, <1>2, <1>3
<1>6. Listed'
  BY <1>1, <1>3, <1>5, ListedStays
<1>7. StoreInv'
  BY <1>1, <1>4, <1>5, <1>6 DEF StoreInv, StoreTyped
<1>8. Store!AddsCurrent
  <2>1. ASSUME NEW e \in Store!Range(memories') PROVE e \in Store!Range(memories)
    BY <1>3, <1>4, RangeIs
  <2> QED
    BY <2>1 DEF Store!AddsCurrent, Store!Entries
<1> QED
  BY <1>7, <1>8

LEMMA ReplaceKeeps ==
  ASSUME StoreInv, NEW ids, NEW in \in Store!Inputs, Store!Replace(ids, in)
  PROVE  StoreInv' /\ Store!AddsCurrent
<1> DEFINE own == Store!Owner(memories, in.key)
           sent == Store!Sent(in)
           left == Store!Drop(memories, ids)
           put == [sent EXCEPT !.revision = IF own = {} THEN @ ELSE Store!Nil]
           r == Store!Save(left, put)
           top == IF r.id > lastId THEN r.id ELSE lastId
<1>1. /\ r.ok /\ lastId' = top /\ Store!Becomes(r.store, generation + 1, files)
      /\ refs' = Store!Redirect(ids, r.id) /\ UNCHANGED <<sources, files, page>>
  BY DEF Store!Replace
<1>2. Input(put)
  BY InputIs
<1>3. lastId \in Nat /\ generation \in Nat /\ Whole(memories, lastId)
  BY DEF StoreInv, StoreTyped
<1>4. Whole(left, lastId) /\ Ids(left) = Ids(memories) \ ids
  BY <1>3, DropWhole
<1> HIDE DEF put, left
<1>5. /\ r.id \in Nat /\ r.id \in Ids(r.store)
      /\ Ids(left) \subseteq Ids(r.store) /\ Whole(r.store, top)
  BY <1>1, <1>2, <1>3, <1>4, SaveWhole
<1> HIDE DEF r
<1>6. top \in Nat /\ generation + 1 \in Nat /\ generation + 1 > generation
  BY <1>3, <1>5
<1> HIDE DEF top
<1>7. /\ Whole(memories', top) /\ Ids(memories') = Ids(r.store)
      /\ generation' \in Nat /\ generation <= generation'
      /\ generation' = generation => memories' = memories
      /\ \A e \in Store!Range(memories') : e.status = "active" => ~Store!Stale(e, files)
  BY <1>1, <1>5, <1>6, BecomesKeeps
<1>8. Listed'
  BY <1>1, <1>7, ListedStays
<1>9. refs' \in SUBSET Ids(memories')
  BY <1>1, <1>4, <1>5, <1>7 DEF StoreInv, Store!Redirect
<1>10. StoreInv'
  BY <1>1, <1>6, <1>7, <1>8, <1>9 DEF StoreInv, StoreTyped
<1>11. Store!AddsCurrent
  BY <1>7, AddsReviewed
<1> QED
  BY <1>10, <1>11

LEMMA ReferKeeps ==
  ASSUME StoreInv, NEW ids, Store!Refer(ids) PROVE StoreInv' /\ Store!AddsCurrent
<1>1. ids \in SUBSET Ids(memories) /\ refs' = ids
      /\ UNCHANGED <<memories, lastId, generation, sources, files, page>>
  BY StoredIs DEF Store!Refer
<1>2. StoreInv'
  BY <1>1 DEF StoreInv, StoreTyped, Listed
<1>3. Store!AddsCurrent
  BY <1>1 DEF Store!AddsCurrent, Store!Entries
<1> QED
  BY <1>2, <1>3

LEMMA FindKeeps ==
  ASSUME StoreInv, NEW continue, Store!Find(continue) PROVE StoreInv' /\ Store!AddsCurrent
<1> DEFINE gen == generation + (IF Store!AnyStale(memories, files) THEN 1 ELSE 0)
<1>1. /\ Store!Becomes(memories, generation, files) /\ UNCHANGED <<lastId, sources, files, refs>>
      /\ \/ Store!Shown(gen, <<>>)
         \/ page.from = gen /\ Store!Shown(gen, page.shown)
  BY DEF Store!Find
<1>2. generation' = gen /\ memories' = Store!Reviewed(memories, files)
  BY <1>1 DEF Store!Becomes
<1>3. /\ Whole(memories', lastId) /\ Ids(memories') = Ids(memories)
      /\ generation' \in Nat /\ generation <= generation'
      /\ generation' = generation => memories' = memories
      /\ \A e \in Store!Range(memories') : e.status = "active" => ~Store!Stale(e, files)
  BY <1>1, BecomesKeeps DEF StoreInv, StoreTyped
<1>4. PICK old \in Seq(Nat) : Store!Shown(gen, old) /\ Begins(old, memories')
  <2>1. CASE Store!Shown(gen, <<>>)
    <3>1. <<>> \in Seq(Nat) /\ Begins(<<>>, memories')
      BY <1>3 DEF Begins, Whole
    <3> QED
      BY <2>1, <3>1
  <2>2. CASE page.from = gen /\ Store!Shown(gen, page.shown)
    <3> HIDE DEF gen
    <3>1. page.from = generation /\ generation' = generation
      BY <1>2, <1>3, <2>2 DEF StoreInv, StoreTyped, Listed, Store!Nil
    <3>2. page.shown \in Seq(Nat) /\ Begins(page.shown, memories')
      BY <1>3, <3>1 DEF StoreInv, StoreTyped, Listed
    <3> QED
      BY <2>2, <3>2
  <2> QED
    BY <1>1, <2>1, <2>2
<1> HIDE DEF gen
<1>5. page' = IF Len(old) < Len(memories')
              THEN [from |-> gen, shown |-> Append(old, memories'[Len(old) + 1].id)]
              ELSE Store!NoPage
  BY <1>2, <1>4 DEF Store!Shown
<1>6. page' \in [from : Nat \cup {Store!Nil}, shown : Seq(Nat)] /\ Listed'
  <2>1. CASE Len(old) < Len(memories')
    <3>1. memories'[Len(old) + 1].id \in Nat
      BY <1>3, <2>1 DEF Whole
    <3> DEFINE new == Append(old, memories'[Len(old) + 1].id)
    <3>2. /\ new \in Seq(Nat) /\ Len(new) = Len(old) + 1
          /\ new[Len(old) + 1] = memories'[Len(old) + 1].id
          /\ \A i \in 1 .. Len(old) : new[i] = old[i]
      BY <3>1
    <3> HIDE DEF new
    <3>3. Begins(new, memories')
      <4>1. Len(old) \in Nat /\ Len(memories') \in Nat
        BY <1>3 DEF Whole
      <4>2. Len(new) <= Len(memories')
        BY <2>1, <3>2, <4>1
      <4>3. ASSUME NEW i \in 1 .. Len(new) PROVE new[i] = memories'[i].id
        <5>1. i \in 1 .. Len(old) \/ i = Len(old) + 1
          BY <3>2, <4>1
        <5> QED
          BY <1>4, <3>2, <5>1 DEF Begins
      <4> QED
        BY <4>2, <4>3 DEF Begins
    <3>4. page' = [from |-> gen, shown |-> new]
      BY <1>5, <2>1 DEF new
    <3> QED
      BY <1>2, <1>3, <3>2, <3>3, <3>4 DEF Listed
  <2>2. CASE ~(Len(old) < Len(memories'))
    <3>1. page' = [from |-> Store!Nil, shown |-> <<>>]
      BY <1>5, <2>2 DEF Store!NoPage
    <3> QED
      BY <1>3, <3>1 DEF Listed, Store!Nil
  <2> QED
    BY <2>1, <2>2
<1>7. StoreInv'
  BY <1>1, <1>3, <1>6 DEF StoreInv, StoreTyped
<1>8. Store!AddsCurrent
  BY <1>3, AddsReviewed
<1> QED
  BY <1>7, <1>8

LEMMA StoreMoves == ASSUME StoreInv, Store!Next PROVE StoreInv' /\ Store!AddsCurrent
<1>1. ASSUME NEW p \in Paths, Store!Edit(p) \/ Store!Observe(p) PROVE StoreInv' /\ Store!AddsCurrent
  BY <1>1, EditKeeps, ObserveKeeps
<1>2. ASSUME NEW in \in Store!Inputs, Store!Write(in) PROVE StoreInv' /\ Store!AddsCurrent
  BY <1>2, WriteKeeps
<1>3. ASSUME NEW in \in Store!Inputs, NEW ids, Store!Replace(ids, in)
      PROVE  StoreInv' /\ Store!AddsCurrent
  BY <1>3, ReplaceKeeps
<1>4. ASSUME NEW ids, Store!Delete(ids) \/ Store!Refer(ids) PROVE StoreInv' /\ Store!AddsCurrent
  BY <1>4, DeleteKeeps, ReferKeeps
<1>5. ASSUME NEW continue, Store!Find(continue) PROVE StoreInv' /\ Store!AddsCurrent
  BY <1>5, FindKeeps
<1> QED
  BY <1>1, <1>2, <1>3, <1>4, <1>5, ReadKeeps DEF Store!Next

LEMMA StoreStep ==
  ASSUME StoreInv, [Store!Next]_storeVars PROVE StoreInv' /\ [Store!AddsCurrent]_storeVars
<1>1. CASE Store!Next
  BY <1>1, StoreMoves
<1>2. CASE UNCHANGED storeVars
  BY <1>2 DEF storeVars, StoreInv, StoreTyped, Listed
<1> QED
  BY <1>1, <1>2

LEMMA StoreInit == ASSUME Store!Init PROVE StoreInv
<1>1. /\ memories = <<>> /\ lastId = 0 /\ generation = 0 /\ sources = {} /\ refs = {}
      /\ files = [p \in Paths |-> 0] /\ page = [from |-> Store!Nil, shown |-> <<>>]
  BY DEF Store!Init, Store!NoPage
<1>2. <<>> \in Seq(Items) /\ Len(<<>>) = 0
  OBVIOUS
<1>3. Held(<<>>) = 0
  BY <1>2, AwakeIs, SizesNat DEF Held
<1>4. Whole(memories, lastId)
  BY <1>1, <1>2, <1>3, StoreAssumption DEF Whole, Unlike
<1>5. StoreTyped /\ Listed
  BY <1>1 DEF StoreTyped, Listed, Store!Nil
<1> QED
  BY <1>1, <1>4, <1>5 DEF StoreInv

LEMMA StaysConsistent == ASSUME StoreInv PROVE Store!Consistent /\ Store!Sound
<1>1. /\ memories \in Seq(Items) /\ DOMAIN memories = 1 .. Len(memories)
      /\ \A e \in Store!Range(memories) : \E i \in 1 .. Len(memories) : e = memories[i]
  BY RangeIs DEF StoreInv
<1>2. refs \subseteq Store!Stored
  BY StoredIs DEF StoreInv
<1>3. page.from = generation =>
        \A i \in DOMAIN page.shown : i \in DOMAIN memories /\ memories[i].id = page.shown[i]
  <2> SUFFICES ASSUME page.from = generation, NEW i \in DOMAIN page.shown
               PROVE  i \in DOMAIN memories /\ memories[i].id = page.shown[i]
    OBVIOUS
  <2>1. page.shown \in Seq(Nat) /\ Begins(page.shown, memories)
    BY DEF StoreInv, StoreTyped, Listed
  <2>2. i \in 1 .. Len(page.shown)
    BY <2>1
  <2> QED
    BY <1>1, <2>1, <2>2 DEF Begins
<1>4. \A i, j \in DOMAIN memories : i # j =>
        memories[i].id # memories[j].id
        /\ (memories[i].key = Store!Nil \/ memories[i].key # memories[j].key)
  BY <1>1 DEF StoreInv, Whole, Unlike
<1>5. Len(memories) <= MaxCount
      /\ Store!Bytes([i \in DOMAIN memories |-> [memories[i] EXCEPT !.status = "active"]]) <= MaxBytes
  BY DEF StoreInv, Whole, Held, Awake
<1>6. \A e \in Store!Entries : e.status = "active" =>
        e.kind = "decision" \/ (e.kind = "observed" /\ e.sources # {})
  BY <1>1 DEF StoreInv, Whole, Store!Entries
<1> QED
  BY <1>2, <1>3, <1>4, <1>5, <1>6 DEF Store!Consistent, Store!Sound

\* Memories, MemoriesKept: the references of the task name memories that exist,
\* ids and keys are unique, the limits of number and bytes are kept but for the
\* notes of a review, a listing continued by its cursor skips and repeats nothing,
\* an observed fact is active only with evidence, and no step leaves a new or
\* changed entry active whose evidence the files no longer bear out (memory.rs,
\* save, delete and stale_paths; tools.rs, memory_write, memory_replace and
\* memory_find), for any paths, keys, bodies and limits.
THEOREM StoreStaysKept == MCSpec => MemoriesKept
<1>1. MCInit => StoreInv
  BY StoreInit DEF MCInit
<1>2. /\ StoreInv /\ [MCNext]_<<part, vars, keptVars, planVars, storeVars, choiceVars, configVars>>
      => StoreInv' /\ [Store!AddsCurrent]_storeVars
  BY StoreStep DEF MCNext
<1>3. StoreInv => Store!Consistent /\ Store!Sound
  BY StaysConsistent
<1>4. /\ StoreInv /\ [MCNext]_<<part, vars, keptVars, planVars, storeVars, choiceVars, configVars>>
      => [Store!AddsCurrent]_(Store!vars)
  BY <1>2 DEF storeVars, Store!vars
<1> QED
  BY <1>1, <1>2, <1>3, <1>4, PTL DEF MCSpec, MemoriesKept, Store!MemoriesKept

-----------------------------------------------------------------------------
\* TaskPlan.

\* Repetition of a step on the elements of a set, up to m times.
LEMMA Iterates ==
  ASSUME NEW X, NEW x \in X, NEW m \in Nat, NEW F, \A n \in 1 .. m : \A y \in X : F[n][y] \in X
  PROVE  \E f : f = [n \in 0 .. m |-> IF n = 0 THEN x ELSE F[n][f[n - 1]]] /\ f \in [0 .. m -> X]
<1> DEFINE Does(k, f) == f = [n \in 0 .. k |-> IF n = 0 THEN x ELSE F[n][f[n - 1]]]
           Has(k) == \E f : Does(k, f) /\ f \in [0 .. k -> X]
           T == {k \in 0 .. m : Has(k)}
<1>1. 0 \in T
  <2>1. Does(0, [n \in 0 .. 0 |-> x]) /\ [n \in 0 .. 0 |-> x] \in [0 .. 0 -> X]
    OBVIOUS
  <2>2. Has(0)
    BY <2>1
  <2> HIDE DEF Has
  <2> QED
    BY <2>2
<1>2. ASSUME NEW k \in 1 .. m, k - 1 \in T
      PROVE  k \in T
  <2>1. PICK f : Does(k - 1, f) /\ f \in [0 .. k - 1 -> X]
    BY <1>2
  <2> DEFINE last == F[k][f[k - 1]]
             g == [n \in 0 .. k |-> IF n = k THEN last ELSE f[n]]
  <2>2. g \in [0 .. k -> X]
    <3>1. f[k - 1] \in X
      BY <2>1
    <3>2. last \in X
      BY <3>1
    <3> HIDE DEF last
    <3> QED
      BY <2>1, <3>2
  <2>3. ASSUME NEW n \in 0 .. k
        PROVE  g[n] = IF n = 0 THEN x ELSE F[n][g[n - 1]]
    <3>1. CASE n = k
      <4>1. n # 0 /\ g[n] = last /\ g[n - 1] = f[n - 1]
        BY <3>1
      <4> QED
        BY <3>1, <4>1
    <3>2. CASE n # k
      <4>1. n \in 0 .. k - 1 /\ g[n] = f[n]
        BY <3>2
      <4>2. n # 0 => g[n - 1] = f[n - 1]
        BY <4>1
      <4>3. f[n] = IF n = 0 THEN x ELSE F[n][f[n - 1]]
        BY <2>1, <4>1
      <4> HIDE DEF g
      <4> QED
        BY <4>1, <4>2, <4>3
    <3> QED
      BY <3>1, <3>2
  <2>4. Does(k, g)
    BY <2>3
  <2>5. Has(k)
    BY <2>2, <2>4
  <2> HIDE DEF Has
  <2> QED
    BY <2>5
<1>3. \A k \in 0 .. m : k \in T
  <2> HIDE DEF T
  <2> QED
    BY <1>1, <1>2, Climb
<1>4. Has(m)
  <2> HIDE DEF Has
  <2> QED
    BY <1>3
<1> QED
  BY <1>4

LEMMA JoinIs ==
  ASSUME NEW S, NEW a \in Seq(S), NEW b \in Seq(S), NEW c, c = a \o b
  PROVE  /\ c \in Seq(S) /\ Len(c) = Len(a) + Len(b)
         /\ \A i \in 1 .. Len(a) : c[i] = a[i]
         /\ \A i \in 1 .. Len(c) : i > Len(a) => c[i] = b[i - Len(a)]
<1>1. c \in Seq(S) /\ Len(c) = Len(a) + Len(b)
  BY ConcatProperties
<1>2. \A i \in 1 .. Len(a) : c[i] = a[i]
  BY ConcatProperties
<1>3. \A i \in 1 .. Len(a) + Len(b) : i > Len(a) => c[i] = b[i - Len(a)]
  BY ConcatProperties
<1> QED
  BY <1>1, <1>2, <1>3

LEMMA RemovedIs ==
  ASSUME NEW S, NEW s \in Seq(S), NEW here \in 1 .. Len(s),
         NEW t, t = Plan!RemoveAt(s, here)
  PROVE  /\ t \in Seq(S) /\ Len(t) = Len(s) - 1
         /\ \A i \in 1 .. Len(t) : (i < here => t[i] = s[i]) /\ (i >= here => t[i] = s[i + 1])
<1> DEFINE a == SubSeq(s, 1, here - 1)
           b == SubSeq(s, here + 1, Len(s))
<1>1. a \in Seq(S) /\ Len(a) = here - 1 /\ \A i \in 1 .. here - 1 : a[i] = s[i]
  BY SubSeqProperties
<1>2. b \in Seq(S) /\ Len(b) = Len(s) - here /\ \A i \in 1 .. Len(s) - here : b[i] = s[i + here]
  BY SubSeqProperties
<1>3. t = a \o b
  BY DEF Plan!RemoveAt
<1>4. here \in Nat /\ Len(s) \in Nat
  OBVIOUS
<1> HIDE DEF a, b
<1>5. /\ t \in Seq(S) /\ Len(t) = Len(a) + Len(b)
      /\ \A i \in 1 .. Len(a) : t[i] = a[i]
      /\ \A i \in 1 .. Len(t) : i > Len(a) => t[i] = b[i - Len(a)]
  <2>1. a \in Seq(S)
    BY <1>1
  <2>2. b \in Seq(S)
    BY <1>2
  <2> QED
    BY <1>3, <2>1, <2>2, JoinIs
<1>6. ASSUME NEW i \in 1 .. Len(t), i >= here
      PROVE  t[i] = s[i + 1]
  <2>1. i - Len(a) \in 1 .. Len(s) - here /\ (i - Len(a)) + here = i + 1 /\ i > Len(a)
    BY <1>1, <1>2, <1>4, <1>5, <1>6
  <2> QED
    BY <1>2, <1>5, <2>1
<1> QED
  BY <1>1, <1>2, <1>4, <1>5, <1>6

LEMMA SpliceIs ==
  ASSUME NEW S, NEW s \in Seq(S), NEW here \in 1 .. Len(s) + 1, NEW new \in Seq(S),
         NEW t, t = Plan!Splice(s, here, new)
  PROVE  /\ t \in Seq(S) /\ Len(t) = Len(s) + Len(new)
         /\ \A i \in 1 .. Len(t) :
              /\ i < here => t[i] = s[i]
              /\ i >= here /\ i < here + Len(new) => t[i] = new[i - here + 1]
              /\ i >= here + Len(new) => t[i] = s[i - Len(new)]
<1> DEFINE a == SubSeq(s, 1, here - 1)
           b == SubSeq(s, here, Len(s))
           c == a \o new
<1>1. a \in Seq(S) /\ Len(a) = here - 1 /\ \A i \in 1 .. here - 1 : a[i] = s[i]
  BY SubSeqProperties
<1>2. b \in Seq(S) /\ Len(b) = Len(s) - here + 1 /\ \A i \in 1 .. Len(s) - here + 1 : b[i] = s[i + here - 1]
  BY SubSeqProperties
<1>3. t = c \o b
  BY DEF Plan!Splice
<1>4. here \in Nat /\ Len(s) \in Nat /\ Len(new) \in Nat
  OBVIOUS
<1> HIDE DEF a, b
<1>5. /\ c \in Seq(S) /\ Len(c) = Len(a) + Len(new)
      /\ \A i \in 1 .. Len(a) : c[i] = a[i]
      /\ \A i \in 1 .. Len(c) : i > Len(a) => c[i] = new[i - Len(a)]
  <2>1. a \in Seq(S)
    BY <1>1
  <2> QED
    BY <2>1, JoinIs
<1> HIDE DEF c
<1>6. /\ t \in Seq(S) /\ Len(t) = Len(c) + Len(b)
      /\ \A i \in 1 .. Len(c) : t[i] = c[i]
      /\ \A i \in 1 .. Len(t) : i > Len(c) => t[i] = b[i - Len(c)]
  <2>1. c \in Seq(S)
    BY <1>5
  <2>2. b \in Seq(S)
    BY <1>2
  <2> QED
    BY <1>3, <2>1, <2>2, JoinIs
<1>7. Len(t) = Len(s) + Len(new)
  BY <1>1, <1>2, <1>4, <1>5, <1>6
<1>8. ASSUME NEW i \in 1 .. Len(t), i < here
      PROVE  t[i] = s[i]
  <2>1. i \in 1 .. here - 1 /\ i \in 1 .. Len(a) /\ i \in 1 .. Len(c)
    BY <1>1, <1>4, <1>5, <1>8
  <2>2. t[i] = c[i] /\ c[i] = a[i] /\ a[i] = s[i]
    BY <1>1, <1>5, <1>6, <2>1
  <2> QED
    BY <2>2
<1>9. ASSUME NEW i \in 1 .. Len(t), i >= here, i < here + Len(new)
      PROVE  t[i] = new[i - here + 1]
  <2>1. i \in 1 .. Len(c) /\ i > Len(a) /\ i - Len(a) = i - here + 1
    BY <1>1, <1>4, <1>5, <1>9
  <2> QED
    BY <1>5, <1>6, <2>1
<1>10. ASSUME NEW i \in 1 .. Len(t), i >= here + Len(new)
       PROVE  t[i] = s[i - Len(new)]
  <2>1. /\ i > Len(c) /\ i - Len(c) \in 1 .. Len(s) - here + 1
        /\ (i - Len(c)) + here - 1 = i - Len(new)
    BY <1>1, <1>4, <1>5, <1>7, <1>10
  <2> QED
    BY <1>2, <1>6, <2>1
<1> QED
  BY <1>6, <1>7, <1>8, <1>9, <1>10

\* A plan: items are numbered as they are made, no two have an ID or a text in
\* common, and the completed ones come first.
Entries == [id : Nat, text : Texts \ Unusable, done : BOOLEAN]
Plans == [todos : Seq(Entries), sequence : Nat, total : Nat]
Apart(s) == \A i, j \in 1 .. Len(s) : i # j => s[i].id # s[j].id /\ s[i].text # s[j].text
DoneFirst(s) == \A i, j \in 1 .. Len(s) : i < j /\ s[j].done => s[i].done
Good(p) ==
  /\ p \in Plans /\ Apart(p.todos) /\ DoneFirst(p.todos)
  /\ \A i \in 1 .. Len(p.todos) : p.todos[i].id \in 1 .. p.sequence

\* An operation that leaves the completed items alone.
Steady(s, t) ==
  /\ \A i \in 1 .. Len(s) : s[i].done => i \in 1 .. Len(t) /\ t[i] = s[i]
  /\ \A i \in 1 .. Len(t) : t[i].done => i \in 1 .. Len(s) /\ t[i] = s[i]

LEMMA SteadyChains ==
  ASSUME NEW s, NEW t, NEW u, Steady(s, t), Steady(t, u)
  PROVE  Steady(s, u)
BY DEF Steady

\* Items that are added before none of the completed ones.
Puts(p, q, here, new, top) ==
  /\ here \in 1 .. Len(p.todos) + 1 /\ new \in Seq(Entries) /\ top \in Nat
  /\ p.sequence <= top /\ Apart(new)
  /\ \A i \in here .. Len(p.todos) : ~p.todos[i].done
  /\ \A i \in 1 .. Len(new) :
       /\ ~new[i].done /\ new[i].id \in 1 .. top
       /\ \A j \in 1 .. Len(p.todos) : /\ p.todos[j].id # new[i].id
                                       /\ p.todos[j].text # new[i].text
  /\ q = [p EXCEPT !.todos = Plan!Splice(p.todos, here, new), !.sequence = top]
\* An item that is taken out.
Removes(p, q, here) ==
  here \in 1 .. Len(p.todos) /\ q = [p EXCEPT !.todos = Plan!RemoveAt(p.todos, here)]
\* Another text for an unfinished item.
Retexts(p, q, here, x) ==
  /\ here \in 1 .. Len(p.todos) /\ ~p.todos[here].done /\ x \in Texts \ Unusable
  /\ \A i \in 1 .. Len(p.todos) : i # here => p.todos[i].text # x
  /\ q = [p EXCEPT !.todos[here].text = x]

LEMMA PutKeeps ==
  ASSUME NEW p, NEW q, NEW here, NEW new, NEW top, Good(p), Puts(p, q, here, new, top)
  PROVE  Good(q) /\ Steady(p.todos, q.todos)
<1>1. p \in Plans
  BY DEF Good
<1>2. p.todos \in Seq(Entries)
  BY <1>1 DEF Plans
<1> DEFINE s == p.todos
           t == Plan!Splice(s, here, new)
           a == Len(s)
           n == Len(new)
<1>0. here \in 1 .. Len(s) + 1 /\ new \in Seq(Entries) /\ top \in Nat
  BY DEF Puts
<1>3. a \in Nat /\ n \in Nat /\ here \in 1 .. a + 1 /\ here \in Nat
  BY <1>0, <1>2
<1>4. \A i \in here .. a : ~s[i].done
  BY DEF Puts
<1>5. \A i \in 1 .. n : ~new[i].done /\ new[i].id \in 1 .. top
  BY DEF Puts
<1>6. \A i \in 1 .. n : \A j \in 1 .. a : s[j].id # new[i].id /\ s[j].text # new[i].text
  BY DEF Puts
<1>7. \A i \in 1 .. a : s[i].id \in 1 .. top
  <2>1. p.sequence \in Nat /\ p.sequence <= top
    BY <1>1 DEF Plans, Puts
  <2> QED
    BY <1>0, <2>1 DEF Good
<1>8. q = [p EXCEPT !.todos = t, !.sequence = top]
  BY DEF Puts
<1>9. \A i, j \in 1 .. a : i # j => s[i].id # s[j].id /\ s[i].text # s[j].text
  BY DEF Good, Apart
<1>10. \A i, j \in 1 .. a : i < j /\ s[j].done => s[i].done
  BY DEF Good, DoneFirst
<1>11. \A i, j \in 1 .. n : i # j => new[i].id # new[j].id /\ new[i].text # new[j].text
  BY DEF Apart, Puts
<1>12. /\ t \in Seq(Entries) /\ Len(t) = Len(s) + Len(new)
       /\ \A i \in 1 .. Len(t) :
            /\ i < here => t[i] = s[i]
            /\ i >= here /\ i < here + Len(new) => t[i] = new[i - here + 1]
            /\ i >= here + Len(new) => t[i] = s[i - Len(new)]
  <2>1. s \in Seq(Entries)
    BY <1>2
  <2>2. t = Plan!Splice(s, here, new)
    OBVIOUS
  <2> HIDE DEF t, s
  <2> QED
    BY <1>0, <2>1, <2>2, SpliceIs
<1>13. /\ Len(t) = a + n
       /\ \A i \in 1 .. a + n :
            /\ i < here => t[i] = s[i]
            /\ i >= here /\ i < here + n => t[i] = new[i - here + 1]
            /\ i >= here + n => t[i] = s[i - n]
  <2> HIDE DEF t, s
  <2> QED
    BY <1>12
<1>14. q \in Plans /\ q.todos = t /\ q.sequence = top
  <2> HIDE DEF t
  <2> QED
    BY <1>0, <1>1, <1>8, <1>12 DEF Plans
<1> HIDE DEF t, s, a, n
\* Where each item comes from.
<1>15. ASSUME NEW i \in 1 .. a + n
       PROVE  \/ i < here /\ i \in 1 .. a /\ t[i] = s[i]
              \/ i >= here /\ i < here + n /\ i - here + 1 \in 1 .. n /\ t[i] = new[i - here + 1]
              \/ i >= here + n /\ i - n \in here .. a /\ i - n \in 1 .. a /\ t[i] = s[i - n]
  BY <1>3, <1>13
<1>16. ASSUME NEW i \in 1 .. a + n, NEW j \in 1 .. a + n, i < j
       PROVE  t[i].id # t[j].id /\ t[i].text # t[j].text
  <2>1. CASE i < here /\ i \in 1 .. a /\ t[i] = s[i]
    <3>1. CASE j < here /\ j \in 1 .. a /\ t[j] = s[j]
      BY <1>9, <1>16, <2>1, <3>1
    <3>2. CASE j - here + 1 \in 1 .. n /\ t[j] = new[j - here + 1]
      BY <1>6, <2>1, <3>2
    <3>3. CASE j >= here + n /\ j - n \in here .. a /\ j - n \in 1 .. a /\ t[j] = s[j - n]
      <4>1. i # j - n
        BY <1>3, <2>1, <3>3
      <4> QED
        BY <1>9, <2>1, <3>3, <4>1
    <3> QED
      BY <1>15, <3>1, <3>2, <3>3
  <2>2. CASE i >= here /\ i < here + n /\ i - here + 1 \in 1 .. n /\ t[i] = new[i - here + 1]
    <3>1. CASE j < here
      BY <1>3, <1>16, <2>2, <3>1
    <3>2. CASE j - here + 1 \in 1 .. n /\ t[j] = new[j - here + 1]
      <4>1. i - here + 1 # j - here + 1
        BY <1>3, <1>16
      <4> QED
        BY <1>11, <2>2, <3>2, <4>1
    <3>3. CASE j - n \in 1 .. a /\ t[j] = s[j - n]
      BY <1>6, <2>2, <3>3
    <3> QED
      BY <1>15, <3>1, <3>2, <3>3
  <2>3. CASE i >= here + n /\ i - n \in here .. a /\ i - n \in 1 .. a /\ t[i] = s[i - n]
    <3>1. j >= here + n
      BY <1>3, <1>16, <2>3
    <3>2. j - n \in 1 .. a /\ t[j] = s[j - n] /\ i - n # j - n
      BY <1>3, <1>15, <1>16, <3>1
    <3> QED
      BY <1>9, <2>3, <3>2
  <2> QED
    BY <1>15, <2>1, <2>2, <2>3
<1>17. Apart(t)
  <2> SUFFICES ASSUME NEW i \in 1 .. a + n, NEW j \in 1 .. a + n, i # j
               PROVE  t[i].id # t[j].id /\ t[i].text # t[j].text
    BY <1>13 DEF Apart
  <2>1. CASE i < j
    BY <1>16, <2>1
  <2>2. CASE j < i
    BY <1>16, <2>2
  <2> QED
    BY <1>3, <2>1, <2>2
<1>18. ASSUME NEW i \in 1 .. a + n, t[i].done
       PROVE  i < here /\ i \in 1 .. a /\ t[i] = s[i]
  BY <1>4, <1>5, <1>15, <1>18
<1>19. ASSUME NEW i \in 1 .. a + n, NEW j \in 1 .. a + n, i < j, t[j].done
       PROVE  t[i].done
  <2>1. j < here /\ j \in 1 .. a /\ t[j] = s[j]
    BY <1>18, <1>19
  <2>2. i \in 1 .. a /\ t[i] = s[i]
    BY <1>3, <1>13, <1>19, <2>1
  <2> QED
    BY <1>10, <1>19, <2>1, <2>2
<1>20. DoneFirst(t)
  BY <1>13, <1>19 DEF DoneFirst
<1>21. ASSUME NEW i \in 1 .. a + n
       PROVE  t[i].id \in 1 .. top
  BY <1>5, <1>7, <1>15
<1>22. ASSUME NEW i \in 1 .. a, s[i].done
       PROVE  i \in 1 .. a + n /\ t[i] = s[i]
  <2>1. i < here
    BY <1>3, <1>4, <1>22
  <2> QED
    BY <1>3, <1>13, <2>1
<1>23. Steady(s, t)
  BY <1>13, <1>18, <1>22 DEF Steady, a
<1>24. \A i \in 1 .. Len(q.todos) : q.todos[i].id \in 1 .. q.sequence
  BY <1>13, <1>14, <1>21
<1> QED
  BY <1>14, <1>17, <1>20, <1>23, <1>24 DEF Good, s

LEMMA WithoutKeeps ==
  ASSUME NEW p, NEW q, NEW here, Good(p), Removes(p, q, here)
  PROVE  /\ Good(q) /\ q.sequence = p.sequence /\ q.total = p.total /\ Len(q.todos) = Len(p.todos) - 1
         /\ \A i \in 1 .. Len(q.todos) :
              /\ i < here => q.todos[i] = p.todos[i]
              /\ i >= here => q.todos[i] = p.todos[i + 1]
              /\ q.todos[i].id # p.todos[here].id /\ q.todos[i].text # p.todos[here].text
         /\ ~p.todos[here].done => Steady(p.todos, q.todos)
<1>1. p \in Plans
  BY DEF Good
<1>2. p.todos \in Seq(Entries)
  BY <1>1 DEF Plans
<1> DEFINE s == p.todos
           t == Plan!RemoveAt(s, here)
           a == Len(s)
<1>0. here \in 1 .. Len(s)
  BY DEF Removes
<1>3. a \in Nat /\ here \in 1 .. a /\ here \in Nat
  BY <1>0, <1>2
<1>4. \A i \in 1 .. a : s[i].id \in 1 .. p.sequence
  BY DEF Good
<1>5. \A i, j \in 1 .. a : i # j => s[i].id # s[j].id /\ s[i].text # s[j].text
  BY DEF Good, Apart
<1>6. \A i, j \in 1 .. a : i < j /\ s[j].done => s[i].done
  BY DEF Good, DoneFirst
<1>7. /\ t \in Seq(Entries) /\ Len(t) = a - 1
      /\ \A i \in 1 .. Len(t) : (i < here => t[i] = s[i]) /\ (i >= here => t[i] = s[i + 1])
  <2> HIDE DEF s
  <2> QED
    BY <1>0, <1>2, <1>3, RemovedIs DEF s
<1>8. q \in Plans /\ q.todos = t /\ q.sequence = p.sequence /\ q.total = p.total
  <2>1. q = [p EXCEPT !.todos = t]
    BY DEF Removes
  <2>2. t \in Seq(Entries)
    BY <1>7
  <2> HIDE DEF t
  <2> QED
    BY <1>1, <2>1, <2>2 DEF Plans
<1> HIDE DEF t, s, a
\* Where each item comes from.
<1> DEFINE was(i) == IF i < here THEN i ELSE i + 1
<1>9. ASSUME NEW i \in 1 .. a - 1
      PROVE  was(i) \in 1 .. a /\ was(i) # here /\ t[i] = s[was(i)]
  <2>1. CASE i < here
    BY <1>3, <1>7, <2>1
  <2>2. CASE i >= here
    BY <1>3, <1>7, <2>2
  <2> QED
    BY <1>3, <2>1, <2>2
<1>10. ASSUME NEW i \in 1 .. a - 1, NEW j \in 1 .. a - 1, i < j
       PROVE  was(i) < was(j)
  BY <1>3, <1>10
<1> HIDE DEF was
<1>11. \A i, j \in 1 .. a - 1 : i # j => was(i) # was(j)
  <2> SUFFICES ASSUME NEW i \in 1 .. a - 1, NEW j \in 1 .. a - 1, i # j
               PROVE  was(i) # was(j)
    OBVIOUS
  <2>1. was(i) \in Int /\ was(j) \in Int
    BY <1>9
  <2>2. CASE i < j
    BY <1>10, <2>1, <2>2
  <2>3. CASE j < i
    BY <1>10, <2>1, <2>3
  <2> QED
    BY <1>3, <2>2, <2>3
<1>12. \A i, j \in 1 .. a - 1 : i # j => t[i].id # t[j].id /\ t[i].text # t[j].text
  BY <1>5, <1>9, <1>11
<1>13. Apart(t)
  BY <1>7, <1>12 DEF Apart
<1>14. ASSUME NEW i \in 1 .. a - 1, NEW j \in 1 .. a - 1, i < j, t[j].done
       PROVE  t[i].done
  <2>1. was(i) < was(j) /\ s[was(j)].done
    BY <1>9, <1>10, <1>14
  <2> QED
    BY <1>6, <1>9, <2>1
<1>15. DoneFirst(t)
  BY <1>7, <1>14 DEF DoneFirst
<1>16. \A i \in 1 .. a - 1 : t[i].id \in 1 .. p.sequence
  BY <1>4, <1>9
<1>17. \A i \in 1 .. a - 1 : t[i].id # s[here].id /\ t[i].text # s[here].text
  BY <1>3, <1>5, <1>9
<1>18. ASSUME ~s[here].done
       PROVE  Steady(s, t)
  <2>1. \A i \in 1 .. a : s[i].done => i < here
    BY <1>3, <1>6, <1>18
  <2>2. ASSUME NEW i \in 1 .. a, s[i].done
        PROVE  i \in 1 .. a - 1 /\ t[i] = s[i]
    BY <1>3, <1>7, <2>1, <2>2
  <2>3. ASSUME NEW i \in 1 .. a - 1, t[i].done
        PROVE  i \in 1 .. a /\ t[i] = s[i]
    <3>1. was(i) < here
      BY <1>9, <2>1, <2>3
    <3>2. i < here
      BY <1>3, <3>1 DEF was
    <3> QED
      BY <1>3, <1>7, <3>2
  <2> QED
    BY <1>7, <2>2, <2>3 DEF Steady, a
<1>19. Good(q)
  BY <1>7, <1>8, <1>13, <1>15, <1>16 DEF Good
<1> QED
  BY <1>7, <1>8, <1>17, <1>18, <1>19 DEF s, a

LEMMA RetextKeeps ==
  ASSUME NEW p, NEW q, NEW here, NEW x, Good(p), Retexts(p, q, here, x)
  PROVE  /\ Good(q) /\ q.sequence = p.sequence /\ q.total = p.total /\ Steady(p.todos, q.todos)
         /\ Len(q.todos) = Len(p.todos)
         /\ \A i \in 1 .. Len(p.todos) : /\ q.todos[i].id = p.todos[i].id
                                         /\ q.todos[i].done = p.todos[i].done
                                         /\ (i # here => q.todos[i].text = p.todos[i].text)
         /\ q.todos[here].text = x
<1> DEFINE s == p.todos
           t == [s EXCEPT ![here].text = x]
<1>1. p \in Plans /\ s \in Seq(Entries) /\ Len(s) \in Nat
  BY DEF Good, Plans
<1>0. here \in 1 .. Len(s) /\ x \in Texts \ Unusable
  BY DEF Retexts
<1>2. q = [p EXCEPT !.todos = t]
  BY <1>1 DEF Plans, Retexts
<1>3. s[here] \in Entries /\ [s[here] EXCEPT !.text = x] \in Entries
  <2>1. s[here] \in Entries
    BY <1>0, <1>1
  <2> QED
    BY <1>0, <2>1 DEF Entries
<1>4. t \in Seq(Entries) /\ Len(t) = Len(s)
  BY <1>0, <1>1, <1>3
<1>5. t[here] = [s[here] EXCEPT !.text = x] /\ \A i \in 1 .. Len(s) : i # here => t[i] = s[i]
  BY <1>0, <1>1
<1>6. q \in Plans /\ q.todos = t /\ q.sequence = p.sequence /\ q.total = p.total
  BY <1>1, <1>2, <1>4 DEF Plans
<1> HIDE DEF t
<1>7. Apart(s) /\ DoneFirst(s) /\ \A i \in 1 .. Len(s) : s[i].id \in 1 .. p.sequence
  BY <1>1 DEF Good, Plans
<1>8. t[here].text = x
  BY <1>3, <1>5 DEF Entries
<1>9. ASSUME NEW i \in 1 .. Len(s)
      PROVE  t[i].id = s[i].id /\ t[i].done = s[i].done /\ (i # here => t[i].text = s[i].text)
  BY <1>3, <1>5 DEF Entries
<1>10. here \in 1 .. Len(s) /\ ~s[here].done /\ \A i \in 1 .. Len(s) : i # here => s[i].text # x
  BY DEF Retexts
<1> HIDE DEF s
<1>11. ASSUME NEW i \in 1 .. Len(t), NEW j \in 1 .. Len(t), i # j
       PROVE  t[i].id # t[j].id /\ t[i].text # t[j].text
  <2>1. i \in 1 .. Len(s) /\ j \in 1 .. Len(s) /\ s[i].id # s[j].id /\ s[i].text # s[j].text
    BY <1>4, <1>7, <1>11 DEF Apart
  <2>2. CASE i = here
    BY <1>8, <1>9, <1>10, <1>11, <2>1, <2>2
  <2>3. CASE j = here
    BY <1>8, <1>9, <1>10, <1>11, <2>1, <2>3
  <2>4. CASE i # here /\ j # here
    BY <1>9, <2>1, <2>4
  <2> QED
    BY <2>2, <2>3, <2>4
<1>12. Apart(t)
  BY <1>11 DEF Apart
<1>13. ASSUME NEW i \in 1 .. Len(t), NEW j \in 1 .. Len(t), i < j, t[j].done
       PROVE  t[i].done
  <2>1. i \in 1 .. Len(s) /\ j \in 1 .. Len(s)
    BY <1>4
  <2>2. s[j].done
    BY <1>9, <1>13, <2>1
  <2>3. s[i].done
    BY <1>7, <1>13, <2>1, <2>2 DEF DoneFirst
  <2> QED
    BY <1>9, <2>1, <2>3
<1>14. DoneFirst(t)
  BY <1>13 DEF DoneFirst
<1>15. \A i \in 1 .. Len(t) : t[i].id \in 1 .. p.sequence
  BY <1>4, <1>7, <1>9
<1>16. ASSUME NEW i \in 1 .. Len(s), s[i].done
       PROVE  i \in 1 .. Len(t) /\ t[i] = s[i]
  BY <1>4, <1>5, <1>10, <1>16
<1>17. ASSUME NEW i \in 1 .. Len(t), t[i].done
       PROVE  i \in 1 .. Len(s) /\ t[i] = s[i]
  <2>1. i \in 1 .. Len(s)
    BY <1>4
  <2>2. s[i].done
    BY <1>9, <1>17, <2>1
  <2> QED
    BY <1>16, <2>1, <2>2
<1>18. Steady(s, t)
  BY <1>16, <1>17 DEF Steady
<1>19. Good(q)
  BY <1>6, <1>12, <1>14, <1>15 DEF Good
<1> QED
  BY <1>4, <1>6, <1>8, <1>9, <1>18, <1>19 DEF s
-----------------------------------------------------------------------------
OpNames == {"insert", "update", "split", "move", "remove", "complete", "reopen"}
Ops == [op : OpNames, texts : Seq(Texts), id : Nat, before : Nat]
Able(o) == o \in Ops /\ (o.op = "update" => Len(o.texts) >= 1)

Grows(p, q) == Good(q) /\ p.sequence <= q.sequence /\ p.total <= q.total
\* The item `id` is completed where it stands.
Adds(s, t, id) ==
  /\ Len(t) = Len(s) /\ \E i \in 1 .. Len(s) : s[i].id = id
  /\ \A i \in 1 .. Len(s) : t[i].id = s[i].id /\ (t[i].done <=> s[i].done \/ s[i].id = id)
\* The item `id` leaves the completed ones.
Takes(s, t, id) ==
  \E here \in 1 .. Len(s) : s[here].id = id /\ s[here].done /\ Steady(Plan!RemoveAt(s, here), t)

LEMMA MinIs ==
  ASSUME NEW S \in SUBSET Nat, S # {}
  PROVE  Plan!Min(S) \in S /\ \A y \in S : Plan!Min(S) <= y
BY LeastIs DEF Plan!Min

LEMMA ItemIs ==
  ASSUME NEW p, Good(p), NEW id, NEW done, Plan!IsItem(p, id, done)
  PROVE  /\ Plan!Index(p, id) \in 1 .. Len(p.todos)
         /\ p.todos[Plan!Index(p, id)].id = id /\ p.todos[Plan!Index(p, id)].done = done
         /\ p.todos[Plan!Index(p, id)] \in Entries
         /\ \A i \in 1 .. Len(p.todos) : p.todos[i].id = id => i = Plan!Index(p, id)
<1>1. p.todos \in Seq(Entries) /\ Apart(p.todos)
  BY DEF Good, Plans
<1>2. DOMAIN p.todos = 1 .. Len(p.todos)
  BY <1>1
<1>3. PICK i \in 1 .. Len(p.todos) : p.todos[i].id = id /\ p.todos[i].done = done
  BY <1>2 DEF Plan!IsItem, Plan!Range
<1>4. \A j \in 1 .. Len(p.todos) : p.todos[j].id = id => j = i
  BY <1>1, <1>3 DEF Apart
<1>5. Plan!Index(p, id) \in 1 .. Len(p.todos) /\ p.todos[Plan!Index(p, id)].id = id
  BY <1>2, <1>3 DEF Plan!Index
<1>6. Plan!Index(p, id) = i
  BY <1>4, <1>5
<1> QED
  BY <1>1, <1>3, <1>4, <1>6

LEMMA OpenOnward ==
  ASSUME NEW p, Good(p), NEW here \in 1 .. Len(p.todos), ~p.todos[here].done
  PROVE  \A i \in here .. Len(p.todos) : ~p.todos[i].done
<1>1. DoneFirst(p.todos) /\ Len(p.todos) \in Nat
  BY DEF Good, Plans
<1> QED
  BY <1>1 DEF DoneFirst

\* No completed item stands at or after the place before an unfinished one.
LEMMA PositionIs ==
  ASSUME NEW p, Good(p), NEW b, Plan!Anchor(p, b)
  PROVE  /\ Plan!Position(p, b) \in 1 .. Len(p.todos) + 1
         /\ \A i \in Plan!Position(p, b) .. Len(p.todos) : ~p.todos[i].done
<1>1. Len(p.todos) \in Nat
  BY DEF Good, Plans
<1>2. CASE b = 0
  BY <1>1, <1>2 DEF Plan!Position
<1>3. CASE b # 0
  <2>1. Plan!IsItem(p, b, FALSE)
    BY <1>3 DEF Plan!Anchor
  <2>2. Plan!Position(p, b) = Plan!Index(p, b)
    BY <1>3 DEF Plan!Position
  <2>3. Plan!Index(p, b) \in 1 .. Len(p.todos) /\ ~p.todos[Plan!Index(p, b)].done
    BY <2>1, ItemIs
  <2> QED
    BY <1>1, <2>2, <2>3, OpenOnward
<1> QED
  BY <1>2, <1>3

LEMMA NewIs ==
  ASSUME NEW p, Good(p), NEW texts \in Seq(Texts \ Unusable), Plan!IsInjective(texts)
  PROVE  /\ Plan!New(p, texts) \in Seq(Entries) /\ Len(Plan!New(p, texts)) = Len(texts)
         /\ \A i \in 1 .. Len(texts) :
              /\ Plan!New(p, texts)[i].id = p.sequence + i /\ Plan!New(p, texts)[i].text = texts[i]
              /\ ~Plan!New(p, texts)[i].done
         /\ Apart(Plan!New(p, texts))
<1> DEFINE new == Plan!New(p, texts)
<1>1. p.sequence \in Nat /\ Len(texts) \in Nat /\ DOMAIN texts = 1 .. Len(texts)
  BY DEF Good, Plans
<1>2. new = [i \in 1 .. Len(texts) |-> [id |-> p.sequence + i, text |-> texts[i], done |-> FALSE]]
  BY <1>1 DEF Plan!New
<1>3. \A i \in 1 .. Len(texts) :
        [id |-> p.sequence + i, text |-> texts[i], done |-> FALSE] \in Entries
  BY <1>1 DEF Entries
<1>4. new \in Seq(Entries) /\ Len(new) = Len(texts)
  BY <1>1, <1>2, <1>3
<1>5. \A i \in 1 .. Len(texts) : new[i].id = p.sequence + i /\ new[i].text = texts[i] /\ ~new[i].done
  BY <1>2
<1> HIDE DEF new
<1>6. Apart(new)
  BY <1>1, <1>4, <1>5 DEF Apart, Plan!IsInjective
<1> QED
  BY <1>4, <1>5, <1>6 DEF new

\* The texts an operation may bring.
LEMMA UniqueIs ==
  ASSUME NEW p, Good(p), NEW texts \in Seq(Texts), NEW id, Plan!Unique(p, texts, id)
  PROVE  /\ texts \in Seq(Texts \ Unusable) /\ Plan!IsInjective(texts)
         /\ \A i \in 1 .. Len(p.todos) : \A j \in 1 .. Len(texts) :
              p.todos[i].id # id => p.todos[i].text # texts[j]
<1>1. Len(texts) \in Nat /\ DOMAIN texts = 1 .. Len(texts)
  OBVIOUS
<1>2. \A j \in 1 .. Len(texts) : texts[j] \in Texts \ Unusable /\ texts[j] \in Plan!Range(texts)
  BY <1>1 DEF Plan!Unique, Plan!Range
<1>3. texts = [j \in 1 .. Len(texts) |-> texts[j]]
  BY <1>1
<1>4. texts \in Seq(Texts \ Unusable)
  BY <1>1, <1>2, <1>3
<1>5. p.todos \in Seq(Entries)
  BY DEF Good, Plans
<1>6. \A i \in 1 .. Len(p.todos) : p.todos[i] \in Plan!Range(p.todos)
  BY <1>5 DEF Plan!Range
<1> QED
  BY <1>2, <1>4, <1>6 DEF Plan!Unique

LEMMA InsertKeeps ==
  ASSUME NEW p, Good(p), NEW o \in Ops, Plan!Anchor(p, o.before), Plan!Unique(p, o.texts, 0),
         NEW q, q = Plan!Insert(p, o).plan
  PROVE  Grows(p, q) /\ Steady(p.todos, q.todos)
<1> DEFINE new == Plan!New(p, o.texts)
           here == Plan!Position(p, o.before)
<1>1. /\ p \in Plans /\ p.sequence \in Nat /\ Len(p.todos) \in Nat
      /\ \A i \in 1 .. Len(p.todos) : p.todos[i].id \in 1 .. p.sequence
  BY DEF Good, Plans
<1>2. o.texts \in Seq(Texts) /\ Len(o.texts) \in Nat
  BY DEF Ops
<1>3. /\ o.texts \in Seq(Texts \ Unusable) /\ Plan!IsInjective(o.texts)
      /\ \A i \in 1 .. Len(p.todos) : \A j \in 1 .. Len(o.texts) : p.todos[i].text # o.texts[j]
  <2>1. \A i \in 1 .. Len(p.todos) : p.todos[i].id # 0
    BY <1>1
  <2> QED
    BY <1>2, <2>1, UniqueIs
<1>4. /\ new \in Seq(Entries) /\ Len(new) = Len(o.texts) /\ Apart(new)
      /\ \A i \in 1 .. Len(new) :
           new[i].id = p.sequence + i /\ new[i].text = o.texts[i] /\ ~new[i].done
  BY <1>3, NewIs
<1>5. here \in 1 .. Len(p.todos) + 1 /\ \A i \in here .. Len(p.todos) : ~p.todos[i].done
  BY PositionIs
<1>6. q = [p EXCEPT !.todos = Plan!Splice(p.todos, here, new), !.sequence = p.sequence + Len(o.texts)]
  BY <1>1 DEF Plan!Insert, Plan!Applied, Plan!Put, Plans
<1>7. q.total = p.total /\ q.sequence = p.sequence + Len(o.texts)
  BY <1>1, <1>6 DEF Plans
<1> HIDE DEF new, here
<1>8. \A i \in 1 .. Len(new) :
        /\ ~new[i].done /\ new[i].id \in 1 .. p.sequence + Len(o.texts)
        /\ \A j \in 1 .. Len(p.todos) : /\ p.todos[j].id # new[i].id
                                        /\ p.todos[j].text # new[i].text
  BY <1>1, <1>2, <1>3, <1>4
<1>9. p.sequence + Len(o.texts) \in Nat /\ p.sequence <= p.sequence + Len(o.texts) /\ p.total \in Nat
  BY <1>1, <1>2 DEF Plans
<1>10. Good(q) /\ Steady(p.todos, q.todos)
  <2>1. Puts(p, q, here, new, p.sequence + Len(o.texts))
    BY <1>4, <1>5, <1>6, <1>8, <1>9 DEF Puts
  <2> QED
    BY <2>1, PutKeeps
<1> QED
  BY <1>7, <1>9, <1>10 DEF Grows

LEMMA UpdateKeeps ==
  ASSUME NEW p, Good(p), NEW o, Able(o), o.op = "update",
         Plan!IsItem(p, o.id, FALSE), Plan!Unique(p, o.texts, o.id),
         NEW q, q = Plan!Update(p, o).plan
  PROVE  Grows(p, q) /\ Steady(p.todos, q.todos)
<1> DEFINE here == Plan!Index(p, o.id)
<1>1. o.texts \in Seq(Texts) /\ Len(o.texts) >= 1
  BY DEF Able, Ops
<1>2. /\ o.texts \in Seq(Texts \ Unusable) /\ Plan!IsInjective(o.texts)
      /\ \A i \in 1 .. Len(p.todos) : \A j \in 1 .. Len(o.texts) :
           p.todos[i].id # o.id => p.todos[i].text # o.texts[j]
  BY <1>1, UniqueIs
<1>3. /\ here \in 1 .. Len(p.todos) /\ ~p.todos[here].done
      /\ \A i \in 1 .. Len(p.todos) : p.todos[i].id = o.id => i = here
  BY ItemIs
<1>4. Head(o.texts) = o.texts[1] /\ 1 \in 1 .. Len(o.texts) /\ Head(o.texts) \in Texts \ Unusable
  BY <1>1, <1>2
<1>5. q = [p EXCEPT !.todos[here].text = Head(o.texts)]
  BY DEF Plan!Update, Plan!Applied
<1>6. ASSUME NEW i \in 1 .. Len(p.todos), i # here
      PROVE  p.todos[i].text # Head(o.texts)
  <2>1. p.todos[i].id # o.id
    BY <1>3, <1>6
  <2> QED
    BY <1>2, <1>4, <2>1
<1>7. p.sequence \in Nat /\ p.total \in Nat
  BY DEF Good, Plans
<1> HIDE DEF here
<1>8. Good(q) /\ q.sequence = p.sequence /\ q.total = p.total /\ Steady(p.todos, q.todos)
  <2>1. Retexts(p, q, here, Head(o.texts))
    BY <1>3, <1>4, <1>5, <1>6 DEF Retexts
  <2> QED
    BY <2>1, RetextKeeps
<1> QED
  BY <1>7, <1>8 DEF Grows

LEMMA SplitKeeps ==
  ASSUME NEW p, Good(p), NEW o \in Ops,
         Plan!IsItem(p, o.id, FALSE), Len(o.texts) > 1, Plan!Unique(p, o.texts, o.id),
         p.todos[Plan!Index(p, o.id)].text \notin Plan!Range(o.texts),
         NEW q, q = Plan!Split(p, o).plan
  PROVE  Grows(p, q) /\ Steady(p.todos, q.todos)
<1> DEFINE here == Plan!Index(p, o.id)
           first == [p EXCEPT !.todos[here].text = Head(o.texts)]
           others == Tail(o.texts)
           new == Plan!New(p, others)
<1>1. /\ p \in Plans /\ p.sequence \in Nat /\ p.total \in Nat /\ Len(p.todos) \in Nat
      /\ \A i \in 1 .. Len(p.todos) : p.todos[i].id \in 1 .. p.sequence
  BY DEF Good, Plans
<1>2. o.texts \in Seq(Texts)
  BY DEF Ops
<1>3. /\ o.texts \in Seq(Texts \ Unusable) /\ Plan!IsInjective(o.texts)
      /\ \A i \in 1 .. Len(p.todos) : \A j \in 1 .. Len(o.texts) :
           p.todos[i].id # o.id => p.todos[i].text # o.texts[j]
  BY <1>2, UniqueIs
<1>4. /\ here \in 1 .. Len(p.todos) /\ ~p.todos[here].done
      /\ \A i \in 1 .. Len(p.todos) : p.todos[i].id = o.id => i = here
  BY ItemIs
<1>5. /\ Head(o.texts) = o.texts[1] /\ 1 \in 1 .. Len(o.texts)
      /\ Head(o.texts) \in Texts \ Unusable /\ Len(o.texts) \in Nat
  BY <1>3
<1>6. ASSUME NEW i \in 1 .. Len(p.todos), i # here
      PROVE  p.todos[i].text # Head(o.texts)
  <2>1. p.todos[i].id # o.id
    BY <1>4, <1>6
  <2> QED
    BY <1>3, <1>5, <2>1
<1>7. /\ others \in Seq(Texts \ Unusable) /\ Len(others) = Len(o.texts) - 1
      /\ \A j \in 1 .. Len(others) : others[j] = o.texts[j + 1]
  BY <1>3, <1>5
<1>8. /\ Good(first) /\ first.sequence = p.sequence /\ first.total = p.total
      /\ Steady(p.todos, first.todos) /\ Len(first.todos) = Len(p.todos)
      /\ \A i \in 1 .. Len(p.todos) :
           /\ first.todos[i].id = p.todos[i].id /\ first.todos[i].done = p.todos[i].done
           /\ i # here => first.todos[i].text = p.todos[i].text
      /\ first.todos[here].text = Head(o.texts)
  <2>1. first = [p EXCEPT !.todos[here].text = Head(o.texts)]
    OBVIOUS
  <2> HIDE DEF here, first
  <2>2. Retexts(p, first, here, Head(o.texts))
    BY <1>4, <1>5, <1>6, <2>1 DEF Retexts
  <2> QED
    BY <2>2, RetextKeeps
<1>9. q = [Plan!Put(first, here + 1, new) EXCEPT !.sequence = @ + Len(o.texts) - 1]
  BY DEF Plan!Split, Plan!Applied
<1> HIDE DEF first, here, others, new
<1>10. Plan!IsInjective(others)
  BY <1>3, <1>5, <1>7 DEF Plan!IsInjective
<1>11. /\ new \in Seq(Entries) /\ Len(new) = Len(others) /\ Apart(new)
       /\ \A i \in 1 .. Len(new) :
            new[i].id = p.sequence + i /\ new[i].text = others[i] /\ ~new[i].done
  BY <1>7, <1>10, NewIs DEF new
<1> DEFINE top == p.sequence + Len(o.texts) - 1
<1>12. q = [first EXCEPT !.todos = Plan!Splice(first.todos, here + 1, new), !.sequence = top]
  BY <1>8, <1>9 DEF Plan!Put, Plans, Good
<1>13. top \in Nat /\ first.sequence <= top
  BY <1>1, <1>5, <1>8
<1>14. here + 1 \in 1 .. Len(first.todos) + 1 /\ \A i \in here + 1 .. Len(first.todos) : ~first.todos[i].done
  <2>1. \A i \in here .. Len(p.todos) : ~p.todos[i].done
    BY <1>4, OpenOnward
  <2> QED
    BY <1>1, <1>4, <1>8, <2>1
<1>15. ASSUME NEW i \in 1 .. Len(new)
       PROVE  /\ ~new[i].done /\ new[i].id \in 1 .. top
              /\ \A j \in 1 .. Len(first.todos) : /\ first.todos[j].id # new[i].id
                                                  /\ first.todos[j].text # new[i].text
  <2>1. i \in 1 .. Len(o.texts) - 1 /\ i + 1 \in 1 .. Len(o.texts) /\ new[i].text = o.texts[i + 1]
    BY <1>5, <1>7, <1>11
  <2>2. new[i].id = p.sequence + i /\ ~new[i].done
    BY <1>11
  <2>3. new[i].id \in 1 .. top
    BY <1>1, <1>5, <2>1, <2>2
  <2>4. \A j \in 1 .. Len(first.todos) : first.todos[j].id # new[i].id
    BY <1>1, <1>8, <2>1, <2>2
  <2>5. first.todos[here].text # new[i].text
    <3>1. DOMAIN o.texts = 1 .. Len(o.texts)
      BY <1>3
    <3>2. o.texts[1] # o.texts[i + 1]
      BY <1>3, <1>5, <2>1, <3>1 DEF Plan!IsInjective
    <3> QED
      BY <1>4, <1>5, <1>8, <2>1, <3>2
  <2>6. \A j \in 1 .. Len(first.todos) : first.todos[j].text # new[i].text
    BY <1>3, <1>4, <1>8, <2>1, <2>5
  <2> QED
    BY <2>2, <2>3, <2>4, <2>6
<1> HIDE DEF top
<1>16. Good(q) /\ Steady(first.todos, q.todos)
  <2>1. Puts(first, q, here + 1, new, top)
    BY <1>11, <1>12, <1>13, <1>14, <1>15 DEF Puts
  <2> QED
    BY <1>8, <2>1, PutKeeps
<1>17. Steady(p.todos, q.todos)
  BY <1>8, <1>16, SteadyChains
<1>18. q.sequence = top /\ q.total = p.total
  BY <1>8, <1>12 DEF Good, Plans
<1> QED
  BY <1>1, <1>8, <1>13, <1>16, <1>17, <1>18 DEF Grows
LEMMA WithoutOpen ==
  ASSUME NEW p, NEW id, Good(p), Plan!IsItem(p, id, FALSE)
  PROVE  /\ Grows(p, Plan!Without(p, id)) /\ Steady(p.todos, Plan!Without(p, id).todos)
         /\ Plan!Without(p, id).sequence = p.sequence
         /\ \A i \in 1 .. Len(Plan!Without(p, id).todos) :
              /\ Plan!Without(p, id).todos[i].id # id
              /\ Plan!Without(p, id).todos[i].text # p.todos[Plan!Index(p, id)].text
<1> DEFINE here == Plan!Index(p, id)
           q == Plan!Without(p, id)
<1>1. p.sequence \in Nat /\ p.total \in Nat
  BY DEF Good, Plans
<1>2. here \in 1 .. Len(p.todos) /\ ~p.todos[here].done /\ p.todos[here].id = id
  BY ItemIs
<1>3. q = [p EXCEPT !.todos = Plan!RemoveAt(p.todos, here)]
  BY DEF Plan!Without
<1> HIDE DEF here, q
<1>4. /\ Good(q) /\ q.sequence = p.sequence /\ q.total = p.total
      /\ \A i \in 1 .. Len(q.todos) :
           q.todos[i].id # p.todos[here].id /\ q.todos[i].text # p.todos[here].text
      /\ Steady(p.todos, q.todos)
  <2>1. Removes(p, q, here)
    BY <1>2, <1>3 DEF Removes
  <2> QED
    BY <1>2, <2>1, WithoutKeeps
<1>5. Grows(p, q)
  BY <1>1, <1>4 DEF Grows
<1> QED
  BY <1>2, <1>4, <1>5 DEF here, q

LEMMA OneItem ==
  ASSUME NEW x \in Entries
  PROVE  /\ <<x>> \in Seq(Entries) /\ Len(<<x>>) = 1 /\ <<x>>[1] = x /\ Apart(<<x>>)
BY DEF Apart

LEMMA MoveKeeps ==
  ASSUME NEW p, Good(p), NEW o \in Ops, Plan!IsItem(p, o.id, FALSE), o.before # o.id,
         Plan!Anchor(Plan!Without(p, o.id), o.before),
         NEW q, q = Plan!Move(p, o).plan
  PROVE  Grows(p, q) /\ Steady(p.todos, q.todos)
<1> DEFINE rest == Plan!Without(p, o.id)
           item == p.todos[Plan!Index(p, o.id)]
           here == Plan!Position(rest, o.before)
<1>1. /\ Grows(p, rest) /\ Steady(p.todos, rest.todos)
      /\ rest.sequence = p.sequence
      /\ \A i \in 1 .. Len(rest.todos) :
           rest.todos[i].id # o.id /\ rest.todos[i].text # item.text
  BY WithoutOpen
<1>2. /\ item.id = o.id /\ ~item.done /\ item \in Entries
      /\ Plan!Index(p, o.id) \in 1 .. Len(p.todos)
  BY ItemIs
<1>3. item.id \in 1 .. p.sequence /\ p.sequence \in Nat
  BY <1>2 DEF Good, Plans
<1>4. q = Plan!Put(rest, here, <<item>>)
  BY DEF Plan!Move, Plan!Applied
<1>5. Plan!Anchor(rest, o.before)
  OBVIOUS
<1> HIDE DEF rest, item, here
<1>6. here \in 1 .. Len(rest.todos) + 1 /\ \A i \in here .. Len(rest.todos) : ~rest.todos[i].done
  BY <1>1, <1>5, PositionIs DEF Grows, here
<1>7. q = [rest EXCEPT !.todos = Plan!Splice(rest.todos, here, <<item>>), !.sequence = rest.sequence]
  BY <1>1, <1>4 DEF Plan!Put, Grows, Good, Plans
<1>8. \A i \in 1 .. Len(<<item>>) :
        /\ ~<<item>>[i].done /\ <<item>>[i].id \in 1 .. rest.sequence
        /\ \A j \in 1 .. Len(rest.todos) : /\ rest.todos[j].id # <<item>>[i].id
                                           /\ rest.todos[j].text # <<item>>[i].text
  BY <1>1, <1>2, <1>3
<1> DEFINE new == <<item>>
<1>9. new \in Seq(Entries) /\ Apart(new)
  BY <1>2, OneItem
<1>10. Good(rest) /\ rest.sequence \in Nat /\ rest.sequence <= rest.sequence
  BY <1>1, <1>3 DEF Grows
<1> HIDE DEF new
<1>11. Good(q) /\ Steady(rest.todos, q.todos)
  <2>1. \A i \in 1 .. Len(new) :
          /\ ~new[i].done /\ new[i].id \in 1 .. rest.sequence
          /\ \A j \in 1 .. Len(rest.todos) : /\ rest.todos[j].id # new[i].id
                                             /\ rest.todos[j].text # new[i].text
    BY <1>8 DEF new
  <2>2. q = [rest EXCEPT !.todos = Plan!Splice(rest.todos, here, new), !.sequence = rest.sequence]
    BY <1>7 DEF new
  <2>3. Puts(rest, q, here, new, rest.sequence)
    BY <1>6, <1>9, <1>10, <2>1, <2>2 DEF Puts
  <2> QED
    BY <1>10, <2>3, PutKeeps
<1>12. q.sequence = rest.sequence /\ q.total = rest.total
  BY <1>7, <1>10 DEF Good, Plans
<1> QED
  BY <1>1, <1>11, <1>12, SteadyChains DEF Grows

LEMMA CompleteKeeps ==
  ASSUME NEW p, Good(p), NEW o \in Ops, Plan!IsItem(p, o.id, FALSE), Plan!Ahead(p, o.id) = {},
         ~Plan!IsItem(p, o.id, TRUE),
         NEW q, q = Plan!Complete(p, o).plan
  PROVE  Grows(p, q) /\ Adds(p.todos, q.todos, o.id)
<1> DEFINE here == Plan!Index(p, o.id)
           s == p.todos
           t == [s EXCEPT ![here].done = TRUE]
<1>1. /\ p \in Plans /\ s \in Seq(Entries) /\ Len(s) \in Nat /\ p.sequence \in Nat /\ p.total \in Nat
      /\ \A i \in 1 .. Len(s) : s[i].id \in 1 .. p.sequence
      /\ Apart(s) /\ DoneFirst(s)
  BY DEF Good, Plans
<1>2. /\ here \in 1 .. Len(s) /\ ~s[here].done /\ s[here] \in Entries /\ s[here].id = o.id
      /\ \A i \in 1 .. Len(s) : s[i].id = o.id => i = here
  BY ItemIs
<1>3. q = [p EXCEPT !.todos = t, !.total = p.total + 1]
  BY <1>1 DEF Plan!Complete, Plan!Applied, Plans
<1>4. \A j \in 1 .. here - 1 : s[j].done
  BY DEF Plan!Ahead
<1> HIDE DEF here
<1>5. [s[here] EXCEPT !.done = TRUE] \in Entries
  BY <1>2 DEF Entries
<1>6. t \in Seq(Entries) /\ Len(t) = Len(s)
  <2> DEFINE x == [s[here] EXCEPT !.done = TRUE]
  <2>1. x \in Entries /\ t = [s EXCEPT ![here] = x]
    BY <1>5
  <2>2. s \in Seq(Entries)
    BY <1>1
  <2>3. here \in 1 .. Len(s)
    BY <1>2
  <2> HIDE DEF x, s, t
  <2> QED
    BY <2>1, <2>2, <2>3
<1>7. t[here] = [s[here] EXCEPT !.done = TRUE] /\ \A i \in 1 .. Len(s) : i # here => t[i] = s[i]
  <2> DEFINE x == [s[here] EXCEPT !.done = TRUE]
  <2>1. s \in Seq(Entries)
    BY <1>1
  <2>2. here \in 1 .. Len(s)
    BY <1>2
  <2>3. t = [s EXCEPT ![here] = x]
    OBVIOUS
  <2> HIDE DEF s, x, t
  <2>4. t[here] = x /\ \A i \in 1 .. Len(s) : i # here => t[i] = s[i]
    BY <2>1, <2>2, <2>3
  <2> QED
    BY <2>4 DEF x
<1>8. q \in Plans /\ q.todos = t /\ q.sequence = p.sequence /\ q.total = p.total + 1
  <2>1. t \in Seq(Entries)
    BY <1>6
  <2>2. p.total + 1 \in Nat
    BY <1>1
  <2>3. p \in Plans
    BY <1>1
  <2> HIDE DEF t
  <2> QED
    BY <1>3, <2>1, <2>2, <2>3 DEF Plans
<1> HIDE DEF t
<1>9. \A i \in 1 .. Len(s) : /\ t[i].id = s[i].id /\ t[i].text = s[i].text
                             /\ i = here => t[i].done = TRUE
                             /\ i # here => t[i].done = s[i].done
  BY <1>2, <1>7 DEF Entries
<1> HIDE DEF s
<1>10. Apart(t)
  BY <1>1, <1>6, <1>9 DEF Apart
<1>11. DoneFirst(t)
  BY <1>1, <1>2, <1>4, <1>6, <1>9 DEF DoneFirst
<1>12. \A i \in 1 .. Len(t) : t[i].id \in 1 .. q.sequence
  BY <1>1, <1>6, <1>8, <1>9
<1>13. Adds(s, t, o.id)
  <2>1. ASSUME NEW i \in 1 .. Len(s)
        PROVE  t[i].done <=> s[i].done \/ s[i].id = o.id
    <3>1. CASE i = here
      BY <1>2, <1>9, <3>1
    <3>2. CASE i # here
      BY <1>2, <1>9, <3>2
    <3> QED
      BY <3>1, <3>2
  <2> QED
    BY <1>2, <1>6, <1>9, <2>1 DEF Adds
<1> QED
  BY <1>1, <1>8, <1>10, <1>11, <1>12, <1>13 DEF Grows, Good, s

LEMMA ReopenKeeps ==
  ASSUME NEW p, Good(p), NEW o \in Ops, Plan!IsItem(p, o.id, TRUE),
         NEW q, q = Plan!Reopen(p, o).plan
  PROVE  Grows(p, q) /\ Takes(p.todos, q.todos, o.id)
<1> DEFINE rest == Plan!Without(p, o.id)
           from == Plan!Index(p, o.id)
           item == [p.todos[from] EXCEPT !.done = FALSE]
           to == IF Plan!Open(rest) = {} THEN Len(rest.todos) + 1 ELSE Plan!Min(Plan!Open(rest))
<1>1. /\ from \in 1 .. Len(p.todos) /\ p.todos[from].done /\ p.todos[from] \in Entries
      /\ p.todos[from].id = o.id
  BY ItemIs
<1>2. p.sequence \in Nat /\ p.total \in Nat /\ p.todos[from].id \in 1 .. p.sequence
  BY <1>1 DEF Good, Plans
<1>3. rest = [p EXCEPT !.todos = Plan!RemoveAt(p.todos, from)]
  BY DEF Plan!Without
<1>4. rest.todos = Plan!RemoveAt(p.todos, from)
  BY <1>3 DEF Good, Plans
<1>5. q = Plan!Put(rest, to, <<item>>)
  BY DEF Plan!Reopen, Plan!Applied
<1> HIDE DEF rest, from
<1>6. /\ Good(rest) /\ rest.sequence = p.sequence /\ rest.total = p.total
      /\ Len(rest.todos) = Len(p.todos) - 1
      /\ \A i \in 1 .. Len(rest.todos) :
           rest.todos[i].id # p.todos[from].id /\ rest.todos[i].text # p.todos[from].text
  <2>1. Removes(p, rest, from)
    BY <1>1, <1>3 DEF Removes
  <2> QED
    BY <2>1, WithoutKeeps
<1>7. item \in Entries /\ ~item.done /\ item.id = o.id /\ item.text = p.todos[from].text
  BY <1>1 DEF Entries
<1>8. rest \in Plans /\ rest.todos \in Seq(Entries) /\ Len(rest.todos) \in Nat
  BY <1>6 DEF Good, Plans
<1>9. to \in 1 .. Len(rest.todos) + 1 /\ \A i \in to .. Len(rest.todos) : ~rest.todos[i].done
  <2>1. Plan!Open(rest) = {i \in 1 .. Len(rest.todos) : ~rest.todos[i].done}
    BY <1>8 DEF Plan!Open
  <2>2. CASE Plan!Open(rest) = {}
    BY <1>8, <2>2
  <2>3. CASE Plan!Open(rest) # {}
    <3>1. Plan!Open(rest) \in SUBSET Nat
      BY <2>1
    <3>2. to = Plan!Min(Plan!Open(rest)) /\ to \in Plan!Open(rest)
      BY <2>3, <3>1, MinIs
    <3>3. to \in 1 .. Len(rest.todos) /\ ~rest.todos[to].done
      BY <2>1, <3>2
    <3> HIDE DEF to
    <3> QED
      BY <1>6, <1>8, <3>3, OpenOnward
  <2> QED
    BY <2>2, <2>3
<1> DEFINE new == <<item>>
<1> HIDE DEF item, to
<1>10. q = [rest EXCEPT !.todos = Plan!Splice(rest.todos, to, new), !.sequence = rest.sequence]
  BY <1>5, <1>8 DEF Plan!Put, Plans
<1>11. \A i \in 1 .. Len(new) :
         /\ ~new[i].done /\ new[i].id \in 1 .. rest.sequence
         /\ \A j \in 1 .. Len(rest.todos) : /\ rest.todos[j].id # new[i].id
                                            /\ rest.todos[j].text # new[i].text
  BY <1>1, <1>2, <1>6, <1>7
<1>12. new \in Seq(Entries) /\ Apart(new)
  BY <1>7, OneItem
<1> HIDE DEF new
<1>13. Good(q) /\ Steady(rest.todos, q.todos)
  <2>1. rest.sequence \in Nat /\ rest.sequence <= rest.sequence
    BY <1>2, <1>6
  <2>2. Puts(rest, q, to, new, rest.sequence)
    BY <1>9, <1>10, <1>11, <1>12, <2>1 DEF Puts
  <2> QED
    BY <1>6, <2>2, PutKeeps
<1>14. q.sequence = p.sequence /\ q.total = p.total
  BY <1>6, <1>8, <1>10 DEF Plans
<1>15. Takes(p.todos, q.todos, o.id)
  BY <1>1, <1>4, <1>13 DEF Takes
<1> QED
  BY <1>2, <1>13, <1>14, <1>15 DEF Grows

LEMMA SteadySelf ==
  ASSUME NEW p, Good(p)
  PROVE  Grows(p, p) /\ Steady(p.todos, p.todos)
BY DEF Grows, Good, Plans, Steady

LEMMA AddsSelf ==
  ASSUME NEW p, Good(p), NEW id, Plan!IsItem(p, id, TRUE)
  PROVE  Adds(p.todos, p.todos, id)
<1>1. /\ Plan!Index(p, id) \in 1 .. Len(p.todos) /\ p.todos[Plan!Index(p, id)].id = id
      /\ p.todos[Plan!Index(p, id)].done
      /\ \A i \in 1 .. Len(p.todos) : p.todos[i].id = id => i = Plan!Index(p, id)
  BY ItemIs
<1>2. \A i \in 1 .. Len(p.todos) : p.todos[i].id = id => p.todos[i].done
  BY <1>1
<1> QED
  BY <1>1, <1>2 DEF Adds

\* What an operation that is applied does to a plan, and when one waits.
LEMMA OperationKeeps ==
  ASSUME NEW p, Good(p), NEW o, Able(o), NEW r, r = Plan!Apply(p, o)
  PROVE  /\ r.code \in {"ok", "refused", "out_of_order"}
         /\ r.code # "ok" => r.plan = p
         /\ r.code = "out_of_order" => o.op = "complete" /\ Plan!IsItem(p, o.id, FALSE)
         /\ Grows(p, r.plan)
         /\ r.code = "ok" =>
              /\ o.op = "complete" => Adds(p.todos, r.plan.todos, o.id)
              /\ o.op = "reopen" => Takes(p.todos, r.plan.todos, o.id)
              /\ o.op \notin {"complete", "reopen"} => Steady(p.todos, r.plan.todos)
<1> USE DEF Plan!Applied, Plan!Refused
<1>0. o \in Ops /\ Grows(p, p) /\ Steady(p.todos, p.todos)
  BY SteadySelf DEF Able
<1>1. CASE o.op = "insert"
  <2>1. r = Plan!Insert(p, o)
    BY <1>1 DEF Plan!Apply
  <2>2. CASE Plan!Anchor(p, o.before) /\ Plan!Unique(p, o.texts, 0)
    <3>1. Grows(p, r.plan) /\ Steady(p.todos, r.plan.todos)
      BY <1>0, <2>1, <2>2, InsertKeeps
    <3>2. r.code = "ok"
      BY <2>1, <2>2 DEF Plan!Insert
    <3> QED
      BY <1>1, <3>1, <3>2
  <2>3. CASE ~(Plan!Anchor(p, o.before) /\ Plan!Unique(p, o.texts, 0))
    <3>1. r = [code |-> "refused", plan |-> p]
      BY <2>1, <2>3 DEF Plan!Insert
    <3> QED
      BY <1>0, <3>1
  <2> QED
    BY <2>2, <2>3
<1>2. CASE o.op = "update"
  <2>1. r = Plan!Update(p, o)
    BY <1>2 DEF Plan!Apply
  <2>2. CASE Plan!IsItem(p, o.id, FALSE) /\ Plan!Unique(p, o.texts, o.id)
    <3>1. Grows(p, r.plan) /\ Steady(p.todos, r.plan.todos)
      BY <1>2, <2>1, <2>2, UpdateKeeps
    <3>2. r.code = "ok"
      BY <2>1, <2>2 DEF Plan!Update
    <3> QED
      BY <1>2, <3>1, <3>2
  <2>3. CASE ~(Plan!IsItem(p, o.id, FALSE) /\ Plan!Unique(p, o.texts, o.id))
    <3>1. r = [code |-> "refused", plan |-> p]
      BY <2>1, <2>3 DEF Plan!Update
    <3> QED
      BY <1>0, <3>1
  <2> QED
    BY <2>2, <2>3
<1>3. CASE o.op = "split"
  <2> DEFINE May == /\ Plan!IsItem(p, o.id, FALSE) /\ Len(o.texts) > 1
                    /\ Plan!Unique(p, o.texts, o.id)
                    /\ p.todos[Plan!Index(p, o.id)].text \notin Plan!Range(o.texts)
  <2>1. r = Plan!Split(p, o)
    BY <1>3 DEF Plan!Apply
  <2>2. CASE May
    <3>1. Grows(p, r.plan) /\ Steady(p.todos, r.plan.todos)
      BY <1>0, <2>1, <2>2, SplitKeeps
    <3>2. r.code = "ok"
      BY <2>1, <2>2 DEF Plan!Split
    <3> QED
      BY <1>3, <3>1, <3>2
  <2>3. CASE ~May
    <3>1. r = [code |-> "refused", plan |-> p]
      BY <2>1, <2>3 DEF Plan!Split
    <3> QED
      BY <1>0, <3>1
  <2> QED
    BY <2>2, <2>3
<1>4. CASE o.op = "move"
  <2> DEFINE may == Plan!Anchor(Plan!Without(p, o.id), o.before)
  <2>1. r = Plan!Move(p, o)
    BY <1>4 DEF Plan!Apply
  <2>2. CASE Plan!IsItem(p, o.id, FALSE) /\ o.before # o.id /\ may
    <3>1. Grows(p, r.plan) /\ Steady(p.todos, r.plan.todos)
      BY <1>0, <2>1, <2>2, MoveKeeps
    <3>2. r.code = "ok"
      BY <2>1, <2>2 DEF Plan!Move
    <3> QED
      BY <1>4, <3>1, <3>2
  <2>3. CASE Plan!IsItem(p, o.id, FALSE) /\ o.before = o.id
    <3>1. r = [code |-> "ok", plan |-> p]
      BY <2>1, <2>3 DEF Plan!Move
    <3> QED
      BY <1>0, <1>4, <3>1
  <2>4. CASE ~Plan!IsItem(p, o.id, FALSE) \/ (o.before # o.id /\ ~may)
    <3>1. r = [code |-> "refused", plan |-> p]
      BY <2>1, <2>4 DEF Plan!Move
    <3> QED
      BY <1>0, <3>1
  <2> QED
    BY <2>2, <2>3, <2>4
<1>5. CASE o.op = "remove"
  <2>1. r = Plan!Drop(p, o)
    BY <1>5 DEF Plan!Apply
  <2>2. CASE Plan!IsItem(p, o.id, FALSE)
    <3>1. r = [code |-> "ok", plan |-> Plan!Without(p, o.id)]
      BY <2>1, <2>2 DEF Plan!Drop
    <3>2. r.plan = Plan!Without(p, o.id) /\ r.code = "ok"
      BY <3>1
    <3>3. Grows(p, Plan!Without(p, o.id)) /\ Steady(p.todos, Plan!Without(p, o.id).todos)
      BY <2>2, WithoutOpen
    <3> QED
      BY <1>5, <3>2, <3>3
  <2>3. CASE ~Plan!IsItem(p, o.id, FALSE)
    <3>1. r = [code |-> "refused", plan |-> p]
      BY <2>1, <2>3 DEF Plan!Drop
    <3> QED
      BY <1>0, <3>1
  <2> QED
    BY <2>2, <2>3
<1>6. CASE o.op = "complete"
  <2>1. r = Plan!Complete(p, o)
    BY <1>6 DEF Plan!Apply
  <2>2. CASE Plan!IsItem(p, o.id, TRUE)
    <3>1. r = [code |-> "ok", plan |-> p]
      BY <2>1, <2>2 DEF Plan!Complete
    <3>2. r.plan = p /\ r.code = "ok"
      BY <3>1
    <3>3. Adds(p.todos, r.plan.todos, o.id)
      BY <2>2, <3>2, AddsSelf
    <3> QED
      BY <1>0, <1>6, <3>2, <3>3
  <2>3. CASE ~Plan!IsItem(p, o.id, TRUE) /\ ~Plan!IsItem(p, o.id, FALSE)
    <3>1. r = [code |-> "refused", plan |-> p]
      BY <2>1, <2>3 DEF Plan!Complete
    <3> QED
      BY <1>0, <3>1
  <2>4. CASE ~Plan!IsItem(p, o.id, TRUE) /\ Plan!IsItem(p, o.id, FALSE) /\ Plan!Ahead(p, o.id) # {}
    <3>1. r = [code |-> "out_of_order", plan |-> p]
      BY <2>1, <2>4 DEF Plan!Complete
    <3>2. r.plan = p /\ r.code = "out_of_order"
      BY <3>1
    <3> QED
      BY <1>0, <1>6, <2>4, <3>2
  <2>5. CASE ~Plan!IsItem(p, o.id, TRUE) /\ Plan!IsItem(p, o.id, FALSE) /\ Plan!Ahead(p, o.id) = {}
    <3>1. Grows(p, r.plan) /\ Adds(p.todos, r.plan.todos, o.id)
      BY <1>0, <2>1, <2>5, CompleteKeeps
    <3>2. r.code = "ok"
      BY <2>1, <2>5 DEF Plan!Complete
    <3> QED
      BY <1>6, <3>1, <3>2
  <2> QED
    BY <2>2, <2>3, <2>4, <2>5
<1>7. CASE o.op = "reopen"
  <2>1. r = Plan!Reopen(p, o)
    BY <1>7 DEF Plan!Apply
  <2>2. CASE Plan!IsItem(p, o.id, TRUE)
    <3>1. Grows(p, r.plan) /\ Takes(p.todos, r.plan.todos, o.id)
      BY <1>0, <2>1, <2>2, ReopenKeeps
    <3>2. r.code = "ok"
      BY <2>1, <2>2 DEF Plan!Reopen
    <3> QED
      BY <1>7, <3>1, <3>2
  <2>3. CASE ~Plan!IsItem(p, o.id, TRUE)
    <3>1. r = [code |-> "refused", plan |-> p]
      BY <2>1, <2>3 DEF Plan!Reopen
    <3> QED
      BY <1>0, <3>1
  <2> QED
    BY <2>2, <2>3
<1> QED
  BY <1>0, <1>1, <1>2, <1>3, <1>4, <1>5, <1>6, <1>7 DEF Ops, OpNames

-----------------------------------------------------------------------------
\* What stays of the order in which items were completed: the items of U,
\* which were completed in p0 and were not reopened since, still come first,
\* and as they stood.
Ranked(p0, U, q) ==
  /\ U \subseteq Plan!DoneIds(q)
  /\ \A i, j \in 1 .. Len(q.todos) :
       i < j /\ q.todos[j].id \in U
         => q.todos[i].id \in U /\ Plan!Precedes(p0, q.todos[i].id, q.todos[j].id)

LEMMA DoneIdsIs ==
  ASSUME NEW p, Good(p)
  PROVE  /\ \A i \in 1 .. Len(p.todos) : p.todos[i].id \in Plan!DoneIds(p) <=> p.todos[i].done
         /\ \A id \in Plan!DoneIds(p) : \E i \in 1 .. Len(p.todos) : p.todos[i].id = id /\ p.todos[i].done
<1>1. p.todos \in Seq(Entries)
  BY DEF Good, Plans
<1>2. Plan!Done(p) = {i \in 1 .. Len(p.todos) : p.todos[i].done}
  BY <1>1 DEF Plan!Done
<1>3. \A id \in Plan!DoneIds(p) : \E i \in 1 .. Len(p.todos) : p.todos[i].id = id /\ p.todos[i].done
  BY <1>2 DEF Plan!DoneIds
<1>4. ASSUME NEW i \in 1 .. Len(p.todos), p.todos[i].done
      PROVE  p.todos[i].id \in Plan!DoneIds(p)
  BY <1>2, <1>4 DEF Plan!DoneIds
<1>5. ASSUME NEW i \in 1 .. Len(p.todos), p.todos[i].id \in Plan!DoneIds(p)
      PROVE  p.todos[i].done
  <2>1. PICK j \in 1 .. Len(p.todos) : p.todos[j].id = p.todos[i].id /\ p.todos[j].done
    BY <1>3, <1>5
  <2>2. j = i
    BY <2>1 DEF Good, Apart
  <2> QED
    BY <2>1, <2>2
<1> QED
  BY <1>3, <1>4, <1>5

LEMMA RankedFirst ==
  ASSUME NEW p, Good(p)
  PROVE  Ranked(p, Plan!DoneIds(p), p)
<1>1. p.todos \in Seq(Entries)
  BY DEF Good, Plans
<1>2. ASSUME NEW i \in 1 .. Len(p.todos), NEW j \in 1 .. Len(p.todos),
             i < j, p.todos[j].id \in Plan!DoneIds(p)
      PROVE  /\ p.todos[i].id \in Plan!DoneIds(p)
             /\ Plan!Precedes(p, p.todos[i].id, p.todos[j].id)
  <2>1. p.todos[j].done
    BY <1>2, DoneIdsIs
  <2>2. p.todos[i].done
    BY <1>2, <2>1 DEF Good, DoneFirst
  <2>3. p.todos[i].id \in Plan!DoneIds(p)
    BY <2>2, DoneIdsIs
  <2>4. i \in DOMAIN p.todos /\ j \in DOMAIN p.todos
    BY <1>1
  <2> QED
    BY <1>2, <2>3, <2>4 DEF Plan!Precedes
<1> QED
  BY <1>2 DEF Ranked

LEMMA RankedSteady ==
  ASSUME NEW p0, NEW U, NEW q, NEW r, Good(q), Good(r), Steady(q.todos, r.todos), Ranked(p0, U, q)
  PROVE  Plan!DoneIds(r) = Plan!DoneIds(q) /\ Ranked(p0, U, r)
<1>1. ASSUME NEW id \in Plan!DoneIds(q)
      PROVE  id \in Plan!DoneIds(r)
  <2>1. PICK i \in 1 .. Len(q.todos) : q.todos[i].id = id /\ q.todos[i].done
    BY DoneIdsIs
  <2>2. i \in 1 .. Len(r.todos) /\ r.todos[i] = q.todos[i]
    BY <2>1 DEF Steady
  <2> QED
    BY <2>1, <2>2, DoneIdsIs
<1>2. ASSUME NEW id \in Plan!DoneIds(r)
      PROVE  id \in Plan!DoneIds(q)
  <2>1. PICK i \in 1 .. Len(r.todos) : r.todos[i].id = id /\ r.todos[i].done
    BY DoneIdsIs
  <2>2. i \in 1 .. Len(q.todos) /\ r.todos[i] = q.todos[i]
    BY <2>1 DEF Steady
  <2> QED
    BY <2>1, <2>2, DoneIdsIs
<1>3. Plan!DoneIds(r) = Plan!DoneIds(q)
  BY <1>1, <1>2
<1>4. ASSUME NEW i \in 1 .. Len(r.todos), NEW j \in 1 .. Len(r.todos), i < j, r.todos[j].id \in U
      PROVE  r.todos[i].id \in U /\ Plan!Precedes(p0, r.todos[i].id, r.todos[j].id)
  <2>1. r.todos[j].id \in Plan!DoneIds(r)
    BY <1>3, <1>4 DEF Ranked
  <2>2. r.todos[j].done
    BY <2>1, DoneIdsIs
  <2>3. r.todos[i].done
    BY <1>4, <2>2 DEF Good, DoneFirst
  <2>4. /\ j \in 1 .. Len(q.todos) /\ r.todos[j] = q.todos[j]
        /\ i \in 1 .. Len(q.todos) /\ r.todos[i] = q.todos[i]
    BY <2>2, <2>3 DEF Steady
  <2> QED
    BY <1>4, <2>4 DEF Ranked
<1> QED
  BY <1>3, <1>4 DEF Ranked

LEMMA RankedAdds ==
  ASSUME NEW p0, NEW U, NEW q, NEW r, NEW id,
         Good(q), Good(r), Adds(q.todos, r.todos, id), Ranked(p0, U, q)
  PROVE  Plan!DoneIds(r) = Plan!DoneIds(q) \cup {id} /\ Ranked(p0, U, r)
<1>1. /\ Len(r.todos) = Len(q.todos)
      /\ \A i \in 1 .. Len(q.todos) : r.todos[i].id = q.todos[i].id
  BY DEF Adds
<1>2. ASSUME NEW x \in Plan!DoneIds(q) \cup {id}
      PROVE  x \in Plan!DoneIds(r)
  <2>1. PICK i \in 1 .. Len(q.todos) : q.todos[i].id = x /\ r.todos[i].done
    <3>1. CASE x \in Plan!DoneIds(q)
      <4>1. PICK i \in 1 .. Len(q.todos) : q.todos[i].id = x /\ q.todos[i].done
        BY <3>1, DoneIdsIs
      <4> QED
        BY <4>1 DEF Adds
    <3>2. CASE x = id
      BY <3>2 DEF Adds
    <3> QED
      BY <3>1, <3>2
  <2> QED
    BY <1>1, <2>1, DoneIdsIs
<1>3. ASSUME NEW x \in Plan!DoneIds(r)
      PROVE  x \in Plan!DoneIds(q) \cup {id}
  <2>1. PICK i \in 1 .. Len(r.todos) : r.todos[i].id = x /\ r.todos[i].done
    BY DoneIdsIs
  <2>2. q.todos[i].id = x /\ (q.todos[i].done \/ q.todos[i].id = id)
    BY <1>1, <2>1 DEF Adds
  <2>3. CASE q.todos[i].done
    BY <1>1, <2>2, <2>3, DoneIdsIs
  <2> QED
    BY <2>2, <2>3
<1>4. Plan!DoneIds(r) = Plan!DoneIds(q) \cup {id}
  BY <1>2, <1>3
<1> QED
  BY <1>1, <1>4 DEF Ranked

LEMMA RankedTakes ==
  ASSUME NEW p0, NEW U, NEW q, NEW r, NEW id,
         Good(q), Good(r), Takes(q.todos, r.todos, id), Ranked(p0, U, q)
  PROVE  /\ Plan!DoneIds(r) = Plan!DoneIds(q) \ {id} /\ Ranked(p0, U \ {id}, r)
         /\ id \in Plan!DoneIds(q)
<1>1. PICK here \in 1 .. Len(q.todos) :
        q.todos[here].id = id /\ q.todos[here].done /\ Steady(Plan!RemoveAt(q.todos, here), r.todos)
  BY DEF Takes
<1>2. id \in Plan!DoneIds(q)
  BY <1>1, DoneIdsIs
<1> DEFINE m == [q EXCEPT !.todos = Plan!RemoveAt(q.todos, here)]
<1>3. m.todos = Plan!RemoveAt(q.todos, here)
  BY DEF Good, Plans
<1>4. Removes(q, m, here)
  BY DEF Removes
<1> HIDE DEF m
<1>5. /\ Good(m) /\ Len(m.todos) = Len(q.todos) - 1
      /\ \A i \in 1 .. Len(m.todos) :
           /\ i < here => m.todos[i] = q.todos[i]
           /\ i >= here => m.todos[i] = q.todos[i + 1]
           /\ m.todos[i].id # id
  BY <1>1, <1>4, WithoutKeeps
<1>6. here \in Nat /\ Len(q.todos) \in Nat
  BY DEF Good, Plans
<1> DEFINE was(i) == IF i < here THEN i ELSE i + 1
<1>7. ASSUME NEW i \in 1 .. Len(m.todos)
      PROVE  was(i) \in 1 .. Len(q.todos) /\ m.todos[i] = q.todos[was(i)]
  <2>1. CASE i < here
    BY <1>5, <1>6, <2>1
  <2>2. CASE i >= here
    BY <1>5, <1>6, <2>2
  <2> QED
    BY <1>6, <2>1, <2>2
<1>8. ASSUME NEW i \in 1 .. Len(m.todos), NEW j \in 1 .. Len(m.todos), i < j
      PROVE  was(i) < was(j)
  BY <1>6, <1>8
<1>9. ASSUME NEW k \in 1 .. Len(q.todos), q.todos[k].id # id
      PROVE  \E i \in 1 .. Len(m.todos) : was(i) = k
  <2>1. k # here
    BY <1>1, <1>9
  <2>2. CASE k < here
    <3>1. k \in 1 .. Len(m.todos) /\ was(k) = k
      BY <1>5, <1>6, <2>2
    <3> QED
      BY <3>1
  <2>3. CASE k > here
    <3>1. k - 1 \in 1 .. Len(m.todos) /\ was(k - 1) = k
      BY <1>5, <1>6, <2>3
    <3> QED
      BY <3>1
  <2> QED
    BY <1>6, <2>1, <2>2, <2>3
<1> HIDE DEF was
<1>10. ASSUME NEW x \in Plan!DoneIds(m)
       PROVE  x \in Plan!DoneIds(q) \ {id}
  <2>1. PICK i \in 1 .. Len(m.todos) : m.todos[i].id = x /\ m.todos[i].done
    BY <1>5, DoneIdsIs
  <2> QED
    BY <1>5, <1>7, <2>1, DoneIdsIs
<1>11. ASSUME NEW x \in Plan!DoneIds(q) \ {id}
       PROVE  x \in Plan!DoneIds(m)
  <2>1. PICK k \in 1 .. Len(q.todos) : q.todos[k].id = x /\ q.todos[k].done
    BY DoneIdsIs
  <2>2. PICK i \in 1 .. Len(m.todos) : was(i) = k
    BY <1>9, <2>1
  <2>3. m.todos[i].id = x /\ m.todos[i].done
    BY <1>7, <2>1, <2>2
  <2> QED
    BY <1>5, <2>3, DoneIdsIs
<1>12. Plan!DoneIds(m) = Plan!DoneIds(q) \ {id}
  BY <1>10, <1>11
<1>13. ASSUME NEW i \in 1 .. Len(m.todos), NEW j \in 1 .. Len(m.todos), i < j, m.todos[j].id \in U \ {id}
       PROVE  m.todos[i].id \in U \ {id} /\ Plan!Precedes(p0, m.todos[i].id, m.todos[j].id)
  <2>1. was(i) < was(j) /\ q.todos[was(j)].id \in U
    BY <1>7, <1>8, <1>13
  <2>2. q.todos[was(i)].id \in U /\ Plan!Precedes(p0, q.todos[was(i)].id, q.todos[was(j)].id)
    BY <1>7, <2>1 DEF Ranked
  <2> QED
    BY <1>5, <1>7, <2>2
<1>14. Ranked(p0, U \ {id}, m)
  BY <1>12, <1>13 DEF Ranked
<1>15. Plan!DoneIds(r) = Plan!DoneIds(m) /\ Ranked(p0, U \ {id}, r)
  BY <1>1, <1>3, <1>5, <1>14, RankedSteady
<1> QED
  BY <1>2, <1>12, <1>15

-----------------------------------------------------------------------------
\* A batch under way: what it did so far, and the completions that wait.
Finals == {o \in Ops : o.op = "complete"}
Tries == {s \in [plan : Plans, waiting : Seq(Finals), failed : BOOLEAN] : Good(s.plan)}

\* C is what the batch will report as completed, U the items completed before
\* it that it left alone.
Live(p0, C, U, s) ==
  \/ s.failed
  \/ /\ p0.sequence <= s.plan.sequence /\ p0.total <= s.plan.total
     /\ Ranked(p0, U, s.plan) /\ Plan!DoneIds(s.plan) \subseteq U \cup C
     /\ \A i \in 1 .. Len(s.waiting) : s.waiting[i].id \in C
     /\ \A id \in C : id \in Plan!DoneIds(s.plan)
                        \/ \E i \in 1 .. Len(s.waiting) : s.waiting[i].id = id
\* Every completion that waits still has to.
Quiet(s) ==
  \/ s.failed
  \/ \A i \in 1 .. Len(s.waiting) : Plan!Apply(s.plan, s.waiting[i]).code = "out_of_order"

LEMMA TryIs ==
  ASSUME NEW s \in Tries
  PROVE  /\ s.plan \in Plans /\ Good(s.plan) /\ s.waiting \in Seq(Finals) /\ s.failed \in BOOLEAN
         /\ Len(s.waiting) \in Nat /\ DOMAIN s.waiting = 1 .. Len(s.waiting)
         /\ s.plan.sequence \in Nat /\ s.plan.total \in Nat
         /\ \A i \in 1 .. Len(s.waiting) : s.waiting[i] \in Finals /\ Able(s.waiting[i])
<1>1. s.plan \in Plans /\ Good(s.plan) /\ s.failed \in BOOLEAN
  BY DEF Tries
<1>2. s.waiting \in Seq(Finals)
  BY DEF Tries
<1>3. \A i \in 1 .. Len(s.waiting) : s.waiting[i] \in Finals
  BY <1>2
<1>4. \A i \in 1 .. Len(s.waiting) : Able(s.waiting[i])
  BY <1>3 DEF Finals, Able
<1>5. s.plan.sequence \in Nat /\ s.plan.total \in Nat
  BY <1>1 DEF Plans
<1> QED
  BY <1>1, <1>2, <1>3, <1>4, <1>5

LEMMA ReadyIs ==
  ASSUME NEW s \in Tries
  PROVE  /\ Plan!Ready(s) \in SUBSET Nat /\ Plan!Ready(s) \subseteq 1 .. Len(s.waiting)
         /\ Plan!Ready(s) = {} =>
              \A i \in 1 .. Len(s.waiting) : Plan!Apply(s.plan, s.waiting[i]).code = "out_of_order"
BY TryIs DEF Plan!Ready

LEMMA FollowKeeps ==
  ASSUME NEW s \in Tries, ~s.failed, Plan!Ready(s) # {}, NEW p0 \in Plans, NEW C, NEW U
  PROVE  /\ Plan!Follow(s) \in Tries /\ Len(Plan!Follow(s).waiting) = Len(s.waiting) - 1
         /\ Live(p0, C, U, s) => Live(p0, C, U, Plan!Follow(s))
<1> DEFINE i == Plan!Min(Plan!Ready(s))
           w == s.waiting[i]
           r == Plan!Apply(s.plan, w)
           rest == Plan!RemoveAt(s.waiting, i)
           t == Plan!Follow(s)
<1>1. i \in Plan!Ready(s)
  BY ReadyIs, MinIs
<1>2. i \in 1 .. Len(s.waiting) /\ r.code # "out_of_order"
  BY <1>1, ReadyIs DEF Plan!Ready
<1>3. t = [plan |-> r.plan, waiting |-> rest, failed |-> r.code # "ok"]
  BY DEF Plan!Follow
<1> HIDE DEF i
<1>4. w \in Finals /\ Able(w) /\ Good(s.plan) /\ w.op = "complete"
  BY <1>2, TryIs DEF Finals
<1>5. s.waiting \in Seq(Finals) /\ Len(s.waiting) \in Nat
  BY TryIs
<1>6. /\ rest \in Seq(Finals) /\ Len(rest) = Len(s.waiting) - 1
      /\ \A k \in 1 .. Len(rest) :
           (k < i => rest[k] = s.waiting[k]) /\ (k >= i => rest[k] = s.waiting[k + 1])
  <2>1. s.waiting \in Seq(Finals)
    BY <1>5
  <2>2. i \in 1 .. Len(s.waiting)
    BY <1>2
  <2>3. rest = Plan!RemoveAt(s.waiting, i)
    OBVIOUS
  <2> HIDE DEF rest
  <2> QED
    BY <2>1, <2>2, <2>3, RemovedIs
<1> HIDE DEF w, rest, t
<1>7. /\ Grows(s.plan, r.plan)
      /\ r.code = "ok" => Adds(s.plan.todos, r.plan.todos, w.id)
  BY <1>4, OperationKeeps
<1> HIDE DEF r
<1>8. t \in Tries
  <2>1. r.plan \in Plans /\ Good(r.plan)
    BY <1>7 DEF Grows, Good
  <2>2. t.plan = r.plan /\ t \in [plan : Plans, waiting : Seq(Finals), failed : BOOLEAN]
    BY <1>3, <1>6, <2>1
  <2> QED
    BY <2>1, <2>2 DEF Tries
<1>9. t.plan = r.plan /\ t.waiting = rest /\ (t.failed <=> r.code # "ok")
  BY <1>3
<1>10. ASSUME Live(p0, C, U, s), r.code = "ok"
       PROVE  Live(p0, C, U, t)
  <2>1. /\ p0.sequence <= s.plan.sequence /\ p0.total <= s.plan.total
        /\ Ranked(p0, U, s.plan) /\ Plan!DoneIds(s.plan) \subseteq U \cup C
        /\ \A k \in 1 .. Len(s.waiting) : s.waiting[k].id \in C
        /\ \A id \in C : id \in Plan!DoneIds(s.plan)
                           \/ \E k \in 1 .. Len(s.waiting) : s.waiting[k].id = id
    BY <1>10 DEF Live
  <2>2. Good(r.plan) /\ Adds(s.plan.todos, r.plan.todos, w.id)
    BY <1>7, <1>10 DEF Grows
  <2>3. Plan!DoneIds(r.plan) = Plan!DoneIds(s.plan) \cup {w.id} /\ Ranked(p0, U, r.plan)
    BY <1>4, <2>1, <2>2, RankedAdds
  <2>4. p0.sequence <= r.plan.sequence /\ p0.total <= r.plan.total
    <3>1. /\ s.plan.sequence <= r.plan.sequence /\ s.plan.total <= r.plan.total
          /\ s.plan.sequence \in Nat /\ s.plan.total \in Nat
          /\ r.plan.sequence \in Nat /\ r.plan.total \in Nat
          /\ p0.sequence \in Nat /\ p0.total \in Nat
      BY <1>7, TryIs DEF Grows, Good, Plans
    <3> QED
      BY <2>1, <3>1
  <2>5. w.id \in C
    BY <1>2, <2>1 DEF w
  <2>6. \A k \in 1 .. Len(rest) : rest[k].id \in C
    <3> TAKE k \in 1 .. Len(rest)
    <3>1. CASE k < i
      BY <1>2, <1>5, <1>6, <2>1, <3>1
    <3>2. CASE k >= i
      BY <1>2, <1>5, <1>6, <2>1, <3>2
    <3> QED
      BY <1>2, <1>5, <1>6, <3>1, <3>2
  <2>7. ASSUME NEW id \in C, id \notin Plan!DoneIds(r.plan)
        PROVE  \E k \in 1 .. Len(rest) : rest[k].id = id
    <3>1. PICK k \in 1 .. Len(s.waiting) : s.waiting[k].id = id
      BY <2>1, <2>3, <2>7
    <3>2. k # i
      BY <2>3, <2>7, <3>1 DEF w
    <3>3. CASE k < i
      <4>1. k \in 1 .. Len(rest) /\ rest[k] = s.waiting[k]
        BY <1>2, <1>5, <1>6, <3>3
      <4> QED
        BY <3>1, <4>1
    <3>4. CASE k > i
      <4>1. k - 1 \in 1 .. Len(rest) /\ rest[k - 1] = s.waiting[k]
        BY <1>2, <1>5, <1>6, <3>4
      <4> QED
        BY <3>1, <4>1
    <3> QED
      BY <1>2, <1>5, <3>2, <3>3, <3>4
  <2>8. Plan!DoneIds(r.plan) \subseteq U \cup C
    BY <2>1, <2>3, <2>5
  <2> QED
    BY <1>9, <2>3, <2>4, <2>6, <2>7, <2>8 DEF Live
<1>11. Live(p0, C, U, s) => Live(p0, C, U, t)
  <2>1. CASE r.code = "ok"
    BY <1>10, <2>1
  <2>2. CASE r.code # "ok"
    BY <1>9, <2>2 DEF Live
  <2> QED
    BY <2>1, <2>2
<1> QED
  BY <1>6, <1>8, <1>9, <1>11 DEF t

Settles(s, f) ==
  f = [n \in 0 .. Len(s.waiting) |->
         IF n = 0 THEN s
         ELSE IF f[n - 1].failed \/ Plan!Ready(f[n - 1]) = {} THEN f[n - 1] ELSE Plan!Follow(f[n - 1])]

LEMMA SettleExists == ASSUME NEW s \in Tries PROVE \E f : Settles(s, f)
<1> DEFINE m == Len(s.waiting)
           after(y) == IF y.failed \/ Plan!Ready(y) = {} THEN y ELSE Plan!Follow(y)
           F == [n \in 1 .. m |-> [y \in Tries |-> after(y)]]
<1>1. m \in Nat
  BY TryIs
<1>2. ASSUME NEW y \in Tries
      PROVE  after(y) \in Tries
  <2>1. CASE y.failed \/ Plan!Ready(y) = {}
    BY <2>1
  <2>2. CASE ~(y.failed \/ Plan!Ready(y) = {})
    <3>1. s.plan \in Plans
      BY TryIs
    <3>2. Plan!Follow(y) \in Tries
      BY <2>2, <3>1, FollowKeeps
    <3> QED
      BY <2>2, <3>2
  <2> QED
    BY <2>1, <2>2
<1> HIDE DEF after
<1>3. \A n \in 1 .. m : \A y \in Tries : F[n][y] = after(y)
  OBVIOUS
<1>4. \A n \in 1 .. m : \A y \in Tries : F[n][y] \in Tries
  BY <1>2, <1>3
<1> HIDE DEF F, m
<1>5. PICK f : f = [n \in 0 .. m |-> IF n = 0 THEN s ELSE F[n][f[n - 1]]] /\ f \in [0 .. m -> Tries]
  BY <1>1, <1>4, Iterates
<1>6. ASSUME NEW n \in 0 .. m
      PROVE  f[n] = IF n = 0 THEN s ELSE after(f[n - 1])
  <2>1. CASE n = 0
    BY <1>5, <2>1
  <2>2. CASE n # 0
    <3>1. n \in 1 .. m /\ n - 1 \in 0 .. m
      BY <1>1, <2>2
    <3>2. f[n - 1] \in Tries
      BY <1>5, <3>1
    <3>3. f[n] = F[n][f[n - 1]]
      BY <1>5, <2>2
    <3> QED
      BY <1>3, <2>2, <3>1, <3>2, <3>3
  <2> QED
    BY <2>1, <2>2
<1>7. f = [n \in 0 .. m |-> f[n]]
  BY <1>5
<1>8. f = [n \in 0 .. m |-> IF n = 0 THEN s ELSE after(f[n - 1])]
  BY <1>6, <1>7
<1>9. Settles(s, f)
  BY <1>8 DEF Settles, m, after
<1> QED
  BY <1>9

LEMMA WaitingKeeps ==
  ASSUME NEW s \in Tries, NEW p0 \in Plans, NEW C, NEW U
  PROVE  /\ Plan!Settle(s) \in Tries /\ Quiet(Plan!Settle(s))
         /\ Live(p0, C, U, s) => Live(p0, C, U, Plan!Settle(s))
<1> DEFINE m == Len(s.waiting)
           f == CHOOSE x : Settles(s, x)
<1>1. Settles(s, f)
  BY SettleExists
<1>2. Plan!Settle(s) = f[m]
  BY DEF Plan!Settle, Settles
<1>3. m \in Nat
  BY TryIs
<1> HIDE DEF f
<1> DEFINE Fine(n) == /\ f[n] \in Tries /\ (Live(p0, C, U, s) => Live(p0, C, U, f[n]))
                      /\ \/ f[n].failed \/ Plan!Ready(f[n]) = {}
                         \/ Len(f[n].waiting) = m - n
           T == {n \in 0 .. m : Fine(n)}
<1>4. 0 \in T
  <2>1. f[0] = s
    BY <1>1, <1>3 DEF Settles
  <2> QED
    BY <1>3, <2>1
<1>5. ASSUME NEW n \in 1 .. m, n - 1 \in T
      PROVE  n \in T
  <2> DEFINE y == f[n - 1]
  <2>1. y \in Tries /\ (Live(p0, C, U, s) => Live(p0, C, U, y))
    BY <1>5
  <2>2. y.failed \/ Plan!Ready(y) = {} \/ Len(y.waiting) = m - (n - 1)
    BY <1>5
  <2>3. f[n] = IF y.failed \/ Plan!Ready(y) = {} THEN y ELSE Plan!Follow(y)
    <3>1. n \in 0 .. Len(s.waiting) /\ n # 0
      BY <1>3
    <3> QED
      BY <1>1, <3>1 DEF Settles
  <2> HIDE DEF y
  <2>4. CASE y.failed \/ Plan!Ready(y) = {}
    BY <2>1, <2>3, <2>4
  <2>5. CASE ~(y.failed \/ Plan!Ready(y) = {})
    <3>1. /\ Plan!Follow(y) \in Tries /\ Len(Plan!Follow(y).waiting) = Len(y.waiting) - 1
          /\ Live(p0, C, U, y) => Live(p0, C, U, Plan!Follow(y))
      BY <2>1, <2>5, FollowKeeps
    <3>2. Len(Plan!Follow(y).waiting) = m - n
      BY <1>3, <2>2, <2>5, <3>1
    <3>3. f[n] = Plan!Follow(y)
      BY <2>3, <2>5
    <3> QED
      BY <2>1, <3>1, <3>2, <3>3
  <2> QED
    BY <2>4, <2>5
<1>6. \A n \in 0 .. m : n \in T
  <2> HIDE DEF T, m
  <2> QED
    BY <1>3, <1>4, <1>5, Climb
<1>7. m \in T
  <2>1. m \in 0 .. m
    BY <1>3
  <2> HIDE DEF T, m
  <2> QED
    BY <1>6, <2>1
<1>8. f[m] \in Tries /\ (Live(p0, C, U, s) => Live(p0, C, U, f[m]))
  BY <1>7
<1>9. f[m].failed \/ Plan!Ready(f[m]) = {} \/ Len(f[m].waiting) = m - m
  BY <1>7
<1>10. Quiet(f[m])
  <2>1. CASE f[m].failed
    BY <2>1 DEF Quiet
  <2>2. CASE Plan!Ready(f[m]) = {}
    BY <1>8, <2>2, ReadyIs DEF Quiet
  <2>3. CASE Len(f[m].waiting) = m - m
    <3>1. Len(f[m].waiting) = 0
      BY <1>3, <2>3
    <3> QED
      BY <3>1 DEF Quiet
  <2> QED
    BY <1>9, <2>1, <2>2, <2>3
<1> QED
  BY <1>2, <1>8, <1>10

\* One completion that waited to the end is tried.
Tried(y, o) == [y EXCEPT !.plan = Plan!Apply(y.plan, o).plan,
                         !.failed = @ \/ Plan!Apply(y.plan, o).code # "ok"]

Rests(s, f) == f = [n \in 0 .. Len(s.waiting) |-> IF n = 0 THEN s ELSE Tried(f[n - 1], s.waiting[n])]

LEMMA TriedIs ==
  ASSUME NEW y \in Tries, NEW o \in Finals
  PROVE  /\ Tried(y, o) \in Tries
         /\ Tried(y, o).failed <=> y.failed \/ Plan!Apply(y.plan, o).code # "ok"
<1> DEFINE r == Plan!Apply(y.plan, o)
<1>1. Able(o) /\ Good(y.plan)
  BY TryIs DEF Finals, Able
<1>2. Grows(y.plan, r.plan)
  BY <1>1, OperationKeeps
<1>3. r.plan \in Plans /\ Good(r.plan)
  BY <1>2 DEF Grows, Good
<1>4. y \in [plan : Plans, waiting : Seq(Finals), failed : BOOLEAN]
  BY DEF Tries
<1>5. Tried(y, o) = [y EXCEPT !.plan = r.plan, !.failed = @ \/ r.code # "ok"]
  BY DEF Tried
<1> HIDE DEF r
<1>6. /\ Tried(y, o) \in [plan : Plans, waiting : Seq(Finals), failed : BOOLEAN]
      /\ Tried(y, o).plan = r.plan /\ (Tried(y, o).failed <=> y.failed \/ r.code # "ok")
  BY <1>3, <1>4, <1>5
<1> QED
  BY <1>3, <1>6 DEF Tries, r

LEMMA RestExists == ASSUME NEW s \in Tries PROVE \E f : Rests(s, f)
<1> DEFINE m == Len(s.waiting)
           F == [n \in 1 .. m |-> [y \in Tries |-> Tried(y, s.waiting[n])]]
<1>1. m \in Nat
  BY TryIs
<1>2. \A n \in 1 .. m : \A y \in Tries : F[n][y] = Tried(y, s.waiting[n])
  OBVIOUS
<1>3. \A n \in 1 .. m : \A y \in Tries : F[n][y] \in Tries
  BY <1>2, TryIs, TriedIs
<1> HIDE DEF F, m
<1>4. PICK f : f = [n \in 0 .. m |-> IF n = 0 THEN s ELSE F[n][f[n - 1]]] /\ f \in [0 .. m -> Tries]
  BY <1>1, <1>3, Iterates
<1>5. ASSUME NEW n \in 0 .. m
      PROVE  f[n] = IF n = 0 THEN s ELSE Tried(f[n - 1], s.waiting[n])
  <2>1. CASE n = 0
    BY <1>4, <2>1
  <2>2. CASE n # 0
    <3>1. n \in 1 .. m /\ n - 1 \in 0 .. m
      BY <1>1, <2>2
    <3>2. f[n - 1] \in Tries
      BY <1>4, <3>1
    <3>3. f[n] = F[n][f[n - 1]]
      BY <1>4, <2>2
    <3> QED
      BY <1>2, <2>2, <3>1, <3>2, <3>3
  <2> QED
    BY <2>1, <2>2
<1>6. f = [n \in 0 .. m |-> f[n]]
  BY <1>4
<1>7. f = [n \in 0 .. m |-> IF n = 0 THEN s ELSE Tried(f[n - 1], s.waiting[n])]
  BY <1>5, <1>6
<1>8. Rests(s, f)
  BY <1>7 DEF Rests, m
<1> QED
  BY <1>8

\* What still waits at the end refuses the batch.
LEMMA RestIs ==
  ASSUME NEW s \in Tries, Quiet(s)
  PROVE  /\ Plan!Rest(s) \in Tries
         /\ ~Plan!Rest(s).failed => Plan!Rest(s) = s /\ Len(s.waiting) = 0
<1> DEFINE m == Len(s.waiting)
           f == CHOOSE x : Rests(s, x)
<1>1. Rests(s, f)
  BY RestExists
<1>2. Plan!Rest(s) = f[m]
  BY DEF Plan!Rest, Rests, Tried
<1>3. m \in Nat
  BY TryIs
<1> HIDE DEF f
<1> DEFINE Fine(n) == f[n] \in Tries /\ (n # 0 => f[n].failed)
           T == {n \in 0 .. m : Fine(n)}
<1>4. f[0] = s
  BY <1>1, <1>3 DEF Rests
<1>5. 0 \in T
  <2>1. Fine(0)
    BY <1>4
  <2> HIDE DEF Fine, m
  <2> QED
    BY <1>3, <2>1
<1>6. ASSUME NEW n \in 1 .. m, n - 1 \in T
      PROVE  n \in T
  <2> DEFINE y == f[n - 1]
  <2>1. y \in Tries /\ (n - 1 # 0 => y.failed)
    BY <1>6
  <2>2. f[n] = Tried(y, s.waiting[n])
    <3>1. n \in 0 .. Len(s.waiting) /\ n # 0
      BY <1>3
    <3> QED
      BY <1>1, <3>1 DEF Rests
  <2>3. s.waiting[n] \in Finals
    BY TryIs
  <2> HIDE DEF y
  <2>4. y.failed \/ Plan!Apply(y.plan, s.waiting[n]).code # "ok"
    <3>1. CASE n - 1 = 0
      <4>1. y = s /\ n = 1
        BY <1>3, <1>4, <3>1 DEF y
      <4>2. s.failed \/ Plan!Apply(s.plan, s.waiting[n]).code = "out_of_order"
        BY DEF Quiet
      <4> QED
        BY <4>1, <4>2
    <3>2. CASE n - 1 # 0
      BY <2>1, <3>2
    <3> QED
      BY <3>1, <3>2
  <2>5. f[n] \in Tries /\ f[n].failed
    BY <2>1, <2>2, <2>3, <2>4, TriedIs
  <2> QED
    BY <2>5
<1>7. \A n \in 0 .. m : n \in T
  <2> HIDE DEF T, m
  <2> QED
    BY <1>3, <1>5, <1>6, Climb
<1>8. f[m] \in Tries /\ (m # 0 => f[m].failed)
  BY <1>3, <1>7
<1> QED
  BY <1>2, <1>4, <1>8

-----------------------------------------------------------------------------
\* What a batch reports after an operation, and what it has left alone.
Claimed(C, o) == (IF o.op = "complete" THEN C \cup {o.id} ELSE C)
                   \ (IF o.op = "reopen" THEN {o.id} ELSE {})
LeftAlone(U, o) == U \ (IF o.op = "reopen" THEN {o.id} ELSE {})

LEMMA AddedIs ==
  ASSUME NEW S, NEW s \in Seq(S), NEW x \in S, NEW t, t = Append(s, x)
  PROVE  /\ t \in Seq(S) /\ Len(t) = Len(s) + 1 /\ t[Len(t)] = x
         /\ \A i \in 1 .. Len(s) : t[i] = s[i]
BY AppendProperties

\* An operation that is applied, before the completions that wait are tried.
LEMMA AppliedKeeps ==
  ASSUME NEW s \in Tries, ~s.failed, Quiet(s), NEW o, Able(o), NEW r, r = Plan!Apply(s.plan, o),
         r.code = "ok", NEW t, t = [s EXCEPT !.plan = r.plan], NEW p0 \in Plans, NEW C, NEW U
  PROVE  t \in Tries /\ (Live(p0, C, U, s) => Live(p0, Claimed(C, o), LeftAlone(U, o), t))
<1>1. Good(s.plan)
  BY TryIs
<1>2. /\ Grows(s.plan, r.plan)
      /\ o.op = "complete" => Adds(s.plan.todos, r.plan.todos, o.id)
      /\ o.op = "reopen" => Takes(s.plan.todos, r.plan.todos, o.id)
      /\ o.op \notin {"complete", "reopen"} => Steady(s.plan.todos, r.plan.todos)
  BY <1>1, OperationKeeps
<1>3. \A i \in 1 .. Len(s.waiting) : s.waiting[i] \in Finals /\ Able(s.waiting[i])
  BY TryIs
<1>4. \A i \in 1 .. Len(s.waiting) : Plan!IsItem(s.plan, s.waiting[i].id, FALSE)
  <2> TAKE i \in 1 .. Len(s.waiting)
  <2>1. Plan!Apply(s.plan, s.waiting[i]).code = "out_of_order"
    BY DEF Quiet
  <2> QED
    BY <1>1, <1>3, <2>1, OperationKeeps
<1>5. t \in Tries /\ t.plan = r.plan /\ t.waiting = s.waiting /\ t.failed = s.failed
  <2>1. r.plan \in Plans /\ Good(r.plan)
    BY <1>2 DEF Grows, Good
  <2>2. s \in [plan : Plans, waiting : Seq(Finals), failed : BOOLEAN]
    BY DEF Tries
  <2>3. /\ t \in [plan : Plans, waiting : Seq(Finals), failed : BOOLEAN]
        /\ t.plan = r.plan /\ t.waiting = s.waiting /\ t.failed = s.failed
    BY <2>1, <2>2
  <2> QED
    BY <2>1, <2>3 DEF Tries
<1>6. ASSUME Live(p0, C, U, s)
      PROVE  Live(p0, Claimed(C, o), LeftAlone(U, o), t)
  <2>1. /\ p0.sequence <= s.plan.sequence /\ p0.total <= s.plan.total
        /\ Ranked(p0, U, s.plan) /\ Plan!DoneIds(s.plan) \subseteq U \cup C
        /\ \A k \in 1 .. Len(s.waiting) : s.waiting[k].id \in C
        /\ \A id \in C : id \in Plan!DoneIds(s.plan)
                           \/ \E k \in 1 .. Len(s.waiting) : s.waiting[k].id = id
    BY <1>6 DEF Live
  <2>2. Good(r.plan)
    BY <1>2 DEF Grows
  <2>3. p0.sequence <= r.plan.sequence /\ p0.total <= r.plan.total
    <3>1. /\ s.plan.sequence <= r.plan.sequence /\ s.plan.total <= r.plan.total
          /\ s.plan.sequence \in Nat /\ s.plan.total \in Nat
          /\ r.plan.sequence \in Nat /\ r.plan.total \in Nat
          /\ p0.sequence \in Nat /\ p0.total \in Nat
      BY <1>2, TryIs DEF Grows, Good, Plans
    <3> QED
      BY <2>1, <3>1
  <2>4. CASE o.op = "complete"
    <3>1. Claimed(C, o) = C \cup {o.id} /\ LeftAlone(U, o) = U
      BY <2>4 DEF Claimed, LeftAlone
    <3>2. Plan!DoneIds(r.plan) = Plan!DoneIds(s.plan) \cup {o.id} /\ Ranked(p0, U, r.plan)
      BY <1>1, <1>2, <2>1, <2>2, <2>4, RankedAdds
    <3> QED
      BY <1>5, <2>1, <2>3, <3>1, <3>2 DEF Live
  <2>5. CASE o.op = "reopen"
    <3>1. Claimed(C, o) = C \ {o.id} /\ LeftAlone(U, o) = U \ {o.id}
      BY <2>5 DEF Claimed, LeftAlone
    <3>2. /\ Plan!DoneIds(r.plan) = Plan!DoneIds(s.plan) \ {o.id}
          /\ Ranked(p0, U \ {o.id}, r.plan) /\ o.id \in Plan!DoneIds(s.plan)
      <4> DEFINE p == s.plan
                 q == r.plan
                 id == o.id
      <4>1. Takes(p.todos, q.todos, id)
        BY <1>2, <2>5
      <4>2. Ranked(p0, U, p) /\ Good(p) /\ Good(q)
        BY <1>1, <2>1, <2>2
      <4> HIDE DEF p, q, id
      <4>3. /\ Plan!DoneIds(q) = Plan!DoneIds(p) \ {id} /\ Ranked(p0, U \ {id}, q)
            /\ id \in Plan!DoneIds(p)
        BY <4>1, <4>2, RankedTakes
      <4> QED
        BY <4>3 DEF p, q, id
    <3>3. \A k \in 1 .. Len(s.waiting) : s.waiting[k].id # o.id
      <4> TAKE k \in 1 .. Len(s.waiting)
      <4> DEFINE p == s.plan
                 id == s.waiting[k].id
                 here == Plan!Index(p, id)
      <4>1. Plan!IsItem(p, id, FALSE) /\ Good(p)
        BY <1>1, <1>4
      <4> HIDE DEF p, id
      <4>2. here \in 1 .. Len(p.todos) /\ p.todos[here].id = id /\ ~p.todos[here].done
        BY <4>1, ItemIs
      <4> HIDE DEF here
      <4>3. id \notin Plan!DoneIds(p)
        BY <4>1, <4>2, DoneIdsIs
      <4> QED
        BY <3>2, <4>3 DEF p, id
    <3> QED
      BY <1>5, <2>1, <2>3, <3>1, <3>2, <3>3 DEF Live
  <2>6. CASE o.op \notin {"complete", "reopen"}
    <3>1. Claimed(C, o) = C /\ LeftAlone(U, o) = U
      BY <2>6 DEF Claimed, LeftAlone
    <3>2. Plan!DoneIds(r.plan) = Plan!DoneIds(s.plan) /\ Ranked(p0, U, r.plan)
      BY <1>1, <1>2, <2>1, <2>2, <2>6, RankedSteady
    <3> QED
      BY <1>5, <2>1, <2>3, <3>1, <3>2 DEF Live
  <2> QED
    BY <2>4, <2>5, <2>6
<1> QED
  BY <1>5, <1>6

\* One operation of a batch.
LEMMA StepKeeps ==
  ASSUME NEW s \in Tries, Quiet(s), NEW ops, NEW n, Able(ops[n]), NEW p0 \in Plans, NEW C, NEW U,
         NEW t, t = Plan!Step(s, ops, n)
  PROVE  /\ t \in Tries /\ Quiet(t)
         /\ Live(p0, C, U, s) => Live(p0, Claimed(C, ops[n]), LeftAlone(U, ops[n]), t)
<1> DEFINE o == ops[n]
           r == Plan!Apply(s.plan, o)
<1>1. Good(s.plan) /\ s.waiting \in Seq(Finals) /\ Len(s.waiting) \in Nat /\ s.failed \in BOOLEAN
  BY TryIs
<1>2. /\ r.code \in {"ok", "refused", "out_of_order"}
      /\ r.code = "out_of_order" => o.op = "complete"
  <2> DEFINE p == s.plan
  <2>1. Good(p) /\ Able(o) /\ r = Plan!Apply(p, o)
    BY <1>1
  <2> HIDE DEF p, o, r
  <2> QED
    BY <2>1, OperationKeeps
<1>3. s \in [plan : Plans, waiting : Seq(Finals), failed : BOOLEAN]
  BY DEF Tries
<1>4. CASE s.failed
  <2>1. t = s
    BY <1>4 DEF Plan!Step
  <2> QED
    BY <1>4, <2>1 DEF Live, Quiet
<1>5. CASE ~s.failed /\ r.code = "ok"
  <2> DEFINE y == [s EXCEPT !.plan = r.plan]
  <2>1. t = Plan!Settle(y)
    BY <1>5 DEF Plan!Step
  <2>2. y \in Tries /\ (Live(p0, C, U, s) => Live(p0, Claimed(C, o), LeftAlone(U, o), y))
    BY <1>5, AppliedKeeps
  <2> HIDE DEF y, r, o
  <2>3. /\ Plan!Settle(y) \in Tries /\ Quiet(Plan!Settle(y))
        /\ Live(p0, Claimed(C, o), LeftAlone(U, o), y)
             => Live(p0, Claimed(C, o), LeftAlone(U, o), Plan!Settle(y))
    BY <2>2, WaitingKeeps
  <2> QED
    BY <2>1, <2>2, <2>3 DEF o
<1>6. CASE ~s.failed /\ r.code = "out_of_order" /\ Plan!Waits(s, ops, n)
  <2> DEFINE w == Append(s.waiting, o)
  <2>1. t = [s EXCEPT !.waiting = w]
    BY <1>6 DEF Plan!Step
  <2>2. o \in Finals
    BY <1>2, <1>6 DEF Finals, Able
  <2>3. /\ w \in Seq(Finals) /\ Len(w) = Len(s.waiting) + 1 /\ w[Len(w)] = o
        /\ \A i \in 1 .. Len(s.waiting) : w[i] = s.waiting[i]
    <3>1. s.waiting \in Seq(Finals)
      BY <1>1
    <3>2. w = Append(s.waiting, o)
      OBVIOUS
    <3> HIDE DEF w, o
    <3> QED
      BY <2>2, <3>1, <3>2, AddedIs
  <2>4. /\ t \in [plan : Plans, waiting : Seq(Finals), failed : BOOLEAN]
        /\ t.plan = s.plan /\ t.waiting = w /\ t.failed = s.failed
    <3>1. w \in Seq(Finals)
      BY <2>3
    <3> HIDE DEF w
    <3> QED
      BY <1>3, <2>1, <3>1
  <2>5. t \in Tries
    BY <1>1, <2>4 DEF Tries
  <2> HIDE DEF w
  <2>6. Quiet(t)
    <3>1. \A i \in 1 .. Len(w) : i \in 1 .. Len(s.waiting) \/ i = Len(w)
      BY <1>1, <2>3
    <3>2. \A i \in 1 .. Len(s.waiting) : Plan!Apply(s.plan, s.waiting[i]).code = "out_of_order"
      BY <1>6 DEF Quiet
    <3>3. \A i \in 1 .. Len(w) : Plan!Apply(s.plan, w[i]).code = "out_of_order"
      BY <1>6, <2>3, <3>1, <3>2
    <3> QED
      BY <2>4, <3>3 DEF Quiet
  <2>7. ASSUME Live(p0, C, U, s)
        PROVE  Live(p0, C \cup {o.id}, U, t)
    <3>1. /\ p0.sequence <= s.plan.sequence /\ p0.total <= s.plan.total
          /\ Ranked(p0, U, s.plan) /\ Plan!DoneIds(s.plan) \subseteq U \cup C
          /\ \A k \in 1 .. Len(s.waiting) : s.waiting[k].id \in C
          /\ \A id \in C : id \in Plan!DoneIds(s.plan)
                             \/ \E k \in 1 .. Len(s.waiting) : s.waiting[k].id = id
      BY <1>6, <2>7 DEF Live
    <3>2. \A i \in 1 .. Len(w) : w[i].id \in C \cup {o.id}
      BY <1>1, <2>3, <3>1
    <3>3. Len(w) \in 1 .. Len(w) /\ \A i \in 1 .. Len(s.waiting) : i \in 1 .. Len(w)
      BY <1>1, <2>3
    <3>4. \A id \in C \cup {o.id} : id \in Plan!DoneIds(s.plan)
                                      \/ \E k \in 1 .. Len(w) : w[k].id = id
      BY <2>3, <3>1, <3>3
    <3> QED
      BY <2>4, <3>1, <3>2, <3>4 DEF Live
  <2>8. Claimed(C, o) = C \cup {o.id} /\ LeftAlone(U, o) = U
    BY <1>2, <1>6 DEF Claimed, LeftAlone
  <2> QED
    BY <2>5, <2>6, <2>7, <2>8
<1>7. CASE ~s.failed /\ r.code # "ok" /\ ~(r.code = "out_of_order" /\ Plan!Waits(s, ops, n))
  <2>1. t = [s EXCEPT !.failed = TRUE]
    BY <1>7 DEF Plan!Step
  <2>2. t \in [plan : Plans, waiting : Seq(Finals), failed : BOOLEAN] /\ t.failed /\ t.plan = s.plan
    BY <1>3, <2>1
  <2> QED
    BY <1>1, <2>2 DEF Tries, Live, Quiet
<1> QED
  BY <1>4, <1>5, <1>6, <1>7

\* What the first n operations report, and leave alone of U.
Claims(ops, n) ==
  {ops[i].id : i \in {j \in 1 .. n :
     ops[j].op = "complete"
     /\ \A k \in (j + 1) .. n : ~(ops[k].op = "reopen" /\ ops[k].id = ops[j].id)}}
Stays(U, ops, n) == {id \in U : \A k \in 1 .. n : ~(ops[k].op = "reopen" /\ ops[k].id = id)}

LEMMA ClaimsGrow ==
  ASSUME NEW ops, NEW n \in Nat, n # 0, NEW U
  PROVE  /\ Claims(ops, n) = Claimed(Claims(ops, n - 1), ops[n])
         /\ Stays(U, ops, n) = LeftAlone(Stays(U, ops, n - 1), ops[n])
<1> DEFINE Redone(id, k) == ops[k].op = "reopen" /\ ops[k].id = id
<1>1. ASSUME NEW x
      PROVE  \A m \in Nat : x \in Claims(ops, m) <=>
               \E j \in 1 .. m : /\ ops[j].op = "complete" /\ ops[j].id = x
                                 /\ \A k \in (j + 1) .. m : ~Redone(x, k)
  BY DEF Claims
<1>2. ASSUME NEW x
      PROVE  x \in Claimed(Claims(ops, n - 1), ops[n]) <=>
               /\ x \in Claims(ops, n - 1) \/ (ops[n].op = "complete" /\ ops[n].id = x)
               /\ ~Redone(x, n)
  BY DEF Claimed
<1>3. ASSUME NEW x \in Claims(ops, n)
      PROVE  x \in Claimed(Claims(ops, n - 1), ops[n])
  <2>1. PICK j \in 1 .. n : /\ ops[j].op = "complete" /\ ops[j].id = x
                            /\ \A k \in (j + 1) .. n : ~Redone(x, k)
    BY <1>1
  <2>2. CASE j = n
    <3>1. ~Redone(x, n)
      BY <2>1, <2>2
    <3> QED
      BY <1>2, <2>1, <2>2, <3>1
  <2>3. CASE j # n
    <3>1. /\ j \in 1 .. n - 1 /\ n - 1 \in Nat /\ n \in (j + 1) .. n
          /\ \A k \in (j + 1) .. n - 1 : k \in (j + 1) .. n
      BY <2>3
    <3>2. \A k \in (j + 1) .. n - 1 : ~Redone(x, k)
      BY <2>1, <3>1
    <3>3. x \in Claims(ops, n - 1)
      BY <1>1, <2>1, <3>1, <3>2
    <3>4. ~Redone(x, n)
      BY <2>1, <3>1
    <3> QED
      BY <1>2, <3>3, <3>4
  <2> QED
    BY <2>2, <2>3
<1>4. ASSUME NEW x \in Claimed(Claims(ops, n - 1), ops[n])
      PROVE  x \in Claims(ops, n)
  <2>1. ~Redone(x, n)
    BY <1>2
  <2>2. CASE x \in Claims(ops, n - 1)
    <3>1. PICK j \in 1 .. n - 1 : /\ ops[j].op = "complete" /\ ops[j].id = x
                                  /\ \A k \in (j + 1) .. n - 1 : ~Redone(x, k)
      BY <1>1, <2>2
    <3>2. j \in 1 .. n /\ \A k \in (j + 1) .. n : k = n \/ k \in (j + 1) .. n - 1
      OBVIOUS
    <3>3. \A k \in (j + 1) .. n : ~Redone(x, k)
      BY <2>1, <3>1, <3>2
    <3> QED
      BY <1>1, <3>1, <3>2, <3>3
  <2>3. CASE ops[n].op = "complete" /\ ops[n].id = x
    <3>1. n \in 1 .. n /\ \A k \in (n + 1) .. n : FALSE
      OBVIOUS
    <3> QED
      BY <1>1, <2>3, <3>1
  <2> QED
    BY <1>2, <2>2, <2>3
<1>5. Stays(U, ops, n) = LeftAlone(Stays(U, ops, n - 1), ops[n])
  <2>1. \A k : k \in 1 .. n <=> k = n \/ k \in 1 .. n - 1
    OBVIOUS
  <2> QED
    BY <2>1 DEF Stays, LeftAlone
<1> QED
  BY <1>3, <1>4, <1>5

Trials(p, ops, f) ==
  f = [n \in 0 .. Len(ops) |->
         IF n = 0 THEN [plan |-> p, waiting |-> <<>>, failed |-> FALSE]
         ELSE Plan!Step(f[n - 1], ops, n)]

LEMMA StartIs ==
  ASSUME NEW p, Good(p), NEW s, s = [plan |-> p, waiting |-> <<>>, failed |-> FALSE]
  PROVE  s \in Tries /\ Quiet(s) /\ Live(p, {}, Plan!DoneIds(p), s)
<1>1. p \in Plans /\ p.sequence \in Nat /\ p.total \in Nat
  BY DEF Good, Plans
<1>2. <<>> \in Seq(Finals) /\ Len(<<>>) = 0
  OBVIOUS
<1>3. /\ s \in [plan : Plans, waiting : Seq(Finals), failed : BOOLEAN]
      /\ s.plan = p /\ s.waiting = <<>> /\ ~s.failed
  BY <1>1
<1>4. s \in Tries
  BY <1>3 DEF Tries
<1>5. Quiet(s)
  BY <1>2, <1>3 DEF Quiet
<1>6. Ranked(p, Plan!DoneIds(p), p)
  BY RankedFirst
<1>7. p.sequence <= p.sequence /\ p.total <= p.total
  BY <1>1
<1>8. Live(p, {}, Plan!DoneIds(p), s)
  BY <1>2, <1>3, <1>6, <1>7 DEF Live
<1> QED
  BY <1>4, <1>5, <1>8

LEMMA TrialExists ==
  ASSUME NEW p, Good(p), NEW ops, Len(ops) \in Nat, \A i \in 1 .. Len(ops) : Able(ops[i])
  PROVE  \E f : Trials(p, ops, f)
<1> DEFINE m == Len(ops)
           X == {y \in Tries : Quiet(y)}
           s == [plan |-> p, waiting |-> <<>>, failed |-> FALSE]
           F == [n \in 1 .. m |-> [y \in X |-> Plan!Step(y, ops, n)]]
<1>1. s \in X
  BY StartIs
<1>2. \A n \in 1 .. m : \A y \in X : F[n][y] = Plan!Step(y, ops, n)
  OBVIOUS
<1>3. \A n \in 1 .. m : \A y \in X : F[n][y] \in X
  <2> TAKE n \in 1 .. m
  <2> TAKE y \in X
  <2>1. y \in Tries /\ Quiet(y) /\ Able(ops[n])
    OBVIOUS
  <2>2. p \in Plans
    BY DEF Good
  <2> DEFINE t == Plan!Step(y, ops, n)
  <2>3. t \in Tries /\ Quiet(t)
    <3>1. t = Plan!Step(y, ops, n)
      OBVIOUS
    <3> HIDE DEF t, X
    <3> QED
      BY <2>1, <2>2, <3>1, StepKeeps
  <2> QED
    BY <1>2, <2>3
<1>4. m \in Nat
  OBVIOUS
<1> HIDE DEF F, m, X, s
<1>5. PICK f : f = [n \in 0 .. m |-> IF n = 0 THEN s ELSE F[n][f[n - 1]]] /\ f \in [0 .. m -> X]
  BY <1>1, <1>3, <1>4, Iterates
<1>6. ASSUME NEW n \in 0 .. m
      PROVE  f[n] = IF n = 0 THEN s ELSE Plan!Step(f[n - 1], ops, n)
  <2>1. CASE n = 0
    BY <1>5, <2>1
  <2>2. CASE n # 0
    <3>1. n \in 1 .. m /\ n - 1 \in 0 .. m
      BY <1>4, <2>2
    <3>2. f[n - 1] \in X
      BY <1>5, <3>1
    <3>3. f[n] = F[n][f[n - 1]]
      BY <1>5, <2>2
    <3> QED
      BY <1>2, <2>2, <3>1, <3>2, <3>3
  <2> QED
    BY <2>1, <2>2
<1>7. f = [n \in 0 .. m |-> f[n]]
  BY <1>5
<1>8. f = [n \in 0 .. m |-> IF n = 0 THEN s ELSE Plan!Step(f[n - 1], ops, n)]
  BY <1>6, <1>7
<1>9. Trials(p, ops, f)
  BY <1>8 DEF Trials, m, s
<1> QED
  BY <1>9

\* A batch that is not refused: its plan before the oldest items leave.
LEMMA BatchTries ==
  ASSUME NEW p, Good(p), NEW ops, Len(ops) \in Nat, \A i \in 1 .. Len(ops) : Able(ops[i]),
         NEW f, Trials(p, ops, f), NEW s, s = Plan!Rest(f[Len(ops)]), NEW C, C = Claims(ops, Len(ops))
  PROVE  /\ s \in Tries /\ Good(s.plan)
         /\ ~s.failed =>
              /\ p.total <= s.plan.total /\ C \subseteq Plan!DoneIds(s.plan)
              /\ \E U \in SUBSET Plan!DoneIds(p) :
                   Ranked(p, U, s.plan) /\ Plan!DoneIds(s.plan) \subseteq U \cup C
<1> DEFINE m == Len(ops)
           Gone(n) == Stays(Plan!DoneIds(p), ops, n)
           Fine(n) == /\ f[n] \in Tries /\ Quiet(f[n])
                      /\ Live(p, Claims(ops, n), Gone(n), f[n])
           T == {n \in 0 .. m : Fine(n)}
<1>1. m \in Nat /\ p \in Plans
  BY DEF Good
<1>2. Fine(0)
  <2>1. f[0] = [plan |-> p, waiting |-> <<>>, failed |-> FALSE]
    BY DEF Trials
  <2>2. Claims(ops, 0) = {} /\ Gone(0) = Plan!DoneIds(p)
    BY DEF Claims, Stays
  <2>3. f[0] \in Tries /\ Quiet(f[0]) /\ Live(p, {}, Plan!DoneIds(p), f[0])
    BY <2>1, StartIs
  <2> QED
    BY <2>2, <2>3
<1>3. ASSUME NEW n \in 1 .. m, n - 1 \in T
      PROVE  n \in T
  <2> DEFINE y == f[n - 1]
             C1 == Claims(ops, n - 1)
             U1 == Gone(n - 1)
  <2>1. y \in Tries /\ Quiet(y) /\ Live(p, C1, U1, y)
    BY <1>3
  <2>2. f[n] = Plan!Step(y, ops, n)
    <3>1. n \in 0 .. Len(ops) /\ n # 0
      BY <1>1
    <3> QED
      BY <3>1 DEF Trials
  <2>3. Claims(ops, n) = Claimed(C1, ops[n]) /\ Gone(n) = LeftAlone(U1, ops[n])
    <3>1. n \in Nat /\ n # 0
      BY <1>1
    <3> QED
      BY <3>1, ClaimsGrow
  <2>4. Able(ops[n])
    OBVIOUS
  <2> HIDE DEF y, C1, U1, Gone, T, m
  <2> DEFINE t == f[n]
  <2>5. t = Plan!Step(y, ops, n)
    BY <2>2
  <2> HIDE DEF t
  <2>6. t \in Tries /\ Quiet(t) /\ Live(p, Claimed(C1, ops[n]), LeftAlone(U1, ops[n]), t)
    BY <1>1, <2>1, <2>4, <2>5, StepKeeps
  <2>7. Fine(n)
    BY <2>3, <2>6 DEF t
  <2>8. n \in 0 .. m
    BY <1>1
  <2> HIDE DEF Fine
  <2> QED
    BY <2>7, <2>8 DEF T
<1>4. 0 \in T
  <2> HIDE DEF Fine, m
  <2> QED
    BY <1>1, <1>2
<1>5. \A n \in 0 .. m : n \in T
  <2> HIDE DEF T, m
  <2> QED
    BY <1>1, <1>3, <1>4, Climb
<1> DEFINE y == f[m]
           U == Gone(m)
<1>6. y \in Tries /\ Quiet(y) /\ Live(p, C, U, y)
  <2>1. m \in T
    <3>1. m \in 0 .. m
      BY <1>1
    <3> HIDE DEF T, m
    <3> QED
      BY <1>5, <3>1
  <2>2. Fine(m)
    <3> HIDE DEF Fine, m
    <3> QED
      BY <2>1
  <2> QED
    BY <2>2
<1>7. U \in SUBSET Plan!DoneIds(p)
  BY DEF Stays
<1>8. s = Plan!Rest(y)
  OBVIOUS
<1> HIDE DEF y, U, m, T, Gone, Fine
<1>9. s \in Tries /\ (~s.failed => s = y /\ Len(y.waiting) = 0)
  BY <1>6, <1>8, RestIs
<1>10. Good(s.plan)
  BY <1>9, TryIs
<1>11. ASSUME ~s.failed
       PROVE  /\ p.total <= s.plan.total /\ C \subseteq Plan!DoneIds(s.plan)
              /\ Ranked(p, U, s.plan) /\ Plan!DoneIds(s.plan) \subseteq U \cup C
  <2>1. s = y /\ Len(y.waiting) = 0
    BY <1>9, <1>11
  <2>2. 1 .. Len(y.waiting) = {}
    BY <2>1
  <2> QED
    BY <1>6, <1>11, <2>1, <2>2 DEF Live
<1> QED
  BY <1>7, <1>9, <1>10, <1>11

-----------------------------------------------------------------------------
\* The first d items are the completed ones.
Counted(p, d) ==
  d \in 0 .. Len(p.todos) /\ \A i \in 1 .. Len(p.todos) : p.todos[i].done <=> i <= d

LEMMA CountExists == ASSUME NEW p, Good(p) PROVE \E d : Counted(p, d)
<1>1. Len(p.todos) \in Nat /\ p.todos \in Seq(Entries)
  BY DEF Good, Plans
<1>2. Plan!Open(p) = {i \in 1 .. Len(p.todos) : ~p.todos[i].done}
  BY <1>1 DEF Plan!Open
<1>3. CASE Plan!Open(p) = {}
  <2>1. \A i \in 1 .. Len(p.todos) : p.todos[i].done /\ i <= Len(p.todos)
    BY <1>1, <1>2, <1>3
  <2>2. Counted(p, Len(p.todos))
    BY <1>1, <2>1 DEF Counted
  <2> QED
    BY <2>2
<1>4. CASE Plan!Open(p) # {}
  <2> DEFINE here == Plan!Min(Plan!Open(p))
  <2>1. Plan!Open(p) \in SUBSET Nat
    BY <1>2
  <2>2. here \in Plan!Open(p) /\ \A i \in Plan!Open(p) : here <= i
    BY <1>4, <2>1, MinIs
  <2> HIDE DEF here
  <2>3. here \in 1 .. Len(p.todos) /\ ~p.todos[here].done
    BY <1>2, <2>2
  <2>4. \A i \in here .. Len(p.todos) : ~p.todos[i].done
    BY <2>3, OpenOnward
  <2>5. \A i \in 1 .. Len(p.todos) : p.todos[i].done <=> i <= here - 1
    BY <1>1, <1>2, <2>2, <2>3, <2>4
  <2>6. Counted(p, here - 1)
    BY <1>1, <2>3, <2>5 DEF Counted
  <2> QED
    BY <2>6
<1> QED
  BY <1>3, <1>4

LEMMA CountIs ==
  ASSUME NEW p, Good(p), NEW d, Counted(p, d)
  PROVE  /\ Plan!Done(p) = 1 .. d /\ Plan!Cardinality(Plan!Done(p)) = d
         /\ Plan!Cardinality(Plan!Open(p)) = Len(p.todos) - d
<1>1. Len(p.todos) \in Nat /\ p.todos \in Seq(Entries) /\ d \in 0 .. Len(p.todos)
  BY DEF Good, Plans, Counted
<1>2. Plan!Open(p) = {i \in 1 .. Len(p.todos) : ~p.todos[i].done}
  BY <1>1 DEF Plan!Open
<1>3. Plan!Done(p) = {i \in 1 .. Len(p.todos) : p.todos[i].done}
  BY <1>1 DEF Plan!Done
<1>4. Plan!Done(p) = 1 .. d
  BY <1>1, <1>3 DEF Counted
<1>5. Plan!Open(p) = d + 1 .. Len(p.todos)
  BY <1>1, <1>2 DEF Counted
<1>6. Plan!Cardinality(Plan!Done(p)) = Cardinality(1 .. d)
  BY <1>4 DEF Plan!Cardinality, Cardinality
<1>7. Plan!Cardinality(Plan!Open(p)) = Cardinality(d + 1 .. Len(p.todos))
  BY <1>5 DEF Plan!Cardinality, Cardinality
<1>8. Cardinality(1 .. d) = d
  BY <1>1, FS_Interval
<1>9. Cardinality(d + 1 .. Len(p.todos)) = Len(p.todos) - d
  <2> DEFINE a == d + 1
             b == Len(p.todos)
  <2>1. a \in Int /\ b \in Int /\ (a > b => b - d = 0) /\ b - a + 1 = b - d
    BY <1>1
  <2> HIDE DEF a, b
  <2>2. Cardinality(a .. b) = IF a > b THEN 0 ELSE b - a + 1
    BY <2>1, FS_Interval
  <2>3. Cardinality(a .. b) = b - d
    BY <2>1, <2>2
  <2> QED
    BY <2>3 DEF a, b
<1> QED
  BY <1>4, <1>6, <1>7, <1>8, <1>9

\* r is q without its first k items.
Behind(q, r, k) ==
  /\ Good(r) /\ r.sequence = q.sequence /\ r.total = q.total
  /\ k \in 0 .. Len(q.todos) /\ Len(r.todos) = Len(q.todos) - k
  /\ \A i \in 1 .. Len(r.todos) : r.todos[i] = q.todos[i + k]

LEMMA BehindCounts ==
  ASSUME NEW q, Good(q), NEW r, NEW k, Behind(q, r, k), NEW d, Counted(q, d), k <= d
  PROVE  Counted(r, d - k)
<1>1. /\ Len(q.todos) \in Nat /\ k \in 0 .. Len(q.todos) /\ d \in 0 .. Len(q.todos)
      /\ Len(r.todos) = Len(q.todos) - k /\ \A i \in 1 .. Len(r.todos) : r.todos[i] = q.todos[i + k]
  BY DEF Good, Plans, Behind, Counted
<1>2. ASSUME NEW i \in 1 .. Len(r.todos)
      PROVE  r.todos[i].done <=> i <= d - k
  <2>1. i + k \in 1 .. Len(q.todos) /\ r.todos[i] = q.todos[i + k] /\ (i + k <= d <=> i <= d - k)
    BY <1>1
  <2> QED
    BY <2>1 DEF Counted
<1> QED
  BY <1>1, <1>2 DEF Counted

\* t is y without its oldest completed item.
Sheds(y, t) == t = [y EXCEPT !.todos = Plan!RemoveAt(@, Plan!Min(Plan!Done(y)))]

LEMMA FirstLeaves ==
  ASSUME NEW q, Good(q), NEW y, NEW k, Behind(q, y, k), NEW d, Counted(q, d), k < d,
         NEW t, Sheds(y, t)
  PROVE  Behind(q, t, k + 1)
<1>1. /\ Len(q.todos) \in Nat /\ k \in 0 .. Len(q.todos) /\ d \in 0 .. Len(q.todos)
      /\ Len(y.todos) = Len(q.todos) - k /\ \A i \in 1 .. Len(y.todos) : y.todos[i] = q.todos[i + k]
      /\ Good(y) /\ y.sequence = q.sequence /\ y.total = q.total
  BY DEF Good, Plans, Behind, Counted
<1>2. Counted(y, d - k)
  BY <1>1, BehindCounts
<1>3. Plan!Done(y) = 1 .. d - k
  BY <1>1, <1>2, CountIs
<1>4. Plan!Min(Plan!Done(y)) = 1
  <2>1. 1 .. d - k \in SUBSET Nat /\ 1 \in 1 .. d - k
    BY <1>1
  <2>2. Plan!Min(1 .. d - k) \in 1 .. d - k /\ \A i \in 1 .. d - k : Plan!Min(1 .. d - k) <= i
    BY <2>1, MinIs
  <2> QED
    BY <1>1, <1>3, <2>1, <2>2
<1>5. Removes(y, t, 1)
  <2>1. y \in Plans /\ 1 \in 1 .. Len(y.todos)
    BY <1>1 DEF Good
  <2> QED
    BY <1>4, <2>1 DEF Removes, Plans, Sheds
<1>6. /\ Good(t) /\ t.sequence = y.sequence /\ t.total = y.total
      /\ Len(t.todos) = Len(y.todos) - 1
      /\ \A i \in 1 .. Len(t.todos) : t.todos[i] = y.todos[i + 1]
  <2> DEFINE here == 1
  <2>1. Removes(y, t, here) /\ Good(y)
    BY <1>1, <1>5
  <2> HIDE DEF here
  <2>2. /\ Good(t) /\ t.sequence = y.sequence /\ t.total = y.total
        /\ Len(t.todos) = Len(y.todos) - 1
        /\ \A i \in 1 .. Len(t.todos) : i >= here => t.todos[i] = y.todos[i + 1]
    BY <2>1, WithoutKeeps
  <2> QED
    BY <2>2 DEF here
<1>7. ASSUME NEW i \in 1 .. Len(t.todos)
      PROVE  t.todos[i] = q.todos[i + (k + 1)]
  <2>1. t.todos[i] = y.todos[i + 1] /\ i + 1 \in 1 .. Len(y.todos) /\ (i + 1) + k = i + (k + 1)
    <3>1. Len(t.todos) = Len(y.todos) - 1 /\ Len(y.todos) \in Nat /\ k \in Nat
      BY <1>1, <1>6
    <3> QED
      BY <1>6, <3>1
  <2> QED
    BY <1>1, <2>1
<1> QED
  BY <1>1, <1>6, <1>7 DEF Behind

Loses(q, f) ==
  f = [n \in 0 .. Len(q.todos) |->
         IF n = 0 THEN q
         ELSE IF Plan!Cardinality(Plan!Done(f[n - 1])) <= MaxCompleted THEN f[n - 1]
         ELSE [f[n - 1] EXCEPT !.todos = Plan!RemoveAt(@, Plan!Min(Plan!Done(f[n - 1])))]]
\* One turn of the loop.
Shorter(y) == IF Plan!Cardinality(Plan!Done(y)) <= MaxCompleted THEN y
              ELSE [y EXCEPT !.todos = Plan!RemoveAt(@, Plan!Min(Plan!Done(y)))]

LEMMA ShorterIs ==
  ASSUME NEW q, Good(q), NEW y, NEW k, Behind(q, y, k), NEW d, Counted(q, d), k <= d
  PROVE  /\ d - k <= MaxCompleted => Shorter(y) = y
         /\ d - k > MaxCompleted => k < d /\ Behind(q, Shorter(y), k + 1)
<1>1. MaxCompleted \in Nat /\ k \in Nat /\ d \in Nat /\ Good(y)
  BY PlanAssumption DEF Behind, Counted, Good, Plans
<1>2. Plan!Cardinality(Plan!Done(y)) = d - k
  BY <1>1, BehindCounts, CountIs
<1>3. ASSUME d - k > MaxCompleted
      PROVE  k < d /\ Behind(q, Shorter(y), k + 1)
  <2>1. k < d /\ ~(d - k <= MaxCompleted)
    BY <1>1, <1>3
  <2>2. Sheds(y, Shorter(y))
    BY <1>2, <2>1 DEF Shorter, Sheds
  <2> QED
    BY <2>1, <2>2, FirstLeaves
<1> QED
  BY <1>2, <1>3 DEF Shorter

LEMMA LeaveExists == ASSUME NEW q, Good(q) PROVE \E f : Loses(q, f)
<1> DEFINE m == Len(q.todos)
           X == {y \in Plans : \E k, d : Behind(q, y, k) /\ Counted(q, d) /\ k <= d}
           F == [n \in 1 .. m |-> [y \in X |-> Shorter(y)]]
<1>1. m \in Nat
  BY DEF Good, Plans
<1>2. q \in X
  <2>1. PICK d : Counted(q, d)
    BY CountExists
  <2>2. Behind(q, q, 0) /\ 0 <= d /\ q \in Plans
    BY <1>1, <2>1 DEF Behind, Good, Counted
  <2> QED
    BY <2>1, <2>2
<1>3. ASSUME NEW y \in X
      PROVE  Shorter(y) \in X
  <2>1. PICK k, d : Behind(q, y, k) /\ Counted(q, d) /\ k <= d
    OBVIOUS
  <2>2. k \in Nat /\ d \in Nat /\ MaxCompleted \in Nat
    BY <1>1, <2>1, PlanAssumption DEF Behind, Counted
  <2>3. CASE d - k <= MaxCompleted
    <3>1. Shorter(y) = y
      BY <2>1, <2>3, ShorterIs
    <3> QED
      BY <3>1
  <2>4. CASE d - k > MaxCompleted
    <3>1. k < d /\ Behind(q, Shorter(y), k + 1)
      BY <2>1, <2>4, ShorterIs
    <3>2. Shorter(y) \in Plans /\ k + 1 <= d
      BY <2>2, <3>1 DEF Behind, Good
    <3> QED
      BY <2>1, <3>1, <3>2
  <2> QED
    BY <2>2, <2>3, <2>4
<1> HIDE DEF X
<1>4. \A n \in 1 .. m : \A y \in X : F[n][y] = Shorter(y)
  OBVIOUS
<1>5. \A n \in 1 .. m : \A y \in X : F[n][y] \in X
  BY <1>3, <1>4
<1> HIDE DEF F, m
<1>6. PICK f : f = [n \in 0 .. m |-> IF n = 0 THEN q ELSE F[n][f[n - 1]]] /\ f \in [0 .. m -> X]
  BY <1>1, <1>2, <1>5, Iterates
<1>7. ASSUME NEW n \in 0 .. m
      PROVE  f[n] = IF n = 0 THEN q ELSE Shorter(f[n - 1])
  <2>1. CASE n = 0
    BY <1>6, <2>1
  <2>2. CASE n # 0
    <3>1. n \in 1 .. m /\ n - 1 \in 0 .. m
      BY <1>1, <2>2
    <3>2. f[n - 1] \in X
      BY <1>6, <3>1
    <3>3. f[n] = F[n][f[n - 1]]
      BY <1>6, <2>2
    <3> QED
      BY <1>4, <2>2, <3>1, <3>2, <3>3
  <2> QED
    BY <2>1, <2>2
<1>8. f = [n \in 0 .. m |-> f[n]]
  BY <1>6
<1>9. f = [n \in 0 .. m |-> IF n = 0 THEN q ELSE Shorter(f[n - 1])]
  BY <1>7, <1>8
<1>10. Loses(q, f)
  BY <1>9 DEF Loses, Shorter, m
<1> QED
  BY <1>10

\* What the oldest items leave behind.
LEMMA OldestLeave ==
  ASSUME NEW q, Good(q), NEW d, Counted(q, d), NEW r, r = Plan!DropOldest(q)
  PROVE  \E k \in 0 .. d : /\ Behind(q, r, k) /\ d - k <= MaxCompleted
                           /\ k = 0 \/ d - k = MaxCompleted
<1> DEFINE m == Len(q.todos)
           f == CHOOSE x : Loses(q, x)
<1>1. Loses(q, f)
  BY LeaveExists
<1>2. r = f[m]
  BY DEF Plan!DropOldest, Loses
<1>3. m \in Nat /\ d \in 0 .. m /\ MaxCompleted \in Nat
  BY PlanAssumption DEF Good, Plans, Counted
<1> HIDE DEF f
<1> DEFINE Fine(n) == \E k \in 0 .. d : /\ Behind(q, f[n], k) /\ (k = n \/ d - k <= MaxCompleted)
                                        /\ (k = 0 \/ d - k >= MaxCompleted)
           T == {n \in 0 .. m : Fine(n)}
<1>4. Fine(0)
  <2>1. f[0] = q
    BY <1>1, <1>3 DEF Loses
  <2>2. Behind(q, q, 0)
    BY <1>3 DEF Behind
  <2> QED
    BY <1>3, <2>1, <2>2
<1>5. ASSUME NEW n \in 1 .. m, n - 1 \in T
      PROVE  Fine(n)
  <2> DEFINE y == f[n - 1]
  <2>1. PICK k \in 0 .. d : /\ Behind(q, y, k) /\ (k = n - 1 \/ d - k <= MaxCompleted)
                            /\ (k = 0 \/ d - k >= MaxCompleted)
    BY <1>5
  <2>2. f[n] = Shorter(y)
    <3>1. n \in 0 .. Len(q.todos) /\ n # 0
      BY <1>3
    <3> QED
      BY <1>1, <3>1 DEF Loses, Shorter
  <2> HIDE DEF y
  <2>3. k \in Nat /\ k <= d /\ d \in Nat
    BY <1>3
  <2>4. CASE d - k <= MaxCompleted
    <3>1. Shorter(y) = y
      BY <2>1, <2>3, <2>4, ShorterIs
    <3> QED
      BY <2>1, <2>2, <2>4, <3>1
  <2>5. CASE d - k > MaxCompleted
    <3>1. k < d /\ Behind(q, Shorter(y), k + 1)
      BY <2>1, <2>3, <2>5, ShorterIs
    <3>2. k + 1 = n /\ k + 1 \in 0 .. d /\ d - (k + 1) >= MaxCompleted
      BY <1>3, <2>1, <2>3, <2>5, <3>1
    <3> QED
      BY <2>2, <3>1, <3>2
  <2> QED
    BY <1>3, <2>3, <2>4, <2>5
<1>6. \A n \in 0 .. m : n \in T
  <2>1. 0 \in T
    <3> HIDE DEF Fine, m
    <3> QED
      BY <1>3, <1>4
  <2>2. \A n \in 1 .. m : n - 1 \in T => n \in T
    <3>1. \A n \in 1 .. m : n - 1 \in T => Fine(n)
      BY <1>5
    <3> HIDE DEF Fine, m
    <3> QED
      BY <1>3, <3>1
  <2> HIDE DEF T, m
  <2> QED
    BY <1>3, <2>1, <2>2, Climb
<1>7. Fine(m)
  <2> HIDE DEF Fine, m
  <2>1. m \in T
    BY <1>3, <1>6
  <2> QED
    BY <2>1
<1>8. PICK k \in 0 .. d : /\ Behind(q, f[m], k) /\ (k = m \/ d - k <= MaxCompleted)
                          /\ (k = 0 \/ d - k >= MaxCompleted)
  BY <1>7
<1>9. d - k <= MaxCompleted /\ (k = 0 \/ d - k = MaxCompleted)
  BY <1>3, <1>8
<1> QED
  BY <1>2, <1>8, <1>9

\* What a reply that reports the items C as completed says of the plan q that
\* came of the plan p.
Told(p, q, C) ==
  /\ p.total <= q.total
  /\ Plan!Cardinality(Plan!Open(q)) <= MaxPending /\ Plan!Cardinality(Plan!Done(q)) <= MaxCompleted
  /\ \A i \in Plan!Open(q) : q.todos[i].id \notin C
  /\ \A i, j \in DOMAIN q.todos :
       i < j /\ q.todos[j].id \in (Plan!DoneIds(p) \cap Plan!DoneIds(q)) \ C
         => Plan!Precedes(p, q.todos[i].id, q.todos[j].id)
  /\ \A i \in Plan!Open(p) : p.todos[i].id \in C \ Plan!DoneIds(q)
       => Plan!Cardinality(Plan!Done(q)) = MaxCompleted /\ Plan!DoneIds(q) \subseteq C

LEMMA DroppedTold ==
  ASSUME NEW p, Good(p), NEW q, Good(q), NEW r, r = Plan!DropOldest(q), NEW C, NEW U,
         p.total <= q.total, C \subseteq Plan!DoneIds(q), U \subseteq Plan!DoneIds(p),
         Ranked(p, U, q), Plan!DoneIds(q) \subseteq U \cup C,
         Plan!Cardinality(Plan!Open(q)) <= MaxPending
  PROVE  Good(r) /\ Told(p, r, C)
<1>1. PICK d : Counted(q, d)
  BY CountExists
<1>2. PICK k \in 0 .. d : /\ Behind(q, r, k) /\ d - k <= MaxCompleted
                          /\ k = 0 \/ d - k = MaxCompleted
  BY <1>1, OldestLeave
<1>3. /\ k \in Nat /\ d \in Nat /\ k <= d /\ d <= Len(q.todos) /\ Len(q.todos) \in Nat
      /\ Len(r.todos) = Len(q.todos) - k /\ \A i \in 1 .. Len(r.todos) : r.todos[i] = q.todos[i + k]
      /\ Good(r) /\ r.total = q.total
  BY <1>1, <1>2 DEF Behind, Counted, Good, Plans
<1>4. Counted(r, d - k)
  BY <1>1, <1>2, <1>3, BehindCounts
<1>5. /\ Plan!Cardinality(Plan!Done(r)) = d - k
      /\ Plan!Cardinality(Plan!Open(r)) = Len(r.todos) - (d - k)
      /\ Plan!Cardinality(Plan!Open(q)) = Len(q.todos) - d
  BY <1>1, <1>3, <1>4, CountIs
<1>6. Plan!Cardinality(Plan!Open(r)) = Plan!Cardinality(Plan!Open(q))
  BY <1>3, <1>5
<1>7. DOMAIN p.todos = 1 .. Len(p.todos) /\ DOMAIN r.todos = 1 .. Len(r.todos)
  BY <1>3 DEF Good, Plans
\* Where each item of r stood.
<1>8. ASSUME NEW i \in 1 .. Len(r.todos)
      PROVE  i + k \in 1 .. Len(q.todos) /\ r.todos[i] = q.todos[i + k]
  BY <1>3
<1>9. ASSUME NEW i \in Plan!Open(r)
      PROVE  r.todos[i].id \notin C
  <2>1. i \in 1 .. Len(r.todos) /\ ~r.todos[i].done
    BY <1>7 DEF Plan!Open
  <2>2. q.todos[i + k].id = r.todos[i].id /\ ~q.todos[i + k].done /\ i + k \in 1 .. Len(q.todos)
    BY <1>8, <2>1
  <2>3. r.todos[i].id \notin Plan!DoneIds(q)
    BY <2>2, DoneIdsIs
  <2> QED
    BY <2>3
<1>10. ASSUME NEW x \in Plan!DoneIds(r)
       PROVE  \E j \in 1 .. Len(r.todos) : r.todos[j].id = x /\ r.todos[j].done
  BY <1>3, DoneIdsIs
<1>11. Plan!DoneIds(r) \subseteq Plan!DoneIds(q)
  <2> SUFFICES ASSUME NEW x \in Plan!DoneIds(r) PROVE x \in Plan!DoneIds(q)
    OBVIOUS
  <2>1. PICK j \in 1 .. Len(r.todos) : r.todos[j].id = x /\ r.todos[j].done
    BY <1>10
  <2>2. j + k \in 1 .. Len(q.todos) /\ q.todos[j + k].id = x /\ q.todos[j + k].done
    BY <1>8, <2>1
  <2> QED
    BY <2>2, DoneIdsIs
<1>12. ASSUME NEW i \in DOMAIN r.todos, NEW j \in DOMAIN r.todos, i < j,
              r.todos[j].id \in (Plan!DoneIds(p) \cap Plan!DoneIds(r)) \ C
       PROVE  Plan!Precedes(p, r.todos[i].id, r.todos[j].id)
  <2>1. i \in 1 .. Len(r.todos) /\ j \in 1 .. Len(r.todos)
    BY <1>7
  <2>2. /\ i + k \in 1 .. Len(q.todos) /\ r.todos[i] = q.todos[i + k]
        /\ j + k \in 1 .. Len(q.todos) /\ r.todos[j] = q.todos[j + k]
    BY <1>8, <2>1
  <2>3. i + k < j + k
    BY <1>3, <1>12, <2>1
  <2>4. q.todos[j + k].id \in U
    BY <1>11, <1>12, <2>2
  <2> QED
    BY <2>2, <2>3, <2>4 DEF Ranked
<1>13. ASSUME NEW i \in Plan!Open(p), p.todos[i].id \in C \ Plan!DoneIds(r)
       PROVE  Plan!Cardinality(Plan!Done(r)) = MaxCompleted /\ Plan!DoneIds(r) \subseteq C
  <2>1. i \in 1 .. Len(p.todos) /\ ~p.todos[i].done
    BY <1>7 DEF Plan!Open
  <2>2. p.todos[i].id \notin U
    BY <2>1, DoneIdsIs
  <2>3. PICK a \in 1 .. Len(q.todos) : q.todos[a].id = p.todos[i].id /\ q.todos[a].done
    BY <1>13, DoneIdsIs
  <2>4. a <= k
    <3> SUFFICES ASSUME a > k PROVE FALSE
      BY <1>3
    <3>1. a - k \in 1 .. Len(r.todos) /\ (a - k) + k = a
      BY <1>3
    <3>2. r.todos[a - k] = q.todos[a]
      BY <1>3, <3>1
    <3>3. p.todos[i].id \in Plan!DoneIds(r)
      BY <1>3, <2>3, <3>1, <3>2, DoneIdsIs
    <3> QED
      BY <1>13, <3>3
  <2>5. k # 0
    BY <2>3, <2>4
  <2>6. ASSUME NEW x \in Plan!DoneIds(r)
        PROVE  x \in C
    <3>1. PICK j \in 1 .. Len(r.todos) : r.todos[j].id = x /\ r.todos[j].done
      BY <1>10
    <3>2. j + k \in 1 .. Len(q.todos) /\ q.todos[j + k].id = x /\ a < j + k
      BY <1>3, <1>8, <2>4, <3>1
    <3>3. x \notin U
      BY <2>2, <2>3, <3>2 DEF Ranked
    <3> QED
      BY <1>11, <3>3
  <2> QED
    BY <1>2, <1>5, <2>5, <2>6
<1> QED
  BY <1>2, <1>3, <1>5, <1>6, <1>9, <1>12, <1>13 DEF Told

\* What a call tries: the plan it would leave, and what it would report.
LEMMA TrialIs ==
  ASSUME NEW p, Good(p), NEW ops, Len(ops) \in Nat, DOMAIN ops = 1 .. Len(ops),
         \A i \in 1 .. Len(ops) : Able(ops[i]), NEW t, t = Plan!Trial(p, ops)
  PROVE  /\ Good(t.plan) /\ (~t.ok => t.plan = p)
         /\ t.ok => Told(p, t.plan, Plan!Completed(ops))
<1> DEFINE m == Len(ops)
           f == CHOOSE x : Trials(p, ops, x)
           s == Plan!Rest(f[m])
           ok == ~s.failed /\ Plan!Cardinality(Plan!Open(s.plan)) <= MaxPending
           C == Claims(ops, m)
<1>1. Trials(p, ops, f)
  BY TrialExists
<1>2. t = [ok |-> ok, plan |-> IF ok THEN Plan!DropOldest(s.plan) ELSE p]
  BY DEF Plan!Trial, Trials
<1>3. Plan!Completed(ops) = C
  BY DEF Plan!Completed, Claims
<1>4. /\ s \in Tries /\ Good(s.plan)
      /\ ~s.failed =>
           /\ p.total <= s.plan.total /\ C \subseteq Plan!DoneIds(s.plan)
           /\ \E U \in SUBSET Plan!DoneIds(p) :
                Ranked(p, U, s.plan) /\ Plan!DoneIds(s.plan) \subseteq U \cup C
  <2>1. s = Plan!Rest(f[Len(ops)]) /\ C = Claims(ops, Len(ops))
    OBVIOUS
  <2> HIDE DEF f, s, C
  <2> QED
    BY <1>1, <2>1, BatchTries
<1> HIDE DEF s, C, f
<1>7. t.plan = (IF ok THEN Plan!DropOldest(s.plan) ELSE p) /\ t.ok = ok
  <2> HIDE DEF ok
  <2> QED
    BY <1>2
<1>5. CASE ok
  <2> DEFINE q == s.plan
             r == Plan!DropOldest(q)
  <2>1. t.plan = r /\ t.ok
    BY <1>5, <1>7
  <2>2. /\ Good(q) /\ p.total <= q.total /\ C \subseteq Plan!DoneIds(q)
        /\ Plan!Cardinality(Plan!Open(q)) <= MaxPending
    BY <1>4, <1>5
  <2>3. PICK U \in SUBSET Plan!DoneIds(p) : Ranked(p, U, q) /\ Plan!DoneIds(q) \subseteq U \cup C
    BY <1>4, <1>5
  <2> HIDE DEF q
  <2>4. Good(r) /\ Told(p, r, C)
    BY <2>2, <2>3, DroppedTold
  <2> HIDE DEF r
  <2> QED
    BY <1>3, <2>1, <2>4
<1>6. CASE ~ok
  <2>1. t.plan = p /\ ~t.ok
    BY <1>6, <1>7
  <2> QED
    BY <2>1
<1> QED
  BY <1>5, <1>6

LEMMA OpIs ==
  ASSUME NEW kinds, NEW lists, NEW ids, NEW places,
         kinds \subseteq OpNames, lists \subseteq Seq(Texts), ids \subseteq Nat, places \subseteq Nat,
         "update" \in kinds => \A x \in lists : Len(x) >= 1
  PROVE  \A o \in [op : kinds, texts : lists, id : ids, before : places] : Able(o)
<1> TAKE o \in [op : kinds, texts : lists, id : ids, before : places]
<1>1. o \in Ops
  BY DEF Ops
<1>2. o.op \in kinds /\ o.texts \in lists
  OBVIOUS
<1> QED
  BY <1>1, <1>2 DEF Able

LEMMA BatchesAre ==
  ASSUME plan.sequence \in Nat, NEW ops \in Plan!Batches
  PROVE  Len(ops) \in Nat /\ DOMAIN ops = 1 .. Len(ops) /\ \A i \in 1 .. Len(ops) : Able(ops[i])
<1> DEFINE any == Plan!Operations(Texts, Texts \X Texts)
<1>1. Plan!Item \subseteq Nat
  BY PlanAssumption DEF Plan!Item
<1>2. \A x \in Texts : <<x>> \in Seq(Texts) /\ Len(<<x>>) >= 1
  OBVIOUS
<1>3. \A x \in Texts, z \in Texts : <<x, z>> \in Seq(Texts)
  OBVIOUS
<1>4. <<>> \in Seq(Texts)
  OBVIOUS
<1>5. ASSUME NEW T \in SUBSET Texts, NEW pairs \in SUBSET (Texts \X Texts), NEW o \in Plan!Operations(T, pairs)
      PROVE  Able(o)
  <2> DEFINE puts == {"insert"}
             splits == {"split"}
             updates == {"update"}
             moves == {"move"}
             others == {"remove", "complete", "reopen"}
             ones == {<<x>> : x \in T}
             none == {<<>>}
             zero == {0}
             items == Plan!Item \cup {0}
  <2>1. ones \subseteq Seq(Texts) /\ \A x \in ones : Len(x) >= 1
    BY <1>2
  <2>2. pairs \subseteq Seq(Texts)
    <3> SUFFICES ASSUME NEW x \in pairs PROVE x \in Seq(Texts)
      OBVIOUS
    <3>1. PICK y \in Texts, z \in Texts : x = <<y, z>>
      OBVIOUS
    <3> QED
      BY <1>3, <3>1
  <2>3. none \subseteq Seq(Texts) /\ zero \subseteq Nat /\ items \subseteq Nat
    BY <1>1, <1>4
  <2>4. /\ puts \subseteq OpNames /\ splits \subseteq OpNames /\ updates \subseteq OpNames
        /\ moves \subseteq OpNames /\ others \subseteq OpNames
        /\ "update" \notin puts \cup splits \cup moves \cup others
    BY DEF OpNames
  <2>5. \/ o \in [op : puts, texts : ones, id : zero, before : items]
        \/ o \in [op : splits, texts : pairs, id : Plan!Item, before : zero]
        \/ o \in [op : updates, texts : ones, id : Plan!Item, before : zero]
        \/ o \in [op : moves, texts : none, id : Plan!Item, before : items]
        \/ o \in [op : others, texts : none, id : Plan!Item, before : zero]
    BY DEF Plan!Operations
  <2> HIDE DEF puts, splits, updates, moves, others, ones, none, zero, items
  <2>6. CASE o \in [op : puts, texts : ones, id : zero, before : items]
    BY <2>1, <2>3, <2>4, <2>6, OpIs
  <2>7. CASE o \in [op : splits, texts : pairs, id : Plan!Item, before : zero]
    BY <1>1, <2>2, <2>3, <2>4, <2>7, OpIs
  <2>8. CASE o \in [op : updates, texts : ones, id : Plan!Item, before : zero]
    BY <1>1, <2>1, <2>3, <2>4, <2>8, OpIs
  <2>9. CASE o \in [op : moves, texts : none, id : Plan!Item, before : items]
    BY <1>1, <2>3, <2>4, <2>9, OpIs
  <2>10. CASE o \in [op : others, texts : none, id : Plan!Item, before : zero]
    BY <1>1, <2>3, <2>4, <2>10, OpIs
  <2> QED
    BY <2>5, <2>6, <2>7, <2>8, <2>9, <2>10
<1>6. ASSUME NEW o \in Plan!Finishing
      PROVE  Able(o)
  <2> DEFINE ends == {"remove", "complete"}
             none == {<<>>}
             zero == {0}
  <2>1. o \in [op : ends, texts : none, id : Plan!Item, before : zero]
    BY DEF Plan!Finishing
  <2>2. none \subseteq Seq(Texts) /\ zero \subseteq Nat
    BY <1>4
  <2>3. ends \subseteq OpNames /\ "update" \notin ends
    BY DEF OpNames
  <2> HIDE DEF ends, none, zero
  <2> QED
    BY <1>1, <2>1, <2>2, <2>3, OpIs
<1>7. \A o \in Plan!Usual : Able(o)
  <2> DEFINE T == Texts \ Unusable
             pairs == {x \in T \X T : x[1] # x[2]}
  <2>1. T \in SUBSET Texts /\ pairs \in SUBSET (Texts \X Texts)
    OBVIOUS
  <2>2. Plan!Usual = Plan!Operations(T, pairs)
    BY DEF Plan!Usual
  <2> HIDE DEF T, pairs
  <2> QED
    BY <1>5, <2>1, <2>2
<1>8. \A o \in any : Able(o)
  BY <1>5
<1> HIDE DEF any
<1>9. CASE \E o \in any : ops = <<o>>
  BY <1>8, <1>9
<1>10. CASE \E o \in Plan!Usual, q \in Plan!Usual : ops = <<o, q>>
  BY <1>7, <1>10
<1>11. CASE \E o \in Plan!Finishing, q \in Plan!Between, r \in Plan!Finishing : ops = <<o, q, r>>
  <2>1. \A q \in Plan!Between : Able(q)
    BY <1>7 DEF Plan!Between
  <2> QED
    BY <1>6, <1>11, <2>1
<1> QED
  <2> DEFINE ones == {<<o>> : o \in any}
             twos == {<<o, q>> : o \in Plan!Usual, q \in Plan!Usual}
             threes == {<<o, q, r>> : o \in Plan!Finishing, q \in Plan!Between, r \in Plan!Finishing}
  <2>1. ops \in ones \/ ops \in twos \/ ops \in threes
    BY DEF Plan!Batches, any
  <2>2. ops \in ones => \E o \in any : ops = <<o>>
    OBVIOUS
  <2>3. ops \in twos => \E o \in Plan!Usual, q \in Plan!Usual : ops = <<o, q>>
    OBVIOUS
  <2>4. ops \in threes =>
          \E o \in Plan!Finishing, q \in Plan!Between, r \in Plan!Finishing : ops = <<o, q, r>>
    OBVIOUS
  <2> HIDE DEF ones, twos, threes
  <2> QED
    BY <1>9, <1>10, <1>11, <2>1, <2>2, <2>3, <2>4

-----------------------------------------------------------------------------
\* The plan is a good one, within its limits, and agrees with the last reply.
PlanInv ==
  /\ Good(plan)
  /\ Plan!Cardinality(Plan!Open(plan)) <= MaxPending
  /\ Plan!Cardinality(Plan!Done(plan)) <= MaxCompleted
  /\ \A i \in Plan!Open(plan) : plan.todos[i].id \notin told

LEMMA PlanInit == ASSUME Plan!Init PROVE PlanInv
<1>1. plan = [todos |-> <<>>, sequence |-> 0, total |-> 0]
  BY DEF Plan!Init
<1>2. <<>> \in Seq(Entries) /\ Len(<<>>) = 0
  OBVIOUS
<1>3. plan \in Plans /\ plan.todos = <<>> /\ Len(plan.todos) = 0
  BY <1>1, <1>2 DEF Plans
<1>4. Good(plan)
  BY <1>3 DEF Good, Apart, DoneFirst
<1>5. Counted(plan, 0)
  BY <1>3 DEF Counted
<1>6. /\ Plan!Cardinality(Plan!Done(plan)) = 0
      /\ Plan!Cardinality(Plan!Open(plan)) = Len(plan.todos) - 0
  BY <1>4, <1>5, CountIs
<1>7. Plan!Open(plan) = {}
  BY <1>3 DEF Plan!Open
<1> QED
  BY <1>3, <1>4, <1>6, <1>7, PlanAssumption DEF PlanInv

LEMMA CallKeeps ==
  ASSUME PlanInv, NEW sent, Plan!Execute(sent)
  PROVE  PlanInv' /\ Plan!ChangesAsTold
<1>1. Good(plan) /\ plan.sequence \in Nat
  BY DEF PlanInv, Good, Plans
<1>2. CASE UNCHANGED Plan!vars
  BY <1>2 DEF Plan!vars, PlanInv, Plan!ChangesAsTold
<1>3. ASSUME NEW ops \in Plan!Batches, NEW t, t = <<Plan!Trial(plan, ops), Plan!Completed(ops)>>,
             t[1].ok, closing => Plan!Cardinality(Plan!Open(t[1].plan)) <= Plan!Cardinality(Plan!Open(plan)),
             NEW fits, Plan!Commit(t[1].plan, t[2], fits)
      PROVE  PlanInv' /\ Plan!ChangesAsTold
  <2> DEFINE u == Plan!Trial(plan, ops)
             C == Plan!Completed(ops)
  <2>1. Len(ops) \in Nat /\ DOMAIN ops = 1 .. Len(ops) /\ \A i \in 1 .. Len(ops) : Able(ops[i])
    BY <1>1, BatchesAre
  <2>2. t[1] = u /\ t[2] = C
    BY <1>3
  <2>3. Good(u.plan) /\ (u.ok => Told(plan, u.plan, C))
    <3>1. u = Plan!Trial(plan, ops)
      OBVIOUS
    <3> HIDE DEF u
    <3> QED
      BY <1>1, <2>1, <3>1, TrialIs
  <2> HIDE DEF u, C
  <2>4. Told(plan, u.plan, C)
    BY <1>3, <2>2, <2>3
  <2>5. CASE u.plan # plan /\ ~fits
    <3>1. UNCHANGED Plan!vars
      BY <1>3, <2>2, <2>5 DEF Plan!Commit
    <3> QED
      BY <1>2, <3>1
  <2>6. CASE ~(u.plan # plan /\ ~fits)
    <3>1. /\ plan' = u.plan /\ told' = C /\ closing' = closing
          /\ plan' # plan => revision' = revision + 1
      BY <1>3, <2>2, <2>6 DEF Plan!Commit
    <3>2. closing => Plan!Cardinality(Plan!Open(plan')) <= Plan!Cardinality(Plan!Open(plan))
      BY <1>3, <2>2, <3>1
    <3>3. Good(plan') /\ Told(plan, plan', told')
      BY <2>3, <2>4, <3>1
    <3>4. PlanInv'
      <4>1. \A i \in Plan!Open(plan') : plan'.todos[i].id \notin told'
        BY <3>3 DEF Told
      <4>2. /\ Plan!Cardinality(Plan!Open(plan')) <= MaxPending
            /\ Plan!Cardinality(Plan!Done(plan')) <= MaxCompleted
        BY <3>3 DEF Told
      <4> QED
        BY <3>3, <4>1, <4>2 DEF PlanInv
    <3>5. Plan!ChangesAsTold
      <4>1. plan'.total >= plan.total
        <5>1. plan.total <= plan'.total /\ plan.total \in Nat /\ plan'.total \in Nat
          BY <1>1, <3>3 DEF Told, Good, Plans
        <5> QED
          BY <5>1
      <4>2. \A i, j \in DOMAIN plan'.todos :
              i < j /\ plan'.todos[j].id \in (Plan!DoneIds(plan) \cap Plan!DoneIds(plan')) \ told'
                => Plan!Precedes(plan, plan'.todos[i].id, plan'.todos[j].id)
        BY <3>3 DEF Told
      <4>3. \A i \in Plan!Open(plan) : plan.todos[i].id \in told' \ Plan!DoneIds(plan')
              => Plan!Cardinality(Plan!Done(plan')) = MaxCompleted /\ Plan!DoneIds(plan') \subseteq told'
        BY <3>3 DEF Told
      <4> QED
        BY <3>1, <3>2, <4>1, <4>2, <4>3 DEF Plan!ChangesAsTold
    <3> QED
      BY <3>4, <3>5
  <2> QED
    BY <2>5, <2>6
<1> QED
  BY <1>2, <1>3 DEF Plan!Execute

LEMMA PlanStep ==
  ASSUME PlanInv, [Plan!Next]_planVars PROVE PlanInv' /\ [Plan!ChangesAsTold]_planVars
<1>1. ASSUME NEW sent, Plan!Execute(sent) PROVE PlanInv' /\ Plan!ChangesAsTold
  BY <1>1, CallKeeps
<1>2. ASSUME NEW on, Plan!Closing(on) PROVE PlanInv' /\ Plan!ChangesAsTold
  BY <1>2 DEF Plan!Closing, PlanInv, Plan!ChangesAsTold
<1>3. CASE UNCHANGED planVars
  BY <1>3 DEF planVars, PlanInv
<1> QED
  BY <1>1, <1>2, <1>3 DEF Plan!Next

LEMMA PlanStays == ASSUME PlanInv PROVE Plan!Ordered /\ Plan!Limited /\ Plan!Truthful
<1>1. DOMAIN plan.todos = 1 .. Len(plan.todos) /\ Apart(plan.todos) /\ DoneFirst(plan.todos)
  BY DEF PlanInv, Good, Plans
<1>2. Plan!Ordered
  BY <1>1 DEF Plan!Ordered, Apart, DoneFirst
<1> QED
  BY <1>2 DEF PlanInv, Plan!Limited, Plan!Truthful

\* TaskPlan, PlanWhole: completed items stand before the unfinished ones, in the
\* order in which they were completed, IDs and texts are unique, the limits are
\* kept, an item that a reply reports as completed is not left open and leaves at
\* once only where the ones completed after it fill the list, and a change has a
\* revision of its own (task_plan.rs, apply_operation, complete_ready_pending,
\* drop_oldest_completed and execute), for any texts and limits and for batches
\* whose completions come in any order.
THEOREM PlanStaysWhole == MCSpec => PlanWhole
<1>1. MCInit => PlanInv
  BY PlanInit DEF MCInit
<1>2. /\ PlanInv /\ [MCNext]_<<part, vars, keptVars, planVars, storeVars, choiceVars, configVars>>
      => PlanInv' /\ [Plan!ChangesAsTold]_planVars
  BY PlanStep DEF MCNext
<1>3. PlanInv => Plan!Ordered /\ Plan!Limited /\ Plan!Truthful
  BY PlanStays
<1>4. /\ PlanInv /\ [MCNext]_<<part, vars, keptVars, planVars, storeVars, choiceVars, configVars>>
      => [Plan!ChangesAsTold]_(Plan!vars)
  BY <1>2 DEF planVars, Plan!vars
<1> QED
  BY <1>1, <1>2, <1>3, <1>4, PTL DEF MCSpec, PlanWhole, Plan!PlanWhole

-----------------------------------------------------------------------------
\* The types of the parts, with the bounds of their counters.

\* SessionTools, also where a selection is made again.
ChoiceBounded ==
  /\ ChoiceTyped /\ at \in Choice!Stages \cup {"idle", "ended"} /\ hurried \in BOOLEAN
  /\ survived \in BOOLEAN /\ selects \in 0 .. BatchSelects /\ seen \in SUBSET Choice!Valid

LEMMA ChoiceStartsBounded == ASSUME Choice!Init PROVE ChoiceBounded
<1>1. PICK names \in Choice!Valid :
        /\ at = "idle" /\ hurried = FALSE /\ survived = TRUE /\ shown = Choice!Copy(names, None)
        /\ agent = Choice!Copy(names, None) /\ selects = 0 /\ commands = <<>> /\ events = <<>>
        /\ latest = names /\ said = "nothing" /\ seen = {names}
  BY DEF Choice!Init
<1>2. Choice!Copy(names, None) \in Choice!Copies
  BY ChoiceFacts
<1>3. ChoiceTyped
  BY <1>1, <1>2 DEF ChoiceTyped
<1>4. at \in Choice!Stages \cup {"idle", "ended"} /\ hurried \in BOOLEAN /\ survived \in BOOLEAN
  BY <1>1
<1>5. selects \in 0 .. BatchSelects /\ seen \in SUBSET Choice!Valid
  BY <1>1, BoundsAssumption
<1> QED
  BY <1>3, <1>4, <1>5 DEF ChoiceBounded

LEMMA ChoiceStaysBounded ==
  ASSUME ChoiceBounded, [Choice!Next]_choiceVars PROVE ChoiceBounded'
<1> DEFINE Pts == Choice!Stages \cup {"idle", "ended"}
           Own == Choice!Valid
           Cs == Choice!Copies
<1>1. /\ shown \in Cs /\ agent \in Cs /\ events \in Seq(Cs) /\ commands \in Seq(Own)
      /\ latest \in {None} \cup Own /\ said \in {"nothing", "unheard", "heard"}
      /\ at \in Pts /\ hurried \in BOOLEAN /\ survived \in BOOLEAN
      /\ selects \in 0 .. BatchSelects /\ seen \in SUBSET Own
  BY DEF ChoiceBounded, ChoiceTyped
<1>2. {"boundary", "announce", "model", "group", "call", "wrapup", "settled", "last", "idle",
       "ended"} \subseteq Pts
  BY DEF Choice!Stages
<1>3. /\ \A a \in Own, p \in {None} \cup Own : Choice!Copy(a, p) \in Cs
      /\ \A names \in Own : Choice!Normalize(names) = names
      /\ \A c \in Cs : c.active \in Own /\ c.pending \in {None} \cup Own
                       /\ c = Choice!Copy(c.active, c.pending)
  BY ChoiceFacts
<1>4. \A c \in Cs, p \in Own : [c EXCEPT !.pending = p] \in Cs
  BY DEF Choice!Copies
<1>5. BatchSelects \in Nat
  BY BoundsAssumption
<1> HIDE DEF Pts, Own, Cs
<1> DEFINE Queues == shown' \in Cs /\ agent' \in Cs /\ events' \in Seq(Cs) /\ commands' \in Seq(Own)
           Spoken == latest' \in {None} \cup Own /\ said' \in {"nothing", "unheard", "heard"}
                     /\ seen' \in SUBSET Own
           Flags == at' \in Pts /\ hurried' \in BOOLEAN /\ survived' \in BOOLEAN
                    /\ selects' \in 0 .. BatchSelects
<1>6. SUFFICES Queues /\ Spoken /\ Flags
  BY DEF ChoiceBounded, ChoiceTyped, Pts, Own, Cs
<1>7. CASE \E names \in Own : Choice!SelectAtRest(names)
  <2>1. Queues
    BY <1>1, <1>3, <1>7 DEF Choice!SelectAtRest
  <2>2. Spoken
    BY <1>1, <1>3, <1>7 DEF Choice!SelectAtRest
  <2>3. Flags
    BY <1>1, <1>3, <1>7 DEF Choice!SelectAtRest
  <2> QED
    BY <2>1, <2>2, <2>3
<1>8. CASE \E names \in Own : Choice!SelectWhileRunning(names)
  <2>1. Queues
    BY <1>1, <1>4, <1>8 DEF Choice!SelectWhileRunning
  <2>2. Spoken
    BY <1>1, <1>4, <1>8 DEF Choice!SelectWhileRunning
  <2>3. Flags
    BY <1>1, <1>4, <1>8 DEF Choice!SelectWhileRunning
  <2> QED
    BY <2>1, <2>2, <2>3
<1>9. CASE \E names \in Own : Choice!ToolSelect(names)
  <2>1. Queues
    BY <1>1, <1>2, <1>4, <1>5, <1>9 DEF Choice!ToolSelect
  <2>2. Spoken
    BY <1>1, <1>2, <1>4, <1>5, <1>9 DEF Choice!ToolSelect
  <2>3. Flags
    BY <1>1, <1>2, <1>4, <1>5, <1>9 DEF Choice!ToolSelect
  <2> QED
    BY <2>1, <2>2, <2>3
<1>10. CASE Choice!ConsumeCommands
  <2>0. commands = <<>> \/ commands[Len(commands)] \in Own
    BY <1>1
  <2>1. Queues
    BY <1>1, <1>2, <1>3, <1>10, <2>0 DEF Choice!ConsumeCommands
  <2>2. Spoken
    BY <1>1, <1>2, <1>3, <1>10, <2>0 DEF Choice!ConsumeCommands
  <2>3. Flags
    BY <1>1, <1>2, <1>3, <1>10, <2>0 DEF Choice!ConsumeCommands
  <2> QED
    BY <2>1, <2>2, <2>3
<1>11. CASE Choice!StartRun \/ Choice!Hurry
  <2>1. Queues
    BY <1>1, <1>2, <1>11 DEF Choice!StartRun, Choice!Hurry
  <2>2. Spoken
    BY <1>1, <1>2, <1>11 DEF Choice!StartRun, Choice!Hurry
  <2>3. Flags
    BY <1>1, <1>2, <1>11 DEF Choice!StartRun, Choice!Hurry
  <2> QED
    BY <2>1, <2>2, <2>3
<1>12. CASE Choice!Respond \/ Choice!OtherTools \/ Choice!LeaveLoop
  <2>1. Queues
    BY <1>1, <1>2, <1>5, <1>12 DEF Choice!Respond, Choice!OtherTools, Choice!LeaveLoop
  <2>2. Spoken
    BY <1>1, <1>2, <1>5, <1>12 DEF Choice!Respond, Choice!OtherTools, Choice!LeaveLoop
  <2>3. Flags
    BY <1>1, <1>2, <1>5, <1>12 DEF Choice!Respond, Choice!OtherTools, Choice!LeaveLoop
  <2> QED
    BY <2>1, <2>2, <2>3
<1>13. CASE Choice!Announce \/ Choice!NextGroup \/ Choice!BatchShown
  <2>1. PICK next \in {"model", "call", "boundary"} : Choice!Snapshot(next)
    BY <1>13 DEF Choice!Announce, Choice!NextGroup, Choice!BatchShown
  <2>2. /\ UNCHANGED <<hurried, survived, shown, agent, selects, commands, latest, said, seen>>
        /\ at' = next /\ (events' = Append(events, agent) \/ events' = events)
    BY <2>1 DEF Choice!Snapshot
  <2>3. events' \in Seq(Cs)
    BY <1>1, <2>2
  <2>4. at' \in Pts
    BY <1>2, <2>2
  <2>5. Queues
    BY <1>1, <2>2, <2>3
  <2>6. Spoken
    BY <1>1, <2>2
  <2>7. Flags
    BY <1>1, <2>2, <2>4
  <2> QED
    BY <2>5, <2>6, <2>7
<1>14. CASE Choice!EndBatch
  <2>1. Queues
    BY <1>1, <1>2, <1>3, <1>14 DEF Choice!EndBatch
  <2>2. Spoken
    BY <1>1, <1>2, <1>3, <1>14 DEF Choice!EndBatch
  <2>3. Flags
    BY <1>1, <1>2, <1>3, <1>14 DEF Choice!EndBatch
  <2> QED
    BY <2>1, <2>2, <2>3
<1>15. CASE Choice!AgentEnds \/ Choice!AgentPanics
  <2>0. commands' = <<>> /\ UNCHANGED <<shown, agent>>
        /\ (events' = Append(events, agent) \/ events' = events)
    BY <1>15 DEF Choice!AgentEnds, Choice!AgentPanics
  <2>1. Queues
    BY <1>1, <2>0
  <2>2. Spoken
    BY <1>1, <1>2, <1>15 DEF Choice!AgentEnds, Choice!AgentPanics
  <2>3. Flags
    BY <1>1, <1>2, <1>15 DEF Choice!AgentEnds, Choice!AgentPanics
  <2> QED
    BY <2>1, <2>2, <2>3
<1>16. CASE Choice!Publish
  <2>0. Head(events) \in Cs /\ Tail(events) \in Seq(Cs)
    BY <1>1, <1>16 DEF Choice!Publish
  <2>1. Queues
    BY <1>1, <1>3, <1>16, <2>0 DEF Choice!Publish, Choice!Merged
  <2>2. Spoken
    BY <1>1, <1>3, <1>16, <2>0 DEF Choice!Publish, Choice!Merged
  <2>3. Flags
    BY <1>1, <1>3, <1>16, <2>0 DEF Choice!Publish, Choice!Merged
  <2> QED
    BY <2>1, <2>2, <2>3
<1>17. CASE Choice!Settle
  <2>1. Queues
    BY <1>1, <1>2, <1>3, <1>17 DEF Choice!Settle, Choice!Settled
  <2>2. Spoken
    BY <1>1, <1>2, <1>3, <1>17 DEF Choice!Settle, Choice!Settled
  <2>3. Flags
    BY <1>1, <1>2, <1>3, <1>17 DEF Choice!Settle, Choice!Settled
  <2> QED
    BY <2>1, <2>2, <2>3
<1>18. CASE UNCHANGED choiceVars
  <2>1. Queues
    BY <1>1, <1>18 DEF choiceVars
  <2>2. Spoken
    BY <1>1, <1>18 DEF choiceVars
  <2>3. Flags
    BY <1>1, <1>18 DEF choiceVars
  <2> QED
    BY <2>1, <2>2, <2>3
<1> HIDE DEF Queues, Spoken, Flags
<1> QED
  BY <1>7, <1>8, <1>9, <1>10, <1>11, <1>12, <1>13, <1>14, <1>15, <1>16, <1>17, <1>18
  DEF Choice!Next, Own

LEMMA ChoiceTypes == ChoiceBounded => Choice!TypeOK
BY DEF ChoiceBounded, ChoiceTyped, Choice!TypeOK

-----------------------------------------------------------------------------
\* SessionSettings.
ConfigBounded ==
  /\ req \in [Requests -> {"new", "prepare", "over"}]
  /\ base \in [Requests -> Config!Settings \cup {None}] /\ gate \in Requests \cup {None}
  /\ runAt \in {"idle", "announce", "boundary", "apply", "model", "last", "ended"}
  /\ runHurried \in BOOLEAN /\ runSurvived \in BOOLEAN /\ runs \in 0 .. MaxRuns

LEMMA ConfigStartsBounded == ASSUME Config!Init PROVE ConfigBounded
<1>1. /\ req = [r \in Requests |-> "new"] /\ base = [r \in Requests |-> None] /\ gate = None
      /\ runAt = "idle" /\ runHurried = FALSE /\ runs = 0 /\ runSurvived = TRUE
  BY DEF Config!Init
<1>2. req \in [Requests -> {"new", "prepare", "over"}] /\ gate \in Requests \cup {None}
  BY <1>1
<1>4. base \in [Requests -> Config!Settings \cup {None}]
  <2> DEFINE S == Config!Settings \cup {None}
  <2>1. None \in S
    OBVIOUS
  <2> HIDE DEF S
  <2>2. base \in [Requests -> S]
    BY <1>1, <2>1
  <2> QED
    BY <2>2 DEF S
<1>3. runHurried \in BOOLEAN /\ runSurvived \in BOOLEAN
  BY <1>1
<1>6. runs \in 0 .. MaxRuns
  BY <1>1, BoundsAssumption
<1>5. runAt \in {"idle", "announce", "boundary", "apply", "model", "last", "ended"}
  BY <1>1
<1> QED
  BY <1>2, <1>3, <1>4, <1>5, <1>6 DEF ConfigBounded

LEMMA ConfigStaysBounded ==
  ASSUME SettingsInv, ConfigBounded, [Config!Next]_configVars PROVE ConfigBounded'
<1> DEFINE Chosen == Config!Settings \cup {None}
           Points == {"idle", "announce", "boundary", "apply", "model", "last", "ended"}
           States == {"new", "prepare", "over"}
<1>1. /\ req \in [Requests -> States] /\ base \in [Requests -> Chosen]
      /\ gate \in Requests \cup {None} /\ runAt \in Points /\ runHurried \in BOOLEAN
      /\ runSurvived \in BOOLEAN /\ runs \in 0 .. MaxRuns /\ MaxRuns \in Nat
  BY BoundsAssumption DEF ConfigBounded
<1>2. Config!Wanted(runOwner) \in Chosen
  BY DEF SettingsInv, AllSound, Sound, Config!Wanted, Config!Copies
<1> HIDE DEF Chosen
<1>3. SUFFICES /\ req' \in [Requests -> States] /\ base' \in [Requests -> Chosen]
               /\ gate' \in Requests \cup {None} /\ runAt' \in Points /\ runHurried' \in BOOLEAN
               /\ runSurvived' \in BOOLEAN /\ runs' \in 0 .. MaxRuns
  BY DEF ConfigBounded, Chosen
<1>4. CASE \E r \in Requests : Config!Ask(r) \/ Config!GiveUp(r) \/ Config!Busy(r)
  BY <1>1, <1>2, <1>4 DEF Config!Ask, Config!GiveUp, Config!Busy, Config!Answered, Config!run
<1>5. CASE \E r \in Requests : Config!SaveAtRest(r) \/ Config!SaveInRun(r)
  BY <1>1, <1>5 DEF Config!SaveAtRest, Config!SaveInRun, Config!Answered, Config!run
<1>6. CASE Config!StartRun \/ Config!Hurry \/ Config!Announce \/ Config!ConsumeCommands
           \/ Config!ApplyPending \/ Config!Respond
  <2>1. UNCHANGED <<req, base, gate, runSurvived>>
    BY <1>6
    DEF Config!StartRun, Config!Hurry, Config!Announce, Config!ConsumeCommands,
        Config!ApplyPending, Config!Respond, Config!request
  <2>2. runAt' \in Points /\ runs' \in 0 .. MaxRuns
    BY <1>1, <1>6
    DEF Config!StartRun, Config!Hurry, Config!Announce, Config!ConsumeCommands,
        Config!ApplyPending, Config!Respond
  <2>3. runHurried' \in BOOLEAN
    BY <1>1, <1>6
    DEF Config!StartRun, Config!Hurry, Config!Announce, Config!ConsumeCommands,
        Config!ApplyPending, Config!Respond
  <2> QED
    BY <1>1, <2>1, <2>2, <2>3
<1>7. CASE Config!AgentEnds \/ Config!AgentPanics \/ Config!Publish \/ Config!Settle
  BY <1>1, <1>7
  DEF Config!AgentEnds, Config!AgentPanics, Config!Publish, Config!Settle, Config!request
<1>8. CASE UNCHANGED configVars
  BY <1>1, <1>8 DEF configVars
<1> QED
  BY <1>4, <1>5, <1>6, <1>7, <1>8 DEF Config!Next

LEMMA ConfigTypes == ASSUME SettingsInv, ConfigBounded PROVE Config!TypeOK
<1>1. /\ runOwner \in Config!Copies /\ runAgent \in Config!Copies
      /\ runEvents \in Seq(Config!Copies) /\ accepted \in Seq(Config!Settings)
      /\ runCommands \in Seq(Requests)
  BY DEF SettingsInv, AllSound, Sound, Log, Newer
<1> QED
  BY <1>1 DEF ConfigBounded, Config!TypeOK

-----------------------------------------------------------------------------
\* TaskPlan.

PlanBounded ==
  /\ plan.sequence <= MaxItems /\ revision \in 0 .. MaxRevision /\ closing \in BOOLEAN
  /\ told \in SUBSET (1 .. MaxItems)

LEMMA PlanStartsBounded == ASSUME Plan!Init PROVE PlanBounded
<1>1. plan = [todos |-> <<>>, sequence |-> 0, total |-> 0] /\ revision = 0 /\ closing = FALSE
      /\ told = {}
  BY DEF Plan!Init
<1>2. plan.sequence <= MaxItems /\ revision \in 0 .. MaxRevision
  BY <1>1, PlanAssumption, BoundsAssumption
<1>4. closing \in BOOLEAN
  BY <1>1
<1>3. told \in SUBSET (1 .. MaxItems)
  BY <1>1
<1> QED
  BY <1>2, <1>3, <1>4 DEF PlanBounded

\* What a call names was made, or would be next.
LEMMA NamesItems ==
  ASSUME plan.sequence \in Nat, NEW ops \in Plan!Batches
  PROVE  Plan!Completed(ops) \in SUBSET (1 .. MaxItems)
<1> DEFINE I == Plan!Item
           Makes(o) == o.op = "complete" => o.id \in I
<1>1. I \subseteq 1 .. MaxItems
  BY PlanAssumption DEF Plan!Item
<1> HIDE DEF I
<1>2. ASSUME NEW T, NEW pairs, NEW o \in Plan!Operations(T, pairs)
      PROVE  Makes(o)
  BY DEF Plan!Operations, I
<1>3. \A o \in Plan!Finishing : Makes(o)
  BY DEF Plan!Finishing, I
<1>4. \A o \in Plan!Usual : Makes(o)
  BY <1>2 DEF Plan!Usual
<1>5. \A o \in Plan!Between : Makes(o)
  BY <1>4 DEF Plan!Between
<1>6. \A o \in Plan!Operations(Texts, Texts \X Texts) : Makes(o)
  BY <1>2
<1> DEFINE any == Plan!Operations(Texts, Texts \X Texts)
           ones == {<<o>> : o \in any}
           twos == {<<o, q>> : o \in Plan!Usual, q \in Plan!Usual}
           threes == {<<o, q, r>> : o \in Plan!Finishing, q \in Plan!Between, r \in Plan!Finishing}
<1>7. ops \in ones \/ ops \in twos \/ ops \in threes
  BY DEF Plan!Batches
<1> HIDE DEF any, Makes, I
<1>8. \A i \in DOMAIN ops : Makes(ops[i])
  <2>1. CASE ops \in ones
    <3>1. PICK o \in any : ops = <<o>>
      BY <2>1
    <3> QED
      BY <1>6, <3>1 DEF any
  <2>2. CASE ops \in twos
    <3>1. PICK o \in Plan!Usual, q \in Plan!Usual : ops = <<o, q>>
      BY <2>2
    <3> QED
      BY <1>4, <3>1
  <2>3. CASE ops \in threes
    <3>1. PICK o \in Plan!Finishing, q \in Plan!Between, r \in Plan!Finishing : ops = <<o, q, r>>
      BY <2>3
    <3> QED
      BY <1>3, <1>5, <3>1
  <2> QED
    BY <1>7, <2>1, <2>2, <2>3
<1> QED
  BY <1>1, <1>8 DEF Plan!Completed, Makes

LEMMA PlanStaysBounded ==
  ASSUME PlanInv, PlanBounded, [Plan!Next]_planVars PROVE PlanBounded'
<1>1. /\ plan.sequence \in Nat /\ plan.sequence <= MaxItems /\ revision \in 0 .. MaxRevision
      /\ closing \in BOOLEAN /\ told \in SUBSET (1 .. MaxItems) /\ MaxRevision \in Nat
  BY BoundsAssumption DEF PlanInv, Good, Plans, PlanBounded
<1>2. CASE UNCHANGED planVars
  BY <1>2 DEF planVars, PlanBounded
<1>3. ASSUME NEW sent, Plan!Execute(sent) PROVE PlanBounded'
  <2>1. CASE UNCHANGED Plan!vars
    BY <2>1 DEF Plan!vars, PlanBounded
  <2>2. CASE ~UNCHANGED Plan!vars
    <3>1. PICK ops \in Plan!Batches, fits \in BOOLEAN :
            /\ revision < MaxRevision /\ Plan!Trial(plan, ops).plan.sequence <= MaxItems
            /\ Plan!Commit(Plan!Trial(plan, ops).plan, Plan!Completed(ops), fits)
      <4> DEFINE Outcomes == {<<Plan!Trial(plan, ops), Plan!Completed(ops)>> : ops \in Plan!Batches}
      <4>1. PICK t \in Outcomes, fits \in BOOLEAN :
              /\ revision < MaxRevision /\ t[1].plan.sequence <= MaxItems
              /\ Plan!Commit(t[1].plan, t[2], fits)
        BY <1>3, <2>2 DEF Plan!Execute
      <4>2. PICK ops \in Plan!Batches : t = <<Plan!Trial(plan, ops), Plan!Completed(ops)>>
        OBVIOUS
      <4> HIDE DEF Outcomes
      <4>3. t[1] = Plan!Trial(plan, ops) /\ t[2] = Plan!Completed(ops)
        BY <4>2
      <4> QED
        BY <4>1, <4>3
    <3> DEFINE next == Plan!Trial(plan, ops).plan
               done == Plan!Completed(ops)
    <3>2. /\ plan' = next /\ told' = done /\ closing' = closing
          /\ revision' = revision + (IF next = plan THEN 0 ELSE 1)
      BY <2>2, <3>1 DEF Plan!Commit
    <3>3. done \in SUBSET (1 .. MaxItems) /\ next.sequence <= MaxItems
      BY <1>1, <3>1, NamesItems
    <3> HIDE DEF next, done
    <3>4. revision' \in 0 .. MaxRevision
      BY <1>1, <3>1, <3>2
    <3> QED
      BY <1>1, <3>2, <3>3, <3>4 DEF PlanBounded
  <2> QED
    BY <2>1, <2>2
<1>4. ASSUME NEW on \in BOOLEAN, Plan!Closing(on) PROVE PlanBounded'
  BY <1>1, <1>4 DEF Plan!Closing, PlanBounded
<1> QED
  BY <1>2, <1>3, <1>4 DEF Plan!Next

LEMMA PlanTypes == ASSUME PlanInv, PlanBounded PROVE Plan!TypeOK
<1>1. /\ plan.todos \in Seq(Entries) /\ plan.sequence \in Nat /\ plan.total \in Nat
      /\ \A i \in 1 .. Len(plan.todos) : plan.todos[i].id \in 1 .. plan.sequence
  BY DEF PlanInv, Good, Plans
<1>2. plan.sequence \in 0 .. MaxItems
  BY <1>1, PlanAssumption DEF PlanBounded
<1>3. ASSUME NEW i \in 1 .. Len(plan.todos) PROVE plan.todos[i] \in Plan!Todos
  <2>1. plan.todos[i] \in Entries /\ plan.todos[i].id \in 1 .. MaxItems
    BY <1>1, <1>2, PlanAssumption
  <2> QED
    BY <2>1 DEF Entries, Plan!Todos
<1>4. Plan!Range(plan.todos) \subseteq Plan!Todos
  BY <1>1, <1>3 DEF Plan!Range
<1> QED
  BY <1>1, <1>2, <1>4 DEF PlanBounded, Plan!TypeOK

-----------------------------------------------------------------------------
\* Memories.

Views == Paths \X (0 .. MaxVersion)
Cites(e) == e.revision \in Nat \ {0} /\ e.sources \in SUBSET Views
AllCite(s) == \A i \in 1 .. Len(s) : Cites(s[i])

StoreBounded ==
  /\ lastId <= MaxMemories /\ generation <= MaxGeneration /\ sources \in SUBSET Views
  /\ files \in [Paths -> 0 .. MaxVersion] /\ AllCite(memories)
  /\ page.from \in {Store!Nil} \cup 0 .. MaxGeneration

LEMMA StoreStartsBounded == ASSUME Store!Init PROVE StoreBounded
<1>1. /\ memories = <<>> /\ lastId = 0 /\ generation = 0 /\ sources = {}
      /\ files = [p \in Paths |-> 0] /\ page = [from |-> Store!Nil, shown |-> <<>>]
  BY DEF Store!Init, Store!NoPage
<1>2. lastId <= MaxMemories /\ generation <= MaxGeneration /\ 0 \in 0 .. MaxVersion
  BY <1>1, BoundsAssumption
<1>3. files \in [Paths -> 0 .. MaxVersion] /\ sources \in SUBSET Views
  BY <1>1, <1>2
<1>4. AllCite(memories)
  BY <1>1 DEF AllCite
<1>5. page.from \in {Store!Nil} \cup 0 .. MaxGeneration
  BY <1>1
<1> QED
  BY <1>2, <1>3, <1>4, <1>5 DEF StoreBounded

LEMMA ReviewedCite ==
  ASSUME NEW s, NEW top \in Nat, Whole(s, top), AllCite(s), NEW changed
  PROVE  AllCite(Store!Reviewed(s, changed))
<1> DEFINE r == Store!Reviewed(s, changed)
<1>1. s \in Seq(Items) /\ DOMAIN s = 1 .. Len(s) /\ Len(r) = Len(s)
  <2>1. s \in Seq(Items)
    BY DEF Whole
  <2>2. Len(r) = Len(s)
    BY ReviewedWhole
  <2> QED
    BY <2>1, <2>2
<1>2. ASSUME NEW i \in 1 .. Len(s) PROVE Cites(r[i])
  <2>1. s[i] \in Items /\ Cites(s[i])
    BY <1>1 DEF AllCite
  <2>2. r[i] = s[i] \/ r[i] = [s[i] EXCEPT !.status = "needs_review", !.revision = @ + 1]
    BY <1>1 DEF Store!Reviewed
  <2>3. CASE r[i] = [s[i] EXCEPT !.status = "needs_review", !.revision = @ + 1]
    <3>1. r[i].revision = s[i].revision + 1 /\ r[i].sources = s[i].sources
      BY <2>1, <2>3 DEF Items
    <3> QED
      BY <2>1, <3>1 DEF Cites
  <2> QED
    BY <2>1, <2>2, <2>3
<1> QED
  BY <1>1, <1>2 DEF AllCite

LEMMA DropCite ==
  ASSUME NEW s, NEW top \in Nat, Whole(s, top), AllCite(s), NEW ids
  PROVE  AllCite(Store!Drop(s, ids))
BY DropWhole DEF AllCite

LEMMA SaveCite ==
  ASSUME NEW s, lastId \in Nat, Whole(s, lastId), AllCite(s), NEW in, in.sources \in SUBSET Views,
         Store!Save(s, in).ok, NEW r, r = Store!Save(s, in)
  PROVE  AllCite(r.store)
<1> DEFINE own == Store!Owner(s, in.key)
           old == CHOOSE e \in Store!Range(s) : e.id \in own
           id == IF own = {} THEN lastId + 1 ELSE old.id
           number == IF own = {} THEN 1 ELSE old.revision + 1
           made == Store!Made(in, id, number)
           rest == Store!Drop(s, own)
           next == <<made>> \o rest
           same == {e \in Store!Range(s) : Store!Same(e, in)}
           found == CHOOSE e \in same : TRUE
<1>1. \/ same # {} /\ r.store = s /\ r.id = found.id
      \/ r.store = next /\ r.id = id /\ Len(next) <= MaxCount /\ Store!Bytes(next) <= MaxBytes
  BY Zenon DEF Store!Save
<1>2. number \in Nat \ {0}
  <2>1. CASE own = {}
    BY <2>1
  <2>2. CASE own # {}
    <3>1. \E e \in Store!Range(s) : e.id \in own
      BY <2>2 DEF Store!Owner
    <3>2. old \in Store!Range(s)
      BY <3>1
    <3>3. PICK i \in 1 .. Len(s) : old = s[i]
      BY <3>2, RangeIs
    <3>4. old.revision \in Nat
      <4>1. s[i].revision \in Nat
        BY DEF AllCite, Cites
      <4> HIDE DEF old
      <4> QED
        BY <3>3, <4>1
    <3> HIDE DEF own, old
    <3> QED
      BY <2>2, <3>4
  <2> QED
    BY <2>1, <2>2
<1> HIDE DEF number, id, same
<1>3. Cites(made)
  <2>1. made.revision = number /\ made.sources = in.sources
    BY DEF Store!Made
  <2> HIDE DEF made
  <2> QED
    BY <1>2, <2>1 DEF Cites
<1>4. AllCite(rest) /\ rest \in Seq(Items)
  BY DropCite, DropWhole DEF Whole
<1> HIDE DEF made, rest
<1>5. AllCite(<<made>> \o rest)
  <2> DEFINE t == <<made>> \o rest
  <2>1. Len(t) = Len(rest) + 1 /\ t[1] = made /\ \A i \in 1 .. Len(rest) : t[i + 1] = rest[i]
    BY <1>4
  <2>2. Len(rest) \in Nat
    BY <1>4
  <2> HIDE DEF t
  <2>3. ASSUME NEW i \in 1 .. Len(t) PROVE Cites(t[i])
    <3>1. CASE i = 1
      BY <1>3, <2>1, <3>1
    <3>2. CASE i # 1
      <4>1. i - 1 \in 1 .. Len(rest) /\ (i - 1) + 1 = i
        BY <2>1, <2>2, <3>2
      <4>2. t[i] = rest[i - 1]
        BY <2>1, <4>1
      <4> QED
        BY <1>4, <4>1, <4>2 DEF AllCite
    <3> QED
      BY <3>1, <3>2
  <2>4. AllCite(t)
    BY <2>3 DEF AllCite
  <2> QED
    BY <2>4 DEF t
<1> QED
  BY <1>1, <1>5

LEMMA KnownCited == ASSUME StoreInv, StoreBounded PROVE Store!Known \in SUBSET Views
<1>1. ASSUME NEW e \in Store!Entries PROVE e.sources \in SUBSET Views
  <2>1. PICK i \in 1 .. Len(memories) : e = memories[i]
    BY RangeIs DEF StoreInv, Store!Entries
  <2> QED
    BY <2>1 DEF StoreBounded, AllCite, Cites
<1> QED
  BY <1>1 DEF Store!Known, StoreBounded

LEMMA SentIs ==
  ASSUME NEW in \in Store!Inputs
  PROVE  Store!Sent(in).sources = in.sources
         /\ \A v : [Store!Sent(in) EXCEPT !.revision = v].sources = in.sources
<1>1. in = [key |-> in.key, body |-> in.body, kind |-> in.kind, sources |-> in.sources,
            revision |-> in.revision]
  BY DEF Store!Inputs
<1>2. Store!Sent(in) = in \/ Store!Sent(in) = [in EXCEPT !.revision = Store!Nil]
  BY DEF Store!Sent
<1>3. PICK w : Store!Sent(in) = [key |-> in.key, body |-> in.body, kind |-> in.kind,
                                 sources |-> in.sources, revision |-> w]
  BY <1>1, <1>2
<1> QED
  BY <1>3

\* A step that leaves the store of its entries `s`, reviewed.
LEMMA BecomesBounded ==
  ASSUME StoreBounded, NEW s, NEW top \in Nat, Whole(s, top), AllCite(s), NEW g \in Nat,
         NEW changed, Store!Becomes(s, g, changed), lastId' <= MaxMemories,
         g < MaxGeneration \/ g + (IF Store!AnyStale(s, changed) THEN 1 ELSE 0) <= MaxGeneration,
         sources' \in SUBSET Views, UNCHANGED files,
         page'.from \in {Store!Nil} \cup 0 .. MaxGeneration
  PROVE  StoreBounded'
<1>1. memories' = Store!Reviewed(s, changed)
      /\ generation' = g + (IF Store!AnyStale(s, changed) THEN 1 ELSE 0)
  BY DEF Store!Becomes
<1>2. AllCite(memories')
  BY <1>1, ReviewedCite
<1>3. generation' <= MaxGeneration
  BY <1>1, BoundsAssumption
<1>4. files' \in [Paths -> 0 .. MaxVersion]
  BY DEF StoreBounded
<1> QED
  BY <1>2, <1>3, <1>4 DEF StoreBounded

LEMMA StoreStaysBounded ==
  ASSUME StoreInv, StoreBounded, [Store!Next]_storeVars PROVE StoreBounded'
<1>1. /\ lastId \in Nat /\ generation \in Nat /\ Whole(memories, lastId) /\ AllCite(memories)
      /\ lastId <= MaxMemories /\ generation <= MaxGeneration /\ sources \in SUBSET Views
      /\ files \in [Paths -> 0 .. MaxVersion] /\ page.from \in {Store!Nil} \cup 0 .. MaxGeneration
      /\ MaxMemories \in Nat /\ MaxVersion \in Nat /\ MaxGeneration \in Nat
  BY BoundsAssumption DEF StoreInv, StoreTyped, StoreBounded
<1>2. ASSUME NEW p \in Paths, Store!Edit(p) PROVE StoreBounded'
  <2>1. files' = [files EXCEPT ![p] = files[p] + 1] /\ files[p] < MaxVersion
        /\ UNCHANGED <<memories, lastId, generation, sources, refs, page>>
    BY <1>2 DEF Store!Edit
  <2>2. files' \in [Paths -> 0 .. MaxVersion]
    BY <1>1, <2>1
  <2> QED
    BY <1>1, <2>1, <2>2 DEF StoreBounded, AllCite
<1>3. ASSUME NEW p \in Paths, Store!Observe(p) PROVE StoreBounded'
  <2> DEFINE changed == [q \in Paths |-> IF q = p THEN files[p] ELSE Store!Nil]
  <2>1. /\ Store!Becomes(memories, generation, changed) /\ generation < MaxGeneration
        /\ sources' = sources \cup {<<p, files[p]>>} /\ UNCHANGED <<lastId, files, refs, page>>
    BY <1>3 DEF Store!Observe
  <2> HIDE DEF changed
  <2>2. <<p, files[p]>> \in Views
    BY <1>1 DEF Views
  <2>3. sources' \in SUBSET Views
    BY <1>1, <2>1, <2>2
  <2> QED
    BY <1>1, <2>1, <2>3, BecomesBounded
<1>4. ASSUME NEW in \in Store!Inputs, Store!Write(in) PROVE StoreBounded'
  <2> DEFINE sent == Store!Sent(in)
             r == Store!Save(memories, sent)
             grown == IF r.store = memories THEN generation ELSE generation + 1
             top == IF r.id > lastId THEN r.id ELSE lastId
  <2>1. /\ r.ok /\ lastId' = top /\ Store!Becomes(r.store, grown, files) /\ r.id <= MaxMemories
        /\ grown < MaxGeneration /\ in.sources \subseteq Store!Known
        /\ UNCHANGED <<sources, files, refs, page>>
    BY <1>4 DEF Store!Write
  <2>2. Input(sent) /\ sent.sources \in SUBSET Views
    BY <2>1, InputIs, SentIs, KnownCited
  <2> HIDE DEF sent
  <2>3. r.id \in Nat /\ Whole(r.store, top) /\ AllCite(r.store)
    BY <1>1, <2>1, <2>2, SaveWhole, SaveCite
  <2> HIDE DEF r
  <2>4. top \in Nat /\ top <= MaxMemories /\ grown \in Nat
    BY <1>1, <2>1, <2>3
  <2> HIDE DEF grown, top
  <2> QED
    BY <1>1, <2>1, <2>3, <2>4, BecomesBounded
<1>5. ASSUME NEW ids, NEW in \in Store!Inputs, Store!Replace(ids, in) PROVE StoreBounded'
  <2> DEFINE own == Store!Owner(memories, in.key)
             sent == Store!Sent(in)
             left == Store!Drop(memories, ids)
             put == [sent EXCEPT !.revision = IF own = {} THEN @ ELSE Store!Nil]
             r == Store!Save(left, put)
             top == IF r.id > lastId THEN r.id ELSE lastId
  <2>1. /\ r.ok /\ lastId' = top /\ Store!Becomes(r.store, generation + 1, files)
        /\ r.id <= MaxMemories /\ generation + 2 <= MaxGeneration
        /\ in.sources \subseteq Store!Known /\ UNCHANGED <<sources, files, page>>
    BY <1>5 DEF Store!Replace
  <2>2. Input(put) /\ put.sources \in SUBSET Views
    BY <2>1, InputIs, SentIs, KnownCited
  <2>3. Whole(left, lastId) /\ AllCite(left)
    BY <1>1, DropWhole, DropCite
  <2> HIDE DEF put, left
  <2>4. r.id \in Nat /\ Whole(r.store, top) /\ AllCite(r.store)
    BY <1>1, <2>1, <2>2, <2>3, SaveWhole, SaveCite
  <2> HIDE DEF r
  <2>5. /\ top \in Nat /\ top <= MaxMemories
        /\ generation + 1 \in Nat /\ generation + 1 < MaxGeneration
    BY <1>1, <2>1, <2>4
  <2> HIDE DEF top
  <2> QED
    BY <1>1, <2>1, <2>4, <2>5, BecomesBounded
<1>6. ASSUME NEW ids, Store!Delete(ids) PROVE StoreBounded'
  <2>1. /\ memories' = Store!Drop(memories, ids)
        /\ generation' = generation + Store!Cardinality(ids)
        /\ generation + Store!Cardinality(ids) <= MaxGeneration
        /\ UNCHANGED <<lastId, sources, files, refs, page>>
    BY <1>6 DEF Store!Delete
  <2>2. AllCite(memories')
    BY <1>1, <2>1, DropCite
  <2> QED
    BY <1>1, <2>1, <2>2 DEF StoreBounded
<1>7. CASE Store!Read
  <2>1. /\ Store!Becomes(memories, generation, files) /\ generation < MaxGeneration
        /\ UNCHANGED <<lastId, sources, files, refs, page>>
    BY <1>7 DEF Store!Read
  <2> QED
    BY <1>1, <2>1, BecomesBounded
<1>8. ASSUME NEW continue, Store!Find(continue) PROVE StoreBounded'
  <2> DEFINE gen == generation + (IF Store!AnyStale(memories, files) THEN 1 ELSE 0)
  <2>1. /\ Store!Becomes(memories, generation, files) /\ gen <= MaxGeneration
        /\ UNCHANGED <<lastId, sources, files, refs>>
        /\ Store!Shown(gen, <<>>) \/ Store!Shown(gen, page.shown)
    BY <1>8 DEF Store!Find
  <2>2. gen \in 0 .. MaxGeneration
    BY <1>1, <2>1
  <2>3. page'.from \in {Store!Nil} \cup 0 .. MaxGeneration
    <3> HIDE DEF gen
    <3> QED
      BY <2>1, <2>2 DEF Store!Shown, Store!NoPage
  <2> QED
    BY <1>1, <2>1, <2>3, BecomesBounded
<1>9. ASSUME UNCHANGED <<memories, lastId, generation, sources, files, page>> PROVE StoreBounded'
  BY <1>1, <1>9 DEF StoreBounded, AllCite
<1> QED
  BY <1>2, <1>3, <1>4, <1>5, <1>6, <1>7, <1>8, <1>9 DEF Store!Next, Store!Refer, storeVars

LEMMA StoreTypes == ASSUME StoreInv, StoreBounded PROVE Store!TypeOK
<1>1. ASSUME NEW e \in Store!Entries
      PROVE  /\ e.id \in 1 .. lastId /\ e.key \in Keys \cup {Store!Nil} /\ e.body \in Bodies
             /\ e.kind \in Store!Kinds /\ e.status \in Store!Statuses
             /\ e.revision \in Nat \ {0} /\ e.sources \subseteq Views
  <2>1. PICK i \in 1 .. Len(memories) : e = memories[i]
    BY RangeIs DEF StoreInv, Store!Entries
  <2>2. e \in Items /\ e.id \in 1 .. lastId /\ Cites(e)
    BY <2>1 DEF StoreInv, Whole, StoreBounded, AllCite
  <2> QED
    BY <2>2 DEF Items, Cites
<1>2. lastId \in 0 .. MaxMemories /\ generation \in 0 .. MaxGeneration
  BY BoundsAssumption DEF StoreInv, StoreTyped, StoreBounded
<1>3. refs \subseteq 1 .. MaxMemories
  <2>1. \A i \in 1 .. Len(memories) : memories[i].id \in 1 .. lastId
    BY DEF StoreInv, Whole
  <2>2. refs \subseteq 1 .. lastId
    BY <2>1 DEF StoreInv, Ids
  <2> QED
    BY <1>2, <2>2, BoundsAssumption
<1>4. /\ sources \subseteq Views /\ files \in [Paths -> 0 .. MaxVersion]
      /\ page.from \in {Store!Nil} \cup 0 .. MaxGeneration
  BY DEF StoreBounded
<1> QED
  BY <1>1, <1>2, <1>3, <1>4 DEF Views, Store!TypeOK

-----------------------------------------------------------------------------
\* History.

Waits == phase \in {"routing", "answer"} <=> asked # 0
KeptBounded ==
  /\ cp.open \/ cp = Kept!NoCheckpoint
  /\ limit \in Limits /\ pending \in Limits \cup {0}
  /\ batch \in {"none", "saved", "unconfirmed", "failed", "cancelled"}
  /\ Waits

LEMMA KeptStartsBounded == ASSUME Kept!Init PROVE KeptBounded
BY DEF Kept!Init, KeptBounded, Waits

LEMMA SamePending ==
  ASSUME NEW c \in Pendings, NEW d \in Pendings, c.open = d.open, c.ids = d.ids,
         c.maint = d.maint, c.acked = d.acked, c.failed = d.failed
  PROVE  c = d
BY DEF Pendings

LEMMA OpenOrNone ==
  ASSUME NEW c \in Pendings, c.open \/ c = Kept!NoCheckpoint
  PROVE  /\ Kept!Fresh(c).open \/ Kept!Fresh(c) = Kept!NoCheckpoint
         /\ \A failed, completes, cancelled \in BOOLEAN :
              LET d == [Kept!Called(c, failed, completes) EXCEPT !.acked = @ /\ ~cancelled]
              IN  d.open \/ d = Kept!NoCheckpoint
<1>1. CASE c.open
  BY <1>1 DEF Pendings, Kept!Fresh, Kept!Called
<1>2. CASE c = Kept!NoCheckpoint
  <2>1. /\ c = [open |-> FALSE, ids |-> {}, maint |-> {}, acked |-> FALSE, failed |-> FALSE]
        /\ c.open = FALSE
    BY <1>2 DEF Kept!NoCheckpoint
  <2>2. Kept!Fresh(c) = Kept!NoCheckpoint
    <3>1. Kept!Fresh(c) \in Pendings /\ Kept!Fresh(c).open = c.open /\ Kept!Fresh(c).ids = c.ids
          /\ Kept!Fresh(c).maint = c.maint /\ Kept!Fresh(c).acked = FALSE
          /\ Kept!Fresh(c).failed = FALSE
      BY DEF Pendings, Kept!Fresh
    <3> QED
      BY <2>1, <3>1, SamePending, <1>2
  <2>3. ASSUME NEW failed \in BOOLEAN, NEW completes \in BOOLEAN, NEW cancelled \in BOOLEAN
        PROVE  [Kept!Called(c, failed, completes) EXCEPT !.acked = @ /\ ~cancelled]
               = Kept!NoCheckpoint
    <3> DEFINE b == Kept!Called(c, failed, completes)
               d == [b EXCEPT !.acked = @ /\ ~cancelled]
    <3>1. /\ b \in Pendings /\ b.open = c.open /\ b.ids = c.ids /\ b.maint = c.maint
          /\ b.acked = (c.open /\ completes /\ ~failed) /\ b.failed = (c.open /\ failed)
      BY DEF Pendings, Kept!Called
    <3> HIDE DEF b
    <3>2. /\ d \in Pendings /\ d.open = c.open /\ d.ids = c.ids /\ d.maint = c.maint
          /\ d.acked = (b.acked /\ ~cancelled) /\ d.failed = b.failed
      BY <3>1 DEF Pendings
    <3> HIDE DEF d
    <3>3. ~b.acked /\ ~b.failed
      BY <2>1, <3>1
    <3>4. ~d.acked /\ ~d.failed
      BY <3>2, <3>3
    <3>5. d.acked \in BOOLEAN /\ d.failed \in BOOLEAN
      BY <3>2 DEF Pendings
    <3>6. d.acked = FALSE /\ d.failed = FALSE
      BY <3>4, <3>5
    <3>7. d = c
      BY <2>1, <3>2, <3>6, SamePending
    <3> QED
      BY <1>2, <3>7 DEF b, d
  <2> QED
    BY <2>2, <2>3
<1> QED
  BY <1>1, <1>2

LEMMA InMaintOpen ==
  ASSUME cp \in Pendings, cp.open \/ cp = Kept!NoCheckpoint, NEW id
  PROVE  Kept!InMaint(id).open \/ Kept!InMaint(id) = Kept!NoCheckpoint
BY DEF Pendings, Kept!InMaint

LEMMA KeptStaysBounded ==
  ASSUME HistoryInv, KeptBounded, [Kept!Next]_keptVars PROVE KeptBounded'
<1> DEFINE Open(c) == c.open \/ c = Kept!NoCheckpoint
           Batched == {"none", "saved", "unconfirmed", "failed", "cancelled"}
           Asks == {"routing", "answer"}
<1>1. /\ Open(cp) /\ cp \in Pendings /\ limit \in Limits /\ pending \in Limits \cup {0}
      /\ batch \in Batched /\ nextId \in Nat /\ Waits
  BY DEF KeptBounded, HistoryInv, HistoryTyped
<1>2. Open(Kept!Fresh(cp)) /\ Open(Kept!NoCheckpoint)
  BY <1>1, OpenOrNone
<1>3. \A id : Open(Kept!InMaint(id))
  BY <1>1, InMaintOpen
<1> HIDE DEF Open, Batched
<1>4. SUFFICES /\ Open(cp') /\ limit' \in Limits /\ pending' \in Limits \cup {0}
               /\ batch' \in Batched /\ Waits'
  BY DEF KeptBounded, Open, Batched
<1>5. ASSUME phase \notin Asks, phase' \notin Asks, asked' = asked PROVE Waits'
  BY <1>1, <1>5 DEF Waits
<1>6. CASE \E z \in Sizes : Kept!StartTask(z) \/ Kept!Cleanup(z)
  BY <1>1, <1>2, <1>5, <1>6 DEF Kept!StartTask, Kept!Cleanup
<1>7. CASE Kept!Resume
  BY <1>1, <1>2, <1>5, <1>7 DEF Kept!Resume
<1>8. CASE \E z \in Sizes, with \in BOOLEAN : Kept!Message(z, with)
  BY <1>1, <1>8 DEF Kept!Message, Waits
<1>9. CASE \E new \in Limits, fits \in BOOLEAN : Kept!Settings(new, fits)
  BY <1>1, <1>5, <1>9 DEF Kept!Settings
<1>10. CASE \E new \in Limits, fits \in BOOLEAN : Kept!QuestionSettings(new, fits)
  BY <1>1, <1>10 DEF Kept!QuestionSettings, Kept!QuestionEnd, Waits
<1>11. CASE Kept!Amend
  BY <1>1, <1>2, <1>11 DEF Kept!Amend, Waits
<1>12. CASE Kept!Discuss \/ Kept!QuestionFails
  BY <1>1, <1>12 DEF Kept!Discuss, Kept!QuestionFails, Kept!QuestionEnd, Waits
<1>13. CASE \E archive, last \in BOOLEAN : Kept!AnswerStep(archive, last)
  <2>1. /\ phase \in Asks /\ UNCHANGED <<cp, limit, pending, batch>>
        /\ UNCHANGED <<phase, asked>> \/ (phase' = "idle" /\ asked' = 0)
    BY <1>13 DEF Kept!AnswerStep, Kept!QuestionEnd
  <2> QED
    BY <1>1, <2>1 DEF Waits
<1>14. CASE \E new \in Limits \cup {0}, fits \in BOOLEAN : Kept!Boundary(new, fits)
  <2>1. PICK new \in Limits \cup {0} :
          /\ phase = "boundary" /\ phase' \in {"idle", "prepare"} /\ cp' = cp
          /\ UNCHANGED <<asked, batch>>
          /\ \/ limit' = new /\ new # 0 /\ pending' = 0
             \/ limit' = limit /\ pending' = new
    BY <1>14 DEF Kept!Boundary, Kept!Stop
  <2> QED
    BY <1>1, <1>5, <2>1
<1>15. CASE \E report \in BOOLEAN : Kept!RunOut(report)
  BY <1>1, <1>5, <1>15 DEF Kept!RunOut, Kept!Stop
<1>16. CASE \E large, over \in BOOLEAN : \E wanted : Kept!Prepare(large, over, wanted)
  <2>1. /\ phase = "prepare" /\ phase' \in {"idle", "request"}
        /\ UNCHANGED <<limit, pending, asked, batch>>
        /\ cp' = cp \/ (\E ids : cp' = [Kept!NoCheckpoint EXCEPT !.open = TRUE, !.ids = ids])
    BY <1>16 DEF Kept!Prepare, Kept!Stop
  <2>2. Open(cp')
    BY <1>1, <2>1 DEF Open, Kept!NoCheckpoint
  <2> QED
    BY <1>1, <1>5, <2>1, <2>2
<1>17. CASE \E large, over \in BOOLEAN : \E wanted : Kept!DoesNotFit(large, over, wanted)
  BY <1>1, <1>2, <1>5, <1>17 DEF Kept!DoesNotFit, Kept!Stop
<1>18. CASE \E n : Kept!Round(n)
  BY <1>1, <1>2, <1>5, <1>18 DEF Kept!Round
<1>19. CASE Kept!RetryLimit \/ \E again \in BOOLEAN : Kept!NoReply(again)
  BY <1>1, <1>5, <1>19 DEF Kept!RetryLimit, Kept!NoReply, Kept!Stop
<1>20. CASE \E z \in Sizes, more \in BOOLEAN : Kept!CutReply(z, more)
  BY <1>1, <1>3, <1>5, <1>20 DEF Kept!CutReply, Kept!Stop
<1>21. CASE \E z \in Sizes, seen1, ends \in BOOLEAN : Kept!TextReply(z, seen1, ends)
  BY <1>1, <1>3, <1>5, <1>21 DEF Kept!TextReply, Kept!Stop
<1>22. CASE \E z \in Sizes, archive, failed, completes, cancelled \in BOOLEAN :
              Kept!Batch(z, archive, failed, completes, cancelled)
  <2>1. PICK failed \in BOOLEAN, completes \in BOOLEAN, cancelled \in BOOLEAN, id \in Nat :
          /\ phase = "request" /\ phase' \in {"idle", "commit"}
          /\ UNCHANGED <<limit, pending, asked>>
          /\ batch' \in {"saved", "unconfirmed", "failed", "cancelled"}
          /\ cp' = [Kept!Called(Kept!InMaint(id), failed, completes) EXCEPT
                      !.acked = @ /\ ~cancelled]
    <3>1. PICK z \in Sizes, archive \in BOOLEAN, failed \in BOOLEAN, completes \in BOOLEAN,
               cancelled \in BOOLEAN : Kept!Batch(z, archive, failed, completes, cancelled)
      BY <1>22
    <3> QED
      BY <1>1, <3>1 DEF Kept!Batch, Kept!Stop
  <2>2. Open(cp')
    <3>1. Kept!InMaint(id) \in Pendings
      BY <1>1, InMaintIs
    <3> QED
      BY <1>3, <2>1, <3>1, OpenOrNone DEF Open
  <2> QED
    BY <1>1, <1>5, <2>1, <2>2 DEF Batched
<1>23. CASE \E more, stated \in BOOLEAN : Kept!Commit(more, stated)
  <2>1. /\ phase = "commit" /\ phase' \in {"idle", "boundary"}
        /\ UNCHANGED <<limit, pending, asked, batch>>
        /\ cp' = cp \/ cp' = Kept!NoCheckpoint
    BY <1>23 DEF Kept!Commit, Kept!Stop
  <2> QED
    BY <1>1, <1>2, <1>5, <2>1
<1>24. CASE UNCHANGED keptVars
  BY <1>1, <1>24 DEF keptVars, Waits
<1> QED
  BY <1>6, <1>7, <1>8, <1>9, <1>10, <1>11, <1>12, <1>13, <1>14, <1>15, <1>16, <1>17, <1>18, <1>19,
     <1>20, <1>21, <1>22, <1>23, <1>24
  DEF Kept!Next

LEMMA KeptTypes == ASSUME HistoryInv, KeptBounded PROVE Kept!TypeOK
<1>1. history \in Seq(Groups) /\ DOMAIN history = 1 .. Len(history)
      /\ (\A i \in 1 .. Len(history) : history[i].id \in 1 .. nextId)
      /\ (\A i, j \in 1 .. Len(history) : i < j => history[i].id < history[j].id)
  BY DEF HistoryInv, Named
<1>2. ASSUME NEW i \in 1 .. Len(history)
      PROVE  /\ history[i].id \in 1 .. nextId /\ history[i].kind \in Kept!Kinds
             /\ i > 1 => history[i].id > history[i - 1].id
  <2>1. history[i] \in Groups
    BY <1>1
  <2>2. history[i].kind \in Kept!Kinds
    BY <2>1 DEF Groups
  <2>3. i > 1 => history[i].id > history[i - 1].id
    <3> SUFFICES ASSUME i > 1 PROVE history[i].id > history[i - 1].id
      OBVIOUS
    <3>1. i - 1 \in 1 .. Len(history) /\ i - 1 < i
      BY <1>1
    <3>2. history[i - 1].id < history[i].id /\ history[i].id \in Nat /\ history[i - 1].id \in Nat
      BY <1>1, <3>1 DEF Groups
    <3> QED
      BY <3>2
  <2> QED
    BY <1>1, <2>2, <2>3
<1>3. cp.ids \cup cp.maint \subseteq 1 .. nextId
  BY <1>1 DEF HistoryInv, Named, Names
<1>4. ~cp.open => cp = Kept!NoCheckpoint
  BY DEF KeptBounded
<1>5. phase \in Kept!Phases /\ (phase \in {"routing", "answer"}) = (asked # 0)
  BY DEF HistoryInv, HistoryTyped, KeptBounded, Waits
<1> QED
  BY <1>1, <1>2, <1>3, <1>4, <1>5 DEF KeptBounded, Kept!TypeOK

-----------------------------------------------------------------------------
\* TypesOK: every part of the run `stores` keeps to its types, and to the limits
\* its types name: runs, plan items, memories, versions, bytes and history groups
\* stay numbered and ordered as the code's fields say, for any values of the
\* constants the assumptions of MCStores allow.
THEOREM StoresTyped == MCSpec => []TypesOK
<1> DEFINE Bounded == ChoiceBounded /\ ConfigBounded /\ PlanBounded /\ StoreBounded /\ KeptBounded
           Invs == MessageInv /\ SettingsInv /\ PlanInv /\ StoreInv /\ HistoryInv
<1> Distinguished
  BY SettingsAssumption DEF Distinguished, Config!Settings
<1>1. MCInit => Invs /\ Bounded
  <2> SUFFICES ASSUME MCInit PROVE Invs /\ Bounded
    OBVIOUS
  <2>1. Init /\ Kept!Init /\ Plan!Init /\ Store!Init /\ Choice!Init /\ Config!Init
    BY DEF MCInit
  <2>2. Invs
    BY <2>1, MessageInit, SettingsInit, PlanInit, StoreInit, HistoryInit
  <2>3. Bounded
    BY <2>1, ChoiceStartsBounded, ConfigStartsBounded, PlanStartsBounded, StoreStartsBounded,
       KeptStartsBounded
  <2> QED
    BY <2>2, <2>3
<1>2. Invs /\ Bounded /\ [MCNext]_mcVars => Invs' /\ Bounded'
  <2> SUFFICES ASSUME Invs, Bounded, [MCNext]_mcVars PROVE Invs' /\ Bounded'
    OBVIOUS
  <2>1. [Next]_vars /\ [Choice!Next]_choiceVars /\ [Config!Next]_configVars
    BY PartSteps
  <2>2. [Kept!Next]_keptVars /\ [Plan!Next]_planVars /\ [Store!Next]_storeVars
    BY DEF MCNext, mcVars
  <2>3. Invs'
    BY <2>1, <2>2, MessageNext, SettingsNext, PlanStep, StoreStep, HistoryNext
  <2>4. Bounded'
    BY <2>1, <2>2, ChoiceStaysBounded, ConfigStaysBounded, PlanStaysBounded, StoreStaysBounded,
       KeptStaysBounded
  <2> QED
    BY <2>3, <2>4
<1>3. Invs /\ Bounded => TypesOK
  BY ChoiceTypes, ConfigTypes, PlanTypes, StoreTypes, KeptTypes DEF MessageInv, TypesOK
<1> HIDE DEF Invs, Bounded
<1> QED
  BY <1>1, <1>2, <1>3, PTL DEF MCSpec, mcVars
=============================================================================
