------------------------- MODULE LogStreamTableProofs -------------------------
(* Theorems about the table of histories of LogStream: what it retains,    *)
(* and how large it grows, for every value of the constants.               *)
EXTENDS LogStreamProofs, FiniteSetTheorems, WellFoundedInduction

(***************************************************************************)
(* Induction.  The segments 0..n are well founded under inclusion, so a    *)
(* nonempty set of naturals has a least element.                           *)
(***************************************************************************)
LEMMA NatMin ==
  ASSUME NEW T \in SUBSET Nat, T # {}
  PROVE  \E n \in T : \A m \in T : n <= m
<1> DEFINE Segments == {0..m : m \in T}
           R == StrictSubsetOrdering(Nat)
<1>1. Segments \subseteq FiniteSubsetsOf(Nat) /\ Segments # {}
  <2>1. ASSUME NEW m \in T
        PROVE  0..m \in SUBSET Nat /\ IsFiniteSet(0..m)
    BY FS_Interval
  <2>2. QED BY <2>1 DEF FiniteSubsetsOf
<1>2. PICK x \in Segments : \A y \in Segments : ~(<<y, x>> \in R)
  <2>1. IsWellFoundedOn(R, FiniteSubsetsOf(Nat))
    BY FS_StrictSubsetOrderingWellFounded
  <2> HIDE DEF R, Segments
  <2>2. QED BY <1>1, <2>1, WFMin
<1>3. PICK n \in T : x = 0..n
  OBVIOUS
<1>4. ASSUME NEW m \in T, m < n
      PROVE  FALSE
  <2>1. 0..m \subseteq 0..n /\ 0..m # 0..n /\ 0..n \subseteq Nat
    <3>1. n \in 0..n /\ n \notin 0..m
      BY <1>4
    <3>2. QED BY <3>1, <1>4
  <2>2. <<0..m, x>> \in R
    BY <2>1, <1>3 DEF StrictSubsetOrdering
  <2>3. QED BY <1>2, <2>2
<1>5. QED BY <1>4

(* What holds of 0 and of every successor holds up to n.                   *)
LEMMA Induct ==
  ASSUME NEW n \in Nat, NEW T, 0 \in T, \A i \in 1..n : i - 1 \in T => i \in T
  PROVE  \A i \in 0..n : i \in T
<1> SUFFICES ASSUME (0..n) \ T # {}
             PROVE  FALSE
  OBVIOUS
<1>1. PICK i \in (0..n) \ T : \A m \in (0..n) \ T : i <= m
  BY NatMin, (0..n) \ T \in SUBSET Nat
<1>2. i \in 1..n /\ i - 1 \in 0..n /\ ~(i <= i - 1)
  BY <1>1
<1>3. QED BY <1>1, <1>2

(***************************************************************************)
(* Without, position by position.                                          *)
(***************************************************************************)
Step(f, q, G, i) == IF i = 0 THEN <<>>
                    ELSE IF q[i] \in G THEN f[i - 1] ELSE Append(f[i - 1], q[i])
IsKept(f, q, G, n) == f = [i \in 0..n |-> Step(f, q, G, i)]

LEMMA KeptExists ==
  ASSUME NEW S, NEW q \in Seq(S), NEW G
  PROVE  \E f : IsKept(f, q, G, Len(q))
<1> DEFINE n == Len(q)
           T == {k \in 0..n : \E f : IsKept(f, q, G, k)}
<1>1. n \in Nat
  OBVIOUS
<1>2. 0 \in T
  <2> DEFINE f == [i \in 0..0 |-> <<>>]
  <2>1. IsKept(f, q, G, 0)
    BY DEF IsKept, Step
  <2>2. QED BY <1>1, <2>1
<1>3. ASSUME NEW k \in 1..n, k - 1 \in T
      PROVE  k \in T
  <2>1. PICK f : IsKept(f, q, G, k - 1)
    BY <1>3
  <2> DEFINE g == [i \in 0..k |-> IF i = k THEN Step(f, q, G, i) ELSE f[i]]
             h == [i \in 0..k |-> Step(g, q, G, i)]
  <2>2. ASSUME NEW i \in 0..k
        PROVE  g[i] = Step(g, q, G, i)
    <3>1. i # 0 => i - 1 \in 0..k /\ i - 1 # k /\ g[i - 1] = f[i - 1]
      BY <1>1, <1>3
    <3>2. Step(g, q, G, i) = Step(f, q, G, i)
      BY <3>1 DEF Step
    <3>3. CASE i = k
      BY <3>2, <3>3
    <3>4. CASE i # k
      <4>1. i \in 0..(k - 1)
        BY <1>1, <1>3, <3>4
      <4>2. f[i] = Step(f, q, G, i)
        BY <2>1, <4>1 DEF IsKept
      <4>3. QED BY <3>2, <3>4, <4>2
    <3>5. QED BY <3>3, <3>4
  <2>3. g = h
    BY <2>2
  <2>4. IsKept(g, q, G, k)
    BY <2>3 DEF IsKept
  <2>5. QED BY <1>1, <1>3, <2>4
<1> HIDE DEF T
<1>4. n \in T
  BY <1>1, <1>2, <1>3, Induct
<1>5. QED BY <1>4 DEF T

LEMMA WithoutKept ==
  ASSUME NEW S, NEW q \in Seq(S), NEW G
  PROVE  \E f : /\ Without(q, G) = f[Len(q)]
                /\ f[0] = <<>>
                /\ \A i \in 1..Len(q) : /\ q[i] \in G => f[i] = f[i - 1]
                                        /\ q[i] \notin G => f[i] = Append(f[i - 1], q[i])
<1> DEFINE kept == CHOOSE f : IsKept(f, q, G, Len(q))
<1>1. IsKept(kept, q, G, Len(q))
  BY KeptExists
<1>2. Without(q, G) = kept[Len(q)]
  BY DEF Without, IsKept, Step
<1> HIDE DEF kept
<1>3. \A i \in 0..Len(q) : kept[i] = Step(kept, q, G, i)
  BY <1>1 DEF IsKept
<1>4. Len(q) \in Nat
  OBVIOUS
<1>5. kept[0] = <<>>
  BY <1>3, <1>4 DEF Step
<1>6. ASSUME NEW i \in 1..Len(q)
      PROVE  /\ q[i] \in G => kept[i] = kept[i - 1]
             /\ q[i] \notin G => kept[i] = Append(kept[i - 1], q[i])
  <2>1. i \in 0..Len(q) /\ i # 0
    BY <1>4
  <2>2. QED BY <1>3, <2>1 DEF Step
<1>7. QED BY <1>2, <1>5, <1>6

Distinct(q) == \A i, j \in 1..Len(q) : q[i] = q[j] => i = j
Dropping(q, G, n) == {j \in 1..n : q[j] \in G}

(* p is what is kept of the first n elements of q.                         *)
KeptOf(p, q, G, S, n) ==
  /\ p \in Seq(S)
  /\ \A k \in 1..Len(p) : \E j \in 1..n : q[j] = p[k] /\ q[j] \notin G
  /\ \A j \in 1..n : q[j] \notin G => \E k \in 1..Len(p) : p[k] = q[j]
  /\ IsFiniteSet(Dropping(q, G, n)) /\ Len(p) + Cardinality(Dropping(q, G, n)) = n
  /\ Distinct(q) => Distinct(p)
  /\ n > 0 /\ q[n] \notin G => Len(p) > 0 /\ p[Len(p)] = q[n]

LEMMA KeptNothing ==
  ASSUME NEW S, NEW q, NEW G
  PROVE  KeptOf(<<>>, q, G, S, 0)
<1>1. Dropping(q, G, 0) = {}
  BY DEF Dropping
<1>2. QED BY <1>1, Nothing, FS_EmptySet DEF KeptOf, Distinct

LEMMA KeptDrops ==
  ASSUME NEW S, NEW q \in Seq(S), NEW G, NEW p, NEW n \in 1..Len(q), KeptOf(p, q, G, S, n - 1),
         q[n] \in G
  PROVE  KeptOf(p, q, G, S, n)
<1> DEFINE D == Dropping(q, G, n - 1)
<1>1. Len(q) \in Nat /\ p \in Seq(S) /\ Len(p) \in Nat /\ IsFiniteSet(D)
  BY DEF KeptOf
<1>2. Dropping(q, G, n) = D \cup {n} /\ n \notin D
  BY <1>1 DEF Dropping
<1>3. /\ IsFiniteSet(D \cup {n}) /\ Cardinality(D \cup {n}) = Cardinality(D) + 1
      /\ Cardinality(D) \in Nat
  BY <1>1, <1>2, FS_AddElement, FS_CardinalityType
<1> HIDE DEF D
<1>4. Len(p) + Cardinality(Dropping(q, G, n)) = n
  BY <1>1, <1>2, <1>3 DEF KeptOf, D
<1>5. \A k \in 1..Len(p) : \E j \in 1..n : q[j] = p[k] /\ q[j] \notin G
  BY <1>1 DEF KeptOf
<1>6. \A j \in 1..n : q[j] \notin G => \E k \in 1..Len(p) : p[k] = q[j]
  <2>1. \A j \in 1..n : j = n \/ j \in 1..(n - 1)
    BY <1>1
  <2>2. QED BY <2>1 DEF KeptOf
<1>7. QED BY <1>1, <1>2, <1>3, <1>4, <1>5, <1>6 DEF KeptOf

LEMMA KeptAppends ==
  ASSUME NEW S, NEW q \in Seq(S), NEW G, NEW p, NEW n \in 1..Len(q), KeptOf(p, q, G, S, n - 1),
         q[n] \notin G
  PROVE  KeptOf(Append(p, q[n]), q, G, S, n)
<1> DEFINE D == Dropping(q, G, n - 1)
           r == Append(p, q[n])
<1>1. /\ Len(q) \in Nat /\ p \in Seq(S) /\ Len(p) \in Nat /\ IsFiniteSet(D) /\ q[n] \in S
      /\ Cardinality(D) \in Nat
  BY FS_CardinalityType DEF KeptOf
<1>2. /\ r \in Seq(S) /\ Len(r) = Len(p) + 1
      /\ \A i \in 1..Len(p) : r[i] = p[i]
      /\ r[Len(p) + 1] = q[n]
  BY <1>1, Appended
<1> HIDE DEF r
<1>3. Dropping(q, G, n) = D
  BY <1>1 DEF Dropping
<1>4. Len(r) + Cardinality(Dropping(q, G, n)) = n
  <2>1. Len(p) + Cardinality(D) = n - 1
    BY DEF KeptOf
  <2> HIDE DEF D
  <2>2. QED BY <1>1, <1>2, <1>3, <2>1
<1>5. \A k \in 1..Len(r) : k \in 1..Len(p) \/ k = Len(p) + 1
  BY <1>1, <1>2
<1>6. \A k \in 1..Len(r) : \E j \in 1..n : q[j] = r[k] /\ q[j] \notin G
  <2>1. \A j \in 1..(n - 1) : j \in 1..n
    BY <1>1
  <2>2. n \in 1..n
    BY <1>1
  <2>3. \A k \in 1..Len(p) : \E j \in 1..n : q[j] = r[k] /\ q[j] \notin G
    BY <1>2, <2>1 DEF KeptOf
  <2>4. QED BY <1>2, <1>5, <2>2, <2>3
<1>7. \A j \in 1..n : q[j] \notin G => \E k \in 1..Len(r) : r[k] = q[j]
  <2>1. \A j \in 1..n : j = n \/ j \in 1..(n - 1)
    BY <1>1
  <2>2. Len(p) + 1 \in 1..Len(r) /\ \A k \in 1..Len(p) : k \in 1..Len(r)
    BY <1>1, <1>2
  <2>3. QED BY <1>2, <2>1, <2>2 DEF KeptOf
<1>8. ASSUME Distinct(q)
      PROVE  Distinct(r)
  <2>1. \A k \in 1..Len(p) : p[k] # q[n]
    <3> SUFFICES ASSUME NEW k \in 1..Len(p), p[k] = q[n]
                 PROVE  FALSE
      OBVIOUS
    <3>1. PICK j \in 1..(n - 1) : q[j] = p[k]
      BY DEF KeptOf
    <3>2. j \in 1..Len(q) /\ j # n
      BY <1>1
    <3>3. QED BY <1>8, <3>1, <3>2 DEF Distinct
  <2>2. Distinct(p)
    BY <1>8 DEF KeptOf
  <2>3. QED BY <1>2, <1>5, <2>1, <2>2 DEF Distinct
<1>9. Len(r) > 0 /\ r[Len(r)] = q[n]
  BY <1>1, <1>2
<1> HIDE DEF D
<1>10. IsFiniteSet(Dropping(q, G, n))
  BY <1>1, <1>3
<1>11. QED BY <1>2, <1>4, <1>6, <1>7, <1>8, <1>9, <1>10 DEF KeptOf, r

LEMMA WithoutKeeps ==
  ASSUME NEW S, NEW q \in Seq(S), NEW G
  PROVE  KeptOf(Without(q, G), q, G, S, Len(q))
<1>1. PICK f : /\ Without(q, G) = f[Len(q)]
               /\ f[0] = <<>>
               /\ \A i \in 1..Len(q) : /\ q[i] \in G => f[i] = f[i - 1]
                                       /\ q[i] \notin G => f[i] = Append(f[i - 1], q[i])
  BY WithoutKept
<1> DEFINE T == {i \in 0..Len(q) : KeptOf(f[i], q, G, S, i)}
<1>2. Len(q) \in Nat
  OBVIOUS
<1>3. 0 \in T
  BY <1>1, <1>2, KeptNothing
<1>4. ASSUME NEW i \in 1..Len(q), i - 1 \in T
      PROVE  i \in T
  <2>1. KeptOf(f[i - 1], q, G, S, i - 1)
    BY <1>4
  <2>2. KeptOf(f[i], q, G, S, i)
    <3>1. CASE q[i] \in G
      BY <1>1, <2>1, <3>1, KeptDrops
    <3>2. CASE q[i] \notin G
      BY <1>1, <2>1, <3>2, KeptAppends
    <3>3. QED BY <3>1, <3>2
  <2>3. QED BY <1>2, <2>2
<1> HIDE DEF T
<1>5. Len(q) \in T
  BY <1>2, <1>3, <1>4, Induct
<1>6. QED BY <1>1, <1>5 DEF T

(***************************************************************************)
(* The table.                                                              *)
(***************************************************************************)
Members(q) == {q[i] : i \in 1..Len(q)}
Last(q)    == q[Len(q)]

LEMMA MovedToEnd ==
  ASSUME NEW S, NEW q \in Seq(S), Distinct(q), NEW e \in S
  PROVE  LET p == MoveToEnd(q, e)
         IN  /\ p \in Seq(S) /\ Distinct(p) /\ Len(p) > 0 /\ Last(p) = e
             /\ Members(p) = Members(q) \cup {e}
<1> DEFINE w == Without(q, {e})
           p == Append(w, e)
<1>1. KeptOf(w, q, {e}, S, Len(q))
  BY WithoutKeeps
<1> HIDE DEF w
<1>2. /\ w \in Seq(S) /\ Len(w) \in Nat /\ Distinct(w)
      /\ \A k \in 1..Len(w) : \E j \in 1..Len(q) : q[j] = w[k] /\ q[j] \notin {e}
      /\ \A j \in 1..Len(q) : q[j] \notin {e} => \E k \in 1..Len(w) : w[k] = q[j]
  <2>1. w \in Seq(S) /\ Distinct(w)
    BY <1>1 DEF KeptOf
  <2>2. Len(w) \in Nat
    BY <2>1
  <2>3. QED BY <1>1, <2>1, <2>2 DEF KeptOf
<1>3. /\ p \in Seq(S) /\ Len(p) = Len(w) + 1
      /\ \A i \in 1..Len(w) : p[i] = w[i]
      /\ p[Len(w) + 1] = e
  BY <1>2, Appended
<1> HIDE DEF p
<1>4. /\ \A k \in 1..Len(p) : k \in 1..Len(w) \/ k = Len(w) + 1
      /\ \A k \in 1..Len(w) : k \in 1..Len(p)
      /\ Len(w) + 1 \in 1..Len(p)
  BY <1>2, <1>3
<1>5. \A k \in 1..Len(w) : w[k] # e
  BY <1>2
<1>6. Distinct(p)
  BY <1>2, <1>3, <1>4, <1>5 DEF Distinct
<1>7. Members(p) = Members(q) \cup {e}
  <2>1. ASSUME NEW x \in Members(p)
        PROVE  x \in Members(q) \cup {e}
    <3>1. PICK k \in 1..Len(p) : x = p[k]
      BY <2>1 DEF Members
    <3>2. CASE k \in 1..Len(w)
      BY <1>2, <1>3, <3>1, <3>2 DEF Members
    <3>3. QED BY <1>3, <1>4, <3>1, <3>2
  <2>2. ASSUME NEW x \in Members(q)
        PROVE  x \in Members(p) \cup {e}
    <3>1. PICK j \in 1..Len(q) : x = q[j]
      BY <2>2 DEF Members
    <3>2. CASE x # e
      <4>1. PICK k \in 1..Len(w) : w[k] = q[j]
        BY <1>2, <3>1, <3>2
      <4>2. QED BY <1>3, <1>4, <3>1, <4>1 DEF Members
    <3>3. QED BY <3>2
  <2>3. e \in Members(p)
    BY <1>3, <1>4 DEF Members
  <2>4. QED BY <2>1, <2>2, <2>3
<1>8. Len(p) > 0 /\ Last(p) = e
  BY <1>2, <1>3 DEF Last
<1>9. QED BY <1>3, <1>6, <1>7, <1>8 DEF MoveToEnd, p, w

(* Trimming drops idle histories only, never the newest, and goes on until *)
(* the table fits or only the newest and followed ones are left.           *)
LEMMA TrimmedTable ==
  ASSUME NEW S, NEW q \in Seq(S), Distinct(q), NEW subs
  PROVE  LET p == Without(q, Evicted(q, subs))
         IN  /\ p \in Seq(S) /\ Distinct(p)
             /\ Members(p) \subseteq Members(q)
             /\ \A e \in Members(q) : subs[e] # {} => e \in Members(p)
             /\ Len(q) > 0 => Last(q) \in Members(p)
             /\ Len(p) > MaxExecutions => \A i \in 1..(Len(p) - 1) : subs[p[i]] # {}
<1> DEFINE n == Len(q)
           G == Evicted(q, subs)
           p == Without(q, G)
           idle == {i \in 1..(n - 1) : subs[q[i]] = {}}
           Before(i) == {j \in idle : j < i}
<1>1. n \in Nat /\ MaxExecutions \in Nat
  BY LimitsOK
<1>2. KeptOf(p, q, G, S, n)
  BY WithoutKeeps
<1> HIDE DEF p
<1>3. /\ p \in Seq(S) /\ Distinct(p) /\ Len(p) \in Nat
      /\ \A k \in 1..Len(p) : \E j \in 1..n : q[j] = p[k] /\ q[j] \notin G
      /\ \A j \in 1..n : q[j] \notin G => \E k \in 1..Len(p) : p[k] = q[j]
      /\ Len(p) + Cardinality(Dropping(q, G, n)) = n
      /\ n > 0 /\ q[n] \notin G => Len(p) > 0 /\ p[Len(p)] = q[n]
      /\ IsFiniteSet(Dropping(q, G, n))
  BY <1>2 DEF KeptOf
<1>4. \A j \in 1..n : q[j] \in G <=> j \in idle /\ Cardinality(Before(j)) + MaxExecutions < n
  <2>1. G = {q[i] : i \in {k \in idle : Cardinality(Before(k)) + MaxExecutions < n}}
    BY DEF Evicted
  <2>2. \A i \in idle : i \in 1..n
    BY <1>1
  <2> HIDE DEF G, idle, Before
  <2>3. QED BY <2>1, <2>2 DEF Distinct
<1> HIDE DEF G
<1>5. Members(p) \subseteq Members(q)
  BY <1>3 DEF Members
<1>6. \A e \in Members(q) : subs[e] # {} => e \in Members(p)
  <2> SUFFICES ASSUME NEW j \in 1..n, subs[q[j]] # {}
               PROVE  q[j] \in Members(p)
    BY DEF Members
  <2>1. q[j] \notin G
    BY <1>4
  <2>2. QED BY <1>3, <2>1 DEF Members
<1>7. n > 0 => n \in 1..n /\ q[n] \notin G
  <2>1. n \notin idle
    BY <1>1
  <2> HIDE DEF idle, Before
  <2>2. QED BY <1>1, <1>4, <2>1
<1>8. n > 0 => Last(q) \in Members(p)
  BY <1>3, <1>7 DEF Members, Last
<1>9. ASSUME Len(p) > MaxExecutions, NEW i \in 1..(Len(p) - 1), subs[p[i]] = {}
      PROVE  FALSE
  <2> DEFINE Left == {j \in idle : q[j] \notin G}
  <2>0. i \in 1..Len(p) /\ Len(p) \in 1..Len(p) /\ i # Len(p) /\ Len(p) > 0
    BY <1>1, <1>3, <1>9
  <2>1. PICK j \in 1..n : q[j] = p[i] /\ q[j] \notin G
    BY <1>3, <2>0
  <2>2. j # n
    <3>1. p[i] # p[Len(p)]
      BY <1>3, <2>0 DEF Distinct
    <3>2. n > 0
      BY <1>1
    <3>3. p[Len(p)] = q[n]
      BY <1>3, <1>7, <3>2
    <3>4. QED BY <2>1, <3>1, <3>3
  <2>3. Left # {} /\ Left \in SUBSET Nat
    <3>1. j \in idle
      BY <1>1, <1>9, <2>1, <2>2
    <3>2. QED BY <1>1, <2>1, <3>1
  <2> HIDE DEF Left
  <2>4. PICK m \in Left : \A k \in Left : m <= k
    BY <2>3, NatMin
  <2> USE DEF Left
  <2>5. m \in idle /\ m \in 1..n /\ q[m] \notin G
    BY <1>1, <2>4
  <2>6. ~(Cardinality(Before(m)) + MaxExecutions < n)
    BY <1>4, <2>5
  <2>7. Before(m) \subseteq Dropping(q, G, n)
    <3>1. ASSUME NEW k \in idle, k < m
          PROVE  k \in 1..n /\ q[k] \in G
      <4>1. ~(m <= k) /\ k \in 1..n
        BY <1>1, <2>5, <3>1
      <4>2. k \notin Left
        BY <2>4, <4>1
      <4>3. QED BY <3>1, <4>1, <4>2
    <3>2. QED BY <3>1 DEF Dropping
  <2> HIDE DEF idle, Before, Left
  <2>8. /\ Cardinality(Before(m)) <= Cardinality(Dropping(q, G, n))
        /\ Cardinality(Before(m)) \in Nat /\ Cardinality(Dropping(q, G, n)) \in Nat
    BY <1>3, <2>7, FS_Subset, FS_CardinalityType
  <2>9. QED BY <1>1, <1>3, <1>9, <2>6, <2>8
<1>10. QED BY <1>3, <1>5, <1>6, <1>8, <1>9 DEF p, G

(***************************************************************************)
(* The invariant of the table.                                             *)
(***************************************************************************)
Overflowed == \E r \in Readers : reader[r].pc \in Active /\ r \notin subscribers[reader[r].execution]

TableInv == /\ order \in Seq(Executions) /\ Distinct(order)
            /\ LiveHistoriesRetained
            /\ CapacityRespected

(* The history of e is created or refreshed, and nobody follows another    *)
(* one who did not before: it fits, unless a reader has just been kicked.  *)
LEMMA TableRefreshed ==
  ASSUME TableInv, NEW e \in Executions, NEW h, NEW t,
         Trimmed(MoveToEnd(order, e), h, t, subscribers),
         \A g \in Executions : subscribers'[g] # {} => subscribers[g] # {} \/ g = e,
         \/ \A g \in Executions : subscribers[g] # {} => subscribers'[g] # {}
         \/ Overflowed'
  PROVE  TableInv'
<1> DEFINE q == MoveToEnd(order, e)
<1>1. /\ q \in Seq(Executions) /\ Distinct(q) /\ Len(q) > 0 /\ Last(q) = e
      /\ Members(q) = Members(order) \cup {e}
  BY MovedToEnd DEF TableInv
<1>2. order' = Without(q, Evicted(q, subscribers))
  BY DEF Trimmed
<1> HIDE DEF q
<1>3. /\ order' \in Seq(Executions) /\ Distinct(order')
      /\ \A g \in Members(q) : subscribers[g] # {} => g \in Members(order')
      /\ Last(q) \in Members(order')
      /\ Len(order') > MaxExecutions =>
           \A i \in 1..(Len(order') - 1) : subscribers[order'[i]] # {}
  <2> DEFINE p == order'
             subs == subscribers
  <2>1. q \in Seq(Executions) /\ Distinct(q) /\ p = Without(q, Evicted(q, subs))
    BY <1>1, <1>2
  <2> HIDE DEF p, subs
  <2>2. /\ p \in Seq(Executions) /\ Distinct(p)
        /\ \A g \in Members(q) : subs[g] # {} => g \in Members(p)
        /\ Len(p) > MaxExecutions => \A i \in 1..(Len(p) - 1) : subs[p[i]] # {}
    BY <2>1, TrimmedTable
  <2>3. Len(q) > 0 => Last(q) \in Members(p)
    BY <2>1, TrimmedTable
  <2>4. QED BY <1>1, <2>2, <2>3 DEF p, subs
<1>4. ASSUME NEW g \in Executions, subscribers'[g] # {}
      PROVE  g \in Retained'
  <2>1. CASE g = e
    BY <1>1, <1>3, <2>1 DEF Retained, Members
  <2>2. CASE subscribers[g] # {}
    <3>1. g \in Members(order)
      BY <2>2 DEF TableInv, LiveHistoriesRetained, Retained, Members
    <3>2. g \in Members(q)
      BY <1>1, <3>1
    <3>3. QED BY <1>3, <2>2, <3>2 DEF Retained, Members
  <2>3. QED BY <1>4, <2>1, <2>2
<1>5. LiveHistoriesRetained'
  BY <1>4 DEF LiveHistoriesRetained
<1>6. CapacityRespected'
  <2>1. CASE Overflowed'
    BY <2>1 DEF CapacityRespected, Overflowed
  <2>2. CASE \A g \in Executions : subscribers[g] # {} => subscribers'[g] # {}
    <3>1. \A i \in 1..(Len(order') - 1) : order'[i] \in Executions
      BY <1>3
    <3>2. QED BY <1>3, <2>2, <3>1 DEF CapacityRespected
  <2>3. QED BY <2>1, <2>2
<1>7. QED BY <1>3, <1>5, <1>6 DEF TableInv

(* A stream ends: nobody else stops following, and the table is trimmed.   *)
LEMMA TableLeft ==
  ASSUME TableInv, NEW h, NEW t, Trimmed(order, h, t, subscribers'),
         \A g \in Executions : subscribers'[g] # {} => subscribers[g] # {}
  PROVE  TableInv'
<1>1. order \in Seq(Executions) /\ Distinct(order)
  BY DEF TableInv
<1>2. order' = Without(order, Evicted(order, subscribers'))
  BY DEF Trimmed
<1>3. /\ order' \in Seq(Executions) /\ Distinct(order')
      /\ \A g \in Members(order) : subscribers'[g] # {} => g \in Members(order')
      /\ Len(order') > MaxExecutions =>
           \A i \in 1..(Len(order') - 1) : subscribers'[order'[i]] # {}
  <2> DEFINE q == order
             p == order'
             subs == subscribers'
  <2>1. q \in Seq(Executions) /\ Distinct(q) /\ p = Without(q, Evicted(q, subs))
    BY <1>1, <1>2
  <2> HIDE DEF q, p, subs
  <2>2. /\ p \in Seq(Executions) /\ Distinct(p)
        /\ \A g \in Members(q) : subs[g] # {} => g \in Members(p)
        /\ Len(p) > MaxExecutions => \A i \in 1..(Len(p) - 1) : subs[p[i]] # {}
    BY <2>1, TrimmedTable
  <2>3. QED BY <2>2 DEF q, p, subs
<1>4. ASSUME NEW g \in Executions, subscribers'[g] # {}
      PROVE  g \in Retained'
  <2>1. g \in Members(order)
    BY <1>4 DEF TableInv, LiveHistoriesRetained, Retained, Members
  <2>2. QED BY <1>3, <1>4, <2>1 DEF Retained, Members
<1>5. LiveHistoriesRetained'
  BY <1>4 DEF LiveHistoriesRetained
<1>6. CapacityRespected'
  BY <1>3 DEF CapacityRespected
<1>7. QED BY <1>3, <1>5, <1>6 DEF TableInv

(* A generator sends a frame.                                              *)
LEMMA TableStays ==
  ASSUME TableInv, UNCHANGED <<order, subscribers>>, Overflowed => Overflowed'
  PROVE  TableInv'
<1>1. LiveHistoriesRetained'
  BY DEF TableInv, LiveHistoriesRetained, Retained
<1>2. CapacityRespected'
  <2>1. CapacityRespected /\ order' = order /\ subscribers' = subscribers
    BY DEF TableInv
  <2>2. CASE Overflowed
    BY <2>2 DEF CapacityRespected, Overflowed
  <2>3. CASE ~Overflowed
    BY <2>1, <2>3 DEF CapacityRespected, Overflowed
  <2>4. QED BY <2>2, <2>3
<1>3. QED BY <1>1, <1>2 DEF TableInv, Distinct

(* A frame is broadcast: the slow readers are kicked, and stay open.       *)
LEMMA TableBroadcasts ==
  ASSUME Inv, NEW e \in Executions, NEW f \in AnyFrame, Broadcast(e, f)
  PROVE  /\ \A g \in Executions : subscribers'[g] # {} => subscribers[g] # {}
         /\ \/ \A g \in Executions : subscribers[g] # {} => subscribers'[g] # {}
            \/ Overflowed'
<1> DEFINE slow == {r \in subscribers[e] : Len(reader[r].queue) = QueueSize}
<1>1. /\ reader' = [r \in Readers |-> IF r \in subscribers[e] THEN Enqueue(r, f) ELSE reader[r]]
      /\ subscribers' = [subscribers EXCEPT ![e] = @ \ slow]
  BY DEF Broadcast
<1>2. subscribers \in [Executions -> SUBSET Readers] /\ reader \in [Readers -> Stream]
  BY DEF Inv, StateTypes
<1>3. slow \subseteq subscribers[e] /\ slow \subseteq Readers
  BY <1>2
<1> HIDE DEF slow
<1>4. \A g \in Executions : subscribers'[g] # {} => subscribers[g] # {}
  BY <1>1, <1>2
<1>5. CASE slow = {}
  BY <1>1, <1>2, <1>4, <1>5
<1>6. ASSUME NEW r \in slow
      PROVE  Overflowed'
  <2>1. reader[r].execution = e /\ reader[r].pc \in Active
    BY <1>3 DEF Inv, Registered
  <2>2. reader'[r] = Queued(reader[r], f)
    BY <1>1, <1>3 DEF Enqueue, Queued
  <2>3. reader'[r].execution = e /\ reader'[r].pc \in Active
    <3>1. reader[r] \in Stream
      BY <1>2, <1>3
    <3>2. Queued(reader[r], f).execution = reader[r].execution /\ Queued(reader[r], f).pc = reader[r].pc
      BY <3>1, QueuedFields
    <3>3. QED BY <2>1, <2>2, <3>2
  <2>4. r \in Readers /\ r \notin subscribers'[e]
    BY <1>1, <1>2, <1>3
  <2>5. QED BY <2>3, <2>4 DEF Overflowed
<1>7. QED BY <1>4, <1>5, <1>6

LEMMA TablePublishes ==
  ASSUME Inv, TableInv, NEW e \in Executions, Publish(e) \/ HandleTerminal(e) \/ Read(e)
  PROVE  TableInv'
<1>1. PICK h, t : Trimmed(MoveToEnd(order, e), h, t, subscribers)
  BY DEF Publish, HandleTerminal, Read, Get
<1>2. CASE Read(e)
  BY <1>1, <1>2, TableRefreshed DEF Read
<1>3. CASE Publish(e) \/ HandleTerminal(e)
  <2>1. sequence \in Nat
    BY DEF Inv, StateTypes
  <2>2. \A event \in Endings \cup {"log"} : Frame(sequence + 1, event) \in AnyFrame
    BY <2>1, FrameFields DEF Endings, Events
  <2>3. \E f \in AnyFrame : Broadcast(e, f)
    BY <1>3, <2>2 DEF Publish, HandleTerminal, Announce
  <2>4. /\ \A g \in Executions : subscribers'[g] # {} => subscribers[g] # {}
        /\ \/ \A g \in Executions : subscribers[g] # {} => subscribers'[g] # {}
           \/ Overflowed'
    BY <2>3, TableBroadcasts
  <2>5. QED BY <1>1, <2>4, TableRefreshed
<1>4. QED BY <1>2, <1>3

LEMMA TableOpens ==
  ASSUME Inv, TableInv, NEW r \in Readers, NEW e \in Executions, Open(r, e)
  PROVE  TableInv'
<1>1. /\ Trimmed(MoveToEnd(order, e), entries, terminal, subscribers)
      /\ subscribers' = [subscribers EXCEPT ![e] = @ \cup {r}]
  BY DEF Open, Get
<1>2. subscribers \in [Executions -> SUBSET Readers]
  BY DEF Inv, StateTypes
<1>3. \A g \in Executions : g # e => subscribers'[g] = subscribers[g]
  BY <1>1, <1>2
<1>4. subscribers'[e] # {}
  BY <1>1, <1>2
<1>5. QED BY <1>1, <1>3, <1>4, TableRefreshed

LEMMA TableLeaves ==
  ASSUME Inv, TableInv, NEW r \in Readers, Leave(r)
  PROVE  TableInv'
<1>1. /\ subscribers' = [e \in Executions |-> subscribers[e] \ {r}]
      /\ Trimmed(order, entries, terminal, subscribers')
  BY DEF Leave
<1>2. QED BY <1>1, TableLeft

(* Sending moves neither the program counter nor the execution.            *)
LEMMA SendingStays ==
  ASSUME NEW x \in Stream, NEW f, NEW pc
  PROVE  /\ Sent(x, f).pc = x.pc
         /\ [Sent(x, f) EXCEPT !.replay = Tail(@)].pc = x.pc
         /\ [Sent(x, f) EXCEPT !.replay = Tail(@)].execution = x.execution
         /\ [[Sent(x, f) EXCEPT !.pc = pc] EXCEPT !.queue = Tail(@)].pc = pc
         /\ [[Sent(x, f) EXCEPT !.pc = pc] EXCEPT !.queue = Tail(@)].execution = x.execution
<1> DEFINE s == Append(x.sent, f)
           l == IF f.id > x.lastId THEN f.id ELSE x.lastId
<1>1. Sent(x, f) = [x EXCEPT !.sent = s, !.lastId = l]
  BY DEF Sent
<1> HIDE DEF s, l
<1>2. QED BY <1>1 DEF Stream

LEMMA TableGenerates ==
  ASSUME Inv, TableInv, NEW r \in Readers, Replay(r) \/ ReplayDone(r) \/ Follow(r)
  PROVE  TableInv'
<1>1. subscribers' = subscribers /\ reader[r].pc \in Active
  BY DEF Replay, ReplayDone, Follow, ReaderOnly, Active
<1>2. CASE ReplayDone(r)
  <2>1. reader[r].execution \in Executions
    BY <1>1 DEF Inv, StateTypes, Active
  <2>2. Trimmed(MoveToEnd(order, reader[r].execution), entries, terminal, subscribers)
    BY <1>2 DEF ReplayDone, Get
  <2>3. QED BY <1>1, <2>1, <2>2, TableRefreshed
<1>3. CASE Replay(r) \/ Follow(r)
  <2>1. order' = order
    BY <1>3 DEF Replay, Follow, logs
  <2>2. reader \in [Readers -> Stream]
    BY DEF Inv, StateTypes
  <2>3. \E y : /\ reader' = [reader EXCEPT ![r] = y]
               /\ y.pc \in Active /\ y.execution = reader[r].execution
    <3> DEFINE x == reader[r]
    <3>0. x \in Stream
      BY <2>2
    <3>1. CASE Replay(r)
      <4> DEFINE f == Frame(Head(x.replay), "log")
                 y == [Sending(r, f) EXCEPT !.replay = Tail(@)]
      <4>1. reader' = [reader EXCEPT ![r] = y]
        BY <3>1 DEF Replay
      <4>2. Sending(r, f) = Sent(x, f)
        BY DEF Sending, Sent
      <4> HIDE DEF x, f
      <4>3. y.pc = x.pc /\ y.execution = x.execution
        BY <3>0, <4>2, SendingStays
      <4>4. QED BY <1>1, <4>1, <4>3 DEF x
    <3>2. CASE Follow(r)
      <4> DEFINE f == Head(x.queue)
                 z == IF Stale(r, f) THEN x
                      ELSE [Sending(r, f) EXCEPT !.pc = IF f.event \in Closing THEN "ending" ELSE @]
                 y == [z EXCEPT !.queue = Tail(@)]
      <4>1. reader' = [reader EXCEPT ![r] = y] /\ x.pc = "following"
        BY <3>2 DEF Follow
      <4>2. Sending(r, f) = Sent(x, f)
        BY DEF Sending, Sent
      <4> HIDE DEF x, f
      <4>3. y.pc \in {x.pc, "ending"} /\ y.execution = x.execution
        <5>1. CASE Stale(r, f)
          BY <3>0, <5>1 DEF Stream
        <5>2. CASE ~Stale(r, f)
          <6> DEFINE pc == IF f.event \in Closing THEN "ending" ELSE Sent(x, f).pc
          <6>1. y = [[Sent(x, f) EXCEPT !.pc = pc] EXCEPT !.queue = Tail(@)] /\ pc \in {x.pc, "ending"}
            BY <3>0, <4>2, <5>2, SendingStays
          <6> HIDE DEF pc, y, z
          <6>2. QED BY <3>0, <6>1, SendingStays
        <5>3. QED BY <5>1, <5>2
      <4>4. QED BY <4>1, <4>3 DEF x, Active
    <3>3. QED BY <1>3, <3>1, <3>2
  <2>4. Overflowed => Overflowed'
    BY <1>1, <2>2, <2>3 DEF Overflowed
  <2>5. QED BY <1>1, <2>1, <2>4, TableStays
<1>4. QED BY <1>2, <1>3

LEMMA TableKept ==
  ASSUME Inv, TableInv, [Next]_vars
  PROVE  TableInv'
<1>1. CASE UNCHANGED vars
  BY <1>1, TableStays DEF vars, logs, Overflowed
<1>2. ASSUME NEW r \in Readers, ReaderStep(r) \/ Disconnect(r)
      PROVE  TableInv'
  BY <1>2, TableLeaves, TableGenerates DEF ReaderStep, Close, Disconnect
<1>3. QED BY <1>1, <1>2, TablePublishes, TableOpens DEF Next

LEMMA TableInitially == Init => TableInv
<1> SUFFICES ASSUME Init
             PROVE  TableInv
  OBVIOUS
<1>1. order = <<>> /\ Len(order) = 0 /\ order \in Seq(Executions)
  BY Nothing DEF Init
<1>2. Distinct(order)
  BY <1>1 DEF Distinct
<1>3. LiveHistoriesRetained
  BY DEF Init, LiveHistoriesRetained
<1>4. CapacityRespected
  BY <1>1, LimitsOK DEF CapacityRespected
<1>5. QED BY <1>1, <1>2, <1>3, <1>4 DEF TableInv

LEMMA TableAlways == Spec => []TableInv
<1>1. QED BY InvAlways, TableInitially, TableKept, PTL DEF Spec

(***************************************************************************)
(* Types and sizes.                                                        *)
(***************************************************************************)
TypedStream == [pc : Active \cup {"unopened", "closed"}, execution : Executions,
                replay : Seq(Ids), lastId : Ids, queue : Seq(FrameType), sent : Seq(FrameType),
                since : Ids]
Fits(x) == x \in TypedStream /\ Len(x.queue) <= QueueSize

TypeInv ==
  /\ entries \in [Executions -> Seq(Ids)]
  /\ \A e \in Executions : Len(entries[e]) <= HistorySize
  /\ terminal \in [Executions -> FrameType]
  /\ subscribers \in [Executions -> SUBSET Readers]
  /\ sequence \in Ids
  /\ published \in [Executions -> SUBSET Ids]
  /\ ended \in [Executions -> BOOLEAN]
  /\ reader \in [Readers -> TypedStream]
  /\ \A r \in Readers : Fits(reader[r])

LEMMA FrameTyped ==
  ASSUME NEW id \in Ids, NEW event \in {"none", "log"} \cup Closing
  PROVE  Frame(id, event) \in FrameType
BY DEF Frame, FrameType

LEMMA PushFits ==
  ASSUME NEW q \in Seq(Ids), Len(q) <= HistorySize, NEW id \in Ids
  PROVE  Push(q, id) \in Seq(Ids) /\ Len(Push(q, id)) <= HistorySize
<1> DEFINE longer == Append(q, id)
<1>1. longer \in Seq(Ids) /\ Len(longer) = Len(q) + 1 /\ Len(q) \in Nat /\ HistorySize \in Nat
  BY Appended, LimitsOK
<1> HIDE DEF longer
<1>2. longer # <<>>
  BY <1>1, Nothing
<1>3. Tail(longer) \in Seq(Ids) /\ Len(Tail(longer)) = Len(longer) - 1
  BY <1>1, <1>2, Dropped
<1>4. Push(q, id) = IF Len(longer) > HistorySize THEN Tail(longer) ELSE longer
  BY DEF Push, longer
<1>5. QED BY <1>1, <1>3, <1>4

LEMMA QueuedFits ==
  ASSUME NEW x, Fits(x), NEW f \in FrameType
  PROVE  Fits(Queued(x, f))
<1> DEFINE q == IF Len(x.queue) = QueueSize THEN <<Frame(f.id, "overflow")>> ELSE Append(x.queue, f)
<1>1. Queued(x, f) = [x EXCEPT !.queue = q]
  BY DEF Queued
<1>2. q \in Seq(FrameType) /\ Len(q) <= QueueSize
  <2>1. QueueSize \in Nat /\ QueueSize > 0 /\ x.queue \in Seq(FrameType) /\ Len(x.queue) <= QueueSize
    BY LimitsOK DEF Fits, TypedStream
  <2>2. Frame(f.id, "overflow") \in FrameType
    BY FrameTyped DEF FrameType, Closing
  <2>3. <<Frame(f.id, "overflow")>> \in Seq(FrameType) /\ Len(<<Frame(f.id, "overflow")>>) = 1
    BY <2>2, Single
  <2>4. /\ Append(x.queue, f) \in Seq(FrameType) /\ Len(x.queue) \in Nat
        /\ Len(Append(x.queue, f)) = Len(x.queue) + 1
    BY <2>1, Appended
  <2>5. QED BY <2>1, <2>3, <2>4
<1> HIDE DEF q
<1>3. QED BY <1>1, <1>2 DEF Fits, TypedStream

LEMMA SentFits ==
  ASSUME NEW x, Fits(x), NEW f \in FrameType
  PROVE  Fits(Sent(x, f)) /\ Sent(x, f).replay = x.replay /\ Sent(x, f).queue = x.queue
<1> DEFINE s == Append(x.sent, f)
           l == IF f.id > x.lastId THEN f.id ELSE x.lastId
<1>1. Sent(x, f) = [x EXCEPT !.sent = s, !.lastId = l]
  BY DEF Sent
<1>2. s \in Seq(FrameType) /\ l \in Ids
  BY Appended DEF Fits, TypedStream, FrameType
<1> HIDE DEF s, l
<1>3. QED BY <1>1, <1>2 DEF Fits, TypedStream

LEMMA TailFits ==
  ASSUME NEW x, Fits(x)
  PROVE  /\ x.replay # <<>> => Fits([x EXCEPT !.replay = Tail(@)]) /\ Head(x.replay) \in Ids
         /\ x.queue # <<>> => Fits([x EXCEPT !.queue = Tail(@)]) /\ Head(x.queue) \in FrameType
<1>1. x.replay \in Seq(Ids) /\ x.queue \in Seq(FrameType)
  BY DEF Fits, TypedStream
<1>2. ASSUME x.replay # <<>>
      PROVE  Fits([x EXCEPT !.replay = Tail(@)]) /\ Head(x.replay) \in Ids
  <2> DEFINE t == Tail(x.replay)
  <2>1. t \in Seq(Ids) /\ Head(x.replay) \in Ids
    BY <1>1, <1>2, Dropped
  <2> HIDE DEF t
  <2>2. Fits([x EXCEPT !.replay = t])
    BY <2>1 DEF Fits, TypedStream
  <2>3. QED BY <2>1, <2>2 DEF t
<1>3. ASSUME x.queue # <<>>
      PROVE  Fits([x EXCEPT !.queue = Tail(@)]) /\ Head(x.queue) \in FrameType
  <2> DEFINE t == Tail(x.queue)
  <2>1. /\ t \in Seq(FrameType) /\ Head(x.queue) \in FrameType /\ Len(t) = Len(x.queue) - 1
        /\ Len(x.queue) \in Nat
    BY <1>1, <1>3, Dropped
  <2>2. Len(t) <= QueueSize
    BY <2>1, LimitsOK DEF Fits
  <2> HIDE DEF t
  <2>3. Fits([x EXCEPT !.queue = t])
    BY <2>1, <2>2 DEF Fits, TypedStream
  <2>4. QED BY <2>1, <2>3 DEF t
<1>4. QED BY <1>2, <1>3

LEMMA TrimmedFits ==
  ASSUME NEW q, NEW h \in [Executions -> Seq(Ids)], \A e \in Executions : Len(h[e]) <= HistorySize,
         NEW t \in [Executions -> FrameType], NEW subs, Trimmed(q, h, t, subs)
  PROVE  /\ entries' \in [Executions -> Seq(Ids)]
         /\ \A e \in Executions : Len(entries'[e]) <= HistorySize
         /\ terminal' \in [Executions -> FrameType]
<1>1. <<>> \in Seq(Ids) /\ Len(<<>>) = 0 /\ 0 <= HistorySize
  BY Nothing, LimitsOK
<1>2. NoFrame \in FrameType
  BY FrameTyped, LimitsOK DEF NoFrame, Ids
<1>3. QED BY <1>1, <1>2 DEF Trimmed

LEMMA TypesRefreshed ==
  ASSUME TypeInv, NEW q, NEW subs, Trimmed(q, entries, terminal, subs),
         UNCHANGED <<sequence, published, ended>>,
         subscribers' \in [Executions -> SUBSET Readers],
         NEW r \in Readers, NEW y, Fits(y), reader' = [reader EXCEPT ![r] = y]
  PROVE  TypeInv'
<1>1. /\ entries' \in [Executions -> Seq(Ids)]
      /\ \A e \in Executions : Len(entries'[e]) <= HistorySize
      /\ terminal' \in [Executions -> FrameType]
  BY TrimmedFits DEF TypeInv
<1>2. reader' \in [Readers -> TypedStream] /\ \A s \in Readers : Fits(reader'[s])
  BY DEF TypeInv, Fits
<1>3. sequence' \in Ids /\ published' \in [Executions -> SUBSET Ids] /\ ended' \in [Executions -> BOOLEAN]
  BY DEF TypeInv
<1>4. QED BY <1>1, <1>2, <1>3 DEF TypeInv

LEMMA TypesAnnounced ==
  ASSUME TypeInv, NEW e \in Executions, NEW f \in FrameType, Announce(e, f),
         entries' \in [Executions -> Seq(Ids)],
         \A g \in Executions : Len(entries'[g]) <= HistorySize,
         terminal' \in [Executions -> FrameType], ended' \in [Executions -> BOOLEAN]
  PROVE  TypeInv'
<1>1. /\ sequence' = f.id
      /\ published' = [published EXCEPT ![e] = @ \cup {f.id}]
      /\ reader' = [r \in Readers |-> IF r \in subscribers[e] THEN Enqueue(r, f) ELSE reader[r]]
      /\ \E slow : subscribers' = [subscribers EXCEPT ![e] = @ \ slow]
  BY DEF Announce, Broadcast
<1>2. f.id \in Ids
  BY DEF FrameType
<1>3. \A r \in Readers : Fits(reader[r]) /\ Fits(Enqueue(r, f))
  <2>1. \A r \in Readers : Fits(reader[r]) /\ Enqueue(r, f) = Queued(reader[r], f)
    BY DEF TypeInv, Enqueue, Queued
  <2>2. QED BY <2>1, QueuedFits
<1>4. reader' \in [Readers -> TypedStream] /\ \A r \in Readers : Fits(reader'[r])
  BY <1>1, <1>3 DEF Fits
<1>5. /\ sequence' \in Ids /\ published' \in [Executions -> SUBSET Ids]
      /\ subscribers' \in [Executions -> SUBSET Readers]
  BY <1>1, <1>2 DEF TypeInv
<1>6. QED BY <1>4, <1>5 DEF TypeInv

LEMMA TypesPublish ==
  ASSUME TypeInv, NEW e \in Executions, Publish(e) \/ HandleTerminal(e)
  PROVE  TypeInv'
<1>1. sequence + 1 \in Ids
  BY LimitsOK DEF TypeInv, Publish, HandleTerminal, Ids
<1>2. CASE Publish(e)
  <2> DEFINE h == [entries EXCEPT ![e] = Push(@, sequence + 1)]
             f == Frame(sequence + 1, "log")
  <2>1. Trimmed(MoveToEnd(order, e), h, terminal, subscribers) /\ Announce(e, f) /\ UNCHANGED ended
    BY <1>2 DEF Publish
  <2>2. h \in [Executions -> Seq(Ids)] /\ \A g \in Executions : Len(h[g]) <= HistorySize
    <3>1. /\ entries \in [Executions -> Seq(Ids)] /\ \A g \in Executions : Len(entries[g]) <= HistorySize
      BY DEF TypeInv
    <3>2. Push(entries[e], sequence + 1) \in Seq(Ids) /\ Len(Push(entries[e], sequence + 1)) <= HistorySize
      BY <1>1, <3>1, PushFits
    <3>3. QED BY <3>1, <3>2
  <2>3. f \in FrameType
    BY <1>1, FrameTyped
  <2> HIDE DEF h, f
  <2>4. /\ entries' \in [Executions -> Seq(Ids)]
        /\ \A g \in Executions : Len(entries'[g]) <= HistorySize
        /\ terminal' \in [Executions -> FrameType]
    BY <2>1, <2>2, TrimmedFits DEF TypeInv
  <2>5. ended' \in [Executions -> BOOLEAN]
    BY <2>1 DEF TypeInv
  <2>6. QED BY <2>1, <2>3, <2>4, <2>5, TypesAnnounced
<1>3. CASE HandleTerminal(e)
  <2>1. PICK event \in Endings :
          /\ Trimmed(MoveToEnd(order, e), entries, [terminal EXCEPT ![e] = Frame(sequence + 1, event)],
                     subscribers)
          /\ Announce(e, Frame(sequence + 1, event))
    BY <1>3 DEF HandleTerminal
  <2> DEFINE f == Frame(sequence + 1, event)
             t == [terminal EXCEPT ![e] = f]
  <2>2. f \in FrameType
    BY <1>1, FrameTyped DEF Closing
  <2> HIDE DEF f
  <2>3. t \in [Executions -> FrameType]
    BY <2>2 DEF TypeInv
  <2>4. Trimmed(MoveToEnd(order, e), entries, t, subscribers) /\ Announce(e, f)
    BY <2>1 DEF f
  <2> HIDE DEF t
  <2>5. /\ entries' \in [Executions -> Seq(Ids)]
        /\ \A g \in Executions : Len(entries'[g]) <= HistorySize
        /\ terminal' \in [Executions -> FrameType]
    BY <2>3, <2>4, TrimmedFits DEF TypeInv
  <2>6. ended' \in [Executions -> BOOLEAN]
    BY <1>3 DEF HandleTerminal, TypeInv
  <2>7. QED BY <2>2, <2>4, <2>5, <2>6, TypesAnnounced
<1>4. QED BY <1>2, <1>3

LEMMA TypesRead ==
  ASSUME TypeInv, NEW e \in Executions, Read(e)
  PROVE  TypeInv'
<1>1. Trimmed(MoveToEnd(order, e), entries, terminal, subscribers)
  BY DEF Read, Get
<1>2. /\ entries' \in [Executions -> Seq(Ids)]
      /\ \A g \in Executions : Len(entries'[g]) <= HistorySize
      /\ terminal' \in [Executions -> FrameType]
  BY <1>1, TrimmedFits DEF TypeInv
<1>3. UNCHANGED <<subscribers, sequence, published, ended, reader>>
  BY DEF Read
<1>4. QED BY <1>2, <1>3 DEF TypeInv

LEMMA TypesStay ==
  ASSUME TypeInv, NEW r \in Readers, NEW y, Fits(y), reader' = [reader EXCEPT ![r] = y],
         UNCHANGED <<logs, subscribers, sequence, published, ended>>
  PROVE  TypeInv'
<1>1. reader' \in [Readers -> TypedStream] /\ \A s \in Readers : Fits(reader'[s])
  BY DEF TypeInv, Fits
<1>2. QED BY <1>1 DEF TypeInv, logs

LEMMA TypesOpen ==
  ASSUME TypeInv, NEW r \in Readers, NEW e \in Executions, Open(r, e)
  PROVE  TypeInv'
<1> DEFINE y == [Unopened EXCEPT !.pc = "replaying", !.execution = e, !.replay = entries[e],
                                 !.since = sequence]
<1>1. /\ Trimmed(MoveToEnd(order, e), entries, terminal, subscribers)
      /\ subscribers' = [subscribers EXCEPT ![e] = @ \cup {r}]
      /\ reader' = [reader EXCEPT ![r] = y] /\ UNCHANGED <<sequence, published, ended>>
  BY DEF Open, Get
<1>2. Fits(y)
  <2> DEFINE z == <<>>
             h == entries[e]
             last == sequence
  <2>1. z \in Seq(FrameType) /\ Len(z) = 0 /\ 0 \in Ids /\ 0 <= QueueSize
    BY Nothing, LimitsOK DEF Ids
  <2>2. h \in Seq(Ids) /\ last \in Ids
    BY DEF TypeInv
  <2> DEFINE g == Unopened.execution
  <2>3. /\ Unopened = [pc |-> "unopened", execution |-> g, replay |-> z, lastId |-> 0, queue |-> z,
                       sent |-> z, since |-> 0]
        /\ y = [Unopened EXCEPT !.pc = "replaying", !.execution = e, !.replay = h, !.since = last]
    BY DEF Unopened
  <2> HIDE DEF z, h, last, y, g
  <2>4. y = [pc |-> "replaying", execution |-> e, replay |-> h, lastId |-> 0, queue |-> z,
             sent |-> z, since |-> last]
    BY ONLY <2>3
  <2>5. QED BY <2>1, <2>2, <2>4 DEF Fits, TypedStream, Active
<1> HIDE DEF y
<1>3. subscribers' \in [Executions -> SUBSET Readers]
  BY <1>1 DEF TypeInv
<1>4. QED BY <1>1, <1>2, <1>3, TypesRefreshed

LEMMA TypesLeave ==
  ASSUME TypeInv, NEW r \in Readers, Leave(r)
  PROVE  TypeInv'
<1> DEFINE x == reader[r]
           y == [x EXCEPT !.pc = "closed", !.replay = <<>>, !.queue = <<>>]
<1>1. /\ Trimmed(order, entries, terminal, subscribers')
      /\ subscribers' = [e \in Executions |-> subscribers[e] \ {r}]
      /\ UNCHANGED <<sequence, published, ended>>
  BY DEF Leave
<1>2. reader' = [reader EXCEPT ![r] = y]
  BY DEF Leave, TypeInv
<1>3. Fits(y)
  <2> DEFINE p == <<>>
             q == <<>>
  <2>1. p \in Seq(Ids) /\ q \in Seq(FrameType) /\ Len(q) = 0 /\ 0 <= QueueSize
    BY Nothing, LimitsOK
  <2>2. y = [x EXCEPT !.pc = "closed", !.replay = p, !.queue = q] /\ Fits(x)
    BY DEF TypeInv
  <2> HIDE DEF p, q, x, y
  <2>3. QED BY <2>1, <2>2 DEF Fits, TypedStream
<1>4. subscribers' \in [Executions -> SUBSET Readers]
  BY <1>1 DEF TypeInv
<1> HIDE DEF y
<1>5. QED BY <1>1, <1>2, <1>3, <1>4, TypesRefreshed

LEMMA TypesGenerate ==
  ASSUME TypeInv, NEW r \in Readers, Replay(r) \/ ReplayDone(r) \/ Follow(r)
  PROVE  TypeInv'
<1> DEFINE x == reader[r]
<1>1. /\ Fits(x) /\ x.execution \in Executions /\ subscribers \in [Executions -> SUBSET Readers]
      /\ terminal \in [Executions -> FrameType]
  BY DEF TypeInv, TypedStream
<1>2. UNCHANGED <<subscribers, sequence, published, ended>>
  BY DEF Replay, ReplayDone, Follow, ReaderOnly
<1>3. \A f : Sending(r, f) = Sent(x, f)
  BY DEF Sending, Sent
<1>4. CASE Replay(r)
  <2> DEFINE f == Frame(Head(x.replay), "log")
             y == [Sent(x, f) EXCEPT !.replay = Tail(@)]
  <2>1. x.replay # <<>> /\ reader' = [reader EXCEPT ![r] = y] /\ UNCHANGED logs
    BY <1>3, <1>4 DEF Replay
  <2>2. f \in FrameType
    BY <1>1, <2>1, TailFits, FrameTyped
  <2> HIDE DEF f, x
  <2>3. Fits(Sent(x, f)) /\ Sent(x, f).replay # <<>>
    BY <1>1, <2>1, <2>2, SentFits
  <2>4. Fits(y)
    BY <2>3, TailFits
  <2> HIDE DEF y
  <2>5. QED BY <1>2, <2>1, <2>4, TypesStay
<1>5. CASE ReplayDone(r)
  <2> DEFINE f == terminal[x.execution]
             y == IF f = NoFrame THEN [x EXCEPT !.pc = "following"]
                  ELSE [Sent(x, f) EXCEPT !.pc = "ending"]
  <2>1. /\ reader' = [reader EXCEPT ![r] = y]
        /\ Trimmed(MoveToEnd(order, x.execution), entries, terminal, subscribers)
    BY <1>3, <1>5 DEF ReplayDone, Get
  <2>2. f \in FrameType
    BY <1>1
  <2> HIDE DEF f, x
  <2>3. Fits(Sent(x, f))
    BY <1>1, <2>2, SentFits
  <2>4. Fits(y)
    BY <1>1, <2>3 DEF Fits, TypedStream, Active
  <2> HIDE DEF y
  <2>5. subscribers' \in [Executions -> SUBSET Readers]
    BY <1>1, <1>2
  <2>6. QED BY <1>2, <2>1, <2>4, <2>5, TypesRefreshed
<1>6. CASE Follow(r)
  <2> DEFINE f == Head(x.queue)
             z == IF Stale(r, f) THEN x
                  ELSE [Sent(x, f) EXCEPT !.pc = IF f.event \in Closing THEN "ending" ELSE @]
             y == [z EXCEPT !.queue = Tail(@)]
  <2>1. x.queue # <<>> /\ reader' = [reader EXCEPT ![r] = y] /\ UNCHANGED logs
    BY <1>3, <1>6 DEF Follow
  <2>2. f \in FrameType
    BY <1>1, <2>1, TailFits
  <2> HIDE DEF f, x
  <2>3. Fits(Sent(x, f)) /\ Sent(x, f).queue = x.queue
    BY <1>1, <2>2, SentFits
  <2>4. Fits(z) /\ z.queue = x.queue
    BY <1>1, <2>3 DEF Fits, TypedStream, Active
  <2> HIDE DEF z
  <2>5. Fits(y)
    BY <2>1, <2>4, TailFits
  <2> HIDE DEF y
  <2>6. QED BY <1>2, <2>1, <2>5, TypesStay
<1>7. QED BY <1>4, <1>5, <1>6

LEMMA TypesKept ==
  ASSUME TypeInv, [Next]_vars
  PROVE  TypeInv'
<1>1. CASE UNCHANGED vars
  BY <1>1 DEF vars, logs, TypeInv, Fits
<1>2. ASSUME NEW e \in Executions, Publish(e) \/ HandleTerminal(e) \/ Read(e)
      PROVE  TypeInv'
  BY <1>2, TypesPublish, TypesRead
<1>3. ASSUME NEW r \in Readers, ReaderStep(r) \/ Disconnect(r)
      PROVE  TypeInv'
  BY <1>3, TypesGenerate, TypesLeave DEF ReaderStep, Close, Disconnect
<1>4. QED BY <1>1, <1>2, <1>3, TypesOpen DEF Next

LEMMA TypesInitially == Init => TypeInv
<1> SUFFICES ASSUME Init
             PROVE  TypeInv
  OBVIOUS
<1>1. Fits(Unopened)
  <2> DEFINE z == <<>>
             e == Unopened.execution
  <2>1. z \in Seq(Ids) /\ z \in Seq(FrameType) /\ Len(z) = 0 /\ 0 \in Ids /\ 0 <= QueueSize
    BY Nothing, LimitsOK DEF Ids
  <2>2. e \in Executions
    BY SomeExecution DEF Unopened
  <2>3. Unopened = [pc |-> "unopened", execution |-> e, replay |-> z, lastId |-> 0, queue |-> z,
                    sent |-> z, since |-> 0]
    BY DEF Unopened
  <2> HIDE DEF z, e
  <2>4. QED BY <2>1, <2>2, <2>3 DEF Fits, TypedStream
<1>2. <<>> \in Seq(Ids) /\ Len(<<>>) = 0 /\ 0 \in Ids /\ 0 <= HistorySize
  BY Nothing, LimitsOK DEF Ids
<1>3. NoFrame \in FrameType
  BY <1>2, FrameTyped DEF NoFrame
<1>4. reader \in [Readers -> TypedStream] /\ \A r \in Readers : Fits(reader[r])
  BY <1>1 DEF Init, Fits
<1>5. QED BY <1>2, <1>3, <1>4 DEF Init, TypeInv

LEMMA TypesAlways == Spec => []TypeInv
<1>1. QED BY TypesInitially, TypesKept, PTL DEF Spec

(***************************************************************************)
(* Theorems.                                                               *)
(***************************************************************************)

(* Every history holds at most history_size entries and every queue at     *)
(* most queue_size frames, whatever is published and however slowly the    *)
(* streams are read; the table lists no execution twice.                   *)
THEOREM SizesRespected == Spec => []TypeOK
<1>1. TypeInv /\ TableInv => TypeOK
  <2> SUFFICES ASSUME TypeInv, TableInv
               PROVE  TypeOK
    OBVIOUS
  <2>1. /\ order \in Seq(Executions)
        /\ \A i, j \in 1..Len(order) : order[i] = order[j] => i = j
    BY DEF TableInv, Distinct
  <2>2. \A r \in Readers :
          /\ reader[r].pc \in Active \cup {"unopened", "closed"}
          /\ reader[r].execution \in Executions
          /\ reader[r].replay \in Seq(Ids) /\ reader[r].lastId \in Ids
          /\ reader[r].queue \in Seq(FrameType) /\ Len(reader[r].queue) <= QueueSize
          /\ reader[r].sent \in Seq(FrameType) /\ reader[r].since \in Ids
    BY DEF TypeInv, Fits, TypedStream
  <2>3. QED BY <2>1, <2>2 DEF TypeInv, TypeOK
<1>2. QED BY <1>1, TypesAlways, TableAlways, PTL

(* A history that somebody follows is in the table: it is never evicted,   *)
(* for any number of executions, capacity and order of reads.              *)
THEOREM FollowedHistoriesRetained == Spec => []LiveHistoriesRetained
<1>1. TableInv => LiveHistoriesRetained
  BY DEF TableInv
<1>2. QED BY <1>1, TableAlways, PTL

(* The table exceeds its capacity only by followed histories and the       *)
(* newest, or until a kicked reader has left.                              *)
THEOREM TableCapped == Spec => []CapacityRespected
<1>1. TableInv => CapacityRespected
  BY DEF TableInv
<1>2. QED BY <1>1, TableAlways, PTL
=============================================================================
