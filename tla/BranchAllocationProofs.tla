----------------------- MODULE BranchAllocationProofs -----------------------
(***************************************************************************)
(* What the methods of BranchBudget do to any budget, for any set of       *)
(* branches, any run total, cap, number of planned rounds and metrics.     *)
(* Both modules that keep a budget, BranchBudget and Workflow, rest on it. *)
(***************************************************************************)
EXTENDS BranchAllocation, FiniteSetTheorems, TLAPS

Counts == [Branches -> Nat]

(* An initial segment of the positive numbers is as large as its last one. *)
LEMMA IntervalSize ==
  ASSUME NEW n \in Nat
  PROVE  IsFiniteSet(1..n) /\ Cardinality(1..n) = n
<1>1. 1 \in Int /\ n \in Int
  OBVIOUS
<1>2. IsFiniteSet(1..n) /\ Cardinality(1..n) = IF 1 > n THEN 0 ELSE n - 1 + 1
  BY <1>1, FS_Interval
<1>3. (IF 1 > n THEN 0 ELSE n - 1 + 1) = n
  OBVIOUS
<1> QED
  BY <1>2, <1>3

---------------------------------------------------------------------------
(* Units: the elements that total_used counts. *)

LEMMA UnitsMembers ==
  ASSUME NEW c \in Counts
  PROVE  Units(c) = {u \in Branches \X Nat : u[2] \in 1..c[u[1]]}
<1>1. DOMAIN c = Branches /\ \A b \in Branches : c[b] \in Nat
  BY DEF Counts
<1>2. ASSUME NEW u \in Units(c)
      PROVE  u \in Branches \X Nat /\ u[2] \in 1..c[u[1]]
  <2>1. PICK b \in Branches : u \in {b} \X (1..c[b])
    BY <1>1 DEF Units
  <2> QED
    BY <1>1, <2>1
<1>3. ASSUME NEW u \in Branches \X Nat, u[2] \in 1..c[u[1]]
      PROVE  u \in Units(c)
  <2>1. u \in {u[1]} \X (1..c[u[1]]) /\ u[1] \in Branches
    BY <1>3
  <2> QED
    BY <1>1, <2>1 DEF Units
<1> QED
  BY <1>2, <1>3

LEMMA UnitsFinite ==
  ASSUME NEW c \in Counts
  PROVE  IsFiniteSet(Units(c)) /\ Total(c) \in Nat
<1> DEFINE S == {{b} \X (1..c[b]) : b \in Branches}
           f == [b \in Branches |-> {b} \X (1..c[b])]
<1>1. DOMAIN c = Branches /\ \A b \in Branches : c[b] \in Nat
  BY DEF Counts
<1>2. IsFiniteSet(S)
  <2>1. f \in Surjection(Branches, S)
    BY DEF Surjection
  <2> HIDE DEF f, S
  <2> QED
    BY <2>1, FS_Surjection, AllocationAssumption
<1>3. \A T \in S : IsFiniteSet(T)
  <2> SUFFICES ASSUME NEW b \in Branches PROVE IsFiniteSet({b} \X (1..c[b]))
    OBVIOUS
  <2>1. IsFiniteSet({b}) /\ IsFiniteSet(1..c[b])
    <3>1. 1 \in Int /\ c[b] \in Int
      BY <1>1
    <3>2. IsFiniteSet(1..c[b])
      BY <3>1, FS_Interval
    <3> QED
      BY <3>2, FS_Singleton
  <2> QED
    BY <2>1, FS_Product
<1>4. IsFiniteSet(UNION S)
  <2> HIDE DEF S
  <2> QED
    BY <1>2, <1>3, FS_UNION
<1>5. Units(c) = UNION S
  BY <1>1 DEF Units
<1> QED
  BY <1>4, <1>5, FS_CardinalityType DEF Total

LEMMA TotalConstant ==
  ASSUME NEW k \in Nat
  PROVE  /\ [b \in Branches |-> k] \in Counts
         /\ Total([b \in Branches |-> k]) = k * Cardinality(Branches)
<1> DEFINE c == [b \in Branches |-> k]
<1>1. c \in Counts
  BY DEF Counts
<1>2. Units(c) = Branches \X (1..k)
  <2>1. \A u : u \in Units(c) <=> u \in Branches \X Nat /\ u[2] \in 1..c[u[1]]
    <3> HIDE DEF c
    <3> QED
      BY <1>1, UnitsMembers
  <2>2. \A b \in Branches : c[b] = k
    OBVIOUS
  <2>3. \A u : u \in Branches \X (1..k) <=> u \in Branches \X Nat /\ u[2] \in 1..k
    OBVIOUS
  <2> HIDE DEF c
  <2>4. \A u \in Branches \X Nat : c[u[1]] = k
    BY <2>2
  <2>5. \A u : u \in Units(c) <=> u \in Branches \X (1..k)
    BY <2>1, <2>3, <2>4
  <2> QED
    BY <2>5
<1>3. IsFiniteSet(1..k) /\ Cardinality(1..k) = k
  <2>1. 1 \in Int /\ k \in Int
    OBVIOUS
  <2> QED
    BY <2>1, FS_Interval
<1>4. Cardinality(Branches \X (1..k)) = Cardinality(Branches) * k
  BY <1>3, FS_Product, AllocationAssumption
<1>5. Cardinality(Branches) \in Nat
  BY FS_CardinalityType, AllocationAssumption
<1> HIDE DEF c
<1>6. Total(c) = k * Cardinality(Branches)
  BY <1>2, <1>4, <1>5 DEF Total
<1> QED
  BY <1>1, <1>6 DEF c

LEMMA TotalMonotone ==
  ASSUME NEW c \in Counts, NEW d \in Counts, \A b \in Branches : c[b] <= d[b]
  PROVE  Total(c) <= Total(d)
<1>1. \A b \in Branches : c[b] \in Nat /\ d[b] \in Nat
  BY DEF Counts
<1>2. Units(c) \in SUBSET Units(d)
  BY <1>1, UnitsMembers
<1> QED
  BY <1>2, UnitsFinite, FS_Subset DEF Total

(* Counting twice what comes in two parts. *)
LEMMA TotalAdds ==
  ASSUME NEW c \in Counts, NEW d \in Counts, NEW e \in Counts,
         \A b \in Branches : e[b] = c[b] + d[b]
  PROVE  Total(e) = Total(c) + Total(d)
<1> DEFINE above == {u \in Branches \X Nat : u[2] \in (c[u[1]] + 1)..e[u[1]]}
           up == [u \in Units(d) |-> <<u[1], c[u[1]] + u[2]>>]
<1>1. \A b \in Branches : c[b] \in Nat /\ d[b] \in Nat /\ e[b] = c[b] + d[b]
  BY DEF Counts
<1>2. \A u : u \in Units(d) <=> u \in Branches \X Nat /\ u[2] \in 1..d[u[1]]
  BY UnitsMembers
<1>3. up \in Bijection(Units(d), above)
  <2>1. ASSUME NEW u \in Units(d) PROVE up[u] \in above
    <3>1. u[1] \in Branches /\ u[2] \in 1..d[u[1]]
      BY <1>2
    <3>2. up[u] = <<u[1], c[u[1]] + u[2]>>
      OBVIOUS
    <3>3. c[u[1]] + u[2] \in Nat /\ c[u[1]] + u[2] \in (c[u[1]] + 1)..e[u[1]]
      BY <1>1, <3>1
    <3> QED
      BY <3>1, <3>2, <3>3
  <2>2. ASSUME NEW u \in Units(d), NEW v \in Units(d), up[u] = up[v] PROVE u = v
    <3>1. /\ u \in Branches \X Nat /\ v \in Branches \X Nat
      BY <1>2
    <3>2. u[1] = v[1] /\ c[u[1]] + u[2] = c[v[1]] + v[2]
      BY <2>2
    <3>3. c[u[1]] \in Nat /\ u[2] \in Nat /\ v[2] \in Nat
      BY <1>1, <3>1
    <3>4. u[2] = v[2]
      BY <3>2, <3>3
    <3> QED
      BY <3>1, <3>2, <3>4
  <2>3. ASSUME NEW w \in above PROVE \E u \in Units(d) : up[u] = w
    <3> DEFINE u == <<w[1], w[2] - c[w[1]]>>
    <3>1. w[1] \in Branches /\ w[2] \in Nat /\ w[2] \in (c[w[1]] + 1)..e[w[1]]
          /\ w = <<w[1], w[2]>>
      OBVIOUS
    <3>2. w[2] - c[w[1]] \in 1..d[w[1]] /\ w[2] - c[w[1]] \in Nat
      BY <1>1, <3>1
    <3>3. u \in Units(d)
      BY <1>2, <3>1, <3>2
    <3>4. up[u] = w
      <4>1. c[w[1]] + (w[2] - c[w[1]]) = w[2]
        BY <1>1, <3>1
      <4> QED
        BY <3>1, <3>3, <4>1
    <3> QED
      BY <3>3, <3>4
  <2>4. up \in [Units(d) -> above]
    BY <2>1
  <2> HIDE DEF up, above
  <2> QED
    BY <2>2, <2>3, <2>4 DEF Bijection, Injection, Surjection, IsInjective
<1>4. IsFiniteSet(above) /\ Cardinality(above) = Total(d)
  <2> HIDE DEF up, above
  <2> QED
    BY <1>3, UnitsFinite, FS_Bijection DEF ExistsBijection, Total
<1>5. Units(e) = Units(c) \cup above /\ Units(c) \cap above = {}
  BY <1>1, UnitsMembers
<1>6. Cardinality({}) = 0
  BY FS_EmptySet
<1>7. Total(c) \in Nat /\ Total(d) \in Nat /\ IsFiniteSet(Units(c))
  BY UnitsFinite
<1> QED
  <2> HIDE DEF above
  <2>1. Cardinality(Units(c) \cup above)
          = Cardinality(Units(c)) + Cardinality(above) - Cardinality(Units(c) \cap above)
    BY <1>4, <1>7, FS_Union
  <2>2. Cardinality(Units(e)) = Total(c) + Total(d) - 0
    BY <1>4, <1>5, <1>6, <2>1 DEF Total
  <2> QED
    BY <1>7, <2>2 DEF Total

---------------------------------------------------------------------------
(* Granting in order. *)

(* "ahead" gives, for each unit, the units before it in a total order. *)
TotalOrder(room, ahead) ==
  \A u \in Units(room) :
    /\ ahead[u] \in SUBSET Units(room) /\ u \notin ahead[u]
    /\ \A w \in ahead[u] : \A x \in ahead[w] : x \in ahead[u]
    /\ \A w \in Units(room) : w = u \/ w \in ahead[u] \/ u \in ahead[w]

(* A unit has more units before it than any of these. *)
LEMMA PlacesGrow ==
  ASSUME NEW room \in Counts, NEW ahead, TotalOrder(room, ahead),
         NEW u \in Units(room), NEW w \in Units(room), w \in ahead[u]
  PROVE  /\ Cardinality(ahead[w]) \in Nat /\ Cardinality(ahead[u]) \in Nat
         /\ Cardinality(ahead[w]) < Cardinality(ahead[u])
<1>1. IsFiniteSet(ahead[u])
  <2>1. ahead[u] \in SUBSET Units(room)
    BY DEF TotalOrder
  <2> QED
    BY <2>1, UnitsFinite, FS_Subset
<1>2. ahead[w] \in SUBSET ahead[u]
  BY DEF TotalOrder
<1>3. w \notin ahead[w]
  BY DEF TotalOrder
<1>4. /\ IsFiniteSet(ahead[w])
      /\ Cardinality(ahead[w]) <= Cardinality(ahead[u])
      /\ Cardinality(ahead[u]) = Cardinality(ahead[w]) => ahead[u] = ahead[w]
  BY <1>1, <1>2, FS_Subset
<1>5. Cardinality(ahead[w]) \in Nat /\ Cardinality(ahead[u]) \in Nat
  BY <1>1, <1>4, FS_CardinalityType
<1>6. Cardinality(ahead[u]) # Cardinality(ahead[w])
  BY <1>3, <1>4
<1> QED
  BY <1>4, <1>5, <1>6

(* The places of the units of a room are 0, 1, ... without a gap. *)
LEMMA PlacesFill ==
  ASSUME NEW room \in Counts, NEW ahead, TotalOrder(room, ahead)
  PROVE  [u \in Units(room) |-> Cardinality(ahead[u])]
           \in Bijection(Units(room), 0..(Total(room) - 1))
<1> DEFINE U == Units(room)
           T == Total(room)
           p == [u \in U |-> Cardinality(ahead[u])]
<1>1. IsFiniteSet(U) /\ T = Cardinality(U) /\ T \in Nat
  BY UnitsFinite DEF Total
<1>2. ASSUME NEW u \in U PROVE Cardinality(ahead[u]) \in 0..(T - 1)
  <2>1. ahead[u] \in SUBSET (U \ {u})
    BY DEF TotalOrder
  <2>2. IsFiniteSet(U \ {u}) /\ Cardinality(U \ {u}) = T - 1
    BY <1>1, FS_RemoveElement
  <2>3. IsFiniteSet(ahead[u]) /\ Cardinality(ahead[u]) <= T - 1
    <3> HIDE DEF U, T
    <3> QED
      BY <2>1, <2>2, FS_Subset
  <2>4. Cardinality(ahead[u]) \in Nat
    BY <2>3, FS_CardinalityType
  <2> HIDE DEF T
  <2> QED
    BY <1>1, <2>3, <2>4
<1>3. ASSUME NEW u \in U, NEW w \in U, p[u] = p[w] PROVE u = w
  <2>1. Cardinality(ahead[u]) = Cardinality(ahead[w])
    BY <1>3
  <2>2. w \notin ahead[u]
    BY <2>1, PlacesGrow
  <2>3. u \notin ahead[w]
    BY <2>1, PlacesGrow
  <2> QED
    BY <2>2, <2>3 DEF TotalOrder
<1>4. p \in Injection(U, 0..(T - 1))
  <2>1. p \in [U -> 0..(T - 1)]
    <3> HIDE DEF U, T
    <3> QED
      BY <1>2
  <2> HIDE DEF p, U, T
  <2> QED
    BY <1>3, <2>1 DEF Injection, IsInjective
<1>5. IsFiniteSet(0..(T - 1)) /\ Cardinality(0..(T - 1)) = T
  <2> HIDE DEF T
  <2>1. 0 \in Int /\ T - 1 \in Int
    BY <1>1
  <2> QED
    BY <1>1, <2>1, FS_Interval
<1>6. p \in Surjection(U, 0..(T - 1))
  <2> HIDE DEF p, U, T
  <2> QED
    BY <1>1, <1>4, <1>5, FS_Injection
<1> QED
  <2> HIDE DEF p, U, T
  <2>1. p \in Bijection(U, 0..(T - 1))
    BY <1>4, <1>6 DEF Bijection
  <2> QED
    BY <2>1 DEF p, U, T

(* The units with fewer than "available" units ahead. *)
Granted(room, ahead, available) ==
  {u \in Units(room) : Cardinality(ahead[u]) < available}

(* There are as many of them as there are units and calls for them. *)
LEMMA GrantedCount ==
  ASSUME NEW room \in Counts, NEW ahead, TotalOrder(room, ahead), NEW available \in Nat
  PROVE  Cardinality(Granted(room, ahead, available)) = Least(available, Total(room))
<1> DEFINE U == Units(room)
           T == Total(room)
           G == Granted(room, ahead, available)
           p == [u \in U |-> Cardinality(ahead[u])]
           m == Least(available, T)
           g == [u \in G |-> p[u]]
<1>1. IsFiniteSet(U) /\ T \in Nat
  BY UnitsFinite
<1>2. m \in Nat /\ m <= T /\ m <= available /\ (m = T \/ m = available)
  <2> HIDE DEF T
  <2> QED
    BY <1>1 DEF Least
<1>3. p \in Bijection(U, 0..(T - 1))
  BY PlacesFill
<1>4. G = {u \in U : p[u] < available}
  BY DEF Granted
<1> HIDE DEF p, G, U, T, m
<1>5. \A u \in U : p[u] \in 0..(T - 1)
  BY <1>3 DEF Bijection, Injection
<1>6. \A u \in G : u \in U /\ g[u] = p[u] /\ p[u] \in 0..(m - 1)
  BY <1>1, <1>2, <1>4, <1>5
<1>7. \A i \in 0..(m - 1) : \E u \in G : g[u] = i
  <2> SUFFICES ASSUME NEW i \in 0..(m - 1) PROVE \E u \in G : g[u] = i
    OBVIOUS
  <2>1. i \in 0..(T - 1) /\ i < available
    BY <1>1, <1>2
  <2>2. PICK u \in U : p[u] = i
    BY <1>3, <2>1 DEF Bijection, Surjection
  <2> QED
    BY <1>4, <2>1, <2>2
<1>8. \A u, w \in G : g[u] = g[w] => u = w
  <2>1. \A u, w \in U : p[u] = p[w] => u = w
    BY <1>3 DEF Bijection, Injection, IsInjective
  <2> QED
    BY <1>6, <2>1
<1>9. g \in Bijection(G, 0..(m - 1))
  <2>1. g \in [G -> 0..(m - 1)]
    BY <1>6
  <2> HIDE DEF g
  <2> QED
    BY <1>7, <1>8, <2>1 DEF Bijection, Injection, Surjection, IsInjective
<1>10. IsFiniteSet(0..(m - 1)) /\ Cardinality(0..(m - 1)) = m
  BY <1>2, FS_Interval
<1>11. IsFiniteSet(G)
  <2>1. G \in SUBSET U
    BY <1>4
  <2> QED
    BY <1>1, <2>1, FS_Subset
<1>12. Cardinality(G) = m
  <2> HIDE DEF g
  <2>1. ExistsBijection(G, 0..(m - 1))
    BY <1>9 DEF ExistsBijection
  <2>2. Cardinality(G) = Cardinality(0..(m - 1))
    BY <1>11, <2>1, FS_Bijection
  <2> QED
    BY <1>10, <2>2
<1> QED
  BY <1>12 DEF G, m, T

(* Grant hands out just these units: it stays within every branch's room   *)
(* and gives all that is available, or all that there is room for.         *)
LEMMA GrantExact ==
  ASSUME NEW room \in Counts, NEW ahead, TotalOrder(room, ahead), NEW available \in Nat
  PROVE  /\ Grant(room, ahead, available) \in Counts
         /\ \A b \in Branches : Grant(room, ahead, available)[b] <= room[b]
         /\ Total(Grant(room, ahead, available)) = Least(available, Total(room))
<1> DEFINE K(b) == {k \in 1..room[b] : Cardinality(ahead[<<b, k>>]) < available}
           G == Granted(room, ahead, available)
           grant == Grant(room, ahead, available)
           f == [b \in Branches |-> CHOOSE m : m \in Bijection(1..Cardinality(K(b)), K(b))]
           unit == [u \in Units(grant) |-> <<u[1], f[u[1]][u[2]]>>]
<1>1. DOMAIN room = Branches /\ \A b \in Branches : room[b] \in Nat
  BY DEF Counts
<1>2. grant = [b \in Branches |-> Cardinality(K(b))]
  BY <1>1 DEF Grant
<1>3. ASSUME NEW b \in Branches
      PROVE  /\ IsFiniteSet(K(b)) /\ Cardinality(K(b)) \in Nat
             /\ Cardinality(K(b)) <= room[b]
  <2>1. IsFiniteSet(1..room[b]) /\ Cardinality(1..room[b]) = room[b]
    <3>1. room[b] \in Nat
      BY <1>1
    <3> QED
      BY <3>1, IntervalSize
  <2>2. K(b) \in SUBSET (1..room[b])
    OBVIOUS
  <2> HIDE DEF K
  <2>3. IsFiniteSet(K(b)) /\ Cardinality(K(b)) <= Cardinality(1..room[b])
    BY <2>1, <2>2, FS_Subset
  <2> QED
    BY <2>1, <2>3, FS_CardinalityType
<1>4. grant \in Counts /\ \A b \in Branches : grant[b] = Cardinality(K(b)) /\ grant[b] <= room[b]
  <2> HIDE DEF K, grant
  <2> QED
    BY <1>2, <1>3 DEF Counts
<1>5. ASSUME NEW b \in Branches
      PROVE  f[b] \in Bijection(1..Cardinality(K(b)), K(b))
  <2> HIDE DEF K
  <2>1. ExistsBijection(1..Cardinality(K(b)), K(b))
    BY <1>3, FS_CardinalityType
  <2> QED
    BY <2>1 DEF ExistsBijection
<1>6. \A u : u \in Units(grant) <=> u \in Branches \X Nat /\ u[2] \in 1..Cardinality(K(u[1]))
  <2> HIDE DEF K, grant
  <2> QED
    BY <1>4, UnitsMembers
<1>7. \A w : w \in G <=> w \in Branches \X Nat /\ w[2] \in K(w[1])
  <2>1. \A w : w \in G <=> w \in Branches \X Nat /\ w[2] \in 1..room[w[1]]
                           /\ Cardinality(ahead[w]) < available
    BY UnitsMembers DEF Granted
  <2>2. \A w \in Branches \X Nat : w = <<w[1], w[2]>>
    OBVIOUS
  <2> HIDE DEF G
  <2> QED
    BY <2>1, <2>2
<1>8. ASSUME NEW u \in Units(grant)
      PROVE  /\ u = <<u[1], u[2]>> /\ u[1] \in Branches
             /\ u[2] \in 1..Cardinality(K(u[1]))
             /\ unit[u] = <<u[1], f[u[1]][u[2]]>>
             /\ unit[u] \in G
  <2>1. u \in Branches \X Nat /\ u[2] \in 1..Cardinality(K(u[1]))
    <3> HIDE DEF K, grant
    <3> QED
      BY <1>6
  <2>2. f[u[1]][u[2]] \in K(u[1])
    <3> HIDE DEF K, f
    <3> QED
      BY <1>5, <2>1 DEF Bijection, Injection
  <2>3. f[u[1]][u[2]] \in Nat
    <3> HIDE DEF f
    <3> QED
      BY <1>1, <2>1, <2>2
  <2>4. unit[u] = <<u[1], f[u[1]][u[2]]>>
    <3> HIDE DEF f, grant
    <3> QED
      OBVIOUS
  <2> HIDE DEF K, f, unit, G
  <2> QED
    BY <1>7, <2>1, <2>2, <2>3, <2>4
<1>9. ASSUME NEW u \in Units(grant), NEW v \in Units(grant), unit[u] = unit[v]
      PROVE  u = v
  <2> HIDE DEF K, f, unit, grant
  <2>1. u[1] = v[1] /\ f[u[1]][u[2]] = f[u[1]][v[2]]
    BY <1>8, <1>9
  <2>2. /\ u[1] \in Branches /\ u[2] \in 1..Cardinality(K(u[1]))
        /\ v[2] \in 1..Cardinality(K(u[1]))
    BY <1>8, <2>1
  <2>3. u[2] = v[2]
    BY <1>5, <2>1, <2>2 DEF Bijection, Injection, IsInjective
  <2> QED
    BY <1>8, <2>1, <2>3
<1>10. ASSUME NEW w \in G PROVE \E u \in Units(grant) : unit[u] = w
  <2>1. w = <<w[1], w[2]>> /\ w[1] \in Branches /\ w[2] \in K(w[1])
    <3> HIDE DEF K, G
    <3> QED
      BY <1>7
  <2>2. PICK k \in 1..Cardinality(K(w[1])) : f[w[1]][k] = w[2]
    <3> HIDE DEF K, f
    <3> QED
      BY <1>5, <2>1 DEF Bijection, Surjection
  <2>3. <<w[1], k>> \in Units(grant)
    <3>1. k \in Nat
      BY <1>3, <2>1
    <3> HIDE DEF K, grant
    <3> QED
      BY <1>6, <2>1, <3>1
  <2>4. unit[<<w[1], k>>] = w
    <3> HIDE DEF K, f, grant
    <3> QED
      BY <2>1, <2>2, <2>3
  <2> QED
    BY <2>3, <2>4
<1>11. unit \in Bijection(Units(grant), G)
  <2> HIDE DEF K, f, G, grant
  <2>1. unit \in [Units(grant) -> G]
    BY <1>8
  <2> HIDE DEF unit
  <2> QED
    BY <1>9, <1>10, <2>1 DEF Bijection, Injection, Surjection, IsInjective
<1>12. Total(grant) = Cardinality(G)
  <2> HIDE DEF K, f, G, grant, unit
  <2>1. IsFiniteSet(Units(grant))
    BY <1>4, UnitsFinite
  <2> QED
    BY <1>11, <2>1, FS_Bijection DEF ExistsBijection, Total
<1>13. Cardinality(G) = Least(available, Total(room))
  BY GrantedCount
<1> QED
  <2> HIDE DEF K, G
  <2> QED
    BY <1>4, <1>12, <1>13

LEMMA GrantBounded ==
  ASSUME NEW room \in Counts, NEW ahead, TotalOrder(room, ahead), NEW available \in Nat
  PROVE  /\ Grant(room, ahead, available) \in Counts
         /\ \A b \in Branches : Grant(room, ahead, available)[b] <= room[b]
         /\ Total(Grant(room, ahead, available)) <= available
<1>1. Total(room) \in Nat
  BY UnitsFinite
<1>2. Least(available, Total(room)) <= available
  BY <1>1 DEF Least
<1> QED
  BY <1>2, GrantExact

(* Both orders reallocate hands units out in are total. *)
LEMMA VerifyAheadTotal ==
  ASSUME NEW room \in Counts
  PROVE  TotalOrder(room, VerifyAhead(room))
<1>1. \A u \in Units(room) : u = <<u[1], u[2]>> /\ u[1] \in Nat /\ u[2] \in Nat
  BY UnitsMembers, AllocationAssumption
<1>2. \A u \in Units(room) : VerifyAhead(room)[u] \in SUBSET Units(room)
  BY DEF VerifyAhead
<1>3. \A u, w \in Units(room) :
        w \in VerifyAhead(room)[u] <=> w[1] < u[1] \/ (w[1] = u[1] /\ w[2] < u[2])
  BY DEF VerifyAhead
<1> QED
  BY <1>1, <1>2, <1>3 DEF TotalOrder

LEMMA RoundAheadTotal ==
  ASSUME NEW room \in Counts, NEW metric \in [Branches -> Metrics]
  PROVE  TotalOrder(room, RoundAhead(room, metric))
<1>1. \A u \in Units(room) :
        /\ u = <<u[1], u[2]>> /\ u[1] \in Nat /\ u[2] \in Nat
        /\ metric[u[1]] \in Int
  BY UnitsMembers, AllocationAssumption
<1>2. \A u \in Units(room) : RoundAhead(room, metric)[u] \in SUBSET Units(room)
  BY DEF RoundAhead
<1>3. \A u, w \in Units(room) :
        w \in RoundAhead(room, metric)[u] <=>
          \/ w[2] < u[2]
          \/ /\ w[2] = u[2]
             /\ \/ metric[w[1]] < metric[u[1]]
                \/ metric[w[1]] = metric[u[1]] /\ w[1] < u[1]
  BY DEF RoundAhead, Weaker
<1> QED
  BY <1>1, <1>2, <1>3 DEF TotalOrder

---------------------------------------------------------------------------
(* The branches have an order by id. *)

LEMMA SortedOrderExists ==
  \E s \in [1..Cardinality(Branches) -> Branches] :
    \A i, j \in DOMAIN s : i < j => s[i] < s[j]
<1> DEFINE n == Cardinality(Branches)
           one == [b \in Branches |-> 1]
           ahead == VerifyAhead(one)
           place == [u \in Units(one) |-> Cardinality(ahead[u])]
           at(i) == CHOOSE u \in Units(one) : place[u] = i - 1
           s == [i \in 1..n |-> at(i)[1]]
<1>1. one \in Counts /\ Total(one) = n /\ n \in Nat
  <2>1. n \in Nat /\ 1 * n = n
    BY AllocationAssumption, FS_CardinalityType
  <2> QED
    BY <2>1, TotalConstant
<1>2. TotalOrder(one, ahead)
  BY <1>1, VerifyAheadTotal
<1>3. place \in Bijection(Units(one), 0..(n - 1))
  <2> HIDE DEF one
  <2>1. place \in Bijection(Units(one), 0..(Total(one) - 1))
    BY <1>1, <1>2, PlacesFill
  <2> HIDE DEF n, place
  <2> QED
    BY <1>1, <2>1
<1>4. \A u \in Units(one) : u = <<u[1], 1>> /\ u[1] \in Branches /\ u[1] \in Nat
  <2>1. \A u \in Units(one) : u \in Branches \X Nat /\ u[2] \in 1..one[u[1]]
    <3> HIDE DEF one
    <3> QED
      BY <1>1, UnitsMembers
  <2>2. \A b \in Branches : one[b] = 1
    OBVIOUS
  <2> HIDE DEF one
  <2>3. \A u \in Branches \X Nat : u = <<u[1], u[2]>>
    OBVIOUS
  <2>4. \A u \in Units(one) : u[2] = 1 /\ u[1] \in Branches
    BY <2>1, <2>2
  <2> QED
    BY <2>1, <2>3, <2>4, AllocationAssumption
<1>5. ASSUME NEW i \in 1..n PROVE at(i) \in Units(one) /\ place[at(i)] = i - 1
  <2>1. i - 1 \in 0..(n - 1)
    BY <1>1
  <2> HIDE DEF place, n, one
  <2>2. \E u \in Units(one) : place[u] = i - 1
    BY <1>3, <2>1 DEF Bijection, Surjection
  <2> QED
    BY <2>2
<1>6. s \in [1..n -> Branches]
  <2> HIDE DEF place, n, one, at
  <2> QED
    BY <1>4, <1>5
<1>7. ASSUME NEW i \in 1..n, NEW j \in 1..n, i < j
      PROVE  s[i] < s[j]
  <2> DEFINE u == at(i)
             w == at(j)
  <2>1. /\ u \in Units(one) /\ w \in Units(one)
        /\ place[u] = i - 1 /\ place[w] = j - 1
        /\ s[i] = u[1] /\ s[j] = w[1]
    <3> HIDE DEF place, one, at
    <3> QED
      BY <1>5
  <2>2. /\ u = <<u[1], 1>> /\ w = <<w[1], 1>> /\ u[1] \in Nat /\ w[1] \in Nat
    BY <1>4, <2>1
  <2> HIDE DEF u, w
  <2>3. place[u] < place[w]
    <3> HIDE DEF place, n
    <3> QED
      BY <1>1, <1>7, <2>1
  <2>4. place[u] = Cardinality(ahead[u]) /\ place[w] = Cardinality(ahead[w])
    BY <2>1
  <2>5. CASE u[1] < w[1]
    BY <2>1, <2>5
  <2>6. CASE u[1] = w[1]
    <3>1. i - 1 = j - 1 /\ i \in Int /\ j \in Int
      BY <1>1, <2>1, <2>2, <2>6
    <3> QED
      BY <1>7, <3>1
  <2>7. CASE w[1] < u[1]
    <3>1. w \in ahead[u]
      BY <2>1, <2>7 DEF VerifyAhead
    <3> HIDE DEF ahead, place, one
    <3>2. /\ Cardinality(ahead[w]) \in Nat /\ Cardinality(ahead[u]) \in Nat
          /\ Cardinality(ahead[w]) < Cardinality(ahead[u])
      BY <1>1, <1>2, <2>1, <3>1, PlacesGrow
    <3> QED
      BY <2>3, <2>4, <3>2
  <2> QED
    BY <2>2, <2>5, <2>6, <2>7
<1> QED
  <2>1. DOMAIN s = 1..n
    OBVIOUS
  <2> HIDE DEF s, n
  <2>2. \A i, j \in DOMAIN s : i < j => s[i] < s[j]
    BY <1>7, <2>1
  <2>3. \E t \in [1..n -> Branches] : \A i, j \in DOMAIN t : i < j => t[i] < t[j]
    BY <1>6, <2>2
  <2> QED
    BY <2>3 DEF n

---------------------------------------------------------------------------
(* The first allocation. *)

LEMMA Division ==
  ASSUME NEW d \in Nat, NEW n \in Nat, n > 0
  PROVE  d \div n \in Nat /\ d % n \in 0..(n - 1) /\ d = (d \div n) * n + (d % n)
<1>1. d \div n \in Nat
  BY SMT
<1>2. d % n \in 0..(n - 1)
  BY SMT
<1>3. d = (d \div n) * n + (d % n)
  BY SMT
<1> QED
  BY <1>1, <1>2, <1>3

(* Equal shares of d calls add up to at most d: the k-th call of the i-th  *)
(* of n branches is call (k - 1) * n + i.                                  *)
LEMMA EqualShareBounded ==
  ASSUME NEW ordered \in Orders, NEW d \in Nat
  PROVE  LET share == EqualShare(ordered, d, per_branch_cap)
         IN  /\ share \in [Branches -> 0..per_branch_cap]
             /\ Total(share) <= d
<1> DEFINE n == Cardinality(Branches)
           share == EqualShare(ordered, d, per_branch_cap)
           q == d \div n
           r == d % n
           call == [u \in Units(share) |-> (u[2] - 1) * n + Place(ordered, u[1])]
<1>1. n \in Nat /\ n > 0
  BY AllocationAssumption, FS_CardinalityType, FS_EmptySet
<1>2. /\ DOMAIN ordered = 1..n /\ Len(ordered) = n
      /\ \A i \in 1..n : ordered[i] \in Branches
      /\ \A i, j \in 1..n : ordered[i] = ordered[j] => i = j
  <2>1. ordered \in [1..n -> Branches]
    BY DEF Orders
  <2>2. Len(ordered) = n
    BY <1>1, <2>1
  <2> QED
    BY <2>1, <2>2 DEF Orders
<1>3. \A b \in Branches : \E i \in 1..n : ordered[i] = b
  <2>1. ordered \in Injection(1..n, Branches)
    BY <1>2 DEF Orders, Injection, IsInjective
  <2>2. IsFiniteSet(1..n) /\ Cardinality(1..n) = n
    BY <1>1, FS_Interval
  <2>3. ordered \in Surjection(1..n, Branches)
    BY <2>1, <2>2, FS_Injection, AllocationAssumption
  <2> QED
    BY <2>3 DEF Surjection
<1>4. ASSUME NEW b \in Branches
      PROVE  Place(ordered, b) \in 1..n /\ ordered[Place(ordered, b)] = b
  BY <1>2, <1>3 DEF Place
<1>5. q \in Nat /\ r \in 0..(n - 1) /\ d = q * n + r
  <2> HIDE DEF n
  <2> QED
    BY <1>1, Division
<1>6. ASSUME NEW b \in Branches
      PROVE  /\ share[b] \in 0..per_branch_cap
             /\ share[b] <= q + (IF Place(ordered, b) <= r THEN 1 ELSE 0)
  <2>1. {ordered[i] : i \in DOMAIN ordered} = Branches
    BY <1>2, <1>3
  <2>2. share[b] = Least(per_branch_cap, q + (IF Place(ordered, b) <= r THEN 1 ELSE 0))
    BY <1>2, <2>1 DEF EqualShare
  <2> HIDE DEF share, q, r, n
  <2> QED
    BY <1>1, <1>4, <1>5, <2>2, AllocationAssumption DEF Least
<1>7. share \in [Branches -> 0..per_branch_cap]
  <2>1. {ordered[i] : i \in DOMAIN ordered} = Branches
    BY <1>2, <1>3
  <2>2. DOMAIN share = Branches
    BY <2>1 DEF EqualShare
  <2>3. share = [b \in Branches |-> share[b]]
    BY <2>1, <2>2 DEF EqualShare
  <2> HIDE DEF share
  <2> QED
    BY <1>6, <2>3
<1>8. share \in Counts
  <2> HIDE DEF share
  <2> QED
    BY <1>7, AllocationAssumption DEF Counts
<1>9. ASSUME NEW u \in Units(share)
      PROVE  /\ u = <<u[1], u[2]>> /\ u[1] \in Branches
             /\ u[2] \in Nat \ {0}
             /\ call[u] \in 1..d
  <2> HIDE DEF share, q, r, n
  <2>1. u \in Branches \X Nat /\ u[2] \in 1..share[u[1]]
    BY <1>8, UnitsMembers
  <2> DEFINE k == u[2]
             i == Place(ordered, u[1])
  <2>2. /\ k \in Nat /\ k >= 1 /\ i \in 1..n
        /\ k <= q + (IF i <= r THEN 1 ELSE 0)
    <3>1. share[u[1]] \in Nat /\ u[1] \in Branches
      <4>1. per_branch_cap \in Nat /\ u[1] \in Branches
        BY <2>1, AllocationAssumption
      <4>2. share[u[1]] \in 0..per_branch_cap
        BY <1>7, <4>1
      <4> QED
        BY <4>1, <4>2
    <3>2. k \in Nat /\ k >= 1 /\ k <= share[u[1]]
      BY <2>1, <3>1
    <3>3. i \in 1..n
      BY <1>4, <3>1
    <3>4. share[u[1]] <= q + (IF i <= r THEN 1 ELSE 0)
      BY <1>6, <3>1
    <3> HIDE DEF k, i
    <3> QED
      BY <1>1, <1>5, <3>1, <3>2, <3>3, <3>4
  <2>3. call[u] = (k - 1) * n + i
    OBVIOUS
  <2> HIDE DEF k, i
  <2>4. CASE i <= r
    <3>1. k - 1 <= q
      BY <1>5, <2>2, <2>4
    <3>2. (k - 1) * n <= q * n /\ (k - 1) * n \in Nat
      BY <1>1, <1>5, <2>2, <3>1
    <3> QED
      BY <1>1, <1>5, <2>1, <2>2, <2>3, <2>4, <3>2 DEF k
  <2>5. CASE ~ (i <= r)
    <3>1. k - 1 <= q - 1 /\ q >= 1
      BY <1>1, <1>5, <2>2, <2>5
    <3>2. (k - 1) * n <= (q - 1) * n /\ (k - 1) * n \in Nat
      BY <1>1, <1>5, <2>2, <3>1
    <3>3. (q - 1) * n = q * n - n /\ q * n \in Nat
      BY <1>1, <1>5
    <3> QED
      BY <1>1, <1>5, <2>1, <2>2, <2>3, <2>5, <3>2, <3>3 DEF k
  <2> QED
    BY <2>4, <2>5
<1>10. ASSUME NEW u \in Units(share), NEW v \in Units(share), call[u] = call[v]
       PROVE  u = v
  <2> HIDE DEF share, n
  <2> DEFINE k == u[2] - 1
             l == v[2] - 1
             i == Place(ordered, u[1])
             j == Place(ordered, v[1])
  <2>1. /\ k \in Nat /\ l \in Nat /\ i \in 1..n /\ j \in 1..n
        /\ ordered[i] = u[1] /\ ordered[j] = v[1]
    BY <1>4, <1>9
  <2>2. k * n + i = l * n + j
    BY <1>10
  <2> HIDE DEF k, l, i, j
  <2>3. k = l
    <3>1. CASE k < l
      <4>1. (k + 1) * n <= l * n /\ (k + 1) * n = k * n + n
        BY <1>1, <2>1, <3>1
      <4> QED
        BY <1>1, <2>1, <2>2, <4>1
    <3>2. CASE l < k
      <4>1. (l + 1) * n <= k * n /\ (l + 1) * n = l * n + n
        BY <1>1, <2>1, <3>2
      <4> QED
        BY <1>1, <2>1, <2>2, <4>1
    <3> QED
      BY <2>1, <3>1, <3>2
  <2>4. i = j
    <3>1. k * n \in Nat
      BY <1>1, <2>1
    <3> QED
      BY <2>1, <2>2, <2>3, <3>1
  <2>5. u[1] = v[1]
    BY <2>1, <2>4
  <2>6. u[2] = v[2]
    BY <1>9, <2>3 DEF k, l
  <2> QED
    BY <1>9, <2>5, <2>6
<1>11. Total(share) <= d
  <2>1. call \in [Units(share) -> 1..d]
    <3> HIDE DEF share, n
    <3> QED
      BY <1>9
  <2>2. call \in Injection(Units(share), 1..d)
    <3> HIDE DEF call, share
    <3> QED
      BY <1>10, <2>1 DEF Injection, IsInjective
  <2>3. IsFiniteSet(1..d) /\ Cardinality(1..d) = d
    BY FS_Interval
  <2> HIDE DEF call, share
  <2> QED
    BY <2>2, <2>3, FS_Injection DEF Total
<1> QED
  BY <1>7, <1>11

LEMMA DistributableBounded ==
  ASSUME NEW n \in Nat, NEW total \in Nat, NEW planned \in Nat \ {0}
  PROVE  LET d == Distributable(n, total, per_branch_cap, planned)
         IN  d \in Nat /\ d <= total
<1>1. total \div planned \in Nat
  BY AllocationAssumption, Division
<1>2. per_branch_cap * n \in Nat
  BY AllocationAssumption
<1> QED
  BY <1>1, <1>2, AllocationAssumption DEF Distributable, Least, Most

---------------------------------------------------------------------------
(* What a method of the budget leaves behind. *)

Accounts == [Branches -> 0..per_branch_cap]

(* A budget the code may hold: charges within allocations, allocations     *)
(* within the run.                                                         *)
Sound(bb, total) ==
  /\ bb \in Budgets
  /\ \A b \in Branches : bb.used[b] <= bb.allocated[b]
  /\ Total(bb.allocated) <= total

LEMMA AccountsAreCounts ==
  ASSUME NEW c \in Accounts
  PROVE  /\ c \in Counts /\ Total(c) \in Nat
         /\ \A b \in Branches : c[b] \in Nat /\ c[b] <= per_branch_cap
<1>1. per_branch_cap \in Nat
  BY AllocationAssumption
<1>2. \A b \in Branches : c[b] \in Nat /\ c[b] <= per_branch_cap
  BY <1>1 DEF Accounts
<1>3. c \in Counts
  BY <1>2 DEF Accounts, Counts
<1> QED
  BY <1>2, <1>3, UnitsFinite

(* A budget within its allocations uses no more than the run has. *)
LEMMA SoundWithinBudget ==
  ASSUME NEW total \in Nat, NEW bb, Sound(bb, total)
  PROVE  Total(bb.used) <= Total(bb.allocated) /\ Total(bb.used) <= total
<1>1. bb.used \in Accounts /\ bb.allocated \in Accounts
  BY DEF Sound, Budgets, Accounts
<1>2. Total(bb.used) <= Total(bb.allocated)
  BY <1>1, AccountsAreCounts, TotalMonotone DEF Sound
<1> QED
  BY <1>1, <1>2, AccountsAreCounts, AllocationAssumption DEF Sound

LEMMA AllocatedSound ==
  ASSUME NEW ordered \in Orders, NEW total \in Nat, NEW planned \in Nat \ {0}
  PROVE  LET bb == Allocated(ordered, total, per_branch_cap, planned)
         IN  Sound(bb, total) /\ \A b \in Branches : ~ bb.exhausted[b]
<1> DEFINE n == Cardinality(Branches)
           d == Distributable(n, total, per_branch_cap, planned)
           share == EqualShare(ordered, d, per_branch_cap)
           bb == Allocated(ordered, total, per_branch_cap, planned)
<1>1. n \in Nat /\ Len(ordered) = n
  BY AllocationAssumption, FS_CardinalityType DEF Orders
<1>2. d \in Nat /\ d <= total
  <2> HIDE DEF n
  <2> QED
    BY <1>1, DistributableBounded
<1>3. share \in Accounts /\ Total(share) <= d
  <2> HIDE DEF d
  <2> QED
    BY <1>2, EqualShareBounded DEF Accounts
<1>4. bb = [ allocated |-> share, used |-> [b \in DOMAIN share |-> 0],
             exhausted |-> [b \in DOMAIN share |-> FALSE] ]
  BY <1>1 DEF Allocated
<1>5. DOMAIN share = Branches /\ Total(share) \in Nat
  <2> HIDE DEF share
  <2> QED
    BY <1>3, AccountsAreCounts DEF Accounts
<1> HIDE DEF share, d, n, bb
<1>6. bb \in Budgets
  BY <1>3, <1>4, <1>5, AllocationAssumption DEF Budgets, Accounts
<1>7. \A b \in Branches : bb.used[b] = 0 /\ bb.allocated[b] = share[b] /\ ~ bb.exhausted[b]
  BY <1>4, <1>5
<1>8. Total(bb.allocated) <= total
  BY <1>2, <1>3, <1>4, <1>5, AllocationAssumption
<1>9. \A b \in Branches : share[b] \in Nat
  BY <1>3, AccountsAreCounts
<1> QED
  BY <1>6, <1>7, <1>8, <1>9 DEF Sound, bb

(* A charge is refused, or stays within what the branch was given. *)
LEMMA ConsumedSound ==
  ASSUME NEW total \in Nat, NEW bb, Sound(bb, total), NEW b \in Branches, NEW amount \in Nat
  PROVE  LET after == Consumed(bb, b, amount, total)
         IN  /\ Sound(after, total)
             /\ \A c \in Branches :
                  after.exhausted[c] = (bb.exhausted[c] \/ (c = b /\ Marked(bb, b, amount, total)))
<1> DEFINE after == Consumed(bb, b, amount, total)
           refused == Refused(bb, b, amount, total)
           marked == Marked(bb, b, amount, total)
           charged == IF refused THEN bb.used[b] ELSE bb.used[b] + amount
<1>1. /\ bb \in Budgets /\ per_branch_cap \in Nat
      /\ bb.used \in Accounts /\ bb.allocated \in Accounts
  BY AllocationAssumption DEF Sound, Budgets, Accounts
<1>2. /\ \A c \in Branches : bb.used[c] \in Nat /\ bb.allocated[c] \in Nat
      /\ bb.used[b] <= bb.allocated[b] /\ bb.allocated[b] <= per_branch_cap
  BY <1>1, AccountsAreCounts DEF Sound
<1>3. charged \in 0..per_branch_cap /\ charged <= bb.allocated[b]
  <2>1. CASE refused
    BY <1>1, <1>2, <2>1
  <2>2. CASE ~ refused
    <3>1. amount <= remaining(bb, b)
      BY <1>2, <2>2 DEF Refused, remaining, Most
    <3>2. remaining(bb, b) = bb.allocated[b] - bb.used[b]
      BY <1>2 DEF remaining, Most
    <3> QED
      BY <1>1, <1>2, <2>2, <3>1, <3>2
  <2> QED
    BY <2>1, <2>2
<1>4. /\ after = [bb EXCEPT !.used = [bb.used EXCEPT ![b] = charged],
                             !.exhausted = [bb.exhausted EXCEPT ![b] = @ \/ marked]]
  BY DEF Consumed
<1> HIDE DEF after, charged, refused, marked
<1>5. /\ after \in Budgets /\ after.allocated = bb.allocated
      /\ after.used = [bb.used EXCEPT ![b] = charged]
      /\ after.exhausted = [bb.exhausted EXCEPT ![b] = @ \/ marked]
  BY <1>1, <1>3, <1>4 DEF Budgets
<1>6. \A c \in Branches : after.used[c] <= after.allocated[c]
  BY <1>1, <1>3, <1>5 DEF Sound, Budgets
<1>7. Sound(after, total)
  BY <1>5, <1>6 DEF Sound
<1>8. \A c \in Branches : after.exhausted[c] = (bb.exhausted[c] \/ (c = b /\ marked))
  BY <1>1, <1>5 DEF Budgets
<1> QED
  BY <1>7, <1>8 DEF after, marked

(* The two passes of a redistribution: what each may give a branch, what   *)
(* it gives in all, and what the branch then holds.                        *)
TopupRoom(bb, floor) ==
  [b \in DOMAIN bb.used |-> Most(0, per_branch_cap - bb.used[b] - floor[b])]

LEMMA ReallocatedParts ==
  ASSUME NEW total \in Nat, NEW bb, Sound(bb, total), NEW metric \in [Branches -> Metrics],
         NEW verify \in SUBSET Branches, NEW verifyMin \in Nat
  PROVE  LET n     == Cardinality(Branches)
             avail == Available(bb, total, per_branch_cap)
             floor == Floor(bb, verify, verifyMin, total, per_branch_cap)
             room  == TopupRoom(bb, floor)
             topup == Topup(bb, floor, metric, total, per_branch_cap)
             after == Reallocated(bb, metric, verify, verifyMin, total, per_branch_cap)
         IN  /\ n \in Nat /\ bb.used \in Counts
             /\ avail = Most(0, Least(total, per_branch_cap * n) - Total(bb.used))
             /\ floor \in Counts /\ Total(floor) <= avail
             /\ \A b \in Branches : b \notin verify => floor[b] = 0
             /\ room \in Counts
             /\ \A b \in Branches : room[b] = per_branch_cap - bb.used[b] - floor[b]
             /\ avail - Total(floor) \in Nat
             /\ topup = Grant(room, RoundAhead(room, metric), avail - Total(floor))
             /\ topup \in Counts
             /\ \A b \in Branches : topup[b] <= room[b]
             /\ Total(topup) = Least(avail - Total(floor), Total(room))
             /\ after.allocated \in Counts
             /\ \A b \in Branches : after.allocated[b] = bb.used[b] + floor[b] + topup[b]
             /\ Total(after.allocated) = Total(bb.used) + Total(floor) + Total(topup)
<1> DEFINE n == Cardinality(Branches)
           avail == Available(bb, total, per_branch_cap)
           need == [b \in DOMAIN bb.used |->
                      IF b \in verify THEN Most(0, Least(verifyMin, per_branch_cap) - bb.used[b])
                                      ELSE 0]
           floor == Floor(bb, verify, verifyMin, total, per_branch_cap)
           room == TopupRoom(bb, floor)
           topup == Topup(bb, floor, metric, total, per_branch_cap)
           granted == [b \in Branches |-> floor[b] + topup[b]]
           fresh == [b \in Branches |-> bb.used[b] + granted[b]]
           after == Reallocated(bb, metric, verify, verifyMin, total, per_branch_cap)
<1>1. /\ per_branch_cap \in Nat
      /\ DOMAIN bb.used = Branches /\ bb.used \in Counts
      /\ n \in Nat
  BY AllocationAssumption, FS_CardinalityType, AccountsAreCounts DEF Sound, Budgets, Accounts
<1>2. \A b \in Branches : bb.used[b] \in Nat /\ bb.used[b] <= per_branch_cap
  BY AllocationAssumption, AccountsAreCounts DEF Sound, Budgets, Accounts
<1>3. Total(bb.used) \in Nat
  BY <1>1, UnitsFinite
<1>4. avail \in Nat /\ avail = Most(0, Least(total, per_branch_cap * n) - Total(bb.used))
  <2>1. per_branch_cap * n \in Nat
    BY <1>1
  <2>2. avail = Most(0, Least(total, per_branch_cap * n) - Total(bb.used))
    BY <1>1 DEF Available, total_used
  <2> HIDE DEF avail, n
  <2> QED
    BY <1>1, <1>3, <2>1, <2>2 DEF Most, Least
<1>5. need \in Counts /\ \A b \in Branches : /\ need[b] <= per_branch_cap - bb.used[b]
                                             /\ b \notin verify => need[b] = 0
  <2>1. \A b \in Branches : /\ need[b] \in Nat /\ need[b] <= per_branch_cap - bb.used[b]
                            /\ b \notin verify => need[b] = 0
    BY <1>1, <1>2 DEF Most, Least
  <2>2. need = [b \in Branches |-> need[b]]
    BY <1>1
  <2> HIDE DEF need
  <2> QED
    BY <2>1, <2>2 DEF Counts
<1>6. /\ floor \in Counts /\ Total(floor) <= avail /\ Total(floor) \in Nat
      /\ \A b \in Branches : /\ floor[b] \in Nat /\ floor[b] <= per_branch_cap - bb.used[b]
                             /\ b \notin verify => floor[b] = 0
  <2>1. floor = Grant(need, VerifyAhead(need), avail)
    BY DEF Floor
  <2> HIDE DEF floor, need, avail
  <2>2. /\ floor \in Counts /\ Total(floor) <= avail
        /\ \A b \in Branches : floor[b] <= need[b]
    BY <1>4, <1>5, <2>1, GrantBounded, VerifyAheadTotal
  <2>3. \A b \in Branches : floor[b] \in Nat /\ need[b] \in Nat
    BY <1>5, <2>2 DEF Counts
  <2>4. \A b \in Branches : /\ floor[b] <= per_branch_cap - bb.used[b]
                            /\ b \notin verify => floor[b] = 0
    <3> SUFFICES ASSUME NEW b \in Branches
                 PROVE  /\ floor[b] <= per_branch_cap - bb.used[b]
                        /\ b \notin verify => floor[b] = 0
      OBVIOUS
    <3>1. /\ floor[b] \in Nat /\ need[b] \in Nat /\ floor[b] <= need[b]
          /\ need[b] <= per_branch_cap - bb.used[b]
          /\ bb.used[b] \in Nat /\ per_branch_cap \in Nat
      BY <1>1, <1>2, <1>5, <2>2, <2>3
    <3>2. b \notin verify => need[b] = 0
      BY <1>5
    <3> QED
      BY <3>1, <3>2
  <2> QED
    BY <2>2, <2>3, <2>4, UnitsFinite
<1>7. room \in Counts /\ \A b \in Branches : room[b] = per_branch_cap - bb.used[b] - floor[b]
  <2> HIDE DEF floor
  <2>1. \A b \in Branches : /\ room[b] = per_branch_cap - bb.used[b] - floor[b]
                            /\ room[b] \in Nat
    BY <1>1, <1>2, <1>6 DEF TopupRoom, Most
  <2>2. room = [b \in Branches |-> room[b]]
    BY <1>1 DEF TopupRoom
  <2> HIDE DEF room
  <2> QED
    BY <2>1, <2>2 DEF Counts
<1>8. avail - Total(floor) \in Nat
  <2> HIDE DEF avail, floor
  <2> QED
    BY <1>4, <1>6
<1>9. topup = Grant(room, RoundAhead(room, metric), avail - Total(floor))
  BY DEF Topup, TopupRoom
<1>10. /\ topup \in Counts /\ Total(topup) \in Nat
       /\ Total(topup) = Least(avail - Total(floor), Total(room))
       /\ \A b \in Branches : topup[b] \in Nat /\ topup[b] <= room[b]
  <2> HIDE DEF topup, room, avail, floor
  <2>1. /\ topup \in Counts
        /\ Total(topup) = Least(avail - Total(floor), Total(room))
        /\ \A b \in Branches : topup[b] <= room[b]
    BY <1>7, <1>8, <1>9, GrantExact, RoundAheadTotal
  <2> QED
    BY <2>1, UnitsFinite DEF Counts
<1>11. after.allocated = [b \in Branches |-> bb.used[b] + floor[b] + topup[b]]
  <2> HIDE DEF floor, topup
  <2> QED
    BY <1>1 DEF Reallocated, floor, topup
<1> HIDE DEF floor, topup, room, need, avail, after
<1>12. /\ granted \in Counts /\ fresh \in Counts
       /\ Total(granted) = Total(floor) + Total(topup)
       /\ Total(fresh) = Total(bb.used) + Total(granted)
  <2>1. \A b \in Branches : floor[b] + topup[b] \in Nat /\ bb.used[b] + (floor[b] + topup[b]) \in Nat
    BY <1>2, <1>6, <1>10
  <2>2. granted \in Counts /\ fresh \in Counts
    BY <2>1 DEF Counts
  <2>3. /\ \A b \in Branches : granted[b] = floor[b] + topup[b]
        /\ \A b \in Branches : fresh[b] = bb.used[b] + granted[b]
    OBVIOUS
  <2> HIDE DEF granted, fresh
  <2> QED
    BY <1>1, <1>6, <1>10, <2>2, <2>3, TotalAdds
<1>13. after.allocated = fresh
  <2>1. \A b \in Branches : bb.used[b] + floor[b] + topup[b] = bb.used[b] + (floor[b] + topup[b])
    BY <1>2, <1>6, <1>10
  <2> QED
    BY <1>11, <2>1
<1>14. Total(after.allocated) = Total(bb.used) + Total(floor) + Total(topup)
  <2> HIDE DEF fresh, granted
  <2> QED
    BY <1>3, <1>6, <1>10, <1>12, <1>13
<1>15. after.allocated \in Counts
  BY <1>12, <1>13
<1>16. \A b \in Branches : after.allocated[b] = bb.used[b] + floor[b] + topup[b]
  BY <1>11
<1> QED
  BY <1>1, <1>4, <1>6, <1>7, <1>8, <1>9, <1>10, <1>14, <1>15, <1>16
     DEF avail, floor, room, topup, after

(* Redistribution gives out at most what is left, on top of what was used, *)
(* and takes a mark back only from a branch that may call again.           *)
LEMMA ReallocatedSound ==
  ASSUME NEW total \in Nat, NEW bb, Sound(bb, total), NEW metric \in [Branches -> Metrics],
         NEW verify \in SUBSET Branches, NEW verifyMin \in Nat
  PROVE  LET after == Reallocated(bb, metric, verify, verifyMin, total, per_branch_cap)
         IN  /\ Sound(after, total)
             /\ \A b \in Branches : after.exhausted[b] => bb.exhausted[b]
<1> DEFINE n == Cardinality(Branches)
           avail == Available(bb, total, per_branch_cap)
           floor == Floor(bb, verify, verifyMin, total, per_branch_cap)
           room == TopupRoom(bb, floor)
           topup == Topup(bb, floor, metric, total, per_branch_cap)
           after == Reallocated(bb, metric, verify, verifyMin, total, per_branch_cap)
<1>1. /\ n \in Nat /\ bb.used \in Counts
      /\ avail = Most(0, Least(total, per_branch_cap * n) - Total(bb.used))
      /\ floor \in Counts /\ Total(floor) <= avail
      /\ \A b \in Branches : b \notin verify => floor[b] = 0
      /\ room \in Counts
      /\ \A b \in Branches : room[b] = per_branch_cap - bb.used[b] - floor[b]
      /\ avail - Total(floor) \in Nat
      /\ topup = Grant(room, RoundAhead(room, metric), avail - Total(floor))
      /\ topup \in Counts
      /\ \A b \in Branches : topup[b] <= room[b]
      /\ Total(topup) = Least(avail - Total(floor), Total(room))
      /\ after.allocated \in Counts
      /\ \A b \in Branches : after.allocated[b] = bb.used[b] + floor[b] + topup[b]
      /\ Total(after.allocated) = Total(bb.used) + Total(floor) + Total(topup)
  BY ReallocatedParts, ZenonT(60)
<1>2. after.used = bb.used
  BY DEF Reallocated
<1>3. /\ bb.used \in Accounts /\ per_branch_cap \in Nat
      /\ DOMAIN bb.used = Branches /\ bb.exhausted \in [Branches -> BOOLEAN]
  BY AllocationAssumption DEF Sound, Budgets, Accounts
<1>4. after = [allocated |-> after.allocated, used |-> bb.used, exhausted |-> after.exhausted]
      /\ after.exhausted \in [Branches -> BOOLEAN]
      /\ \A b \in Branches : after.exhausted[b] => bb.exhausted[b]
  <2> DEFINE fresh == [b \in DOMAIN bb.used |-> bb.used[b] + floor[b] + topup[b]]
  <2>1. after = [allocated |-> fresh, used |-> bb.used,
                 exhausted |-> [b \in DOMAIN bb.used |->
                                  bb.exhausted[b] /\ fresh[b] = bb.used[b]]]
    BY DEF Reallocated
  <2> HIDE DEF after, fresh
  <2> QED
    BY <1>3, <2>1
<1>5. /\ Total(bb.used) \in Nat /\ Total(bb.used) <= total
      /\ Total(floor) \in Nat /\ Total(room) \in Nat /\ Total(topup) \in Nat
  <2> HIDE DEF floor, room, topup
  <2> QED
    BY <1>1, UnitsFinite, SoundWithinBudget
<1> HIDE DEF avail, floor, room, topup, after
<1>6. Total(after.allocated) <= total
  <2>1. per_branch_cap * n \in Nat
    BY <1>1, <1>3
  <2>2. Total(topup) <= avail - Total(floor)
    BY <1>1, <1>5 DEF Least
  <2>3. avail + Total(bb.used) <= total /\ avail \in Nat
    <3> HIDE DEF n
    <3> QED
      BY <1>1, <1>5, <2>1 DEF Most, Least
  <2> QED
    BY <1>1, <1>5, <2>2, <2>3
<1>7. \A b \in Branches : /\ after.allocated[b] \in 0..per_branch_cap
                          /\ bb.used[b] <= after.allocated[b]
  <2>1. \A b \in Branches : /\ bb.used[b] \in Nat /\ floor[b] \in Nat /\ topup[b] \in Nat
                            /\ room[b] \in Nat
    BY <1>1 DEF Counts
  <2> QED
    BY <1>1, <1>3, <2>1
<1>8. after \in Budgets
  <2>1. after.allocated \in Accounts
    BY <1>1, <1>7 DEF Accounts, Counts
  <2> QED
    BY <1>3, <1>4, <2>1 DEF Budgets, Accounts
<1> QED
  BY <1>2, <1>4, <1>6, <1>7, <1>8 DEF Sound, after

---------------------------------------------------------------------------
(* Whom a redistribution serves, and how far. *)

(* Counts below others with the same total are the same counts. *)
LEMMA TotalTight ==
  ASSUME NEW c \in Counts, NEW d \in Counts, \A b \in Branches : c[b] <= d[b],
         Total(c) = Total(d)
  PROVE  \A b \in Branches : c[b] = d[b]
<1>1. \A b \in Branches : c[b] \in Nat /\ d[b] \in Nat
  BY DEF Counts
<1>2. Units(c) \in SUBSET Units(d)
  BY <1>1, UnitsMembers
<1>3. Units(c) = Units(d)
  BY <1>2, UnitsFinite, FS_Subset DEF Total
<1> SUFFICES ASSUME NEW b \in Branches PROVE d[b] <= c[b]
  BY <1>1
<1>4. CASE d[b] = 0
  BY <1>1, <1>4
<1>5. CASE d[b] # 0
  <2>1. <<b, d[b]>> \in Units(d)
    BY <1>1, <1>5, UnitsMembers
  <2>2. d[b] \in 1..c[b]
    BY <1>3, <2>1, UnitsMembers
  <2> QED
    BY <1>1, <2>2
<1> QED
  BY <1>4, <1>5

(* Whatever was used, a redistribution allocates all the calls the run and *)
(* the caps allow; it stops short of the run's budget only with every      *)
(* branch at its cap.                                                      *)
LEMMA ReallocatedFills ==
  ASSUME NEW total \in Nat, NEW bb, Sound(bb, total), NEW metric \in [Branches -> Metrics],
         NEW verify \in SUBSET Branches, NEW verifyMin \in Nat
  PROVE  LET fresh == Reallocated(bb, metric, verify, verifyMin, total, per_branch_cap).allocated
         IN  /\ Total(fresh) = Least(total, per_branch_cap * Cardinality(Branches))
             /\ Total(fresh) = total \/ \A b \in Branches : fresh[b] = per_branch_cap
<1> DEFINE n == Cardinality(Branches)
           avail == Available(bb, total, per_branch_cap)
           floor == Floor(bb, verify, verifyMin, total, per_branch_cap)
           room == TopupRoom(bb, floor)
           topup == Topup(bb, floor, metric, total, per_branch_cap)
           after == Reallocated(bb, metric, verify, verifyMin, total, per_branch_cap)
           fresh == after.allocated
           caps == [b \in Branches |-> per_branch_cap]
           unused == [b \in Branches |-> floor[b] + room[b]]
<1>1. /\ n \in Nat /\ bb.used \in Counts
      /\ avail = Most(0, Least(total, per_branch_cap * n) - Total(bb.used))
      /\ floor \in Counts /\ Total(floor) <= avail
      /\ \A b \in Branches : b \notin verify => floor[b] = 0
      /\ room \in Counts
      /\ \A b \in Branches : room[b] = per_branch_cap - bb.used[b] - floor[b]
      /\ avail - Total(floor) \in Nat
      /\ topup = Grant(room, RoundAhead(room, metric), avail - Total(floor))
      /\ topup \in Counts
      /\ \A b \in Branches : topup[b] <= room[b]
      /\ Total(topup) = Least(avail - Total(floor), Total(room))
      /\ after.allocated \in Counts
      /\ \A b \in Branches : after.allocated[b] = bb.used[b] + floor[b] + topup[b]
      /\ Total(after.allocated) = Total(bb.used) + Total(floor) + Total(topup)
  BY ReallocatedParts, ZenonT(60)
<1> HIDE DEF avail, floor, room, topup, after
<1>2. /\ per_branch_cap \in Nat /\ caps \in Counts /\ Total(caps) = per_branch_cap * n
  BY AllocationAssumption, TotalConstant
<1>3. \A b \in Branches : /\ bb.used[b] \in Nat /\ floor[b] \in Nat /\ room[b] \in Nat
                          /\ topup[b] \in Nat /\ fresh[b] \in Nat
  BY <1>1 DEF Counts
<1>4. /\ Total(bb.used) \in Nat /\ Total(floor) \in Nat /\ Total(room) \in Nat
      /\ Total(bb.used) <= total
  BY <1>1, UnitsFinite, SoundWithinBudget
<1>5. Total(caps) = Total(bb.used) + (Total(floor) + Total(room))
  <2>1. \A b \in Branches : floor[b] + room[b] \in Nat
    BY <1>3
  <2>2. unused \in Counts /\ \A b \in Branches : unused[b] = floor[b] + room[b]
    BY <2>1 DEF Counts
  <2>3. \A b \in Branches : caps[b] = bb.used[b] + unused[b]
    BY <1>1, <1>2, <1>3
  <2> HIDE DEF unused, caps
  <2>4. Total(unused) = Total(floor) + Total(room)
    BY <1>1, <2>2, TotalAdds
  <2>5. Total(caps) = Total(bb.used) + Total(unused)
    BY <1>1, <1>2, <2>2, <2>3, TotalAdds
  <2> QED
    BY <2>4, <2>5
<1> DEFINE all == per_branch_cap * n
<1> HIDE DEF n, caps, fresh, all
<1>6. all \in Nat /\ Total(caps) = all
  BY <1>1, <1>2 DEF all
<1>7. Total(fresh) = Least(total, all)
  <2>1. Total(bb.used) <= all
    BY <1>4, <1>5, <1>6
  <2>2. avail = Least(total, all) - Total(bb.used)
    BY <1>1, <1>4, <1>6, <2>1 DEF Most, Least, all
  <2>3. avail - Total(floor) <= Total(room)
    BY <1>4, <1>5, <1>6, <2>2 DEF Least
  <2>4. Total(topup) = avail - Total(floor)
    BY <1>1, <1>4, <2>3 DEF Least
  <2>5. Least(total, all) \in Nat
    BY <1>6 DEF Least
  <2> QED
    BY <1>1, <1>4, <2>2, <2>4, <2>5 DEF fresh
<1>8. Total(fresh) = total \/ \A b \in Branches : fresh[b] = per_branch_cap
  <2>1. CASE total <= all
    BY <1>6, <1>7, <2>1 DEF Least
  <2>2. CASE ~ (total <= all)
    <3>1. Total(fresh) = Total(caps)
      BY <1>6, <1>7, <2>2 DEF Least
    <3>2. \A b \in Branches : caps[b] = per_branch_cap
      BY DEF caps
    <3>3. \A b \in Branches : fresh[b] <= caps[b]
      BY <1>1, <1>2, <1>3, <3>2 DEF fresh
    <3>4. fresh \in Counts
      BY <1>1 DEF fresh
    <3> QED
      BY <1>2, <3>1, <3>2, <3>3, <3>4, TotalTight
  <2> QED
    BY <2>1, <2>2
<1> QED
  BY <1>7, <1>8 DEF fresh, all, n, after

(* In the round robin a branch with room left over got at least as much as *)
(* any branch that is covered better.                                      *)
LEMMA RoundRobinServesWeakest ==
  ASSUME NEW room \in Counts, NEW metric \in [Branches -> Metrics], NEW available \in Nat,
         NEW b \in Branches, NEW c \in Branches, Weaker(metric, b, c)
  PROVE  LET topup == Grant(room, RoundAhead(room, metric), available)
         IN  topup[b] >= topup[c] \/ topup[b] = room[b]
<1> DEFINE ahead == RoundAhead(room, metric)
           topup == Grant(room, ahead, available)
           K(x) == {k \in 1..room[x] : Cardinality(ahead[<<x, k>>]) < available}
<1>1. DOMAIN room = Branches /\ room[b] \in Nat /\ room[c] \in Nat
  BY DEF Counts
<1>2. topup[b] = Cardinality(K(b)) /\ topup[c] = Cardinality(K(c))
  BY <1>1 DEF Grant
<1>3. ASSUME NEW x \in {b, c}
      PROVE  /\ IsFiniteSet(1..room[x]) /\ Cardinality(1..room[x]) = room[x]
             /\ IsFiniteSet(K(x)) /\ Cardinality(K(x)) \in Nat
             /\ Cardinality(K(x)) <= room[x]
             /\ Cardinality(K(x)) = room[x] \/ \E k \in 1..room[x] : k \notin K(x)
  <2>1. IsFiniteSet(1..room[x]) /\ Cardinality(1..room[x]) = room[x]
    <3>1. room[x] \in Nat
      BY <1>1
    <3> QED
      BY <3>1, IntervalSize
  <2>2. K(x) \in SUBSET (1..room[x])
    OBVIOUS
  <2> HIDE DEF K
  <2>3. /\ IsFiniteSet(K(x)) /\ Cardinality(K(x)) <= Cardinality(1..room[x])
    BY <2>1, <2>2, FS_Subset
  <2>4. Cardinality(K(x)) = room[x] \/ \E k \in 1..room[x] : k \notin K(x)
    <3>1. CASE K(x) = 1..room[x]
      BY <2>1, <3>1
    <3>2. CASE K(x) # 1..room[x]
      BY <2>2, <3>2
    <3> QED
      BY <3>1, <3>2
  <2> QED
    BY <2>1, <2>3, <2>4, FS_CardinalityType
<1>4. SUFFICES ASSUME NEW k0 \in 1..room[b], k0 \notin K(b)
               PROVE  topup[b] >= topup[c]
  <2> HIDE DEF K, topup
  <2> QED
    BY <1>2, <1>3 DEF topup
<1>5. ASSUME NEW k \in K(c) PROVE k \in K(b)
  <2>1. TotalOrder(room, ahead)
    BY RoundAheadTotal
  <2>2. /\ k \in Nat /\ k \in 1..room[c] /\ <<c, k>> \in Units(room)
        /\ Cardinality(ahead[<<c, k>>]) < available
    BY <1>1, UnitsMembers
  <2>3. ASSUME NEW j \in 1..room[b], j <= k
        PROVE  j \in K(b)
    <3>1. j \in Nat /\ <<b, j>> \in Units(room)
      BY <1>1, UnitsMembers
    <3>2. <<b, j>> \in ahead[<<c, k>>]
      BY <2>2, <2>3, <3>1 DEF RoundAhead
    <3>3. /\ Cardinality(ahead[<<b, j>>]) \in Nat /\ Cardinality(ahead[<<c, k>>]) \in Nat
          /\ Cardinality(ahead[<<b, j>>]) < Cardinality(ahead[<<c, k>>])
      <4> HIDE DEF ahead
      <4> QED
        BY <2>1, <2>2, <3>1, <3>2, PlacesGrow
    <3>4. Cardinality(ahead[<<b, j>>]) < available
      <4> HIDE DEF ahead
      <4> QED
        BY <2>2, <3>3
    <3> QED
      BY <3>4
  <2>4. CASE k <= room[b]
    <3>1. k \in 1..room[b] /\ k <= k
      BY <1>1, <2>2, <2>4
    <3> HIDE DEF K
    <3> QED
      BY <2>3, <3>1
  <2>5. CASE ~ (k <= room[b])
    <3>1. k0 <= k
      BY <1>1, <2>2, <2>5
    <3> HIDE DEF K
    <3> QED
      BY <1>4, <2>3, <3>1
  <2> QED
    BY <2>4, <2>5
<1> HIDE DEF K
<1>6. K(c) \in SUBSET K(b)
  BY <1>5
<1>7. Cardinality(K(c)) <= Cardinality(K(b))
  BY <1>3, <1>6, FS_Subset
<1> HIDE DEF topup
<1> QED
  BY <1>2, <1>3, <1>7

LEMMA ReallocatedServesWeakest ==
  ASSUME NEW total \in Nat, NEW bb, Sound(bb, total), NEW metric \in [Branches -> Metrics],
         NEW verify \in SUBSET Branches, NEW verifyMin \in Nat
  PROVE  LET fresh == Reallocated(bb, metric, verify, verifyMin, total, per_branch_cap).allocated
         IN  \A weak \in Branches, strong \in Branches \ verify :
               Weaker(metric, weak, strong) =>
                 \/ fresh[weak] - bb.used[weak] >= fresh[strong] - bb.used[strong]
                 \/ fresh[weak] = per_branch_cap
<1> DEFINE n == Cardinality(Branches)
           avail == Available(bb, total, per_branch_cap)
           floor == Floor(bb, verify, verifyMin, total, per_branch_cap)
           room == TopupRoom(bb, floor)
           topup == Topup(bb, floor, metric, total, per_branch_cap)
           after == Reallocated(bb, metric, verify, verifyMin, total, per_branch_cap)
<1>1. /\ n \in Nat /\ bb.used \in Counts
      /\ avail = Most(0, Least(total, per_branch_cap * n) - Total(bb.used))
      /\ floor \in Counts /\ Total(floor) <= avail
      /\ \A b \in Branches : b \notin verify => floor[b] = 0
      /\ room \in Counts
      /\ \A b \in Branches : room[b] = per_branch_cap - bb.used[b] - floor[b]
      /\ avail - Total(floor) \in Nat
      /\ topup = Grant(room, RoundAhead(room, metric), avail - Total(floor))
      /\ topup \in Counts
      /\ \A b \in Branches : topup[b] <= room[b]
      /\ Total(topup) = Least(avail - Total(floor), Total(room))
      /\ after.allocated \in Counts
      /\ \A b \in Branches : after.allocated[b] = bb.used[b] + floor[b] + topup[b]
      /\ Total(after.allocated) = Total(bb.used) + Total(floor) + Total(topup)
  BY ReallocatedParts
<1> HIDE DEF avail, floor, room, topup
<1> SUFFICES ASSUME NEW weak \in Branches, NEW strong \in Branches \ verify,
                    Weaker(metric, weak, strong)
             PROVE  \/ after.allocated[weak] - bb.used[weak]
                         >= after.allocated[strong] - bb.used[strong]
                    \/ after.allocated[weak] = per_branch_cap
  OBVIOUS
<1> HIDE DEF after
<1>2. /\ strong \in Branches /\ strong \notin verify /\ floor[strong] = 0 /\ per_branch_cap \in Nat
  BY <1>1, AllocationAssumption
<1>3. \A b \in Branches : /\ bb.used[b] \in Nat /\ floor[b] \in Nat /\ topup[b] \in Nat
                          /\ room[b] \in Nat
  BY <1>1 DEF Counts
<1>4. topup[weak] >= topup[strong] \/ topup[weak] = room[weak]
  BY <1>1, <1>2, RoundRobinServesWeakest
<1>5. /\ after.allocated[weak] = bb.used[weak] + floor[weak] + topup[weak]
      /\ after.allocated[strong] = bb.used[strong] + floor[strong] + topup[strong]
      /\ room[weak] = per_branch_cap - bb.used[weak] - floor[weak]
  BY <1>1, <1>2
<1> QED
  BY <1>2, <1>3, <1>4, <1>5
=============================================================================
