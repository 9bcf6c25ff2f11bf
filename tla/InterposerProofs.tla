-------------------------- MODULE InterposerProofs --------------------------
(***************************************************************************)
(* Proofs about Interposer, for any number of threads, nodes, devices and  *)
(* calls: the device tables, where calls and memory go, and which error    *)
(* a call returns.                                                         *)
(***************************************************************************)
EXTENDS Interposer, FiniteSetTheorems, WellFoundedInduction, TLAPS

\* A non-empty set of naturals has a least element.
LEMMA LeastNat ==
    ASSUME NEW S \in SUBSET Nat, S # {} PROVE \E m \in S : \A k \in S : m <= k
<1> DEFINE R == OpToRel(<, Nat)
<1>1. IsWellFoundedOn(R, Nat)
  BY NatLessThanWellFounded
<1>2. \A k, m \in Nat : <<k, m>> \in R <=> k < m
  BY DEF OpToRel
<1> HIDE DEF R
<1>3. PICK m \in S : \A k \in S : <<k, m>> \notin R
  BY <1>1, WFMin
<1>4. \A k \in S : ~ (k < m)
  BY <1>2, <1>3
<1> QED
  BY <1>4

-----------------------------------------------------------------------------
(* The devices before a node.                                               *)

\* f sums up d as Before does, up to i.
Sums(f, d, i) == f = [j \in 0 .. i |-> IF j = 0 THEN 0 ELSE f[j - 1] + d[j - 1]]

\* Before is a value of such a function.
LEMMA BeforeIsSum ==
    ASSUME NEW d, NEW i \in Nat PROVE Before(d, i) = (CHOOSE f : Sums(f, d, i))[i]
  BY DEF Before, Sums

\* There is one for every i.
LEMMA SumsExist == ASSUME NEW d PROVE \A i \in Nat : \E f : Sums(f, d, i)
<1> DEFINE Bad == {i \in Nat : ~ \E f : Sums(f, d, i)}
<1> SUFFICES ASSUME Bad # {} PROVE FALSE
  OBVIOUS
<1>1. PICK i \in Bad : \A k \in Bad : i <= k
  BY LeastNat
<1>2. CASE i = 0
  <2> DEFINE f == [j \in 0 .. 0 |-> 0]
  <2>1. Sums(f, d, 0)
    BY DEF Sums
  <2> QED
    BY <1>1, <1>2, <2>1
<1>3. CASE i # 0
  <2>1. i \in Nat /\ i - 1 \in Nat /\ i - 1 \notin Bad
    BY <1>1, <1>3
  <2>2. PICK f : Sums(f, d, i - 1)
    BY <2>1
  <2> DEFINE g == [j \in 0 .. i |-> IF j = i THEN f[i - 1] + d[i - 1] ELSE f[j]]
  <2>3. \A j \in 0 .. i - 1 : g[j] = f[j]
    BY <2>1
  <2>4. \A j \in 0 .. i : g[j] = IF j = 0 THEN 0 ELSE g[j - 1] + d[j - 1]
    <3> SUFFICES ASSUME NEW j \in 0 .. i PROVE g[j] = IF j = 0 THEN 0 ELSE g[j - 1] + d[j - 1]
      OBVIOUS
    <3>1. CASE j = i
      <4>1. g[j] = f[i - 1] + d[i - 1] /\ g[i - 1] = f[i - 1]
        BY <1>3, <2>1, <2>3, <3>1
      <4> QED
        BY <1>3, <3>1, <4>1
    <3>2. CASE j # i
      <4>1. j \in 0 .. i - 1
        BY <2>1, <3>2
      <4>2. f[j] = IF j = 0 THEN 0 ELSE f[j - 1] + d[j - 1]
        BY <2>2, <4>1 DEF Sums
      <4>3. j = 0 \/ j - 1 \in 0 .. i - 1
        BY <2>1, <4>1
      <4> HIDE DEF g
      <4> QED
        BY <2>3, <4>1, <4>2, <4>3
    <3> QED
      BY <3>1, <3>2
  <2>5. Sums(g, d, i)
    BY <2>4 DEF Sums
  <2> QED
    BY <1>1, <2>5
<1> QED
  BY <1>2, <1>3

\* Two of them agree as far as what they sum up does.
LEMMA SumsAgree ==
    ASSUME NEW d, NEW e, NEW f, NEW g, NEW i \in Nat, NEW k \in Nat, NEW n \in Nat,
           n <= i, n <= k, Sums(f, d, i), Sums(g, e, k), \A m \in 0 .. n - 1 : d[m] = e[m]
    PROVE  f[n] = g[n]
<1> DEFINE Bad == {j \in Nat : j <= n /\ f[j] # g[j]}
<1> SUFFICES ASSUME Bad # {} PROVE FALSE
  OBVIOUS
<1>1. PICK j \in Bad : \A m \in Bad : j <= m
  BY LeastNat
<1>2. j \in 0 .. i /\ j \in 0 .. k /\ j \in Nat /\ j <= n
  BY <1>1
<1>3. /\ f[j] = IF j = 0 THEN 0 ELSE f[j - 1] + d[j - 1]
      /\ g[j] = IF j = 0 THEN 0 ELSE g[j - 1] + e[j - 1]
  BY <1>2 DEF Sums
<1>4. j # 0
  BY <1>1, <1>3
<1>5. j - 1 \in Nat /\ j - 1 <= n /\ j - 1 \in 0 .. n - 1
  BY <1>2, <1>4
<1>6. f[j - 1] = g[j - 1]
  BY <1>1, <1>2, <1>5
<1> QED
  BY <1>1, <1>3, <1>4, <1>5, <1>6

\* Before(d, i) sums up the devices of the nodes 0 .. i - 1.
LEMMA BeforeSum ==
    ASSUME NEW d, NEW i \in Nat
    PROVE  Before(d, 0) = 0 /\ Before(d, i + 1) = Before(d, i) + d[i]
<1>1. \A k \in Nat : Sums(CHOOSE f : Sums(f, d, k), d, k)
  BY SumsExist
<1>2. Before(d, 0) = 0
  <2>1. PICK f : Sums(f, d, 0) /\ Before(d, 0) = f[0]
    BY <1>1, BeforeIsSum
  <2> QED
    BY <2>1 DEF Sums
<1>3. PICK f : Sums(f, d, i) /\ Before(d, i) = f[i]
  BY <1>1, BeforeIsSum
<1>4. PICK g : Sums(g, d, i + 1) /\ Before(d, i + 1) = g[i + 1]
  BY <1>1, BeforeIsSum
<1>5. g[i + 1] = g[i] + d[i]
  BY <1>4 DEF Sums
<1>6. g[i] = f[i]
  BY <1>3, <1>4, SumsAgree
<1> QED
  BY <1>2, <1>3, <1>4, <1>5, <1>6

\* It depends on these nodes only.
LEMMA BeforeSame ==
    ASSUME NEW d, NEW e, NEW n \in Nat, \A m \in 0 .. n - 1 : d[m] = e[m]
    PROVE  Before(d, n) = Before(e, n)
<1>1. PICK f : Sums(f, d, n) /\ Before(d, n) = f[n]
  BY SumsExist, BeforeIsSum
<1>2. PICK g : Sums(g, e, n) /\ Before(e, n) = g[n]
  BY SumsExist, BeforeIsSum
<1> QED
  BY <1>1, <1>2, SumsAgree

\* It is a number, no larger than with more devices on the nodes, and no larger
\* than for a later node.
LEMMA BeforeBounds ==
    ASSUME NEW n \in Nat, NEW d \in [0 .. n - 1 -> Nat], NEW e \in [0 .. n - 1 -> Nat],
           \A m \in 0 .. n - 1 : d[m] <= e[m]
    PROVE  \A i \in 0 .. n :
             /\ Before(d, i) \in Nat /\ Before(e, i) \in Nat
             /\ Before(d, i) <= Before(e, i) /\ Before(e, i) <= Before(e, n)
<1>1. \A i \in 0 .. n : /\ Before(d, i) \in Nat /\ Before(e, i) \in Nat
                        /\ Before(d, i) <= Before(e, i)
  <2> DEFINE Good(i) == /\ Before(d, i) \in Nat /\ Before(e, i) \in Nat
                        /\ Before(d, i) <= Before(e, i)
             Bad == {i \in 0 .. n : ~ Good(i)}
  <2> SUFFICES ASSUME Bad # {} PROVE FALSE
    OBVIOUS
  <2>1. PICK i \in Bad : \A k \in Bad : i <= k
    <3>1. Bad \in SUBSET Nat
      OBVIOUS
    <3> HIDE DEF Bad
    <3> QED
      BY <3>1, LeastNat
  <2>2. i # 0
    BY <2>1, BeforeSum
  <2>3. i - 1 \in 0 .. n - 1 /\ i - 1 \in Nat /\ Good(i - 1)
    BY <2>1, <2>2
  <2>4. /\ Before(d, i) = Before(d, i - 1) + d[i - 1]
        /\ Before(e, i) = Before(e, i - 1) + e[i - 1]
    <3>1. i = (i - 1) + 1
      BY <2>1
    <3> QED
      BY <2>3, <3>1, BeforeSum
  <2>5. d[i - 1] \in Nat /\ e[i - 1] \in Nat /\ d[i - 1] <= e[i - 1]
    BY <2>3
  <2> QED
    BY <2>1, <2>3, <2>4, <2>5
<1>2. \A i \in 0 .. n : Before(e, i) <= Before(e, n)
  <2> DEFINE Bad == {k \in 0 .. n : ~ (Before(e, n - k) <= Before(e, n))}
  <2>1. ASSUME Bad # {} PROVE FALSE
    <3>1. PICK k \in Bad : \A m \in Bad : k <= m
      <4>1. Bad \in SUBSET Nat
        OBVIOUS
      <4> HIDE DEF Bad
      <4> QED
        BY <2>1, <4>1, LeastNat
    <3>2. k # 0
      BY <1>1, <3>1
    <3>3. k - 1 \in 0 .. n /\ k - 1 \notin Bad /\ n - k \in 0 .. n - 1
      <4>1. k \in 1 .. n /\ ~ (k <= k - 1)
        BY <3>1, <3>2
      <4>2. k - 1 \notin Bad
        BY <3>1, <4>1
      <4> QED
        BY <4>1, <4>2
    <3>4. Before(e, n - (k - 1)) <= Before(e, n)
      BY <3>3
    <3>5. Before(e, n - (k - 1)) = Before(e, n - k) + e[n - k]
      <4>1. n - (k - 1) = (n - k) + 1 /\ n - k \in Nat
        BY <3>3
      <4> QED
        BY <4>1, BeforeSum
    <3>6. e[n - k] \in Nat /\ Before(e, n - k) \in Nat /\ Before(e, n) \in Nat
      BY <1>1, <3>3
    <3> QED
      BY <3>1, <3>4, <3>5, <3>6
  <2>2. \A i \in 0 .. n : n - i \in 0 .. n /\ n - (n - i) = i
    OBVIOUS
  <2> QED
    BY <2>1, <2>2
<1> QED
  BY <1>1, <1>2

-----------------------------------------------------------------------------
(* The nodes.                                                               *)

\* There are nodes, and the local one is one of them.
LEMMA NodesKnown == NNodes \in Nat \ {0} /\ FirstNode \in Nodes
<1> DEFINE named == {i \in DOMAIN Remotes : \A j \in 1 .. i : Remotes[j] # ""}
           local == {i \in named : Remotes[i] = "localhost"}
           last == CHOOSE i \in local : \A j \in local : j =< i
<1>1. l_getLocalFromConfig = [BACKEND_NODES |-> Cardinality(named),
                              first_node |-> IF local = {} THEN 0 ELSE last - 1]
  BY DEF l_getLocalFromConfig
<1>2. Len(Remotes) \in Nat /\ DOMAIN Remotes = 1 .. Len(Remotes)
  BY InterposerAssumption
<1>3. named \in SUBSET (1 .. Len(Remotes)) /\ local \subseteq named
  BY <1>2
<1>12. \A n \in Nat : \A i \in 1 .. n : \A k \in 1 .. i :
         k \in 1 .. n /\ \A j \in 1 .. k : j \in 1 .. i
  OBVIOUS
<1>9. \A i \in named : 1 .. i \in SUBSET named
  <2> SUFFICES ASSUME NEW i \in named, NEW k \in 1 .. i PROVE k \in named
    OBVIOUS
  <2>1. i \in 1 .. Len(Remotes) /\ \A j \in 1 .. i : Remotes[j] # ""
    BY <1>2
  <2>2. k \in 1 .. Len(Remotes) /\ \A j \in 1 .. k : j \in 1 .. i
    <3> HIDE DEF named
    <3> QED
      BY <1>2, <1>12, <2>1
  <2> QED
    BY <1>2, <2>1, <2>2
<1>10. (\E i \in local : \A j \in local : j =< i) => last \in local
  <2> DEFINE Greatest(i) == i \in local /\ \A j \in local : j =< i
  <2>1. last = CHOOSE i : Greatest(i)
    OBVIOUS
  <2>2. (\E i : Greatest(i)) => Greatest(CHOOSE i : Greatest(i))
    OBVIOUS
  <2> QED
    BY <2>1, <2>2
<1> HIDE DEF named, local, last
<1>11. NNodes = Cardinality(named) /\ FirstNode = IF local = {} THEN 0 ELSE last - 1
  BY <1>1 DEF NNodes, FirstNode
<1>4. IsFiniteSet(named) /\ Cardinality(named) \in Nat
  <2>1. IsFiniteSet(1 .. Len(Remotes))
    BY <1>2, FS_Interval
  <2> QED
    BY <1>3, <2>1, FS_Subset, FS_CardinalityType
<1>5. NNodes \in Nat \ {0}
  BY <1>4, <1>11, InterposerAssumption
<1>6. ASSUME NEW i \in named PROVE i \in 1 .. NNodes
  <2>1. i \in 1 .. Len(Remotes) /\ 1 .. i \in SUBSET named
    BY <1>2, <1>3, <1>9
  <2>2. Cardinality(1 .. i) = i
    <3>1. i \in Int /\ 1 \in Int /\ i >= 1
      BY <1>2, <2>1
    <3>2. Cardinality(1 .. i) = IF 1 > i THEN 0 ELSE i - 1 + 1
      BY <3>1, FS_Interval
    <3> QED
      BY <3>1, <3>2
  <2>3. Cardinality(1 .. i) <= Cardinality(named)
    BY <1>4, <2>1, FS_Subset
  <2> QED
    BY <1>2, <1>5, <1>11, <2>1, <2>2, <2>3
<1>7. CASE local = {}
  <2>1. FirstNode = 0 /\ 0 \in 0 .. NNodes - 1
    BY <1>5, <1>7, <1>11
  <2> QED
    BY <1>5, <2>1 DEF Nodes
<1>8. CASE local # {}
  <2>0. \A i \in local : i \in 1 .. NNodes
    BY <1>3, <1>6
  <2> DEFINE R == {NNodes - i : i \in local}
  <2>1. R \in SUBSET Nat /\ R # {}
    <3>1. \A i \in local : NNodes - i \in Nat
      BY <1>5, <2>0
    <3> QED
      BY <1>8, <3>1
  <2>2. PICK m \in R : \A k \in R : m <= k
    <3> HIDE DEF R
    <3> QED
      BY <2>1, LeastNat
  <2>3. PICK i \in local : m = NNodes - i
    BY <2>2
  <2>4. \A j \in local : j =< i
    <3> SUFFICES ASSUME NEW j \in local PROVE j =< i
      OBVIOUS
    <3>1. NNodes - i <= NNodes - j
      BY <2>2, <2>3
    <3>2. i \in 1 .. NNodes /\ j \in 1 .. NNodes
      BY <2>0
    <3> QED
      BY <1>5, <3>1, <3>2
  <2>5. last \in local
    BY <1>10, <2>4
  <2>6. last \in 1 .. NNodes
    BY <2>0, <2>5
  <2>7. FirstNode = last - 1 /\ last - 1 \in 0 .. NNodes - 1
    BY <1>5, <1>8, <1>11, <2>6
  <2> QED
    BY <1>5, <2>7 DEF Nodes
<1> QED
  BY <1>7, <1>8

-----------------------------------------------------------------------------
(* The device tables.                                                       *)

\* The tables X (node) and L (number there) number the B devices of the first n
\* nodes, of which D has the numbers, node by node, and are zero behind them.
Numbered(n, D, B, X, L) ==
    /\ n \in 0 .. NNodes
    /\ D \in [Nodes -> Nat]
    /\ \A i \in Nodes : D[i] <= PerNode[i]
    /\ B = Before(D, n)
    /\ X \in [Slots -> Nodes]
    /\ L \in [Slots -> Nat]
    /\ \A k \in 0 .. B - 1 : k = Before(D, X[k]) + L[k] /\ X[k] < n
    /\ \A k \in Slots : k >= B => X[k] = 0 /\ L[k] = 0
    /\ \A i \in 0 .. n - 1 : \A l \in 0 .. D[i] - 1 :
         /\ Before(D, i) + l \in 0 .. B - 1
         /\ X[Before(D, i) + l] = i /\ L[Before(D, i) + l] = l

TabInv ==
    /\ Numbered(nodes_done, DEVICES_IN_NODE, BACKEND_DEVICES, DEV_TO_INDEX, DEV_TO_LOCALDEV)
    /\ nodes_done > 0 => first_local = Before(DEVICES_IN_NODE, FirstNode)

\* The devices of the nodes counted so far fit the tables.
LEMMA CountFits ==
    ASSUME NEW d \in [Nodes -> Nat], \A i \in Nodes : d[i] <= PerNode[i], NEW n \in 0 .. NNodes
    PROVE  Before(d, n) \in Nat /\ Before(d, n) <= Cap /\ Cap \in Nat
<1>1. NNodes \in Nat /\ PerNode \in [Nodes -> Nat]
  BY NodesKnown, InterposerAssumption DEF Nodes
<1>2. \A i \in 0 .. NNodes :
        /\ Before(d, i) \in Nat /\ Before(PerNode, i) \in Nat
        /\ Before(d, i) <= Before(PerNode, i) /\ Before(PerNode, i) <= Before(PerNode, NNodes)
  BY <1>1, BeforeBounds DEF Nodes
<1>3. NNodes \in 0 .. NNodes
  BY <1>1
<1> QED
  BY <1>2, <1>3 DEF Cap

\* The tables have an entry for every device, and one more.
LEMMA TablesFit == MaxDevices \in Nat /\ Cap < MaxDevices /\ Answers \subseteq Slots
  BY InterposerAssumption

\* B is no larger than the tables.
LEMMA NumberedFits ==
    ASSUME NEW n, NEW D, NEW B, NEW X, NEW L, Numbered(n, D, B, X, L)
    PROVE  B \in Nat /\ B <= Cap /\ Cap \in Nat
  BY CountFits DEF Numbered

\* E, C, Y and M are D, B, X and L with c devices of node i more.
Goes(i, c, D, B, X, L, E, C, Y, M) ==
    /\ E = [D EXCEPT ![i] = c]
    /\ C = B + c
    /\ Y = [k \in Slots |-> IF k \in B .. C - 1 THEN i ELSE X[k]]
    /\ M = [k \in Slots |-> IF k \in B .. C - 1 THEN k - B ELSE L[k]]

\* The numbering goes on with the devices of the next node.
LEMMA NumberedNext ==
    ASSUME NEW i \in Nodes, NEW D, NEW B, NEW X, NEW L, Numbered(i, D, B, X, L),
           NEW c \in Nat, c <= PerNode[i],
           NEW E, NEW C, NEW Y, NEW M, Goes(i, c, D, B, X, L, E, C, Y, M)
    PROVE  Numbered(i + 1, E, C, Y, M)
<1> USE DEF Goes
<1>1. i \in Nat /\ i + 1 \in 0 .. NNodes /\ NNodes \in Nat /\ i \in 0 .. i
  BY NodesKnown DEF Nodes
<1>2. /\ E[i] = c /\ E \in [Nodes -> Nat] /\ D \in [Nodes -> Nat]
      /\ \A j \in Nodes : j # i => E[j] = D[j]
  BY DEF Numbered
<1>3. \A j \in Nodes : E[j] <= PerNode[j]
  BY <1>2 DEF Numbered
<1>4. \A j \in 0 .. i : Before(E, j) = Before(D, j)
  <2> SUFFICES ASSUME NEW j \in 0 .. i PROVE Before(E, j) = Before(D, j)
    OBVIOUS
  <2>1. \A m \in 0 .. j - 1 : E[m] = D[m]
    <3>1. \A m \in 0 .. j - 1 : m \in Nodes /\ m # i
      BY <1>1 DEF Nodes
    <3> QED
      BY <1>2, <3>1
  <2>2. j \in Nat
    BY <1>1
  <2> QED
    BY <2>1, <2>2, BeforeSame
<1>5. C = Before(E, i + 1) /\ B = Before(E, i)
  <2>1. B = Before(E, i)
    BY <1>1, <1>4 DEF Numbered
  <2>2. Before(E, i + 1) = Before(E, i) + E[i]
    BY <1>1, BeforeSum
  <2> QED
    BY <1>2, <2>1, <2>2
<1>6. C \in Nat /\ C <= Cap /\ Cap \in Nat /\ B \in Nat /\ B <= C
  <2>1. Before(E, i + 1) \in Nat /\ Before(E, i + 1) <= Cap /\ Cap \in Nat
    BY <1>1, <1>2, <1>3, CountFits
  <2>2. B \in Nat
    BY NumberedFits
  <2> QED
    BY <1>5, <2>1, <2>2
<1>7. \A k \in 0 .. C - 1 : k \in Slots /\ (k \in B .. C - 1 \/ k \in 0 .. B - 1)
  BY <1>6, TablesFit DEF Slots
<1>8. \A k \in Slots : k \in Nat
  BY DEF Slots
<1>9. X \in [Slots -> Nodes] /\ L \in [Slots -> Nat]
  BY DEF Numbered
<1>10. Y \in [Slots -> Nodes] /\ M \in [Slots -> Nat]
  <2>1. \A k \in B .. C - 1 : k - B \in Nat
    BY <1>6
  <2> QED
    BY <1>9, <2>1
<1>11. ASSUME NEW k \in B .. C - 1 PROVE Y[k] = i /\ M[k] = k - B /\ k \in 0 .. C - 1
  <2>1. k \in 0 .. C - 1
    BY <1>6
  <2> QED
    BY <1>7, <2>1
<1>12. ASSUME NEW k \in Slots, k \notin B .. C - 1 PROVE Y[k] = X[k] /\ M[k] = L[k]
  BY <1>12
<1>13. ASSUME NEW k \in 0 .. C - 1 PROVE k = Before(E, Y[k]) + M[k] /\ Y[k] < i + 1
  <2>1. CASE k \in B .. C - 1
    <3>1. k = B + (k - B)
      BY <1>6
    <3>2. Y[k] = i /\ M[k] = k - B
      BY <1>11, <2>1
    <3>3. Before(E, Y[k]) = B
      BY <1>5, <3>2
    <3>4. i < i + 1
      BY <1>1
    <3> QED
      BY <3>1, <3>2, <3>3, <3>4
  <2>2. CASE k \notin B .. C - 1
    <3>1. k \in 0 .. B - 1 /\ Y[k] = X[k] /\ M[k] = L[k] /\ X[k] \in Nodes
      BY <1>7, <1>9, <1>12, <2>2
    <3>2. k = Before(D, X[k]) + L[k] /\ X[k] < i
      BY <3>1 DEF Numbered
    <3>3. X[k] \in 0 .. i /\ X[k] < i + 1
      BY <1>1, <3>1, <3>2 DEF Nodes
    <3> QED
      BY <1>4, <3>1, <3>2, <3>3
  <2> QED
    BY <2>1, <2>2
<1>14. ASSUME NEW k \in Slots, k >= C PROVE Y[k] = 0 /\ M[k] = 0
  <2>1. k \notin B .. C - 1 /\ k >= B
    BY <1>6, <1>8, <1>14
  <2>2. X[k] = 0 /\ L[k] = 0
    BY <2>1 DEF Numbered
  <2> QED
    BY <1>12, <2>1, <2>2
<1>15. ASSUME NEW j \in 0 .. (i + 1) - 1, NEW l \in 0 .. E[j] - 1
       PROVE  /\ Before(E, j) + l \in 0 .. C - 1
              /\ Y[Before(E, j) + l] = j /\ M[Before(E, j) + l] = l
  <2>1. CASE j = i
    <3>1. B + l \in B .. C - 1 /\ (B + l) - B = l
      BY <1>2, <1>6, <2>1
    <3> QED
      BY <1>5, <1>11, <2>1, <3>1
  <2>2. CASE j # i
    <3>1. j \in 0 .. i - 1 /\ j \in 0 .. i /\ j \in Nodes
      BY <1>1, <2>2 DEF Nodes
    <3>2. E[j] = D[j] /\ Before(E, j) = Before(D, j)
      BY <1>2, <1>4, <2>2, <3>1
    <3>3. /\ Before(D, j) + l \in 0 .. B - 1
          /\ X[Before(D, j) + l] = j /\ L[Before(D, j) + l] = l
      BY <1>15, <3>1, <3>2 DEF Numbered
    <3>4. \A k \in 0 .. B - 1 : k \notin B .. C - 1 /\ k \in 0 .. C - 1 /\ k \in Slots
      BY <1>6, TablesFit DEF Slots
    <3> QED
      BY <1>12, <3>2, <3>3, <3>4
  <2> QED
    BY <2>1, <2>2
<1> QED
  BY <1>1, <1>2, <1>3, <1>5, <1>10, <1>13, <1>14, <1>15 DEF Numbered

\* CountDevices counts one node more.
LEMMA CountNext ==
    ASSUME TabInv, NEW i \in Nodes, NEW c \in {0, PerNode[i]}, CountDevices(i, c)
    PROVE  TabInv'
<1>1. /\ nodes_done = i /\ nodes_done' = i + 1 /\ c \in Nat /\ c <= PerNode[i]
      /\ first_local' = Before(DEVICES_IN_NODE', FirstNode)
  <2>1. PerNode[i] \in Nat
    BY InterposerAssumption DEF Nodes
  <2> QED
    BY <2>1 DEF CountDevices
<1>2. Goes(i, c, DEVICES_IN_NODE, BACKEND_DEVICES, DEV_TO_INDEX, DEV_TO_LOCALDEV,
           DEVICES_IN_NODE', BACKEND_DEVICES', DEV_TO_INDEX', DEV_TO_LOCALDEV')
  BY DEF CountDevices, Goes
<1>3. Numbered(i, DEVICES_IN_NODE, BACKEND_DEVICES, DEV_TO_INDEX, DEV_TO_LOCALDEV)
  BY <1>1 DEF TabInv
<1>4. Numbered(i + 1, DEVICES_IN_NODE', BACKEND_DEVICES', DEV_TO_INDEX', DEV_TO_LOCALDEV')
  BY <1>1, <1>2, <1>3, NumberedNext
<1> QED
  BY <1>1, <1>4 DEF TabInv

\* No other step touches the tables.
LEMMA TablesKept ==
    ASSUME Next, ~ \E i \in Nodes : \E c \in {0, PerNode[i]} : CountDevices(i, c)
    PROVE  UNCHANGED tables
<1>1. ASSUME NEW t \in Threads, Call(t) PROVE UNCHANGED tables
  BY <1>1 DEF Call, ForwardPlain, ForwardMake, PassPlain,
              AskDevice, GetLastError, GetDeviceCount, GetDevice
<1>2. ASSUME NEW t \in Threads,
             \/ Return(t) \/ (\E d \in Answers : GotDevice(t, d)) \/ NoDevice(t)
             \/ SentDevice(t) \/ UnsentDevice(t) \/ SetReturns(t)
      PROVE  UNCHANGED tables
  BY <1>2 DEF Return, GotDevice, NoDevice, SentDevice, UnsentDevice, SetReturns
<1>3. CASE Finished
  BY <1>3 DEF Finished, vars, tables
<1> QED
  BY <1>1, <1>2, <1>3 DEF Next

\* Every step keeps the tables a numbering of the devices counted.
LEMMA TabNext == TabInv /\ [Next]_vars => TabInv'
<1>1. ASSUME TabInv, UNCHANGED tables PROVE TabInv'
  BY <1>1 DEF TabInv, Numbered, tables
<1>2. UNCHANGED vars => UNCHANGED tables
  BY DEF vars, tables
<1> QED
  BY <1>1, <1>2, CountNext, TablesKept

\* The initial state.
LEMMA TabInit == Init => TabInv
<1> SUFFICES ASSUME Init PROVE TabInv
  OBVIOUS
<1>1. nodes_done = 0 /\ BACKEND_DEVICES = 0 /\ 0 \in Nodes /\ NNodes \in Nat
  BY NodesKnown DEF Init, Nodes
<1>2. /\ DEVICES_IN_NODE \in [Nodes -> Nat]
      /\ \A i \in Nodes : DEVICES_IN_NODE[i] <= PerNode[i]
  <2>1. \A i \in Nodes : PerNode[i] \in Nat
    BY InterposerAssumption DEF Nodes
  <2> QED
    BY <2>1 DEF Init
<1>3. Before(DEVICES_IN_NODE, 0) = 0
  BY BeforeSum
<1>4. DEV_TO_INDEX \in [Slots -> Nodes] /\ DEV_TO_LOCALDEV \in [Slots -> Nat]
  BY <1>1 DEF Init
<1>5. \A k \in Slots : DEV_TO_INDEX[k] = 0 /\ DEV_TO_LOCALDEV[k] = 0
  BY DEF Init
<1>6. 0 .. -1 = {} /\ 0 \in 0 .. NNodes
  BY <1>1
<1> QED
  BY <1>1, <1>2, <1>3, <1>4, <1>5, <1>6 DEF TabInv, Numbered

\* The device tables that __cudaRegisterFatBinary builds number the devices of
\* all nodes without gap or overlap, for any nodes and any failures to count.
THEOREM TablesAreInverse == Spec => []TablesInverse
<1>1. TabInv => TablesInverse
  <2> SUFFICES ASSUME TabInv, Ready PROVE TablesInverse
    BY DEF TablesInverse
  <2>1. nodes_done = NNodes /\ NNodes \in Nat \ {0} /\ FirstNode \in 0 .. NNodes - 1
    BY NodesKnown DEF Ready, Nodes
  <2>2. ASSUME NEW i \in Nodes, NEW l \in 0 .. DEVICES_IN_NODE[i] - 1
        PROVE  \E k \in 0 .. BACKEND_DEVICES - 1 :
                 /\ k = Before(DEVICES_IN_NODE, i) + l
                 /\ DEV_TO_INDEX[k] = i /\ DEV_TO_LOCALDEV[k] = l
    <3>1. i \in 0 .. nodes_done - 1
      BY <2>1 DEF Nodes
    <3> QED
      BY <3>1 DEF TabInv, Numbered
  <2>3. ASSUME DEVICES_IN_NODE[FirstNode] > 0
        PROVE  /\ first_local < BACKEND_DEVICES
               /\ DEV_TO_INDEX[first_local] = FirstNode /\ DEV_TO_LOCALDEV[first_local] = 0
    <3>1. FirstNode \in Nodes /\ 0 \in 0 .. DEVICES_IN_NODE[FirstNode] - 1
      BY <2>1, <2>3, NodesKnown DEF TabInv, Numbered
    <3>2. PICK k \in 0 .. BACKEND_DEVICES - 1 :
            /\ k = Before(DEVICES_IN_NODE, FirstNode) + 0
            /\ DEV_TO_INDEX[k] = FirstNode /\ DEV_TO_LOCALDEV[k] = 0
      BY <2>2, <3>1
    <3>3. Before(DEVICES_IN_NODE, FirstNode) \in Nat /\ first_local = Before(DEVICES_IN_NODE, FirstNode)
      <4>1. FirstNode \in 0 .. NNodes /\ nodes_done > 0
        BY <2>1
      <4> QED
        BY <4>1, CountFits DEF TabInv, Numbered
    <3> QED
      BY <3>2, <3>3, NumberedFits DEF TabInv
  <2> QED
    BY <2>2, <2>3 DEF TabInv, Numbered, TablesInverse
<1> QED
  BY <1>1, TabInit, TabNext, PTL DEF Spec

-----------------------------------------------------------------------------
(* The error of a call.                                                     *)

\* A stub stores errors.
LEMMA StoresErrors == \A f \in Forwarded : Stores[f] \subseteq Errors
<1> SUFFICES ASSUME NEW f \in Forwarded PROVE Stores[f] \subseteq Errors
  OBVIOUS
<1>1. f \in {"cudaThreadExit", "cudaThreadSynchronize", "cudaGetDeviceProperties",
             "cudaConfigureCall", "cudaSetupArgument", "cudaLaunch", "cudaMalloc",
             "cudaFree", "cudaMemcpy", "cudaMemcpyToSymbol", "cudaMemcpyFromSymbol"}
  BY DEF Forwarded, Stores
<1> QED
  BY <1>1 DEF Stores, Errors, ThreadExitStores, ThreadSynchronizeStores,
              GetDevicePropertiesStores, ConfigureCallStores, SetupArgumentStores,
              LaunchStores, MallocStores, FreeStores, MemcpyStores, MemcpyToSymbolStores,
              MemcpyFromSymbolStores

FlowTypes ==
    /\ cuda_err \in Errors
    /\ pc \in [Threads -> {"idle", "stored", "ask", "asked", "set"}]
    /\ ret \in [Threads -> Errors]
    /\ own \in [Threads -> Errors]
    /\ overtaken \in [Threads -> BOOLEAN]

\* What a step of thread t does to them: its stub stores a result; it returns;
\* a call needs no stub; cudaSetDevice begins.
StoreStep(t) ==
    /\ pc[t] \in {"idle", "ask", "asked"}
    /\ \E e \in Errors : Store(t, e)
    /\ \E q \in {"stored", "asked", "set"} : pc' = [pc EXCEPT ![t] = q]
    /\ ret' = ret

ReturnStep(t) ==
    /\ pc[t] \in {"stored", "set"}
    /\ ret' = [ret EXCEPT ![t] = cuda_err]
    /\ pc' = [pc EXCEPT ![t] = "idle"]
    /\ UNCHANGED <<cuda_err, own, overtaken>>

HereStep(t) ==
    /\ pc[t] = "idle"
    /\ \E e \in Errors : ret' = [ret EXCEPT ![t] = e] /\ own' = [own EXCEPT ![t] = e]
    /\ UNCHANGED <<cuda_err, pc, overtaken>>

AskStep(t) ==
    /\ pc[t] = "idle"
    /\ pc' = [pc EXCEPT ![t] = "ask"]
    /\ UNCHANGED <<cuda_err, ret, own, overtaken>>

FlowStep(t) == StoreStep(t) \/ ReturnStep(t) \/ HereStep(t) \/ AskStep(t)

\* Every call is one of them.
LEMMA CallFlow == ASSUME FlowTypes, NEW t \in Threads, Call(t) PROVE FlowStep(t)
<1>1. ASSUME NEW f, ForwardPlain(t, f) PROVE StoreStep(t)
  BY <1>1, StoresErrors DEF ForwardPlain, Begin, StoreStep
<1>2. ASSUME NEW f, ForwardMake(t, f) PROVE StoreStep(t)
  BY <1>2, StoresErrors DEF ForwardMake, Begin, StoreStep
<1>4. {"success", "unknown"} \subseteq Errors /\ cuda_err \in Errors
  BY DEF Errors, FlowTypes
<1>5. ASSUME NEW f, PassPlain(t, f) PROVE HereStep(t)
  BY <1>4, <1>5 DEF PassPlain, Begin, HereStep
<1>8. AskDevice(t) => AskStep(t)
  BY DEF AskDevice, Begin, AskStep
<1>9. GetLastError(t) => HereStep(t)
  BY <1>4 DEF GetLastError, Begin, HereStep
<1>10. GetDeviceCount(t) \/ GetDevice(t) => HereStep(t)
  BY <1>4 DEF GetDeviceCount, GetDevice, Begin, HereStep
<1> QED
  BY <1>1, <1>2, <1>5, <1>8, <1>9, <1>10 DEF Call, FlowStep

\* The steps of a thread within a call.
Within(t) ==
    \/ Return(t)
    \/ \E d \in Answers : GotDevice(t, d)
    \/ NoDevice(t) \/ SentDevice(t) \/ UnsentDevice(t) \/ SetReturns(t)

\* Every step within a call is one of them too.
LEMMA WithinFlow == ASSUME NEW t \in Threads, Within(t) PROVE FlowStep(t)
<1>1. {"success", "unknown", "memory"} \subseteq Errors
  BY DEF Errors
<1>2. Return(t) => ReturnStep(t)
  BY DEF Return, ReturnStep
<1>3. ASSUME NEW d, GotDevice(t, d) PROVE StoreStep(t)
  BY <1>1, <1>3 DEF GotDevice, StoreStep
<1>4. NoDevice(t) => StoreStep(t)
  BY <1>1 DEF NoDevice, StoreStep
<1>5. SentDevice(t) => StoreStep(t)
  BY <1>1 DEF SentDevice, StoreStep
<1>6. UnsentDevice(t) => StoreStep(t)
  BY <1>1 DEF UnsentDevice, StoreStep
<1>7. SetReturns(t) => ReturnStep(t)
  BY DEF SetReturns, ReturnStep
<1> QED
  BY <1>2, <1>3, <1>4, <1>5, <1>6, <1>7 DEF Within, FlowStep

\* The steps: devices are counted, a thread calls or goes on, or nothing happens.
LEMMA NextSteps ==
    ASSUME [Next]_vars
    PROVE  \/ \E i \in Nodes : \E c \in {0, PerNode[i]} : CountDevices(i, c)
           \/ \E t \in Threads : Call(t) \/ Within(t)
           \/ UNCHANGED vars
  BY DEF Next, Within, Finished

\* Before all devices are counted no thread has done anything.
QuietInv ==
    nodes_done < NNodes =>
      \A t \in Threads : pc[t] = "idle" /\ CUR_DEV[t] = 0 /\ bound[t] = Unbound /\ res[t] = {}

ErrInv ==
    \A t \in Threads :
      ~ overtaken[t] =>
        /\ pc[t] = "idle" => ret[t] = own[t]
        /\ pc[t] \in {"stored", "asked", "set"} => cuda_err = own[t]

\* The steps of threads keep the types.
LEMMA FlowTypesNext ==
    ASSUME FlowTypes, NEW t \in Threads, FlowStep(t) PROVE FlowTypes'
<1>1. CASE StoreStep(t)
  <2>1. PICK e \in Errors : Store(t, e)
    BY <1>1 DEF StoreStep
  <2>2. cuda_err' \in Errors /\ own' \in [Threads -> Errors]
    BY <2>1 DEF Store, FlowTypes
  <2>3. overtaken' \in [Threads -> BOOLEAN]
    BY <2>1 DEF Store
  <2>4. /\ pc' \in [Threads -> {"idle", "stored", "ask", "asked", "set"}]
        /\ ret' \in [Threads -> Errors]
    BY <1>1 DEF StoreStep, FlowTypes
  <2> QED
    BY <2>2, <2>3, <2>4 DEF FlowTypes
<1>2. CASE ReturnStep(t)
  BY <1>2 DEF ReturnStep, FlowTypes
<1>3. CASE HereStep(t)
  BY <1>3 DEF HereStep, FlowTypes
<1>4. CASE AskStep(t)
  BY <1>4 DEF AskStep, FlowTypes
<1> QED
  BY <1>1, <1>2, <1>3, <1>4 DEF FlowStep

\* ... and the error of every call its own until another thread stores one.
LEMMA ErrNext ==
    ASSUME FlowTypes, ErrInv, NEW t \in Threads, FlowStep(t) PROVE ErrInv'
<1> SUFFICES ASSUME NEW u \in Threads, ~ overtaken'[u]
             PROVE  /\ pc'[u] = "idle" => ret'[u] = own'[u]
                    /\ pc'[u] \in {"stored", "asked", "set"} => cuda_err' = own'[u]
  BY DEF ErrInv
<1>0. /\ pc[u] \in {"idle", "stored", "ask", "asked", "set"}
      /\ ~ overtaken[u] =>
           /\ pc[u] = "idle" => ret[u] = own[u]
           /\ pc[u] \in {"stored", "asked", "set"} => cuda_err = own[u]
  BY DEF ErrInv, FlowTypes
<1>1. CASE StoreStep(t)
  <2>1. PICK e \in Errors : Store(t, e)
    BY <1>1 DEF StoreStep
  <2>2. PICK q \in {"stored", "asked", "set"} : pc' = [pc EXCEPT ![t] = q] /\ ret' = ret
    BY <1>1 DEF StoreStep
  <2>3. own' = [own EXCEPT ![t] = e] /\ cuda_err' = e
    BY <2>1 DEF Store
  <2>4. CASE u = t
    BY <2>2, <2>3, <2>4 DEF FlowTypes
  <2>5. CASE u # t
    <3>1. ~ overtaken[u] /\ pc[u] = "idle"
      BY <2>1, <2>5 DEF Store
    <3> QED
      BY <1>0, <2>2, <2>3, <2>5, <3>1 DEF FlowTypes
  <2> QED
    BY <2>4, <2>5
<1>2. CASE ReturnStep(t)
  <2>1. ~ overtaken[u] /\ cuda_err' = cuda_err /\ own' = own
    BY <1>2 DEF ReturnStep
  <2>2. CASE u = t
    BY <1>0, <1>2, <2>1, <2>2 DEF ReturnStep, FlowTypes
  <2>3. CASE u # t
    BY <1>0, <1>2, <2>1, <2>3 DEF ReturnStep, FlowTypes
  <2> QED
    BY <2>2, <2>3
<1>3. CASE HereStep(t)
  <2>1. ~ overtaken[u] /\ cuda_err' = cuda_err /\ pc' = pc /\ pc[t] = "idle"
    BY <1>3 DEF HereStep
  <2>2. PICK e \in Errors : ret' = [ret EXCEPT ![t] = e] /\ own' = [own EXCEPT ![t] = e]
    BY <1>3 DEF HereStep
  <2> QED
    BY <1>0, <2>1, <2>2 DEF FlowTypes
<1>4. CASE AskStep(t)
  <2>1. ~ overtaken[u] /\ cuda_err' = cuda_err /\ own' = own /\ ret' = ret
    BY <1>4 DEF AskStep
  <2> QED
    BY <1>0, <1>4, <2>1 DEF AskStep, FlowTypes
<1> QED
  BY <1>1, <1>2, <1>3, <1>4 DEF FlowStep

\* Counting happens before main(), and stores errors nobody reads.
LEMMA CountEffect ==
    ASSUME QuietInv, NEW i \in Nodes, NEW c \in {0, PerNode[i]}, CountDevices(i, c)
    PROVE  /\ nodes_done < NNodes /\ nodes_done' = nodes_done + 1
           /\ \A t \in Threads : /\ pc[t] = "idle" /\ CUR_DEV[t] = 0
                                 /\ bound[t] = Unbound /\ res[t] = {}
           /\ UNCHANGED <<device, resources, pc, ret, own, overtaken, calls>>
           /\ cuda_err' \in Errors
<1>1. nodes_done = i /\ i < NNodes
  BY NodesKnown DEF CountDevices, Nodes
<1> QED
  BY <1>1 DEF QuietInv, CountDevices, rcudaGetDeviceCount, Errors

\* A thread only does something when all devices are counted.
LEMMA ThreadsReady ==
    ASSUME TabInv, FlowTypes, QuietInv, NEW t \in Threads, Call(t) \/ Within(t)
    PROVE  Ready /\ Ready'
<1>1. ASSUME Call(t) PROVE Ready
  BY <1>1 DEF Call, ForwardPlain, ForwardMake, PassPlain,
              AskDevice, GetLastError, GetDeviceCount, GetDevice, Begin
<1>2. ASSUME Within(t) PROVE Ready
  <2>1. pc[t] # "idle"
    BY <1>2 DEF Within, Return, GotDevice, NoDevice, SentDevice, UnsentDevice, SetReturns
  <2>2. nodes_done \in 0 .. NNodes /\ ~ (nodes_done < NNodes)
    BY <2>1 DEF TabInv, Numbered, QuietInv
  <2> QED
    BY <2>2, NodesKnown DEF Ready
<1>3. UNCHANGED nodes_done
  <2>1. Call(t) => UNCHANGED tables
    BY DEF Call, ForwardPlain, ForwardMake, PassPlain,
           AskDevice, GetLastError, GetDeviceCount, GetDevice
  <2>2. Within(t) => UNCHANGED tables
    BY DEF Within, Return, GotDevice, NoDevice, SentDevice, UnsentDevice, SetReturns
  <2> QED
    BY <2>1, <2>2 DEF tables
<1> QED
  BY <1>1, <1>2, <1>3 DEF Ready

\* So QuietInv is kept.
LEMMA QuietNext == TabInv /\ FlowTypes /\ QuietInv /\ [Next]_vars => QuietInv'
<1> SUFFICES ASSUME TabInv, FlowTypes, QuietInv, [Next]_vars PROVE QuietInv'
  OBVIOUS
<1>1. ASSUME NEW i \in Nodes, NEW c \in {0, PerNode[i]}, CountDevices(i, c) PROVE QuietInv'
  BY <1>1, CountEffect DEF QuietInv, device, resources, Unbound, Local
<1>2. ASSUME NEW t \in Threads, Call(t) \/ Within(t) PROVE QuietInv'
  <2>1. nodes_done' = NNodes
    BY <1>2, ThreadsReady DEF Ready
  <2> QED
    BY <2>1, NodesKnown DEF QuietInv
<1>3. ASSUME UNCHANGED vars PROVE QuietInv'
  BY <1>3 DEF vars, tables, device, resources, QuietInv
<1> QED
  BY <1>1, <1>2, <1>3, NextSteps

FlowInv == TabInv /\ FlowTypes /\ QuietInv /\ ErrInv

\* The initial state.
LEMMA FlowInit == Init => FlowInv
<1> SUFFICES ASSUME Init PROVE FlowInv
  OBVIOUS
<1>1. FlowTypes /\ ErrInv
  BY DEF Init, FlowTypes, ErrInv, Errors
<1>2. QuietInv
  BY DEF Init, QuietInv
<1> QED
  BY <1>1, <1>2, TabInit DEF FlowInv

\* A step of a thread keeps its place in its call.
LEMMA FlowNext == FlowInv /\ [Next]_vars => FlowInv'
<1> SUFFICES ASSUME FlowInv, [Next]_vars PROVE FlowInv'
  OBVIOUS
<1> USE DEF FlowInv
<1>1. TabInv' /\ QuietInv'
  BY TabNext, QuietNext
<1>2. ASSUME NEW i \in Nodes, NEW c \in {0, PerNode[i]}, CountDevices(i, c)
      PROVE  FlowTypes' /\ ErrInv'
  BY <1>2, CountEffect DEF FlowTypes, ErrInv
<1>3. ASSUME NEW t \in Threads, Call(t) \/ Within(t) PROVE FlowTypes' /\ ErrInv'
  BY <1>3, CallFlow, WithinFlow, FlowTypesNext, ErrNext
<1>4. ASSUME UNCHANGED vars PROVE FlowTypes' /\ ErrInv'
  BY <1>4 DEF vars, FlowTypes, ErrInv
<1> QED
  BY <1>1, <1>2, <1>3, <1>4, NextSteps

\* A call returns the error its own stub stored, unless another thread's stub
\* stored one in between: for any threads, calls and nodes.
THEOREM OwnErrorReturned == Spec => []ErrorIsOwn
<1>1. FlowInv => ErrorIsOwn
  BY DEF FlowInv, ErrInv, ErrorIsOwn
<1> QED
  BY <1>1, FlowInit, FlowNext, PTL DEF Spec

-----------------------------------------------------------------------------
(* The device of a thread.                                                  *)

\* Node and device there of device k.
Tab(k) == <<DEV_TO_INDEX[k], DEV_TO_LOCALDEV[k]>>

DeviceTypes ==
    /\ CUR_DEV \in [Threads -> Slots]
    /\ device_DRR \in [Threads -> Slots]
    /\ answered \in [Threads -> BOOLEAN]
    /\ chosen \in [Threads -> BOOLEAN]
    /\ split \in [Threads -> BOOLEAN]
    /\ bound \in [Threads -> (Nodes \cup {Local}) \X Nat]

\* A device a thread works with, or asks for, is one of the nodes' unless the
\* scheduler has left the question, or answered with a device of others.
DevInv ==
    \A t \in Threads :
      /\ pc[t] = "ask" => device_DRR[t] = BACKEND_DEVICES
      /\ pc[t] \in {"asked", "set"} =>
           device_DRR[t] < BACKEND_DEVICES \/ ~ answered[t]
      /\ BACKEND_DEVICES > 0 =>
           CUR_DEV[t] < BACKEND_DEVICES \/ ~ chosen[t]

\* What the backend was told, and what the thread uses.
BoundInv ==
    \A t \in Threads :
      /\ pc[t] = "set" /\ own[t] = "success" => bound[t] = Tab(device_DRR[t])
      /\ \/ pc[t] = "set" /\ own[t] = "success"
         \/ split[t] \/ bound[t] = Unbound \/ bound[t] = Tab(CUR_DEV[t])

\* A step of t that has nothing to do with its device.
PlainStep(t) ==
    /\ UNCHANGED <<tables, device>>
    /\ pc'[t] \in {"idle", "stored"}
    /\ \A u \in Threads \ {t} : pc'[u] = pc[u] /\ own'[u] = own[u]

\* So are all calls but cudaSetDevice, and the end of a stub.
LEMMA PlainCalls ==
    ASSUME FlowTypes, NEW t \in Threads, (Call(t) /\ ~ AskDevice(t)) \/ Return(t)
    PROVE  PlainStep(t)
<1>1. ASSUME NEW f, ForwardPlain(t, f) \/ ForwardMake(t, f) PROVE PlainStep(t)
  <2>1. pc' = [pc EXCEPT ![t] = "stored"] /\ UNCHANGED <<tables, device>>
    BY <1>1 DEF ForwardPlain, ForwardMake
  <2>2. \E e \in Stores[f] : own' = [own EXCEPT ![t] = e]
    BY <1>1 DEF ForwardPlain, ForwardMake, Store
  <2> QED
    BY <2>1, <2>2 DEF PlainStep, FlowTypes
<1>2. ASSUME NEW f, PassPlain(t, f) PROVE PlainStep(t)
  <2>1. pc' = pc /\ pc[t] = "idle" /\ UNCHANGED <<tables, device>>
    BY <1>2 DEF PassPlain, Begin
  <2>2. \E e \in {"success", "unknown"} : own' = [own EXCEPT ![t] = e]
    BY <1>2 DEF PassPlain
  <2> QED
    BY <2>1, <2>2 DEF PlainStep, FlowTypes
<1>3. GetLastError(t) \/ GetDeviceCount(t) \/ GetDevice(t) => PlainStep(t)
  BY DEF GetLastError, GetDeviceCount, GetDevice, Begin, PlainStep, FlowTypes
<1>4. Return(t) => PlainStep(t)
  BY DEF Return, PlainStep, FlowTypes
<1> QED
  BY <1>1, <1>2, <1>3, <1>4 DEF Call

DeviceInv == DeviceTypes /\ DevInv /\ BoundInv

\* They keep what is said of the devices.
LEMMA PlainDevice ==
    ASSUME FlowTypes, DeviceInv, NEW t \in Threads, PlainStep(t), pc[t] \in {"idle", "stored"}
    PROVE  DeviceInv'
<1>1. DeviceTypes'
  BY DEF DeviceInv, PlainStep, DeviceTypes, device
<1>2. DevInv'
  BY DEF DeviceInv, PlainStep, DevInv, device, tables
<1>3. BoundInv'
  BY DEF DeviceInv, PlainStep, BoundInv, Tab, device, tables
<1> QED
  BY <1>1, <1>2, <1>3 DEF DeviceInv

\* The steps of cudaSetDevice, thread by thread.
LEMMA AskDeviceKeeps ==
    ASSUME TabInv, FlowTypes, DeviceInv, NEW t \in Threads, AskDevice(t) PROVE DeviceInv'
<1>1. BACKEND_DEVICES \in Slots
  BY NumberedFits, TablesFit DEF TabInv, Slots
<1>2. DeviceTypes'
  BY <1>1 DEF AskDevice, DeviceInv, DeviceTypes
<1>3. /\ UNCHANGED <<tables, CUR_DEV, answered, chosen, split, bound, own>>
      /\ pc' = [pc EXCEPT ![t] = "ask"] /\ pc[t] = "idle"
      /\ device_DRR' = [device_DRR EXCEPT ![t] = BACKEND_DEVICES]
  BY DEF AskDevice, Begin
<1>4. DevInv'
  BY <1>3 DEF DeviceInv, DevInv, DeviceTypes, FlowTypes, tables
<1>5. BoundInv'
  BY <1>3 DEF DeviceInv, BoundInv, DeviceTypes, FlowTypes, tables, Tab
<1> QED
  BY <1>2, <1>4, <1>5 DEF DeviceInv

\* The answer arrives, ...
LEMMA GotDeviceKeeps ==
    ASSUME TabInv, FlowTypes, DeviceInv, NEW t \in Threads, NEW d \in Answers, GotDevice(t, d)
    PROVE  DeviceInv'
<1>1. /\ UNCHANGED <<tables, CUR_DEV, chosen, split, bound>>
      /\ pc' = [pc EXCEPT ![t] = "asked"] /\ pc[t] = "ask"
      /\ device_DRR' = [device_DRR EXCEPT ![t] = d] /\ d \in Slots
      /\ answered' = [answered EXCEPT ![t] = d < BACKEND_DEVICES]
      /\ own' = [own EXCEPT ![t] = "success"]
  BY TablesFit DEF GotDevice, Store
<1>2. DeviceTypes'
  BY <1>1 DEF DeviceInv, DeviceTypes
<1>3. DevInv'
  BY <1>1 DEF DeviceInv, DevInv, DeviceTypes, FlowTypes, tables
<1>4. BoundInv'
  BY <1>1 DEF DeviceInv, BoundInv, DeviceTypes, FlowTypes, tables, Tab
<1> QED
  BY <1>2, <1>3, <1>4 DEF DeviceInv

\* ... no answer arrives, ...
LEMMA NoDeviceKeeps ==
    ASSUME TabInv, FlowTypes, DeviceInv, NEW t \in Threads, NoDevice(t) PROVE DeviceInv'
<1>1. /\ UNCHANGED <<tables, CUR_DEV, device_DRR, chosen, split, bound>>
      /\ pc' = [pc EXCEPT ![t] = "asked"] /\ pc[t] = "ask"
      /\ answered' = [answered EXCEPT ![t] = FALSE]
      /\ \E e \in Errors : own' = [own EXCEPT ![t] = e]
  BY DEF NoDevice, Store, Errors
<1>2. DeviceTypes'
  BY <1>1 DEF DeviceInv, DeviceTypes
<1>3. DevInv'
  BY <1>1 DEF DeviceInv, DevInv, DeviceTypes, FlowTypes, tables
<1>4. BoundInv'
  BY <1>1 DEF DeviceInv, BoundInv, DeviceTypes, FlowTypes, tables, Tab
<1> QED
  BY <1>2, <1>3, <1>4 DEF DeviceInv

\* ... the device is sent, ...
LEMMA SentDeviceKeeps ==
    ASSUME TabInv, FlowTypes, DeviceInv, NEW t \in Threads, SentDevice(t) PROVE DeviceInv'
<1>1. /\ UNCHANGED <<tables, CUR_DEV, device_DRR, answered, chosen, split>>
      /\ pc' = [pc EXCEPT ![t] = "set"] /\ pc[t] = "asked"
      /\ bound' = [bound EXCEPT ![t] = Tab(device_DRR[t])]
      /\ own' = [own EXCEPT ![t] = "success"]
  BY DEF SentDevice, Store, Tab
<1>2. Tab(device_DRR[t]) \in (Nodes \cup {Local}) \X Nat
  BY DEF TabInv, Numbered, DeviceInv, DeviceTypes, Tab
<1>3. DeviceTypes'
  BY <1>1, <1>2 DEF DeviceInv, DeviceTypes
<1>4. DevInv'
  BY <1>1 DEF DeviceInv, DevInv, DeviceTypes, FlowTypes, tables
<1>5. BoundInv'
  <2> SUFFICES ASSUME NEW u \in Threads
               PROVE  /\ pc'[u] = "set" /\ own'[u] = "success" => bound'[u] = Tab(device_DRR[u])
                      /\ \/ pc'[u] = "set" /\ own'[u] = "success"
                         \/ split[u] \/ bound'[u] = Unbound \/ bound'[u] = Tab(CUR_DEV[u])
    BY <1>1 DEF BoundInv, tables, Tab
  <2> QED
    BY <1>1 DEF DeviceInv, BoundInv, DeviceTypes, FlowTypes
<1> QED
  BY <1>3, <1>4, <1>5 DEF DeviceInv

\* ... it cannot be sent, ...
LEMMA UnsentDeviceKeeps ==
    ASSUME TabInv, FlowTypes, DeviceInv, NEW t \in Threads, UnsentDevice(t) PROVE DeviceInv'
<1>1. /\ UNCHANGED <<tables, device>>
      /\ pc' = [pc EXCEPT ![t] = "set"] /\ pc[t] = "asked"
      /\ own' = [own EXCEPT ![t] = "memory"]
  BY DEF UnsentDevice, Store
<1>2. DeviceTypes'
  BY <1>1 DEF DeviceInv, DeviceTypes, device
<1>3. DevInv'
  BY <1>1 DEF DeviceInv, DevInv, DeviceTypes, FlowTypes, tables, device
<1>4. BoundInv'
  BY <1>1 DEF DeviceInv, BoundInv, DeviceTypes, FlowTypes, tables, device, Tab
<1> QED
  BY <1>2, <1>3, <1>4 DEF DeviceInv

\* ... the call returns.
LEMMA SetReturnsKeeps ==
    ASSUME TabInv, FlowTypes, DeviceInv, NEW t \in Threads, SetReturns(t) PROVE DeviceInv'
<1>1. /\ UNCHANGED <<tables, device_DRR, bound, own>>
      /\ pc' = [pc EXCEPT ![t] = "idle"] /\ pc[t] = "set"
      /\ CUR_DEV' = [CUR_DEV EXCEPT ![t] = IF cuda_err = "success" THEN device_DRR[t] ELSE @]
      /\ chosen' = [chosen EXCEPT ![t] = IF cuda_err = "success" THEN answered[t] ELSE @]
      /\ answered' = [answered EXCEPT ![t] = TRUE]
  BY DEF SetReturns
<1>2. \A u \in Threads : u # t => split'[u] = split[u] /\ pc'[u] = pc[u] /\ CUR_DEV'[u] = CUR_DEV[u]
                               /\ chosen'[u] = chosen[u] /\ answered'[u] = answered[u]
  BY <1>1 DEF SetReturns, DeviceInv, DeviceTypes, FlowTypes
<1>3. DeviceTypes'
  <2>1. CUR_DEV' \in [Threads -> Slots] /\ UNCHANGED <<device_DRR, bound>>
    BY <1>1 DEF DeviceInv, DeviceTypes
  <2>2. chosen' \in [Threads -> BOOLEAN] /\ answered' \in [Threads -> BOOLEAN]
    BY <1>1 DEF DeviceInv, DeviceTypes
  <2>3. split' \in [Threads -> BOOLEAN]
    BY DEF SetReturns, DeviceInv, DeviceTypes
  <2> QED
    BY <2>1, <2>2, <2>3 DEF DeviceInv, DeviceTypes
<1>4. pc'[t] = "idle"
  BY <1>1 DEF FlowTypes
<1>5. DevInv'
  <2>1. BACKEND_DEVICES > 0 =>
           CUR_DEV'[t] < BACKEND_DEVICES \/ ~ chosen'[t]
    <3>1. CASE cuda_err = "success"
      <4>1. CUR_DEV'[t] = device_DRR[t] /\ chosen'[t] = answered[t]
        BY <1>1, <3>1 DEF DeviceInv, DeviceTypes
      <4> QED
        BY <1>1, <4>1 DEF DeviceInv, DevInv
    <3>2. CASE cuda_err # "success"
      <4>1. CUR_DEV'[t] = CUR_DEV[t] /\ chosen'[t] = chosen[t]
        BY <1>1, <3>2 DEF DeviceInv, DeviceTypes
      <4> QED
        BY <4>1 DEF DeviceInv, DevInv
    <3> QED
      BY <3>1, <3>2
  <2> SUFFICES ASSUME NEW u \in Threads
               PROVE  /\ pc'[u] = "ask" => device_DRR[u] = BACKEND_DEVICES
                      /\ pc'[u] \in {"asked", "set"} =>
                           device_DRR[u] < BACKEND_DEVICES \/ ~ answered'[u]
                      /\ BACKEND_DEVICES > 0 =>
                           CUR_DEV'[u] < BACKEND_DEVICES \/ ~ chosen'[u]
    BY <1>1 DEF DevInv, tables
  <2>2. CASE u = t
    BY <1>4, <2>1, <2>2
  <2>3. CASE u # t
    BY <1>2, <2>3 DEF DeviceInv, DevInv
  <2> QED
    BY <2>2, <2>3
<1>6. BoundInv'
  <2>1. split'[t] \/ bound[t] = Unbound \/ bound[t] = Tab(CUR_DEV'[t])
    <3>1. split'[t] = \/ own[t] = "success" /\ cuda_err # "success"
                      \/ own[t] # "success" /\ cuda_err = "success"
                      \/ split[t] /\ cuda_err # "success"
      BY DEF SetReturns, DeviceInv, DeviceTypes
    <3>2. CUR_DEV'[t] = IF cuda_err = "success" THEN device_DRR[t] ELSE CUR_DEV[t]
      BY <1>1 DEF DeviceInv, DeviceTypes
    <3>3. /\ own[t] = "success" => bound[t] = Tab(device_DRR[t])
          /\ own[t] = "success" \/ split[t] \/ bound[t] = Unbound \/ bound[t] = Tab(CUR_DEV[t])
      BY <1>1 DEF DeviceInv, BoundInv
    <3>4. CASE cuda_err = "success"
      BY <3>1, <3>2, <3>3, <3>4
    <3>5. CASE cuda_err # "success"
      BY <3>1, <3>2, <3>3, <3>5
    <3> QED
      BY <3>4, <3>5
  <2> SUFFICES ASSUME NEW u \in Threads
               PROVE  /\ pc'[u] = "set" /\ own[u] = "success" => bound[u] = Tab(device_DRR[u])
                      /\ \/ pc'[u] = "set" /\ own[u] = "success"
                         \/ split'[u] \/ bound[u] = Unbound \/ bound[u] = Tab(CUR_DEV'[u])
    BY <1>1 DEF BoundInv, tables, Tab
  <2>2. CASE u = t
    BY <1>4, <2>1, <2>2
  <2>3. CASE u # t
    BY <1>2, <2>3 DEF DeviceInv, BoundInv
  <2> QED
    BY <2>2, <2>3
<1> QED
  BY <1>3, <1>5, <1>6 DEF DeviceInv

\* Counting devices moves no thread: all work with device 0, and none is bound.
LEMMA CountKeepsDevice ==
    ASSUME TabInv, TabInv', QuietInv, DeviceInv,
           NEW i \in Nodes, NEW c \in {0, PerNode[i]}, CountDevices(i, c)
    PROVE  DeviceInv'
<1>1. /\ \A t \in Threads : pc[t] = "idle" /\ CUR_DEV[t] = 0 /\ bound[t] = Unbound
      /\ UNCHANGED <<device, pc>>
  BY CountEffect
<1>2. DeviceTypes'
  BY <1>1 DEF DeviceInv, DeviceTypes, device
<1>3. BACKEND_DEVICES' \in Nat
  BY NumberedFits DEF TabInv
<1>4. DevInv'
  BY <1>1, <1>3 DEF DevInv, device
<1>5. BoundInv'
  BY <1>1 DEF BoundInv, device
<1> QED
  BY <1>2, <1>4, <1>5 DEF DeviceInv

RouteInv == FlowInv /\ DeviceInv

\* The initial state.
LEMMA RouteInit == Init => RouteInv
<1> SUFFICES ASSUME Init PROVE RouteInv
  OBVIOUS
<1>1. 0 \in Slots
  <2>1. TabInv
    BY TabInit
  <2> QED
    BY <2>1, NumberedFits, TablesFit DEF TabInv, Slots
<1>2. DeviceTypes
  BY <1>1 DEF Init, DeviceTypes, Unbound
<1>3. DevInv /\ BoundInv
  BY DEF Init, DevInv, BoundInv
<1> QED
  BY <1>2, <1>3, FlowInit DEF RouteInv, DeviceInv

\* What is known of the devices is kept by every step.
LEMMA RouteNext == RouteInv /\ [Next]_vars => RouteInv'
<1> SUFFICES ASSUME RouteInv, [Next]_vars PROVE RouteInv'
  OBVIOUS
<1>1. FlowInv /\ FlowInv' /\ DeviceInv
  BY FlowNext DEF RouteInv
<1>2. ASSUME NEW i \in Nodes, NEW c \in {0, PerNode[i]}, CountDevices(i, c) PROVE DeviceInv'
  BY <1>1, <1>2, CountKeepsDevice DEF FlowInv
<1>3. ASSUME NEW t \in Threads, Call(t) PROVE DeviceInv'
  <2>1. CASE AskDevice(t)
    BY <1>1, <2>1, AskDeviceKeeps DEF FlowInv
  <2>2. CASE ~ AskDevice(t)
    <3>1. pc[t] = "idle"
      BY <1>3 DEF Call, ForwardPlain, ForwardMake, PassPlain,
                  AskDevice, GetLastError, GetDeviceCount, GetDevice, Begin
    <3> QED
      BY <1>1, <1>3, <2>2, <3>1, PlainCalls, PlainDevice DEF FlowInv
  <2> QED
    BY <2>1, <2>2
<1>4. ASSUME NEW t \in Threads, Within(t) PROVE DeviceInv'
  <2>1. CASE Return(t)
    <3>1. pc[t] = "stored"
      BY <2>1 DEF Return
    <3> QED
      BY <1>1, <2>1, <3>1, PlainCalls, PlainDevice DEF FlowInv
  <2>2. CASE ~ Return(t)
    BY <1>1, <1>4, <2>2, GotDeviceKeeps, NoDeviceKeeps, SentDeviceKeeps, UnsentDeviceKeeps,
       SetReturnsKeeps DEF FlowInv, Within
  <2> QED
    BY <2>1, <2>2
<1>5. ASSUME UNCHANGED vars PROVE DeviceInv'
  BY <1>1, <1>5 DEF vars, tables, device, DeviceInv, DeviceTypes, DevInv, BoundInv, Tab
<1> QED
  BY <1>1, <1>2, <1>3, <1>4, <1>5, NextSteps DEF RouteInv

\* The current device of a thread is a device of some node, or the scheduler
\* left its cudaSetDevice unanswered, or answered it with a device this
\* application does not have; then the thread works with device 0 of node 0.
THEOREM CurrentDeviceKnown == Spec => []DeviceKnown
<1>1. RouteInv => DeviceKnown
  <2> SUFFICES ASSUME RouteInv, NEW t \in Threads, Ready, BACKEND_DEVICES > 0
               PROVE  \/ CUR_DEV[t] < BACKEND_DEVICES
                      \/ /\ ~ chosen[t]
                         /\ DEV_TO_INDEX[CUR_DEV[t]] = 0 /\ DEV_TO_LOCALDEV[CUR_DEV[t]] = 0
    BY DEF DeviceKnown
  <2>1. CUR_DEV[t] \in Slots /\ BACKEND_DEVICES \in Nat
    BY NumberedFits DEF RouteInv, FlowInv, TabInv, DeviceInv, DeviceTypes
  <2>2. \A k \in Slots : k >= BACKEND_DEVICES => DEV_TO_INDEX[k] = 0 /\ DEV_TO_LOCALDEV[k] = 0
    BY DEF RouteInv, FlowInv, TabInv, Numbered
  <2>3. CUR_DEV[t] < BACKEND_DEVICES \/ ~ chosen[t]
    BY DEF RouteInv, DeviceInv, DevInv
  <2>4. CUR_DEV[t] < BACKEND_DEVICES \/ CUR_DEV[t] >= BACKEND_DEVICES
    BY <2>1 DEF Slots
  <2> QED
    BY <2>1, <2>2, <2>3, <2>4
<1> QED
  BY <1>1, RouteInit, RouteNext, PTL DEF Spec

\* Calls and allocations go where the backend was told by the thread's last
\* cudaSetDevice, unless that call decided by another thread's error.
THEOREM CallsRouted == Spec => []RoutedToBound
<1>1. RouteInv => RoutedToBound
  BY DEF RouteInv, DeviceInv, BoundInv, RoutedToBound, Route, Tab
<1> QED
  BY <1>1, RouteInit, RouteNext, PTL DEF Spec

-----------------------------------------------------------------------------
(* The memory of a thread.                                                  *)

ResourceTypes ==
    /\ res \in [Threads -> SUBSET Nodes]
    /\ late \in [Threads -> BOOLEAN]

\* A thread that has not set a device after it allocated is at its memory, and
\* has none yet while it sets one.
HomeInv ==
    \A t \in Threads :
      ~ late[t] =>
        /\ \A n \in res[t] : n = Route(t)
        /\ pc[t] \in {"ask", "asked", "set"} => res[t] = {}

ResourceInv == ResourceTypes /\ HomeInv

\* What a call of t does to its memory: nothing, or it allocates at its node.
KeepStep(t) ==
    /\ UNCHANGED <<tables, CUR_DEV, late>>
    /\ \A u \in Threads : pc'[u] = pc[u] \/ pc'[u] \in {"idle", "stored"}
    /\ \/ res' = res
       \/ /\ pc[t] = "idle"
          /\ res' = [res EXCEPT ![t] = @ \cup {Route(t)}]

\* Every call but cudaSetDevice, and the end of a stub, is one of them.
LEMMA CallKeeps ==
    ASSUME FlowTypes, NEW t \in Threads, (Call(t) /\ ~ AskDevice(t)) \/ Return(t)
    PROVE  KeepStep(t)
<1>1. ASSUME NEW f, ForwardPlain(t, f) PROVE KeepStep(t)
  BY <1>1 DEF ForwardPlain, KeepStep, device, resources, FlowTypes
<1>2. ASSUME NEW f, ForwardMake(t, f) PROVE KeepStep(t)
  <2>1. /\ pc[t] = "idle" /\ pc' = [pc EXCEPT ![t] = "stored"]
        /\ UNCHANGED <<tables, CUR_DEV, late>>
    BY <1>2 DEF ForwardMake, Begin, device
  <2>2. res' = res \/ res' = [res EXCEPT ![t] = @ \cup {Route(t)}]
    BY <1>2 DEF ForwardMake
  <2> QED
    BY <2>1, <2>2 DEF KeepStep, FlowTypes
<1>3. ASSUME NEW f, PassPlain(t, f) PROVE KeepStep(t)
  BY <1>3 DEF PassPlain, KeepStep, device, resources
<1>4. GetLastError(t) \/ GetDeviceCount(t) \/ GetDevice(t) => KeepStep(t)
  BY DEF GetLastError, GetDeviceCount, GetDevice, KeepStep, device, resources
<1>5. Return(t) => KeepStep(t)
  BY DEF Return, KeepStep, device, resources, FlowTypes
<1> QED
  BY <1>1, <1>2, <1>3, <1>4, <1>5 DEF Call

\* They leave every thread at its memory.
LEMMA KeepHome ==
    ASSUME TabInv, DeviceTypes, ResourceInv, NEW t \in Threads, KeepStep(t)
    PROVE  ResourceInv'
<1>1. \A u \in Threads : Route(u) \in Nodes /\ Route(u)' = Route(u)
  BY DEF TabInv, Numbered, DeviceTypes, KeepStep, tables, Route
<1>2. late' = late /\ \A u \in Threads : pc'[u] = pc[u] \/ pc'[u] \in {"idle", "stored"}
  BY DEF KeepStep
<1>3. CASE res' = res
  BY <1>1, <1>2, <1>3 DEF ResourceInv, ResourceTypes, HomeInv
<1>4. CASE pc[t] = "idle" /\ res' = [res EXCEPT ![t] = @ \cup {Route(t)}]
  <2>1. /\ res' \in [Threads -> SUBSET Nodes]
        /\ \A u \in Threads : res'[u] = IF u = t THEN res[u] \cup {Route(u)} ELSE res[u]
    BY <1>1, <1>4 DEF ResourceInv, ResourceTypes
  <2>2. pc'[t] \notin {"ask", "asked", "set"}
    BY <1>2, <1>4
  <2>3. HomeInv'
    BY <1>1, <1>2, <2>1, <2>2 DEF ResourceInv, HomeInv
  <2> QED
    BY <1>2, <2>1, <2>3 DEF ResourceInv, ResourceTypes
<1> QED
  BY <1>3, <1>4 DEF KeepStep

\* cudaSetDevice is late when there is memory.
LEMMA AskHome ==
    ASSUME FlowTypes, ResourceInv, NEW t \in Threads, AskDevice(t) PROVE ResourceInv'
<1>1. /\ UNCHANGED <<tables, CUR_DEV, res>>
      /\ pc' = [pc EXCEPT ![t] = "ask"]
      /\ late' = [late EXCEPT ![t] = late[t] \/ res[t] # {}]
  BY DEF AskDevice
<1>2. late' \in [Threads -> BOOLEAN]
  BY <1>1 DEF ResourceInv, ResourceTypes
<1>3. /\ late'[t] = (late[t] \/ res[t] # {})
      /\ \A u \in Threads : u # t => late'[u] = late[u] /\ pc'[u] = pc[u]
  BY <1>1 DEF ResourceInv, ResourceTypes, FlowTypes
<1>4. HomeInv'
  BY <1>1, <1>3 DEF ResourceInv, HomeInv, Route, tables
<1> QED
  BY <1>1, <1>2, <1>4 DEF ResourceInv, ResourceTypes

\* The steps of cudaSetDevice move a thread that has no memory, or is late.
LEMMA SetHome ==
    ASSUME FlowTypes, DeviceTypes, ResourceInv, NEW t \in Threads, Within(t), ~ Return(t)
    PROVE  ResourceInv'
<1>1. pc[t] \in {"ask", "asked", "set"} /\ UNCHANGED <<tables, resources>>
  BY DEF Within, GotDevice, NoDevice, SentDevice, UnsentDevice, SetReturns
<1>2. \A u \in Threads : u # t => pc'[u] = pc[u]
  BY DEF Within, GotDevice, NoDevice, SentDevice, UnsentDevice, SetReturns, FlowTypes
<1>3. \A u \in Threads : u # t => CUR_DEV'[u] = CUR_DEV[u]
  BY DEF Within, GotDevice, NoDevice, SentDevice, UnsentDevice, SetReturns, DeviceTypes, device
<1>4. HomeInv'
  BY <1>1, <1>2, <1>3 DEF ResourceInv, HomeInv, Route, tables, resources
<1> QED
  BY <1>1, <1>4 DEF ResourceInv, ResourceTypes, resources

HomesInv == RouteInv /\ ResourceInv

\* The initial state.
LEMMA HomesInit == Init => HomesInv
  BY RouteInit DEF Init, HomesInv, ResourceInv, ResourceTypes, HomeInv

\* Every step leaves every thread at its memory.
LEMMA HomesNext == HomesInv /\ [Next]_vars => HomesInv'
<1> SUFFICES ASSUME HomesInv, [Next]_vars PROVE HomesInv'
  OBVIOUS
<1>1. RouteInv /\ RouteInv' /\ ResourceInv
  BY RouteNext DEF HomesInv
<1>2. TabInv /\ FlowTypes /\ QuietInv /\ DeviceTypes
  BY <1>1 DEF RouteInv, FlowInv, DeviceInv
<1>3. ASSUME NEW i \in Nodes, NEW c \in {0, PerNode[i]}, CountDevices(i, c) PROVE ResourceInv'
  <2>1. (\A t \in Threads : res[t] = {}) /\ UNCHANGED <<res, late>>
    BY <1>2, <1>3, CountEffect DEF resources
  <2> QED
    BY <1>1, <2>1 DEF ResourceInv, ResourceTypes, HomeInv
<1>4. ASSUME NEW t \in Threads, Call(t) \/ Within(t) PROVE ResourceInv'
  <2>1. CASE AskDevice(t)
    BY <1>1, <1>2, <2>1, AskHome
  <2>2. CASE (Call(t) /\ ~ AskDevice(t)) \/ Return(t)
    BY <1>1, <1>2, <2>2, CallKeeps, KeepHome
  <2>3. CASE Within(t) /\ ~ Return(t)
    BY <1>1, <1>2, <2>3, SetHome
  <2> QED
    BY <1>4, <2>1, <2>2, <2>3
<1>5. ASSUME UNCHANGED vars PROVE ResourceInv'
  BY <1>1, <1>5 DEF vars, tables, device, resources, ResourceInv, ResourceTypes, HomeInv, Route
<1> QED
  BY <1>1, <1>3, <1>4, <1>5, NextSteps DEF HomesInv

\* A thread that sets no device after its first allocation stays where its
\* memory is: for any threads, whatever they set, and any failures.
THEOREM StaysAtItsMemory == Spec => []StaysWithMemory
<1>1. HomesInv => StaysWithMemory
  BY DEF HomesInv, ResourceInv, HomeInv, StaysWithMemory
<1> QED
  BY <1>1, HomesInit, HomesNext, PTL DEF Spec

-----------------------------------------------------------------------------
(* Types.                                                                   *)

\* What TypeOK says beyond the above.
BoundsInv ==
    /\ \A i \in Nodes : DEVICES_IN_NODE[i] \in {0, PerNode[i]}
    /\ nodes_done = 0 => first_local = 0
    /\ bound \in [Threads -> (Nodes \cup {Local}) \X (0 .. Cap)]
    /\ calls \in [Threads -> 0 .. MaxCalls]

\* The number of a device on its node fits too.
LEMMA LocalFits == ASSUME TabInv PROVE DEV_TO_LOCALDEV \in [Slots -> 0 .. Cap] /\ Cap \in Nat
<1>1. /\ BACKEND_DEVICES \in Nat /\ BACKEND_DEVICES <= Cap /\ Cap \in Nat
      /\ DEV_TO_INDEX \in [Slots -> Nodes] /\ DEV_TO_LOCALDEV \in [Slots -> Nat]
  BY NumberedFits DEF TabInv, Numbered
<1>2. ASSUME NEW k \in Slots PROVE DEV_TO_LOCALDEV[k] \in 0 .. Cap
  <2>1. k \in Nat
    BY DEF Slots
  <2>2. CASE k >= BACKEND_DEVICES
    BY <1>1, <2>2 DEF TabInv, Numbered
  <2>3. CASE k < BACKEND_DEVICES
    <3>1. k = Before(DEVICES_IN_NODE, DEV_TO_INDEX[k]) + DEV_TO_LOCALDEV[k]
      <4>1. k \in 0 .. BACKEND_DEVICES - 1
        BY <1>1, <2>1, <2>3
      <4> QED
        BY <4>1 DEF TabInv, Numbered
    <3>2. Before(DEVICES_IN_NODE, DEV_TO_INDEX[k]) \in Nat
      <4>1. DEV_TO_INDEX[k] \in 0 .. NNodes
        BY <1>1, NodesKnown DEF Nodes
      <4> QED
        BY <4>1, CountFits DEF TabInv, Numbered
    <3>3. DEV_TO_LOCALDEV[k] \in Nat
      BY <1>1
    <3> QED
      BY <1>1, <2>1, <2>3, <3>1, <3>2, <3>3
  <2> QED
    BY <1>1, <2>1, <2>2, <2>3
<1> QED
  BY <1>1, <1>2

\* The calls of a thread are counted and bounded.
LEMMA CallsCounted ==
    ASSUME NEW t \in Threads, Call(t), calls \in [Threads -> 0 .. MaxCalls]
    PROVE  calls' \in [Threads -> 0 .. MaxCalls]
<1>1. calls[t] < MaxCalls /\ calls' = [calls EXCEPT ![t] = @ + 1]
  BY DEF Call, ForwardPlain, ForwardMake, PassPlain, AskDevice,
         GetLastError, GetDeviceCount, GetDevice, Begin
<1>2. MaxCalls \in Nat
  BY InterposerAssumption
<1> QED
  BY <1>1, <1>2

\* The numbers stay within their bounds.
LEMMA BoundsNext == HomesInv /\ BoundsInv /\ [Next]_vars => BoundsInv'
<1> SUFFICES ASSUME HomesInv, BoundsInv, [Next]_vars PROVE BoundsInv'
  OBVIOUS
<1>1. TabInv /\ FlowTypes /\ QuietInv /\ DeviceTypes
  BY DEF HomesInv, RouteInv, FlowInv, DeviceInv
<1>2. ASSUME NEW i \in Nodes, NEW c \in {0, PerNode[i]}, CountDevices(i, c) PROVE BoundsInv'
  <2>1. nodes_done' = i + 1 /\ i \in Nat /\ DEVICES_IN_NODE' = [DEVICES_IN_NODE EXCEPT ![i] = c]
    BY <1>2, NodesKnown DEF CountDevices, Nodes
  <2>2. bound' = bound /\ calls' = calls
    BY <1>2 DEF CountDevices, device
  <2>3. \A j \in Nodes : DEVICES_IN_NODE'[j] \in {0, PerNode[j]}
    BY <1>1, <2>1 DEF BoundsInv, TabInv, Numbered
  <2>4. nodes_done' # 0
    BY <2>1
  <2> QED
    BY <2>2, <2>3, <2>4 DEF BoundsInv
<1>3. ASSUME NEW t \in Threads, Call(t) PROVE BoundsInv'
  <2>1. UNCHANGED <<tables, bound>>
    BY <1>3 DEF Call, ForwardPlain, ForwardMake, PassPlain,
                AskDevice, GetLastError, GetDeviceCount, GetDevice, device
  <2> QED
    BY <1>3, <2>1, CallsCounted DEF BoundsInv, tables
<1>4. ASSUME NEW t \in Threads, Within(t) PROVE BoundsInv'
  <2>1. UNCHANGED <<tables, calls>>
    BY <1>4 DEF Within, Return, GotDevice, NoDevice, SentDevice, UnsentDevice, SetReturns
  <2>2. bound' \in [Threads -> (Nodes \cup {Local}) \X (0 .. Cap)]
    <3>1. CASE SentDevice(t)
      <4>1. Tab(device_DRR[t]) \in (Nodes \cup {Local}) \X (0 .. Cap)
        BY <1>1, LocalFits DEF TabInv, Numbered, DeviceTypes, Tab
      <4>2. bound' = [bound EXCEPT ![t] = Tab(device_DRR[t])]
        BY <3>1 DEF SentDevice, Tab
      <4> QED
        BY <4>1, <4>2 DEF BoundsInv
    <3>2. CASE ~ SentDevice(t)
      <4>1. bound' = bound
        BY <1>4, <3>2 DEF Within, Return, GotDevice, NoDevice, UnsentDevice, SetReturns, device
      <4> QED
        BY <4>1 DEF BoundsInv
    <3> QED
      BY <3>1, <3>2
  <2> QED
    BY <2>1, <2>2 DEF BoundsInv, tables
<1>5. ASSUME UNCHANGED vars PROVE BoundsInv'
  BY <1>5 DEF vars, tables, device, BoundsInv
<1> QED
  BY <1>2, <1>3, <1>4, <1>5, NextSteps

\* The initial state.
LEMMA BoundsInit == Init => BoundsInv
<1> SUFFICES ASSUME Init PROVE BoundsInv
  OBVIOUS
<1>1. Cap \in Nat /\ MaxCalls \in Nat
  BY TabInit, LocalFits, InterposerAssumption
<1> QED
  BY <1>1 DEF Init, BoundsInv, Unbound

\* Interposer's types.
THEOREM InterposerTypeCorrect == Spec => []TypeOK
<1>1. HomesInv /\ BoundsInv => TypeOK
  <2> SUFFICES ASSUME HomesInv, BoundsInv PROVE TypeOK
    OBVIOUS
  <2>1. TabInv /\ FlowTypes /\ DeviceTypes /\ ResourceTypes
    BY DEF HomesInv, RouteInv, FlowInv, DeviceInv, ResourceInv
  <2>2. nodes_done \in 0 .. NNodes /\ BACKEND_DEVICES \in 0 .. Cap
    BY <2>1, NumberedFits DEF TabInv, Numbered
  <2>3. DEV_TO_INDEX \in [Slots -> Nodes] /\ DEV_TO_LOCALDEV \in [Slots -> 0 .. Cap]
    BY <2>1, LocalFits DEF TabInv, Numbered
  <2>4. first_local \in 0 .. Cap
    <3>1. CASE nodes_done = 0
      BY <2>1, <3>1, LocalFits DEF BoundsInv
    <3>2. CASE nodes_done # 0
      <4>1. first_local = Before(DEVICES_IN_NODE, FirstNode) /\ FirstNode \in 0 .. NNodes
        BY <2>1, <2>2, <3>2, NodesKnown DEF TabInv, Nodes
      <4>2. /\ Before(DEVICES_IN_NODE, FirstNode) \in Nat /\ Cap \in Nat
            /\ Before(DEVICES_IN_NODE, FirstNode) <= Cap
        BY <2>1, <4>1, CountFits DEF TabInv, Numbered
      <4> QED
        BY <4>1, <4>2
    <3> QED
      BY <3>1, <3>2
  <2> QED
    BY <2>1, <2>2, <2>3, <2>4 DEF TypeOK, FlowTypes, DeviceTypes, ResourceTypes, BoundsInv
<1> QED
  BY <1>1, HomesInit, HomesNext, BoundsInit, BoundsNext, PTL DEF Spec
=============================================================================
