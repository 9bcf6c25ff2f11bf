--------------------------- MODULE RegistryProofs ---------------------------
(***************************************************************************)
(* Proofs about Registry, for any threads, nodes, binaries, kernels and    *)
(* loads: as long as binaries are unloaded in reverse order, the stack of   *)
(* the client and the arrays of the backends agree, launches run where they *)
(* should, and variables are found.                                        *)
(***************************************************************************)
EXTENDS Registry, FiniteSetTheorems, SequenceTheorems, TLAPS

Infos == [handle : Handles, bin : Bins, num_reg_fns : Nat, num_reg_vars : Nat]

\* The call that holds the loader's lock.
Busy == [thread : Threads, bin : Bins, phase : Phases \ {"idle"}, fn : Nat, node : Nodes]

TypeInv ==
    /\ fatcubinhandle_array \in [1 .. Cardinality(Bins) -> [Nodes -> Handles]]
    /\ fatcubin_handle_counter = Len(rows)
    /\ loader \in Busy \cup {Nobody}
    /\ server \in [Procs -> {"none", "up", "ended"}]
    /\ hasArr \in [Procs -> BOOLEAN]
    /\ fatCInfoArr \in [Procs -> Seq(Infos)]
    /\ rows \in Seq(Owners)
    /\ \A j, k \in DOMAIN rows : rows[j].bin = rows[k].bin => j = k

\* The binary of the call is on top of the stack when it is loaded, or unloaded
\* in order.
CallInv ==
    /\ loader # Nobody /\ (loader.phase # "unload" \/ ~ misordered) =>
         Len(rows) > 0 /\ rows[Len(rows)] = [thread |-> loader.thread, bin |-> loader.bin]
    /\ loader.phase = "function" => loader.fn \in 1 .. Fns[loader.bin]

\* The rows of thread t that node n knows: the call under way has come to some
\* nodes only.
Held(t, n) ==
    {k \in DOMAIN rows :
       /\ rows[k].thread = t
       /\ k = Len(rows) /\ loader.phase = "binary" => n < loader.node
       /\ k = Len(rows) /\ loader.phase = "unload" => n >= loader.node}

FnsAt(k, n) ==
    IF k < Len(rows) \/ loader.phase \notin {"binary", "function"} THEN Fns[rows[k].bin]
    ELSE IF loader.phase = "binary" THEN 0
    ELSE IF n < loader.node THEN loader.fn ELSE loader.fn - 1

VarsAt(k, n) ==
    IF k < Len(rows) \/ loader.phase \in {"idle", "unload"}
         \/ (loader.phase = "variable" /\ n < loader.node)
      THEN 1 ELSE 0

Wanted(t, n) ==
    [k \in Held(t, n) |->
       [handle |-> fatcubinhandle_array[k][n], bin |-> rows[k].bin,
        num_reg_fns |-> FnsAt(k, n), num_reg_vars |-> VarsAt(k, n)]]

\* arr has an entry for every value of want, and no other, each with a handle of
\* its own.
Agrees(arr, want) ==
    /\ \A i \in DOMAIN arr : \E k \in DOMAIN want : arr[i] = want[k]
    /\ \A k \in DOMAIN want : \E i \in DOMAIN arr : arr[i] = want[k]
    /\ \A i, j \in DOMAIN arr : arr[i].handle = arr[j].handle => i = j

\* The process of thread t on node n.
ProcInv(t, n) ==
    /\ server[<<t, n>>] = "up" => Agrees(fatCInfoArr[<<t, n>>], Wanted(t, n))
    /\ server[<<t, n>>] = "up" /\ Held(t, n) # {} => hasArr[<<t, n>>]
    /\ server[<<t, n>>] = "none" =>
         fatCInfoArr[<<t, n>>] = <<>> /\ ~ hasArr[<<t, n>>] /\ Held(t, n) = {}

ArrInv == ~ misordered => \A t \in Threads, n \in Nodes : ProcInv(t, n)

VarInv ==
    ~ misordered =>
      /\ \A k \in DOMAIN rows :
           k < Len(rows) \/ loader = Nobody => rows[k].bin \in forgot \cup regHostVarsTab
      /\ loader.phase = "unload" =>
           \A k \in DOMAIN rows : k < Len(rows) => rows[k].bin \in forgot

IInv == TypeInv /\ CallInv /\ ArrInv /\ VarInv

-----------------------------------------------------------------------------
(* The arrays of the backend.                                               *)

\* arr has no entry with the handle of e.
Fresh(arr, e) == \A i \in DOMAIN arr : arr[i].handle # e.handle

\* No other entry of want has the binary of entry k.
Alone(want, k) ==
    k \in DOMAIN want /\ \A j \in DOMAIN want : j # k => want[j].bin # want[k].bin

\* other is want with e in its place k, whether want has that place or not.
Puts(want, k, e, other) ==
    /\ DOMAIN other = DOMAIN want \cup {k} /\ other[k] = e
    /\ \A j \in DOMAIN want : j # k => other[j] = want[j]

\* other is want without its entry k.
Drops(want, k, other) ==
    /\ DOMAIN other = DOMAIN want \ {k}
    /\ \A j \in DOMAIN want : j # k => other[j] = want[j]

\* The entry of a handle that is wanted is found.
LEMMA EntryFound ==
    ASSUME NEW S, NEW arr \in Seq(S), NEW want, Agrees(arr, want), NEW k \in DOMAIN want
    PROVE  LET i == g_fcia_idx(arr, want[k].handle)
           IN  i \in DOMAIN arr /\ arr[i] = want[k]
<1> DEFINE found == {i \in DOMAIN arr : arr[i].handle = want[k].handle}
           least == CHOOSE m \in found : \A j \in found : m =< j
<1>1. PICK i \in DOMAIN arr : arr[i] = want[k]
  BY DEF Agrees
<1>2. found = {i}
  BY <1>1 DEF Agrees
<1>3. g_fcia_idx(arr, want[k].handle) = IF found = {} THEN 0 ELSE least
  BY DEF g_fcia_idx
<1>4. i \in Nat
  BY LenProperties
<1>5. least = i
  <2>1. \E m \in found : \A j \in found : m =< j
    <3> HIDE DEF found
    <3> QED
      BY <1>2, <1>4
  <2>2. least \in found
    <3> HIDE DEF found
    <3> QED
      BY <2>1
  <2> HIDE DEF found, least
  <2> QED
    BY <1>2, <2>2
<1> HIDE DEF found, least
<1> QED
  BY <1>1, <1>2, <1>3, <1>5

\* A binary is registered, under a handle of its own ...
LEMMA AgreesAppend ==
    ASSUME NEW S, NEW arr \in Seq(S), NEW want, Agrees(arr, want),
           NEW e \in S, Fresh(arr, e), NEW k, k \notin DOMAIN want,
           NEW other, Puts(want, k, e, other)
    PROVE  Agrees(Append(arr, e), other)
<1> USE DEF Fresh, Puts
<1> DEFINE new == Append(arr, e)
<1>1. /\ Len(arr) \in Nat /\ DOMAIN arr = 1 .. Len(arr) /\ DOMAIN new = 1 .. Len(arr) + 1
      /\ \A i \in DOMAIN arr : i \in DOMAIN new /\ new[i] = arr[i]
      /\ new[Len(arr) + 1] = e
      /\ \A i \in DOMAIN new : i \in DOMAIN arr \/ i = Len(arr) + 1
  OBVIOUS
<1> HIDE DEF new
<1>2. \A i \in DOMAIN new : \E j \in DOMAIN other : new[i] = other[j]
  BY <1>1 DEF Agrees
<1>3. \A j \in DOMAIN other : \E i \in DOMAIN new : new[i] = other[j]
  <2> SUFFICES ASSUME NEW j \in DOMAIN other PROVE \E i \in DOMAIN new : new[i] = other[j]
    OBVIOUS
  <2>1. CASE j = k
    <3>1. Len(arr) + 1 \in DOMAIN new
      BY <1>1
    <3> QED
      BY <1>1, <2>1, <3>1
  <2>2. CASE j # k
    BY <1>1, <2>2 DEF Agrees
  <2> QED
    BY <2>1, <2>2
<1>4. \A i, j \in DOMAIN new : new[i].handle = new[j].handle => i = j
  BY <1>1 DEF Agrees
<1> QED
  BY <1>2, <1>3, <1>4 DEF Agrees, new

\* ... one of its counters is raised ...
LEMMA AgreesUpdate ==
    ASSUME NEW arr, NEW want, Agrees(arr, want), NEW k, Alone(want, k),
           NEW i \in DOMAIN arr, arr[i] = want[k], NEW e, e.handle = arr[i].handle,
           NEW other, Puts(want, k, e, other)
    PROVE  Agrees([arr EXCEPT ![i] = e], other)
<1> USE DEF Alone, Puts
<1> DEFINE new == [arr EXCEPT ![i] = e]
<1>1. DOMAIN new = DOMAIN arr /\ new[i] = e /\ \A j \in DOMAIN arr : j # i => new[j] = arr[j]
  OBVIOUS
<1> HIDE DEF new
<1>2. \A m \in DOMAIN new : \E j \in DOMAIN other : new[m] = other[j]
  <2> SUFFICES ASSUME NEW m \in DOMAIN arr, m # i PROVE \E j \in DOMAIN other : new[m] = other[j]
    BY <1>1
  <2>1. PICK j \in DOMAIN want : arr[m] = want[j]
    BY DEF Agrees
  <2>2. j # k
    BY <2>1 DEF Agrees
  <2> QED
    BY <1>1, <2>1, <2>2
<1>3. \A j \in DOMAIN other : \E m \in DOMAIN new : new[m] = other[j]
  <2> SUFFICES ASSUME NEW j \in DOMAIN want, j # k PROVE \E m \in DOMAIN new : new[m] = other[j]
    BY <1>1
  <2>1. PICK m \in DOMAIN arr : arr[m] = want[j]
    BY DEF Agrees
  <2>2. m # i
    BY <2>1
  <2> QED
    BY <1>1, <2>1, <2>2
<1>4. \A m, j \in DOMAIN new : new[m].handle = new[j].handle => m = j
  BY <1>1 DEF Agrees
<1> QED
  BY <1>2, <1>3, <1>4 DEF Agrees, new

\* ... and its entry is removed: the last one takes its place.
LEMMA AgreesRemove ==
    ASSUME NEW S, NEW arr \in Seq(S), NEW want, Agrees(arr, want), NEW k, Alone(want, k),
           NEW i \in DOMAIN arr, arr[i] = want[k], NEW other, Drops(want, k, other)
    PROVE  Agrees(RemoveFast(arr, i), other)
<1> USE DEF Alone, Drops
<1> DEFINE new == RemoveFast(arr, i)
<1>1. Len(arr) \in Nat /\ DOMAIN arr = 1 .. Len(arr) /\ i \in 1 .. Len(arr)
  OBVIOUS
<1>2. /\ DOMAIN new = 1 .. Len(arr) - 1
      /\ \A j \in 1 .. Len(arr) - 1 : new[j] = IF j = i THEN arr[Len(arr)] ELSE arr[j]
  BY DEF RemoveFast
<1> HIDE DEF new
<1> DEFINE from(j) == IF j = i THEN Len(arr) ELSE j
<1>3. ASSUME NEW j \in DOMAIN new
      PROVE  from(j) \in DOMAIN arr /\ from(j) # i /\ new[j] = arr[from(j)]
  BY <1>1, <1>2
<1>4. ASSUME NEW m \in DOMAIN arr, m # i PROVE \E j \in DOMAIN new : from(j) = m
  <2>1. CASE m = Len(arr)
    <3>1. i \in DOMAIN new
      BY <1>1, <1>2, <1>4, <2>1
    <3> QED
      BY <2>1, <3>1
  <2>2. CASE m # Len(arr)
    <3>1. m \in DOMAIN new
      BY <1>1, <1>2, <2>2
    <3> QED
      BY <1>4, <3>1
  <2> QED
    BY <2>1, <2>2
<1>5. \A j, m \in DOMAIN new : from(j) = from(m) => j = m
  BY <1>1, <1>2
<1> HIDE DEF from
<1>6. \A m \in DOMAIN new : \E j \in DOMAIN other : new[m] = other[j]
  <2> SUFFICES ASSUME NEW m \in DOMAIN new PROVE \E j \in DOMAIN other : new[m] = other[j]
    OBVIOUS
  <2>1. PICK j \in DOMAIN want : arr[from(m)] = want[j]
    BY <1>3 DEF Agrees
  <2>2. j # k
    BY <1>3, <2>1 DEF Agrees
  <2> QED
    BY <1>3, <2>1, <2>2
<1>7. \A j \in DOMAIN other : \E m \in DOMAIN new : new[m] = other[j]
  <2> SUFFICES ASSUME NEW j \in DOMAIN want, j # k PROVE \E m \in DOMAIN new : new[m] = other[j]
    OBVIOUS
  <2>1. PICK m \in DOMAIN arr : arr[m] = want[j]
    BY DEF Agrees
  <2>2. m # i
    BY <2>1
  <2>3. PICK q \in DOMAIN new : from(q) = m
    BY <1>4, <2>2
  <2> QED
    BY <1>3, <2>1, <2>3
<1>8. \A m, j \in DOMAIN new : new[m].handle = new[j].handle => m = j
  BY <1>3, <1>5 DEF Agrees
<1> QED
  BY <1>6, <1>7, <1>8 DEF Agrees, new

\* Removing keeps the kind of the entries.
LEMMA RemoveFastType ==
    ASSUME NEW S, NEW arr \in Seq(S), NEW i PROVE RemoveFast(arr, i) \in Seq(S)
<1>1. Len(arr) \in Nat /\ \A j \in 1 .. Len(arr) : arr[j] \in S
  BY LenProperties
<1>2. RemoveFast(arr, i) \in [1 .. Len(arr) - 1 -> S]
  <2>1. \A j \in 1 .. Len(arr) - 1 : j \in 1 .. Len(arr) /\ Len(arr) \in 1 .. Len(arr)
    BY <1>1
  <2> QED
    BY <1>1, <2>1 DEF RemoveFast
<1>3. \A n \in Nat : [1 .. n -> S] \subseteq Seq(S)
  OBVIOUS
<1>4. CASE Len(arr) = 0
  <2>1. 1 .. Len(arr) - 1 = 1 .. 0
    BY <1>4
  <2> QED
    BY <1>2, <1>3, <2>1
<1>5. CASE Len(arr) # 0
  BY <1>1, <1>2, <1>3, <1>5
<1> QED
  BY <1>4, <1>5

-----------------------------------------------------------------------------
(* The stack of the client.                                                 *)

\* s without its entry k.
Without(s, k) == SubSeq(s, 1, k - 1) \o SubSeq(s, k + 1, Len(s))

\* What is left when an entry is taken.
LEMMA RowTaken ==
    ASSUME NEW S, NEW s \in Seq(S), NEW k \in DOMAIN s
    PROVE  /\ Without(s, k) \in Seq(S) /\ Len(Without(s, k)) = Len(s) - 1
           /\ DOMAIN Without(s, k) = 1 .. Len(s) - 1
           /\ \A i \in 1 .. Len(s) - 1 : Without(s, k)[i] = IF i < k THEN s[i] ELSE s[i + 1]
<1>1. /\ Len(s) \in Nat /\ k \in 1 .. Len(s) /\ DOMAIN s = 1 .. Len(s)
      /\ \A i \in 1 .. Len(s) : s[i] \in S
  BY LenProperties
<1> DEFINE r == Without(s, k)
           a == SubSeq(s, 1, k - 1)
           b == SubSeq(s, k + 1, Len(s))
<1>2. a \in Seq(S) /\ Len(a) = k - 1 /\ \A i \in 1 .. k - 1 : a[i] = s[i]
  <2>1. \A i \in 1 .. k - 1 : s[i] \in S
    BY <1>1
  <2>2. /\ a \in Seq(S) /\ Len(a) = IF 1 <= k - 1 THEN (k - 1) - 1 + 1 ELSE 0
        /\ \A i \in 1 .. (k - 1) - 1 + 1 : a[i] = s[1 + i - 1]
    BY <1>1, <2>1, SubSeqProperties
  <2>3. \A i \in 1 .. k - 1 : i \in 1 .. (k - 1) - 1 + 1 /\ 1 + i - 1 = i
    BY <1>1
  <2> HIDE DEF a
  <2> QED
    BY <1>1, <2>2, <2>3
<1>3. b \in Seq(S) /\ Len(b) = Len(s) - k /\ \A i \in 1 .. Len(s) - k : b[i] = s[k + i]
  <2>1. \A i \in k + 1 .. Len(s) : s[i] \in S
    BY <1>1
  <2>2. /\ b \in Seq(S) /\ Len(b) = IF k + 1 <= Len(s) THEN Len(s) - (k + 1) + 1 ELSE 0
        /\ \A i \in 1 .. Len(s) - (k + 1) + 1 : b[i] = s[(k + 1) + i - 1]
    BY <1>1, <2>1, SubSeqProperties
  <2>3. \A i \in 1 .. Len(s) - k : i \in 1 .. Len(s) - (k + 1) + 1 /\ (k + 1) + i - 1 = k + i
    BY <1>1
  <2> HIDE DEF b
  <2> QED
    BY <1>1, <2>2, <2>3
<1>4. /\ r \in Seq(S) /\ Len(r) = Len(a) + Len(b)
      /\ \A i \in 1 .. Len(a) + Len(b) : r[i] = IF i <= Len(a) THEN a[i] ELSE b[i - Len(a)]
  <2>1. r = a \o b
    BY DEF Without
  <2> HIDE DEF a, b, r
  <2> QED
    <3>1. /\ a \o b \in Seq(S) /\ Len(a \o b) = Len(a) + Len(b)
          /\ \A i \in 1 .. Len(a) + Len(b) : (a \o b)[i] = IF i <= Len(a) THEN a[i] ELSE b[i - Len(a)]
      BY <1>2, <1>3, ConcatProperties
    <3> QED
      BY <2>1, <3>1
<1> HIDE DEF a, b, r
<1>5. Len(r) = Len(s) - 1 /\ DOMAIN r = 1 .. Len(s) - 1
  BY <1>1, <1>2, <1>3, <1>4, LenProperties
<1>6. ASSUME NEW i \in 1 .. Len(s) - 1 PROVE r[i] = IF i < k THEN s[i] ELSE s[i + 1]
  <2>1. i \in 1 .. Len(a) + Len(b)
    BY <1>1, <1>2, <1>3
  <2>2. CASE i < k
    BY <1>1, <1>2, <1>4, <2>1, <2>2
  <2>3. CASE ~ (i < k)
    <3>1. i - (k - 1) \in 1 .. Len(s) - k /\ k + (i - (k - 1)) = i + 1 /\ ~ (i <= k - 1)
      <4>1. \A n \in Nat : \A j \in 1 .. n : \A m \in 1 .. n - 1 : ~ (m < j) =>
              m - (j - 1) \in 1 .. n - j /\ j + (m - (j - 1)) = m + 1 /\ ~ (m <= j - 1)
        OBVIOUS
      <4> QED
        BY <1>1, <2>3, <4>1
    <3>2. r[i] = b[i - (k - 1)]
      BY <1>2, <1>4, <2>1, <3>1
    <3> QED
      BY <1>3, <2>3, <3>1, <3>2
  <2> QED
    BY <2>2, <2>3
<1> QED
  BY <1>4, <1>5, <1>6 DEF r

\* The stack is no higher than its array: it has each binary once.
LEMMA StackFits ==
    ASSUME rows \in Seq(Owners),
           \A j, k \in DOMAIN rows : rows[j].bin = rows[k].bin => j = k
    PROVE  Len(rows) \in 0 .. Cardinality(Bins) /\ Cardinality(Bins) \in Nat
<1>1. Len(rows) \in Nat /\ DOMAIN rows = 1 .. Len(rows)
  BY LenProperties
<1>2. \A k \in DOMAIN rows : rows[k].bin \in Bins
  <2> SUFFICES ASSUME NEW k \in DOMAIN rows PROVE rows[k].bin \in Bins
    OBVIOUS
  <2>1. rows[k] \in Owners
    BY <1>1, ElementOfSeq
  <2> QED
    BY <2>1 DEF Owners
<1> DEFINE f == [k \in 1 .. Len(rows) |-> rows[k].bin]
<1>3. f \in Injection(1 .. Len(rows), Bins)
  BY <1>1, <1>2 DEF Injection, IsInjective
<1>4. IsFiniteSet(Bins)
  BY RegistryAssumption
<1>5. Cardinality(1 .. Len(rows)) <= Cardinality(Bins)
  <2> HIDE DEF f
  <2> QED
    BY <1>3, <1>4, FS_Injection
<1>6. Cardinality(1 .. Len(rows)) = Len(rows)
  <2>1. Cardinality(1 .. Len(rows)) = IF 1 > Len(rows) THEN 0 ELSE Len(rows) - 1 + 1
    BY <1>1, FS_Interval
  <2> QED
    BY <1>1, <2>1
<1>7. Cardinality(Bins) \in Nat
  BY <1>4, FS_CardinalityType
<1> QED
  BY <1>1, <1>5, <1>6, <1>7

-----------------------------------------------------------------------------
(* How a call goes on.                                                      *)

\* The call of the loader goes on at node m, in phase p, with kernel f.
Moves(p, f, m) ==
    /\ loader' \in Busy /\ loader'.thread = loader.thread /\ loader'.bin = loader.bin
    /\ loader'.phase = p /\ loader'.fn = f /\ loader'.node = m

\* A call under way is never the idle one.
LEMMA Idle == Nobody.phase = "idle" /\ \A l \in Busy : l.phase # "idle" /\ l # Nobody
<1>1. Nobody.phase = "idle"
  BY DEF Nobody
<1>2. \A l \in Busy : l.phase # "idle"
  BY DEF Busy
<1> QED
  BY <1>1, <1>2

\* There is a first node.
LEMMA NodesKnown == NNodes \in Nat \ {0} /\ Nodes = 0 .. NNodes - 1 /\ 0 \in Nodes
  BY RegistryAssumption DEF Nodes

\* To the next node; after the last one to the next call.
LEMMA Advances ==
    ASSUME loader \in Busy, Advance,
           loader.phase = "function" => loader.fn \in 1 .. Fns[loader.bin]
    PROVE  /\ loader.node < NNodes - 1 => Moves(loader.phase, loader.fn, loader.node + 1)
           /\ ~ (loader.node < NNodes - 1) =>
                /\ loader.node = NNodes - 1
                /\ loader.phase = "binary" => Moves("function", 1, 0)
                /\ loader.phase = "function" /\ loader.fn < Fns[loader.bin] =>
                     Moves("function", loader.fn + 1, 0)
                /\ loader.phase = "function" /\ ~ (loader.fn < Fns[loader.bin]) =>
                     loader.fn = Fns[loader.bin] /\ Moves("variable", 0, 0)
                /\ loader.phase \in {"variable", "unload"} => loader' = Nobody
<1>1. /\ loader.node \in Nodes /\ loader.fn \in Nat /\ loader.bin \in Bins
      /\ loader.phase \in Phases \ {"idle"} /\ Fns[loader.bin] \in Nat
  BY RegistryAssumption DEF Busy
<1>2. ASSUME NEW p \in Phases \ {"idle"}, NEW f \in Nat, NEW m \in Nodes, NEW l,
             l = [loader EXCEPT !.phase = p, !.fn = f, !.node = m], loader' = l
      PROVE  Moves(p, f, m)
  BY <1>2 DEF Busy, Moves
<1>3. {"function", "variable"} \subseteq Phases \ {"idle"}
  BY DEF Phases
<1>4. ASSUME loader.node < NNodes - 1 PROVE Moves(loader.phase, loader.fn, loader.node + 1)
  <2>1. loader' = [loader EXCEPT !.node = @ + 1]
    BY <1>4 DEF Advance
  <2>2. loader' = [loader EXCEPT !.phase = loader.phase, !.fn = loader.fn, !.node = loader.node + 1]
    BY <2>1 DEF Busy
  <2>3. loader.node + 1 \in Nodes
    BY <1>1, <1>4, NodesKnown
  <2> QED
    BY <1>1, <1>2, <2>2, <2>3
<1>5. ASSUME ~ (loader.node < NNodes - 1)
      PROVE  /\ loader.node = NNodes - 1 /\ loader' = NextCall
  BY <1>1, <1>5, NodesKnown DEF Advance
<1>6. ASSUME loader.phase = "binary" PROVE loader' = NextCall => Moves("function", 1, 0)
  <2>1. NextCall = [loader EXCEPT !.node = 0, !.phase = "function", !.fn = 1]
    BY <1>6 DEF NextCall
  <2>2. NextCall = [loader EXCEPT !.phase = "function", !.fn = 1, !.node = 0]
    BY <2>1 DEF Busy
  <2> QED
    BY <1>2, <1>3, <2>2, NodesKnown
<1>7. ASSUME loader.phase = "function", loader.fn < Fns[loader.bin]
      PROVE  loader' = NextCall => Moves("function", loader.fn + 1, 0)
  <2>1. NextCall = [loader EXCEPT !.node = 0, !.fn = @ + 1]
    BY <1>7 DEF NextCall
  <2>2. NextCall = [loader EXCEPT !.phase = "function", !.fn = loader.fn + 1, !.node = 0]
    BY <1>7, <2>1 DEF Busy
  <2>3. loader.fn + 1 \in Nat /\ 0 \in Nodes /\ "function" \in Phases \ {"idle"}
    BY <1>1, <1>3, NodesKnown
  <2> QED
    BY <1>2, <2>2, <2>3
<1>8. ASSUME loader.phase = "function", ~ (loader.fn < Fns[loader.bin])
      PROVE  /\ loader.fn = Fns[loader.bin]
             /\ loader' = NextCall => Moves("variable", 0, 0)
  <2>1. NextCall = [loader EXCEPT !.node = 0, !.phase = "variable", !.fn = 0]
    BY <1>8 DEF NextCall
  <2>2. NextCall = [loader EXCEPT !.phase = "variable", !.fn = 0, !.node = 0]
    BY <2>1 DEF Busy
  <2>3. loader.fn = Fns[loader.bin]
    BY <1>1, <1>8
  <2> QED
    BY <1>2, <1>3, <2>2, <2>3, NodesKnown
<1>9. ASSUME loader.phase \in {"variable", "unload"} PROVE NextCall = Nobody
  BY <1>9 DEF NextCall
<1> QED
  BY <1>4, <1>5, <1>6, <1>7, <1>8, <1>9

-----------------------------------------------------------------------------
(* What a step makes of the entries that are wanted.                        *)

\* Entries stay wanted when nothing they are made of changes.
LEMMA WantedSame ==
    ASSUME NEW t, NEW n, Held(t, n)' = Held(t, n),
           \A k \in Held(t, n) :
             /\ fatcubinhandle_array'[k][n] = fatcubinhandle_array[k][n]
             /\ rows'[k].bin = rows[k].bin
             /\ FnsAt(k, n)' = FnsAt(k, n) /\ VarsAt(k, n)' = VarsAt(k, n)
    PROVE  Wanted(t, n)' = Wanted(t, n)
  BY DEF Wanted

\* A call moves on, after its step on node m by thread t0: K is the top row.
Moving ==
    /\ TypeInv /\ CallInv /\ loader \in Busy /\ Advance
    /\ ~ misordered
    /\ \/ rows' = rows /\ (loader.phase = "unload" => loader.node < NNodes - 1)
       \/ loader.phase = "unload" /\ Pop

\* The top row is the one of the call.
LEMMA TopRow ==
    ASSUME Moving
    PROVE  /\ Len(rows) \in Nat \ {0} /\ DOMAIN rows = 1 .. Len(rows)
           /\ rows[Len(rows)] = [thread |-> loader.thread, bin |-> loader.bin]
           /\ loader.node \in Nodes /\ loader.fn \in Nat /\ Fns[loader.bin] \in Nat
           /\ loader.phase \in {"binary", "function", "variable", "unload"}
           /\ loader.phase = "function" => loader.fn \in 1 .. Fns[loader.bin]
           /\ fatcubin_handle_counter = Len(rows)
           /\ Len(rows) \in 1 .. Cardinality(Bins)
<1>1. rows \in Seq(Owners) /\ loader \in Busy /\ loader # Nobody
  BY Idle DEF Moving, TypeInv
<1>2. Len(rows) \in Nat /\ DOMAIN rows = 1 .. Len(rows)
  BY <1>1, LenProperties
<1>3. Len(rows) > 0 /\ rows[Len(rows)] = [thread |-> loader.thread, bin |-> loader.bin]
  BY <1>1 DEF Moving, CallInv
<1>4. /\ loader.node \in Nodes /\ loader.fn \in Nat /\ Fns[loader.bin] \in Nat
      /\ loader.phase \in {"binary", "function", "variable", "unload"}
  BY <1>1, RegistryAssumption DEF Busy, Phases
<1>5. Len(rows) \in 0 .. Cardinality(Bins) /\ Cardinality(Bins) \in Nat
  BY StackFits DEF Moving, TypeInv
<1> QED
  BY <1>2, <1>3, <1>4, <1>5 DEF Moving, CallInv, TypeInv

\* The top row is taken off after the last node.
LEMMA Popped ==
    ASSUME Moving, rows' # rows
    PROVE  /\ loader.phase = "unload" /\ loader.node = NNodes - 1 /\ loader' = Nobody
           /\ rows' \in Seq(Owners) /\ Len(rows') = Len(rows) - 1
           /\ DOMAIN rows' = 1 .. Len(rows) - 1
           /\ \A i \in DOMAIN rows' : rows'[i] = rows[i]
<1>1. /\ Len(rows) \in Nat \ {0} /\ DOMAIN rows = 1 .. Len(rows)
      /\ rows \in Seq(Owners) /\ \A i, j \in DOMAIN rows : rows[i].bin = rows[j].bin => i = j
      /\ rows[Len(rows)] = [thread |-> loader.thread, bin |-> loader.bin]
  BY TopRow DEF Moving, TypeInv
<1>2. ~ (loader.node < NNodes - 1) /\ loader.phase = "unload"
  BY DEF Moving, Pop
<1>3. PICK j \in DOMAIN rows : rows[j].bin = loader.bin /\ rows' = Without(rows, j)
  BY <1>2 DEF Moving, Pop, Without
<1>4. j = Len(rows)
  <2>1. Len(rows) \in DOMAIN rows /\ rows[Len(rows)].bin = loader.bin
    BY <1>1
  <2> QED
    BY <1>1, <1>3, <2>1
<1>5. /\ rows' \in Seq(Owners) /\ Len(rows') = Len(rows) - 1 /\ DOMAIN rows' = 1 .. Len(rows) - 1
      /\ \A i \in DOMAIN rows' : rows'[i] = IF i < j THEN rows[i] ELSE rows[i + 1]
  BY <1>1, <1>3, RowTaken
<1>6. \A i \in DOMAIN rows' : i < j
  BY <1>1, <1>4, <1>5
<1>7. loader' = Nobody /\ loader.node = NNodes - 1
  BY <1>2, Advances DEF Moving, CallInv
<1> QED
  BY <1>2, <1>5, <1>6, <1>7

\* The last step of an unload does take a row.
LEMMA PopChanges ==
    ASSUME Moving, loader.phase = "unload", ~ (loader.node < NNodes - 1) PROVE rows' # rows
<1>1. Pop /\ rows \in Seq(Owners) /\ Len(rows) \in Nat
  BY TopRow DEF Moving, TypeInv
<1>2. PICK j \in DOMAIN rows : rows' = Without(rows, j)
  BY <1>1 DEF Pop, Without
<1>3. Len(rows') = Len(rows) - 1
  BY <1>1, <1>2, RowTaken
<1> QED
  BY <1>1, <1>3

\* The rows below the top: nothing changes.
LEMMA BelowTop ==
    ASSUME Moving, NEW n \in Nodes, NEW k \in DOMAIN rows, k < Len(rows)
    PROVE  /\ k \in DOMAIN rows' /\ rows'[k] = rows[k]
           /\ \A t : (k \in Held(t, n)' <=> k \in Held(t, n))
           /\ FnsAt(k, n)' = FnsAt(k, n) /\ VarsAt(k, n)' = VarsAt(k, n)
<1>1. Len(rows) \in Nat \ {0} /\ DOMAIN rows = 1 .. Len(rows)
  BY TopRow
<1>2. FnsAt(k, n) = Fns[rows[k].bin] /\ VarsAt(k, n) = 1
  BY DEF FnsAt, VarsAt
<1>3. CASE rows' = rows
  <2>1. FnsAt(k, n)' = Fns[rows[k].bin] /\ VarsAt(k, n)' = 1
    BY <1>3 DEF FnsAt, VarsAt
  <2>2. \A t : (k \in Held(t, n)' <=> k \in Held(t, n))
    BY <1>1, <1>3 DEF Held
  <2> QED
    BY <1>2, <1>3, <2>1, <2>2
<1>4. CASE rows' # rows
  <2>1. k \in DOMAIN rows' /\ rows'[k] = rows[k] /\ loader'.phase = "idle"
    BY <1>1, <1>4, Popped, Idle
  <2>2. FnsAt(k, n)' = Fns[rows[k].bin] /\ VarsAt(k, n)' = 1
    BY <2>1 DEF FnsAt, VarsAt
  <2>3. \A t : (k \in Held(t, n)' <=> k \in Held(t, n))
    BY <1>1, <2>1 DEF Held
  <2> QED
    BY <1>2, <2>1, <2>2, <2>3
<1> QED
  BY <1>3, <1>4

\* The top row, where the call is not: nothing changes either.
LEMMA TopElsewhere ==
    ASSUME Moving, NEW t, NEW n \in Nodes, t # loader.thread \/ n # loader.node,
           NEW k, k = Len(rows)
    PROVE  /\ k \in Held(t, n)' <=> k \in Held(t, n)
           /\ k \in Held(t, n) =>
                /\ rows'[k] = rows[k]
                /\ FnsAt(k, n)' = FnsAt(k, n) /\ VarsAt(k, n)' = VarsAt(k, n)
<1>1. /\ k \in Nat \ {0} /\ DOMAIN rows = 1 .. k /\ k \in DOMAIN rows
      /\ rows[k].thread = loader.thread /\ rows[k].bin = loader.bin
      /\ loader.node \in Nodes /\ loader.fn \in Nat /\ Fns[loader.bin] \in Nat
      /\ loader.phase \in {"binary", "function", "variable", "unload"}
      /\ loader.phase = "function" => loader.fn \in 1 .. Fns[loader.bin]
  BY TopRow
<1>2. NNodes \in Nat /\ n \in 0 .. NNodes - 1 /\ loader.node \in 0 .. NNodes - 1
  BY <1>1, NodesKnown
<1>3. CASE rows' # rows
  <2>1. k \notin Held(t, n)'
    BY <1>1, <1>3, Popped DEF Held
  <2>2. k \notin Held(t, n)
    <3>1. CASE t # loader.thread
      BY <1>1, <3>1 DEF Held
    <3>2. CASE n # loader.node
      <4>1. loader.phase = "unload" /\ ~ (n >= loader.node)
        BY <1>2, <1>3, <3>2, Popped
      <4> QED
        BY <4>1 DEF Held
    <3> QED
      BY <3>1, <3>2
  <2> QED
    BY <2>1, <2>2
<1>4. CASE rows' = rows /\ t # loader.thread
  BY <1>1, <1>4 DEF Held
<1>5. CASE rows' = rows /\ t = loader.thread
  <2>1. n # loader.node
    BY <1>5
  <2>2. /\ k \in Held(t, n) <=>
             (loader.phase = "binary" => n < loader.node)
             /\ (loader.phase = "unload" => n >= loader.node)
        /\ k \in Held(t, n)' <=>
             (loader'.phase = "binary" => n < loader'.node)
             /\ (loader'.phase = "unload" => n >= loader'.node)
    BY <1>1, <1>5 DEF Held
  <2>3. CASE loader.node < NNodes - 1
    <3>1. loader'.phase = loader.phase /\ loader'.fn = loader.fn /\ loader'.node = loader.node + 1
      BY <2>3, Advances DEF Moving, CallInv, Moves
    <3>2. (n < loader.node + 1 <=> n < loader.node) /\ (n >= loader.node + 1 <=> n >= loader.node)
      BY <1>2, <2>1
    <3>3. FnsAt(k, n)' = FnsAt(k, n)
      BY <1>5, <3>1, <3>2 DEF FnsAt
    <3>4. VarsAt(k, n)' = VarsAt(k, n)
      BY <1>5, <3>1, <3>2 DEF VarsAt
    <3> QED
      BY <1>5, <2>2, <3>1, <3>2, <3>3, <3>4
  <2>4. CASE ~ (loader.node < NNodes - 1)
    <3>1. n < loader.node /\ ~ (n < 0) /\ loader.phase # "unload" /\ ~ (k < k)
      BY <1>1, <1>2, <1>5, <2>1, <2>4, PopChanges
    <3>2. CASE loader.phase = "binary"
      <4>1. loader'.phase = "function" /\ loader'.fn = 1 /\ loader'.node = 0
        BY <2>4, <3>2, Advances, Idle DEF Moving, CallInv, Moves
      <4>2. FnsAt(k, n) = 0 /\ FnsAt(k, n)' = 0 /\ VarsAt(k, n) = 0 /\ VarsAt(k, n)' = 0
        BY <1>5, <3>1, <3>2, <4>1 DEF FnsAt, VarsAt
      <4> QED
        BY <1>5, <2>2, <3>1, <3>2, <4>1, <4>2
    <3>3. CASE loader.phase = "function" /\ loader.fn < Fns[loader.bin]
      <4>1. loader'.phase = "function" /\ loader'.fn = loader.fn + 1 /\ loader'.node = 0
        BY <2>4, <3>3, Advances, Idle DEF Moving, CallInv, Moves
      <4>2. FnsAt(k, n) = loader.fn /\ FnsAt(k, n)' = loader.fn /\ VarsAt(k, n) = 0 /\ VarsAt(k, n)' = 0
        BY <1>1, <1>5, <3>1, <3>3, <4>1 DEF FnsAt, VarsAt
      <4> QED
        BY <1>5, <2>2, <3>3, <4>1, <4>2
    <3>4. CASE loader.phase = "function" /\ ~ (loader.fn < Fns[loader.bin])
      <4>1. loader.fn = Fns[loader.bin] /\ loader'.phase = "variable" /\ loader'.node = 0
        BY <2>4, <3>4, Advances, Idle DEF Moving, CallInv, Moves
      <4>2. FnsAt(k, n) = loader.fn /\ FnsAt(k, n)' = Fns[rows[k].bin]
        BY <1>5, <3>1, <3>4, <4>1 DEF FnsAt
      <4>3. VarsAt(k, n) = 0 /\ VarsAt(k, n)' = 0
        BY <1>5, <3>1, <3>4, <4>1 DEF VarsAt
      <4> QED
        BY <1>1, <1>5, <2>2, <3>4, <4>1, <4>2, <4>3
    <3>5. CASE loader.phase = "variable"
      <4>1. loader'.phase = "idle"
        BY <2>4, <3>5, Advances, Idle DEF Moving, CallInv
      <4>2. /\ FnsAt(k, n) = Fns[rows[k].bin] /\ FnsAt(k, n)' = Fns[rows[k].bin]
            /\ VarsAt(k, n) = 1 /\ VarsAt(k, n)' = 1
        BY <1>5, <3>1, <3>5, <4>1 DEF FnsAt, VarsAt
      <4> QED
        BY <1>5, <2>2, <3>5, <4>1, <4>2
    <3> QED
      BY <1>1, <3>1, <3>2, <3>3, <3>4, <3>5
  <2> QED
    BY <2>3, <2>4
<1> QED
  BY <1>3, <1>4, <1>5

\* So all that is wanted elsewhere stays as it was.
LEMMA Elsewhere ==
    ASSUME Moving, NEW t, NEW n \in Nodes, t # loader.thread \/ n # loader.node,
           \A k \in Held(t, n) : fatcubinhandle_array'[k][n] = fatcubinhandle_array[k][n]
    PROVE  Held(t, n)' = Held(t, n) /\ Wanted(t, n)' = Wanted(t, n)
<1>1. Len(rows) \in Nat \ {0} /\ DOMAIN rows = 1 .. Len(rows) /\ DOMAIN rows' \subseteq DOMAIN rows
  <2>1. Len(rows) \in Nat \ {0} /\ DOMAIN rows = 1 .. Len(rows)
    BY TopRow
  <2>2. rows' # rows => DOMAIN rows' = 1 .. Len(rows) - 1
    BY Popped
  <2>3. \A i \in 1 .. Len(rows) - 1 : i \in 1 .. Len(rows)
    BY <2>1
  <2> QED
    BY <2>1, <2>2, <2>3
<1>2. ASSUME NEW k \in DOMAIN rows
      PROVE  /\ k \in Held(t, n)' <=> k \in Held(t, n)
             /\ k \in Held(t, n) =>
                  /\ rows'[k] = rows[k]
                  /\ FnsAt(k, n)' = FnsAt(k, n) /\ VarsAt(k, n)' = VarsAt(k, n)
  <2>1. CASE k < Len(rows)
    BY <2>1, BelowTop
  <2>2. CASE k = Len(rows)
    BY <2>2, TopElsewhere
  <2> QED
    BY <1>1, <2>1, <2>2
<1>3. Held(t, n) \subseteq DOMAIN rows /\ Held(t, n)' \subseteq DOMAIN rows'
  BY DEF Held
<1>4. Held(t, n)' = Held(t, n)
  BY <1>1, <1>2, <1>3
<1> QED
  BY <1>2, <1>3, <1>4, WantedSame

\* What is wanted has the row's binary, and there its handle.
LEMMA WantedIs ==
    ASSUME NEW t, NEW n
    PROVE  /\ DOMAIN Wanted(t, n) = Held(t, n)
           /\ \A k \in Held(t, n) :
                Wanted(t, n)[k] = [handle |-> fatcubinhandle_array[k][n], bin |-> rows[k].bin,
                                   num_reg_fns |-> FnsAt(k, n), num_reg_vars |-> VarsAt(k, n)]
  BY DEF Wanted

\* The fields of an entry that is wanted.
LEMMA WantedFields ==
    ASSUME NEW t, NEW n, NEW k \in Held(t, n)
    PROVE  /\ Wanted(t, n)[k].handle = fatcubinhandle_array[k][n]
           /\ Wanted(t, n)[k].bin = rows[k].bin
           /\ Wanted(t, n)[k].num_reg_fns = FnsAt(k, n)
           /\ Wanted(t, n)[k].num_reg_vars = VarsAt(k, n)
  BY DEF Wanted

\* The same, as a record.
LEMMA WantedRecord ==
    ASSUME NEW t, NEW n, NEW k \in Held(t, n)
    PROVE  Wanted(t, n)[k] = [handle |-> Wanted(t, n)[k].handle, bin |-> Wanted(t, n)[k].bin,
                              num_reg_fns |-> FnsAt(k, n), num_reg_vars |-> VarsAt(k, n)]
  BY DEF Wanted

\* Where the call is, the rows below the top stay as they were.
LEMMA HereBelow ==
    ASSUME Moving, NEW t, NEW n \in Nodes, NEW K, K = Len(rows),
           \A k \in DOMAIN rows : k < K => fatcubinhandle_array'[k][n] = fatcubinhandle_array[k][n]
    PROVE  /\ \A k : k # K => (k \in Held(t, n)' <=> k \in Held(t, n))
           /\ \A k \in Held(t, n) : k # K =>
                k \in Held(t, n)' /\ Wanted(t, n)'[k] = Wanted(t, n)[k]
           /\ \A k \in Held(t, n) : k # K => Wanted(t, n)[k].bin # rows[K].bin
<1>1. /\ K \in Nat \ {0} /\ DOMAIN rows = 1 .. K
      /\ \A i, j \in DOMAIN rows : rows[i].bin = rows[j].bin => i = j
  BY TopRow DEF Moving, TypeInv
<1>2. Held(t, n) \subseteq DOMAIN rows /\ Held(t, n)' \subseteq DOMAIN rows'
  BY DEF Held
<1>3. DOMAIN rows' \subseteq DOMAIN rows
  <2>1. rows' # rows => DOMAIN rows' = 1 .. K - 1
    BY Popped
  <2>2. \A i \in 1 .. K - 1 : i \in 1 .. K
    BY <1>1
  <2> QED
    BY <1>1, <2>1, <2>2
<1>4. ASSUME NEW k \in DOMAIN rows, k # K
      PROVE  /\ k < K /\ rows'[k] = rows[k] /\ (k \in Held(t, n)' <=> k \in Held(t, n))
             /\ FnsAt(k, n)' = FnsAt(k, n) /\ VarsAt(k, n)' = VarsAt(k, n)
  <2>1. k < K
    BY <1>1, <1>4
  <2> QED
    BY <2>1, BelowTop
<1>5. \A k : k # K => (k \in Held(t, n)' <=> k \in Held(t, n))
  BY <1>2, <1>3, <1>4
<1>6. ASSUME NEW k \in Held(t, n), k # K
      PROVE  /\ k \in Held(t, n)' /\ Wanted(t, n)'[k] = Wanted(t, n)[k]
             /\ Wanted(t, n)[k].bin # rows[K].bin
  <2>1. k \in Held(t, n)' /\ k \in DOMAIN rows
    BY <1>2, <1>5, <1>6
  <2>2. Wanted(t, n)'[k] = [handle |-> fatcubinhandle_array'[k][n], bin |-> rows'[k].bin,
                            num_reg_fns |-> FnsAt(k, n)', num_reg_vars |-> VarsAt(k, n)']
    BY <2>1 DEF Wanted
  <2>3. Wanted(t, n)[k] = [handle |-> fatcubinhandle_array[k][n], bin |-> rows[k].bin,
                           num_reg_fns |-> FnsAt(k, n), num_reg_vars |-> VarsAt(k, n)]
    BY WantedIs
  <2>4. K \in DOMAIN rows /\ rows[k].bin # rows[K].bin
    BY <1>1, <1>6, <2>1
  <2> QED
    BY <1>4, <1>6, <2>1, <2>2, <2>3, <2>4
<1> QED
  BY <1>5, <1>6

\* What becomes of the top row where the call is.
LEMMA HereTop ==
    ASSUME Moving, NEW t, t = loader.thread, NEW n, n = loader.node, NEW K, K = Len(rows)
    PROVE  /\ loader.phase = "binary" =>
                /\ K \notin Held(t, n) /\ K \in Held(t, n)'
                /\ rows' = rows /\ FnsAt(K, n)' = 0 /\ VarsAt(K, n)' = 0
           /\ loader.phase = "function" =>
                /\ K \in Held(t, n) /\ K \in Held(t, n)' /\ rows' = rows
                /\ FnsAt(K, n) = loader.fn - 1 /\ FnsAt(K, n)' = loader.fn
                /\ VarsAt(K, n) = 0 /\ VarsAt(K, n)' = 0
           /\ loader.phase = "variable" =>
                /\ K \in Held(t, n) /\ K \in Held(t, n)' /\ rows' = rows
                /\ FnsAt(K, n)' = FnsAt(K, n)
                /\ VarsAt(K, n) = 0 /\ VarsAt(K, n)' = 1
           /\ loader.phase = "unload" => K \in Held(t, n) /\ K \notin Held(t, n)'
<1>1. /\ K \in Nat \ {0} /\ DOMAIN rows = 1 .. K /\ K \in DOMAIN rows /\ ~ (K < K)
      /\ rows[K].thread = t /\ rows[K].bin = loader.bin
      /\ n \in Nodes /\ loader.fn \in Nat /\ Fns[loader.bin] \in Nat
      /\ loader.phase \in {"binary", "function", "variable", "unload"}
      /\ loader.phase = "function" => loader.fn \in 1 .. Fns[loader.bin]
  BY TopRow
<1>2. NNodes \in Nat /\ n \in 0 .. NNodes - 1 /\ n \in Nat
  BY <1>1, NodesKnown
<1>3. K \in Held(t, n) <=> loader.phase # "binary"
  BY <1>1, <1>2 DEF Held
<1>4. loader.phase # "unload" => rows' = rows
  BY DEF Moving
<1>5. loader.node < NNodes - 1 =>
        loader'.phase = loader.phase /\ loader'.fn = loader.fn /\ loader'.node = n + 1
  BY Advances DEF Moving, CallInv, Moves
<1>6. ~ (n < n) /\ n < n + 1 /\ ~ (n >= n + 1) /\ ~ (n < 0)
  BY <1>2
<1>7. rows' = rows =>
        (K \in Held(t, n)' <=>
           (loader'.phase = "binary" => n < loader'.node)
           /\ (loader'.phase = "unload" => n >= loader'.node))
  BY <1>1 DEF Held
<1>8. CASE loader.phase = "binary"
  <2>1. CASE loader.node < NNodes - 1
    <3>1. FnsAt(K, n)' = 0 /\ VarsAt(K, n)' = 0
      BY <1>1, <1>4, <1>5, <1>8, <2>1 DEF FnsAt, VarsAt
    <3> QED
      BY <1>3, <1>4, <1>5, <1>6, <1>7, <1>8, <2>1, <3>1
  <2>2. CASE ~ (loader.node < NNodes - 1)
    <3>1. loader'.phase = "function" /\ loader'.fn = 1 /\ loader'.node = 0
      BY <1>8, <2>2, Advances DEF Moving, CallInv, Moves
    <3>2. FnsAt(K, n)' = 0 /\ VarsAt(K, n)' = 0
      BY <1>1, <1>4, <1>6, <1>8, <3>1 DEF FnsAt, VarsAt
    <3> QED
      BY <1>3, <1>4, <1>7, <1>8, <3>1, <3>2
  <2> QED
    BY <2>1, <2>2
<1>9. CASE loader.phase = "function"
  <2>1. FnsAt(K, n) = loader.fn - 1 /\ VarsAt(K, n) = 0
    BY <1>1, <1>6, <1>9 DEF FnsAt, VarsAt
  <2>2. CASE loader.node < NNodes - 1
    <3>1. FnsAt(K, n)' = loader.fn /\ VarsAt(K, n)' = 0
      BY <1>1, <1>4, <1>5, <1>6, <1>9, <2>2 DEF FnsAt, VarsAt
    <3> QED
      BY <1>3, <1>4, <1>5, <1>7, <1>9, <2>1, <2>2, <3>1
  <2>3. CASE ~ (loader.node < NNodes - 1) /\ loader.fn < Fns[loader.bin]
    <3>1. loader'.phase = "function" /\ loader'.fn = loader.fn + 1 /\ loader'.node = 0
      BY <1>9, <2>3, Advances DEF Moving, CallInv, Moves
    <3>2. FnsAt(K, n)' = loader.fn /\ VarsAt(K, n)' = 0
      BY <1>1, <1>4, <1>6, <1>9, <3>1 DEF FnsAt, VarsAt
    <3> QED
      BY <1>3, <1>4, <1>7, <1>9, <2>1, <3>1, <3>2
  <2>4. CASE ~ (loader.node < NNodes - 1) /\ ~ (loader.fn < Fns[loader.bin])
    <3>1. loader.fn = Fns[loader.bin] /\ loader'.phase = "variable" /\ loader'.node = 0
      BY <1>9, <2>4, Advances DEF Moving, CallInv, Moves
    <3>2. FnsAt(K, n)' = loader.fn
      BY <1>1, <1>4, <1>9, <3>1 DEF FnsAt
    <3>3. VarsAt(K, n)' = 0
      BY <1>1, <1>4, <1>6, <1>9, <3>1 DEF VarsAt
    <3> QED
      BY <1>3, <1>4, <1>7, <1>9, <2>1, <3>1, <3>2, <3>3
  <2> QED
    BY <2>2, <2>3, <2>4
<1>10. CASE loader.phase = "variable"
  <2>1. FnsAt(K, n) = Fns[rows[K].bin] /\ VarsAt(K, n) = 0
    BY <1>1, <1>6, <1>10 DEF FnsAt, VarsAt
  <2>2. CASE loader.node < NNodes - 1
    <3>1. FnsAt(K, n)' = Fns[rows[K].bin] /\ VarsAt(K, n)' = 1
      BY <1>1, <1>4, <1>5, <1>6, <1>10, <2>2 DEF FnsAt, VarsAt
    <3> QED
      BY <1>3, <1>4, <1>5, <1>7, <1>10, <2>1, <2>2, <3>1
  <2>3. CASE ~ (loader.node < NNodes - 1)
    <3>1. loader'.phase = "idle"
      BY <1>10, <2>3, Advances, Idle DEF Moving, CallInv
    <3>2. FnsAt(K, n)' = Fns[rows[K].bin] /\ VarsAt(K, n)' = 1
      BY <1>1, <1>4, <1>10, <3>1 DEF FnsAt, VarsAt
    <3> QED
      BY <1>3, <1>4, <1>7, <1>10, <2>1, <3>1, <3>2
  <2> QED
    BY <2>2, <2>3
<1>11. CASE loader.phase = "unload"
  <2>1. CASE rows' = rows
    <3>1. loader.node < NNodes - 1
      BY <1>11, <2>1, PopChanges DEF Moving
    <3> QED
      BY <1>3, <1>5, <1>6, <1>7, <1>11, <2>1, <3>1
  <2>2. CASE rows' # rows
    <3>1. K \notin DOMAIN rows'
      <4>1. DOMAIN rows' = 1 .. K - 1
        BY <2>2, Popped
      <4> QED
        BY <1>1, <4>1
    <3>2. K \notin Held(t, n)'
      BY <3>1 DEF Held
    <3> QED
      BY <1>3, <1>11, <3>2
  <2> QED
    BY <2>1, <2>2
<1> QED
  BY <1>1, <1>8, <1>9, <1>10, <1>11

-----------------------------------------------------------------------------
(* Types.                                                                   *)

ClientTypes ==
    /\ fatcubinhandle_array \in [1 .. Cardinality(Bins) -> [Nodes -> Handles]]
    /\ fatcubin_handle_counter = Len(rows)
    /\ loader \in Busy \cup {Nobody}
    /\ rows \in Seq(Owners)
    /\ \A j, k \in DOMAIN rows : rows[j].bin = rows[k].bin => j = k

BackendTypes ==
    /\ server \in [Procs -> {"none", "up", "ended"}]
    /\ hasArr \in [Procs -> BOOLEAN]
    /\ fatCInfoArr \in [Procs -> Seq(Infos)]

\* The types are those of the client and those of the backends.
LEMMA TypeParts == TypeInv <=> ClientTypes /\ BackendTypes
  BY DEF TypeInv, ClientTypes, BackendTypes

\* A process ends.
LEMMA DiesTypes ==
    ASSUME BackendTypes, NEW p \in Procs, Dies(p), UNCHANGED hasArr
    PROVE  BackendTypes'
<1>1. <<>> \in Seq(Infos)
  BY EmptySeq
<1> QED
  BY <1>1 DEF Dies, BackendTypes

\* An entry takes a new value.
LEMMA EntryTypes ==
    ASSUME BackendTypes, NEW p \in Procs, NEW arr \in Seq(Infos),
           fatCInfoArr' = [fatCInfoArr EXCEPT ![p] = arr], UNCHANGED <<server, hasArr>>
    PROVE  BackendTypes'
  BY DEF BackendTypes

\* An entry has a kernel more ...
LEMMA RaisedFunctions ==
    ASSUME NEW p \in Procs, NEW i, BackendTypes,
           fatCInfoArr' = [fatCInfoArr EXCEPT ![p][i].num_reg_fns = @ + 1]
    PROVE  /\ fatCInfoArr' = [fatCInfoArr EXCEPT ![p] =
                [fatCInfoArr[p] EXCEPT ![i] = [fatCInfoArr[p][i] EXCEPT !.num_reg_fns = @ + 1]]]
           /\ [fatCInfoArr[p] EXCEPT ![i] = [fatCInfoArr[p][i] EXCEPT !.num_reg_fns = @ + 1]]
                \in Seq(Infos)
<1> DEFINE arr == fatCInfoArr[p]
           e == [arr[i] EXCEPT !.num_reg_fns = @ + 1]
<1>1. fatCInfoArr' = [fatCInfoArr EXCEPT ![p] = [arr EXCEPT ![i] = e]]
  BY DEF BackendTypes
<1>2. arr \in Seq(Infos)
  BY DEF BackendTypes
<1>3. [arr EXCEPT ![i] = e] \in Seq(Infos)
  <2>1. CASE i \in DOMAIN arr
    <3>1. i \in 1 .. Len(arr) /\ arr[i] \in Infos
      BY <1>2, <2>1, LenProperties
    <3>2. e \in Infos
      BY <3>1 DEF Infos
    <3> HIDE DEF arr, e
    <3> QED
      BY <1>2, <3>1, <3>2, ExceptSeq
  <2>2. CASE i \notin DOMAIN arr
    <3> HIDE DEF arr, e
    <3>1. [arr EXCEPT ![i] = e] = arr
      BY <1>2, <2>2, LenProperties
    <3> QED
      BY <1>2, <3>1
  <2> QED
    BY <2>1, <2>2
<1> QED
  BY <1>1, <1>3

\* ... or a variable more.
LEMMA RaisedVariables ==
    ASSUME NEW p \in Procs, NEW i, BackendTypes,
           fatCInfoArr' = [fatCInfoArr EXCEPT ![p][i].num_reg_vars = @ + 1]
    PROVE  /\ fatCInfoArr' = [fatCInfoArr EXCEPT ![p] =
                [fatCInfoArr[p] EXCEPT ![i] = [fatCInfoArr[p][i] EXCEPT !.num_reg_vars = @ + 1]]]
           /\ [fatCInfoArr[p] EXCEPT ![i] = [fatCInfoArr[p][i] EXCEPT !.num_reg_vars = @ + 1]]
                \in Seq(Infos)
<1> DEFINE arr == fatCInfoArr[p]
           e == [arr[i] EXCEPT !.num_reg_vars = @ + 1]
<1>1. fatCInfoArr' = [fatCInfoArr EXCEPT ![p] = [arr EXCEPT ![i] = e]]
  BY DEF BackendTypes
<1>2. arr \in Seq(Infos)
  BY DEF BackendTypes
<1>3. [arr EXCEPT ![i] = e] \in Seq(Infos)
  <2>1. CASE i \in DOMAIN arr
    <3>1. i \in 1 .. Len(arr) /\ arr[i] \in Infos
      BY <1>2, <2>1, LenProperties
    <3>2. e \in Infos
      BY <3>1 DEF Infos
    <3> HIDE DEF arr, e
    <3> QED
      BY <1>2, <3>1, <3>2, ExceptSeq
  <2>2. CASE i \notin DOMAIN arr
    <3> HIDE DEF arr, e
    <3>1. [arr EXCEPT ![i] = e] = arr
      BY <1>2, <2>2, LenProperties
    <3> QED
      BY <1>2, <3>1
  <2> QED
    BY <2>1, <2>2
<1> QED
  BY <1>1, <1>3

\* The process a call speaks to.
LEMMA AtKnown == ASSUME loader \in Busy PROVE At \in Procs /\ At = <<loader.thread, loader.node>>
  BY DEF Busy, At, Procs

\* What a step with the loader's lock does to the backend keeps the types.
LEMMA LoadingBackend == ASSUME TypeInv, loader \in Busy, Loading PROVE BackendTypes'
<1>1. BackendTypes /\ At \in Procs /\ loader.bin \in Bins
  BY TypeParts, AtKnown DEF Busy
<1>2. CASE RegisterFatBinary
  <2>1. PICK h \in Handles : SrvRegisterFatBinary(At, h)
    BY <1>2 DEF RegisterFatBinary
  <2> DEFINE e == [handle |-> h, bin |-> loader.bin, num_reg_fns |-> 0, num_reg_vars |-> 0]
  <2>2. e \in Infos
    BY <1>1 DEF Infos
  <2> HIDE DEF e
  <2>3. Append(fatCInfoArr[At], e) \in Seq(Infos)
    BY <1>1, <2>2 DEF BackendTypes
  <2>4. fatCInfoArr' = [fatCInfoArr EXCEPT ![At] = Append(fatCInfoArr[At], e)]
    BY <2>1 DEF SrvRegisterFatBinary, e
  <2> QED
    BY <1>1, <2>1, <2>3, <2>4 DEF SrvRegisterFatBinary, BackendTypes
<1>3. CASE r__cudaRegisterFatBinary
  BY <1>1, <1>3, DiesTypes DEF r__cudaRegisterFatBinary
<1>4. CASE RegisterFatBinaryFails
  BY <1>1, <1>4 DEF RegisterFatBinaryFails, backend, BackendTypes
<1>5. CASE RegisterFunction
  <2>1. CASE server[At] = "up"
    <3>1. PICK i : SrvRegisterFunction(At, i)
      BY <1>5, <2>1 DEF RegisterFunction
    <3>2. UNCHANGED hasArr
      BY <1>5 DEF RegisterFunction
    <3>3. \/ Dies(At)
          \/ /\ fatCInfoArr' = [fatCInfoArr EXCEPT ![At][i].num_reg_fns = @ + 1]
             /\ UNCHANGED server
      BY <3>1 DEF SrvRegisterFunction
    <3> QED
      BY <1>1, <3>2, <3>3, DiesTypes, RaisedFunctions, EntryTypes
  <2>2. CASE server[At] # "up"
    BY <1>1, <1>5, <2>2 DEF RegisterFunction, BackendTypes
  <2> QED
    BY <2>1, <2>2
<1>6. CASE RegisterVar
  <2>1. CASE server[At] = "up"
    <3>1. PICK i : SrvRegisterVar(At, i)
      BY <1>6, <2>1 DEF RegisterVar
    <3>2. UNCHANGED hasArr
      BY <1>6 DEF RegisterVar
    <3>3. \/ Dies(At)
          \/ /\ fatCInfoArr' = [fatCInfoArr EXCEPT ![At][i].num_reg_vars = @ + 1]
             /\ UNCHANGED server
      BY <3>1 DEF SrvRegisterVar
    <3> QED
      BY <1>1, <3>2, <3>3, DiesTypes, RaisedVariables, EntryTypes
  <2>2. CASE server[At] # "up"
    BY <1>1, <1>6, <2>2 DEF RegisterVar, BackendTypes
  <2> QED
    BY <2>1, <2>2
<1>7. CASE UnregisterFatBinary
  <2>1. UNCHANGED hasArr
    BY <1>7 DEF UnregisterFatBinary
  <2>2. CASE Answers(At)
    <3>1. PICK i : SrvUnregister(At, i)
      BY <1>7, <2>2 DEF UnregisterFatBinary
    <3>2. \/ Dies(At)
          \/ /\ fatCInfoArr' = [fatCInfoArr EXCEPT ![At] = RemoveFast(fatCInfoArr[At], i)]
             /\ UNCHANGED server
      BY <3>1 DEF SrvUnregister
    <3>3. RemoveFast(fatCInfoArr[At], i) \in Seq(Infos)
      BY <1>1, RemoveFastType DEF BackendTypes
    <3> QED
      BY <1>1, <2>1, <3>2, <3>3, DiesTypes, EntryTypes
  <2>3. CASE ~ Answers(At)
    BY <1>1, <1>7, <2>1, <2>3 DEF UnregisterFatBinary, BackendTypes
  <2> QED
    BY <2>2, <2>3
<1> QED
  BY <1>2, <1>3, <1>4, <1>5, <1>6, <1>7 DEF Loading

\* The step of a call advances it, and pops the stack after the last node of an
\* unload.
LEMMA LoadingSteps ==
    ASSUME Loading
    PROVE  /\ Advance /\ misordered' = misordered /\ forgot' = forgot
           /\ loader.phase \in {"binary", "function", "variable", "unload"}
           /\ loader.phase # "unload" =>
                rows' = rows /\ fatcubin_handle_counter' = fatcubin_handle_counter
           /\ loader.phase = "unload" => UnregisterFatBinary /\ Pop
           /\ \/ fatcubinhandle_array' = fatcubinhandle_array
              \/ /\ loader.phase = "binary"
                 /\ \E h \in Handles :
                      fatcubinhandle_array' =
                        [fatcubinhandle_array EXCEPT ![fatcubin_handle_counter][loader.node] = h]
<1>1. Bogus \in Handles
  <2>1. Cardinality(Bins) \in Nat
    BY RegistryAssumption, FS_CardinalityType
  <2> QED
    BY <2>1 DEF Bogus, Handles
<1>2. CASE RegisterFatBinary
  BY <1>2 DEF RegisterFatBinary
<1>3. CASE r__cudaRegisterFatBinary
  BY <1>1, <1>3 DEF r__cudaRegisterFatBinary
<1>4. CASE RegisterFatBinaryFails
  BY <1>1, <1>4 DEF RegisterFatBinaryFails
<1>5. CASE RegisterFunction
  BY <1>5 DEF RegisterFunction, client
<1>6. CASE RegisterVar
  BY <1>6 DEF RegisterVar
<1>7. CASE UnregisterFatBinary
  BY <1>7 DEF UnregisterFatBinary
<1> QED
  BY <1>2, <1>3, <1>4, <1>5, <1>6, <1>7 DEF Loading

\* A row is taken from the stack, whichever it is.
LEMMA PopTypes ==
    ASSUME ClientTypes, Pop
    PROVE  /\ fatcubin_handle_counter' = Len(rows') /\ rows' \in Seq(Owners)
           /\ \A j, k \in DOMAIN rows' : rows'[j].bin = rows'[k].bin => j = k
<1>1. /\ Len(rows) \in Nat /\ DOMAIN rows = 1 .. Len(rows) /\ rows \in Seq(Owners)
      /\ fatcubin_handle_counter = Len(rows)
      /\ \A j, k \in DOMAIN rows : rows[j].bin = rows[k].bin => j = k
  BY LenProperties DEF ClientTypes
<1>2. CASE loader.node < NNodes - 1
  BY <1>1, <1>2 DEF Pop
<1>3. CASE ~ (loader.node < NNodes - 1)
  <2>1. PICK q \in DOMAIN rows : rows[q].bin = loader.bin /\ rows' = Without(rows, q)
    BY <1>3 DEF Pop, Without
  <2>2. fatcubin_handle_counter' = fatcubin_handle_counter - 1
    BY <1>3 DEF Pop
  <2>3. /\ rows' \in Seq(Owners) /\ Len(rows') = Len(rows) - 1
        /\ DOMAIN rows' = 1 .. Len(rows) - 1
        /\ \A i \in 1 .. Len(rows) - 1 : rows'[i] = IF i < q THEN rows[i] ELSE rows[i + 1]
    <3>1. /\ Without(rows, q) \in Seq(Owners) /\ Len(Without(rows, q)) = Len(rows) - 1
          /\ DOMAIN Without(rows, q) = 1 .. Len(rows) - 1
          /\ \A i \in 1 .. Len(rows) - 1 :
               Without(rows, q)[i] = IF i < q THEN rows[i] ELSE rows[i + 1]
      <4>1. rows \in Seq(Owners)
        BY <1>1
      <4> QED
        BY <4>1, RowTaken
    <3> QED
      BY <2>1, <3>1
  <2> DEFINE from(i) == IF i < q THEN i ELSE i + 1
  <2>4. \A i \in DOMAIN rows' : from(i) \in DOMAIN rows /\ rows'[i] = rows[from(i)]
    BY <1>1, <2>3
  <2>5. \A i, j \in DOMAIN rows' : from(i) = from(j) => i = j
    <3>1. q \in Nat /\ \A i \in DOMAIN rows' : i \in Nat
      BY <1>1, <2>3
    <3> QED
      BY <3>1
  <2>6. \A i, j \in DOMAIN rows' : rows'[i].bin = rows'[j].bin => i = j
    <3> HIDE DEF from
    <3> QED
      BY <1>1, <2>4, <2>5
  <2>7. fatcubin_handle_counter' = Len(rows')
    BY <1>1, <2>2, <2>3
  <2> QED
    BY <2>3, <2>6, <2>7
<1> QED
  BY <1>2, <1>3

\* The client after the step of a call.
LEMMA LoadingClient ==
    ASSUME TypeInv, CallInv, loader \in Busy, Loading PROVE ClientTypes' /\ CallInv'
<1>1. /\ Advance /\ misordered' = misordered
      /\ loader.phase \in {"binary", "function", "variable", "unload"}
      /\ loader.phase # "unload" =>
           rows' = rows /\ fatcubin_handle_counter' = fatcubin_handle_counter
      /\ loader.phase = "unload" => Pop
  BY LoadingSteps
<1>2. ClientTypes
  BY TypeParts
<1>3. fatcubinhandle_array' \in [1 .. Cardinality(Bins) -> [Nodes -> Handles]]
  BY <1>2, LoadingSteps DEF ClientTypes
<1>4. /\ fatcubin_handle_counter' = Len(rows') /\ rows' \in Seq(Owners)
      /\ \A j, k \in DOMAIN rows' : rows'[j].bin = rows'[k].bin => j = k
  <2>1. CASE loader.phase = "unload"
    BY <1>1, <1>2, <2>1, PopTypes
  <2>2. CASE loader.phase # "unload"
    BY <1>1, <1>2, <2>2 DEF ClientTypes
  <2> QED
    BY <2>1, <2>2
<1>5. \/ /\ loader' \in Busy /\ loader'.thread = loader.thread /\ loader'.bin = loader.bin
         /\ loader'.phase = "unload" <=> loader.phase = "unload"
         /\ loader.phase = "unload" => loader.node < NNodes - 1
         /\ loader'.phase = "function" => loader'.fn \in 1 .. Fns[loader.bin]
      \/ loader' = Nobody
  <2>1. loader.phase = "function" => loader.fn \in 1 .. Fns[loader.bin]
    BY DEF CallInv
  <2>2. Fns[loader.bin] \in Nat \ {0} /\ loader.fn \in Nat
    BY RegistryAssumption DEF Busy
  <2>3. CASE loader.node < NNodes - 1
    <3>1. Moves(loader.phase, loader.fn, loader.node + 1)
      BY <1>1, <2>1, <2>3, Advances
    <3> QED
      BY <2>1, <2>3, <3>1 DEF Moves
  <2>4. CASE ~ (loader.node < NNodes - 1)
    <3>1. CASE loader.phase = "binary"
      BY <1>1, <2>1, <2>2, <2>4, <3>1, Advances DEF Moves
    <3>2. CASE loader.phase = "function" /\ loader.fn < Fns[loader.bin]
      <4>1. Moves("function", loader.fn + 1, 0)
        BY <1>1, <2>1, <2>4, <3>2, Advances
      <4>2. loader.fn + 1 \in 1 .. Fns[loader.bin]
        BY <2>2, <3>2
      <4> QED
        BY <3>2, <4>1, <4>2 DEF Moves
    <3>3. CASE loader.phase = "function" /\ ~ (loader.fn < Fns[loader.bin])
      BY <1>1, <2>1, <2>4, <3>3, Advances DEF Moves
    <3>4. CASE loader.phase \in {"variable", "unload"}
      BY <1>1, <2>1, <2>4, <3>4, Advances
    <3> QED
      BY <1>1, <3>1, <3>2, <3>3, <3>4
  <2> QED
    BY <2>3, <2>4
<1>6. ClientTypes'
  BY <1>3, <1>4, <1>5 DEF ClientTypes
<1>7. CallInv'
  <2>1. CASE loader' = Nobody
    <3>1. loader'.phase # "function"
      BY <2>1, Idle
    <3> QED
      BY <2>1, <3>1 DEF CallInv
  <2>2. CASE loader' # Nobody
    <3>1. rows' = rows
      BY <1>1, <1>5, <2>2 DEF Pop
    <3>2. loader # Nobody
      BY Idle
    <3> QED
      BY <1>1, <1>5, <2>2, <3>1, <3>2 DEF CallInv
  <2> QED
    BY <2>1, <2>2
<1> QED
  BY <1>6, <1>7

-----------------------------------------------------------------------------
(* What becomes of a process.                                               *)

\* A process that is gone is none the invariant speaks of.
LEMMA ProcDead ==
    ASSUME NEW t, NEW n, server'[<<t, n>>] = "ended" PROVE ProcInv(t, n)'
  BY DEF ProcInv

\* Nor does a process change that keeps its array and what is wanted of it.
LEMMA ProcSame ==
    ASSUME NEW t, NEW n, ProcInv(t, n),
           Held(t, n)' = Held(t, n), Wanted(t, n)' = Wanted(t, n),
           server'[<<t, n>>] = server[<<t, n>>],
           fatCInfoArr'[<<t, n>>] = fatCInfoArr[<<t, n>>], hasArr'[<<t, n>>] = hasArr[<<t, n>>]
    PROVE  ProcInv(t, n)'
  BY DEF ProcInv

\* When neither the client nor the call changes, nothing else is wanted.
LEMMA ClientRests ==
    ASSUME UNCHANGED <<client, loader>>, NEW t, NEW n
    PROVE  Held(t, n)' = Held(t, n) /\ Wanted(t, n)' = Wanted(t, n)
<1>1. /\ fatcubinhandle_array' = fatcubinhandle_array /\ rows' = rows /\ loader' = loader
  BY DEF client
<1>2. Held(t, n)' = Held(t, n)
  BY <1>1 DEF Held
<1>3. \A k : FnsAt(k, n)' = FnsAt(k, n) /\ VarsAt(k, n)' = VarsAt(k, n)
  BY <1>1 DEF FnsAt, VarsAt
<1> QED
  BY <1>1, <1>2, <1>3, WantedSame

\* A process ends, and no other changes.
LEMMA DiesKeeps ==
    ASSUME IInv, UNCHANGED <<client, loader, hasArr>>, NEW p \in Procs, Dies(p)
    PROVE  IInv'
<1>1. TypeInv'
  <2>1. ClientTypes'
    BY DEF IInv, TypeInv, ClientTypes, client
  <2>2. BackendTypes'
    BY TypeParts, DiesTypes DEF IInv
  <2> QED
    BY <2>1, <2>2 DEF TypeInv, ClientTypes, BackendTypes
<1>2. CallInv' /\ VarInv'
  BY DEF IInv, CallInv, VarInv, client
<1>3. ArrInv'
  <2> SUFFICES ASSUME ~ misordered', NEW t \in Threads, NEW n \in Nodes PROVE ProcInv(t, n)'
    BY DEF ArrInv
  <2>1. ProcInv(t, n) /\ <<t, n>> \in Procs
    BY DEF IInv, ArrInv, client, Procs
  <2>2. server \in [Procs -> {"none", "up", "ended"}] /\ fatCInfoArr \in [Procs -> Seq(Infos)]
    BY DEF IInv, TypeInv
  <2>3. CASE p = <<t, n>>
    BY <2>1, <2>2, <2>3, ProcDead DEF Dies
  <2>4. CASE p # <<t, n>>
    BY <2>1, <2>2, <2>4, ClientRests, ProcSame DEF Dies
  <2> QED
    BY <2>3, <2>4
<1> QED
  BY <1>1, <1>2, <1>3 DEF IInv

\* A call reaches a process, a new one if it is the first.
LEMMA ReachesKeeps ==
    ASSUME IInv, UNCHANGED <<client, loader, hasArr>>, NEW p \in Procs, Reaches(p)
    PROVE  IInv'
<1>1. fatCInfoArr' = fatCInfoArr
  BY DEF Reaches
<1>2. server' = server \/ (server[p] = "none" /\ server' = [server EXCEPT ![p] = "up"])
  <2>1. server = [server EXCEPT ![p] = server[p]]
    BY DEF IInv, TypeInv
  <2> QED
    BY <2>1 DEF Reaches
<1>3. TypeInv' /\ CallInv' /\ VarInv'
  BY <1>1, <1>2 DEF IInv, TypeInv, CallInv, VarInv, client
<1>4. ArrInv'
  <2> SUFFICES ASSUME ~ misordered', NEW u \in Threads, NEW m \in Nodes PROVE ProcInv(u, m)'
    BY DEF ArrInv
  <2>1. ProcInv(u, m) /\ <<u, m>> \in Procs
    BY DEF IInv, ArrInv, client, Procs
  <2>2. Held(u, m)' = Held(u, m) /\ Wanted(u, m)' = Wanted(u, m)
    BY ClientRests
  <2>3. CASE server'[<<u, m>>] = server[<<u, m>>]
    BY <1>1, <2>1, <2>2, <2>3, ProcSame
  <2>4. CASE server'[<<u, m>>] # server[<<u, m>>]
    <3>1. server[<<u, m>>] = "none" /\ server'[<<u, m>>] = "up"
      BY <1>2, <2>1, <2>4 DEF IInv, TypeInv
    <3>2. fatCInfoArr[<<u, m>>] = <<>> /\ Held(u, m) = {}
      BY <2>1, <3>1 DEF ProcInv
    <3>3. Agrees(fatCInfoArr[<<u, m>>], Wanted(u, m))
      BY <3>2, WantedIs DEF Agrees
    <3> QED
      BY <1>1, <2>2, <3>1, <3>2, <3>3 DEF ProcInv
  <2> QED
    BY <2>3, <2>4
<1> QED
  BY <1>3, <1>4 DEF IInv

\* The calls of threads that are not loading, by what they do to a process.
LEMMA UseSteps ==
    ASSUME NEW t \in Threads, NEW b \in Bins, NEW n \in Nodes, Launch(t, b, n) \/ CopySymbol(t, b, n)
    PROVE  /\ <<t, n>> \in Procs /\ UNCHANGED <<client, loader, hasArr>>
           /\ Dies(<<t, n>>) \/ Reaches(<<t, n>>) \/ UNCHANGED <<server, fatCInfoArr>>
<1>1. CASE Launch(t, b, n)
  BY <1>1 DEF Launch, Procs
<1>2. CASE CopySymbol(t, b, n)
  BY <1>2 DEF CopySymbol, Procs
<1> QED
  BY <1>1, <1>2

\* And all of them keep the invariant.
LEMMA UsesKeep ==
    ASSUME IInv, NEW t \in Threads, NEW b \in Bins, NEW n \in Nodes,
           Launch(t, b, n) \/ CopySymbol(t, b, n)
    PROVE  IInv'
<1>1. /\ <<t, n>> \in Procs /\ UNCHANGED <<client, loader, hasArr>>
      /\ Dies(<<t, n>>) \/ Reaches(<<t, n>>) \/ UNCHANGED <<server, fatCInfoArr>>
  BY UseSteps
<1>2. CASE Dies(<<t, n>>)
  BY <1>1, <1>2, DiesKeeps
<1>3. CASE Reaches(<<t, n>>)
  BY <1>1, <1>3, ReachesKeeps
<1>4. CASE UNCHANGED <<server, fatCInfoArr>>
  <2>1. TypeInv' /\ CallInv' /\ VarInv'
    BY <1>1, <1>4 DEF IInv, TypeInv, CallInv, VarInv, client
  <2>2. ArrInv'
    <3>1. \A u, m : Held(u, m)' = Held(u, m) /\ Wanted(u, m)' = Wanted(u, m)
      BY <1>1, ClientRests
    <3>2. \A u, m : ProcInv(u, m) => ProcInv(u, m)'
      BY <1>1, <1>4, <3>1 DEF ProcInv
    <3> QED
      BY <1>1, <3>2 DEF IInv, ArrInv, client
  <2> QED
    BY <2>1, <2>2 DEF IInv
<1> QED
  BY <1>1, <1>2, <1>3, <1>4

\* A process is lost.
LEMMA LoseStep == ASSUME IInv, NEW p \in Procs, Lose(p) PROVE IInv'
  BY DiesKeeps DEF Lose

-----------------------------------------------------------------------------
(* A call begins.                                                           *)

\* A load puts a row on the stack that no node has heard of yet.
LEMMA LoadStep ==
    ASSUME IInv, NEW t0 \in Threads, NEW b \in Bins, Load(t0, b) PROVE IInv'
<1> DEFINE K == Len(rows) + 1
           row == [thread |-> t0, bin |-> b]
<1>1. /\ loader = Nobody /\ \A k \in DOMAIN rows : rows[k].bin # b
      /\ fatcubin_handle_counter' = fatcubin_handle_counter + 1
      /\ rows' = Append(rows, row)
      /\ loader' = [thread |-> t0, bin |-> b, phase |-> "binary", fn |-> 0, node |-> 0]
      /\ UNCHANGED <<fatcubinhandle_array, misordered, forgot, regHostVarsTab, backend>>
  BY DEF Load, Stack
<1>2. /\ loader' \in Busy /\ loader' # Nobody /\ loader'.thread = t0 /\ loader'.bin = b
      /\ loader'.phase = "binary" /\ loader'.node = 0 /\ loader.phase = "idle"
  <2>1. "binary" \in Phases \ {"idle"} /\ 0 \in Nodes /\ loader.phase = "idle"
    BY <1>1, NodesKnown, Idle DEF Phases
  <2>2. loader' \in Busy
    BY <1>1, <2>1 DEF Busy
  <2> QED
    BY <1>1, <2>1, <2>2, Idle
<1>3. /\ Len(rows) \in Nat /\ DOMAIN rows = 1 .. Len(rows) /\ row \in Owners
      /\ rows \in Seq(Owners) /\ \A i, j \in DOMAIN rows : rows[i].bin = rows[j].bin => i = j
  BY LenProperties DEF IInv, TypeInv, Owners
<1>4. /\ rows' \in Seq(Owners) /\ Len(rows') = K /\ DOMAIN rows' = 1 .. K
      /\ \A k \in DOMAIN rows : rows'[k] = rows[k] /\ k \in DOMAIN rows' /\ k < K
      /\ rows'[K] = row /\ \A k \in DOMAIN rows' : k \in DOMAIN rows \/ k = K
  <2> HIDE DEF row
  <2> QED
    BY <1>1, <1>3
<1>5. TypeInv'
  <2>1. \A i, j \in DOMAIN rows' : rows'[i].bin = rows'[j].bin => i = j
    BY <1>1, <1>3, <1>4
  <2>2. BackendTypes'
    BY <1>1, TypeParts DEF IInv, BackendTypes, backend
  <2>3. /\ fatcubin_handle_counter' = Len(rows')
        /\ fatcubinhandle_array' \in [1 .. Cardinality(Bins) -> [Nodes -> Handles]]
    BY <1>1, <1>4 DEF IInv, TypeInv
  <2> QED
    BY <1>2, <1>4, <2>1, <2>2, <2>3 DEF TypeInv, BackendTypes
<1>6. CallInv'
  <2>1. Len(rows') > 0 /\ loader'.phase # "function"
    BY <1>2, <1>3, <1>4
  <2> QED
    BY <1>2, <1>4, <2>1 DEF CallInv
<1>7. ASSUME NEW t, NEW n \in Nodes
      PROVE  Held(t, n)' = Held(t, n) /\ Wanted(t, n)' = Wanted(t, n)
  <2>1. ~ (n < loader'.node)
    BY <1>2, NodesKnown
  <2>2. \A k : k \in Held(t, n) <=> k \in DOMAIN rows /\ rows[k].thread = t
    BY <1>2 DEF Held
  <2>3. \A k : k \in Held(t, n)' <=> k \in DOMAIN rows' /\ rows'[k].thread = t /\ k # K
    BY <1>2, <1>4, <2>1 DEF Held
  <2>4. K \notin DOMAIN rows
    BY <1>3
  <2>5. Held(t, n)' = Held(t, n)
    BY <1>4, <2>2, <2>3, <2>4
  <2>6. ASSUME NEW k \in Held(t, n)
        PROVE  /\ rows'[k].bin = rows[k].bin
               /\ FnsAt(k, n)' = FnsAt(k, n) /\ VarsAt(k, n)' = VarsAt(k, n)
    <3>1. k \in DOMAIN rows /\ k < Len(rows') /\ rows'[k] = rows[k]
      BY <1>4, <2>2, <2>6
    <3>2. FnsAt(k, n)' = Fns[rows'[k].bin] /\ VarsAt(k, n)' = 1
      BY <3>1 DEF FnsAt, VarsAt
    <3>3. FnsAt(k, n) = Fns[rows[k].bin] /\ VarsAt(k, n) = 1
      BY <1>2 DEF FnsAt, VarsAt
    <3> QED
      BY <3>1, <3>2, <3>3
  <2> QED
    BY <1>1, <2>5, <2>6, WantedSame
<1>8. ArrInv'
  <2>1. \A t, n : n \in Nodes /\ ProcInv(t, n) => ProcInv(t, n)'
    BY <1>1, <1>7 DEF ProcInv, backend
  <2> QED
    BY <1>1, <2>1 DEF IInv, ArrInv
<1>9. VarInv'
  BY <1>1, <1>2, <1>4 DEF IInv, VarInv
<1> QED
  BY <1>5, <1>6, <1>8, <1>9 DEF IInv

\* An unload in order is about the top row; one out of order ends what is claimed.
LEMMA UnloadStep ==
    ASSUME IInv, NEW t0 \in Threads, NEW b \in Bins, Unload(t0, b) PROVE IInv'
<1>1. /\ loader = Nobody
      /\ loader' = [thread |-> t0, bin |-> b, phase |-> "unload", fn |-> 0, node |-> 0]
      /\ misordered' = (misordered \/ rows[Len(rows)] # [thread |-> t0, bin |-> b])
      /\ forgot' = (forgot \cup {o.bin : o \in Stack}) \ {b}
      /\ UNCHANGED <<fatcubinhandle_array, fatcubin_handle_counter, regHostVarsTab, rows, backend>>
  BY DEF Unload
<1>2. /\ loader' \in Busy /\ loader' # Nobody /\ loader'.thread = t0 /\ loader'.bin = b
      /\ loader'.phase = "unload" /\ loader'.node = 0 /\ loader.phase = "idle"
  <2>1. "unload" \in Phases \ {"idle"} /\ 0 \in Nodes /\ loader.phase = "idle"
    BY <1>1, NodesKnown, Idle DEF Phases
  <2>2. loader' \in Busy
    BY <1>1, <2>1 DEF Busy
  <2> QED
    BY <1>1, <2>1, <2>2, Idle
<1>3. /\ Len(rows) \in Nat \ {0} /\ DOMAIN rows = 1 .. Len(rows)
      /\ \A i, j \in DOMAIN rows : rows[i].bin = rows[j].bin => i = j
  <2>1. /\ Len(rows) \in Nat /\ DOMAIN rows = 1 .. Len(rows)
        /\ \A i, j \in DOMAIN rows : rows[i].bin = rows[j].bin => i = j
    BY LenProperties DEF IInv, TypeInv
  <2>2. DOMAIN rows # {}
    BY DEF Unload, Stack
  <2> QED
    BY <2>1, <2>2
<1>4. TypeInv'
  BY <1>1, <1>2 DEF IInv, TypeInv, backend
<1>5. CallInv'
  <2>1. Len(rows') > 0 /\ loader'.phase # "function"
    BY <1>1, <1>2, <1>3
  <2>2. ~ misordered' => rows'[Len(rows')] = [thread |-> t0, bin |-> b]
    BY <1>1
  <2> QED
    BY <1>2, <2>1, <2>2 DEF CallInv
<1>6. ASSUME NEW t, NEW n \in Nodes
      PROVE  Held(t, n)' = Held(t, n) /\ Wanted(t, n)' = Wanted(t, n)
  <2>1. n >= loader'.node
    BY <1>2, NodesKnown
  <2>2. Held(t, n)' = Held(t, n)
    BY <1>1, <1>2, <2>1 DEF Held
  <2>3. \A k : FnsAt(k, n)' = FnsAt(k, n) /\ VarsAt(k, n)' = VarsAt(k, n)
    BY <1>1, <1>2 DEF FnsAt, VarsAt
  <2> QED
    BY <1>1, <2>2, <2>3, WantedSame
<1>7. ArrInv'
  <2>1. \A t, n : n \in Nodes /\ ProcInv(t, n) => ProcInv(t, n)'
    BY <1>1, <1>6 DEF ProcInv, backend
  <2> QED
    BY <1>1, <2>1 DEF IInv, ArrInv
<1>8. VarInv'
  <2> SUFFICES ASSUME ~ misordered', NEW k \in DOMAIN rows', k < Len(rows')
               PROVE  rows'[k].bin \in forgot'
    BY <1>2 DEF VarInv
  <2>1. rows[Len(rows)].bin = b /\ Len(rows) \in DOMAIN rows /\ k \in DOMAIN rows /\ k < Len(rows)
    <3>1. rows' = rows /\ rows[Len(rows)] = [thread |-> t0, bin |-> b]
      BY <1>1
    <3>2. Len(rows) \in DOMAIN rows
      BY <1>3
    <3> QED
      BY <3>1, <3>2
  <2>2. rows[k].bin # b
    BY <1>3, <2>1
  <2>3. rows[k] \in Stack
    BY <2>1 DEF Stack
  <2> QED
    BY <1>1, <2>2, <2>3
<1> QED
  BY <1>4, <1>5, <1>7, <1>8 DEF IInv

-----------------------------------------------------------------------------
(* A call goes on.                                                          *)

\* A step of a call, as long as unloads are in order.
LEMMA LoadingMoves ==
    ASSUME IInv, loader \in Busy, Loading, ~ misordered
    PROVE  Moving /\ ProcInv(loader.thread, loader.node) /\ At \in Procs
           /\ At = <<loader.thread, loader.node>> /\ BackendTypes
           /\ loader.thread \in Threads /\ loader.node \in Nodes
<1>1. /\ Advance /\ (loader.phase # "unload" => rows' = rows) /\ (loader.phase = "unload" => Pop)
  BY LoadingSteps
<1>2. Moving
  BY <1>1 DEF IInv, Moving
<1>3. loader.thread \in Threads /\ loader.node \in Nodes
  BY DEF Busy
<1>4. ProcInv(loader.thread, loader.node)
  BY <1>3 DEF IInv, ArrInv
<1> QED
  BY <1>2, <1>3, <1>4, AtKnown, TypeParts DEF IInv

\* The processes the call does not speak to.
LEMMA OthersKept ==
    ASSUME Loading, BackendTypes, At \in Procs, NEW p \in Procs, p # At
    PROVE  server'[p] = server[p] /\ fatCInfoArr'[p] = fatCInfoArr[p] /\ hasArr'[p] = hasArr[p]
<1>1. ASSUME Dies(At)
      PROVE  server'[p] = server[p] /\ fatCInfoArr'[p] = fatCInfoArr[p]
  BY <1>1 DEF Dies, BackendTypes
<1>2. CASE RegisterFatBinary
  <2>1. PICK h : SrvRegisterFatBinary(At, h)
    BY <1>2 DEF RegisterFatBinary
  <2> QED
    BY <2>1 DEF SrvRegisterFatBinary, BackendTypes
<1>3. CASE r__cudaRegisterFatBinary
  BY <1>1, <1>3 DEF r__cudaRegisterFatBinary
<1>4. CASE RegisterFatBinaryFails
  BY <1>4 DEF RegisterFatBinaryFails, backend
<1>5. CASE RegisterFunction
  <2>1. CASE server[At] = "up"
    <3>1. PICK i : SrvRegisterFunction(At, i)
      BY <1>5, <2>1 DEF RegisterFunction
    <3>2. \/ Dies(At)
          \/ /\ fatCInfoArr' = [fatCInfoArr EXCEPT ![At][i].num_reg_fns = @ + 1]
             /\ UNCHANGED server
      BY <3>1 DEF SrvRegisterFunction
    <3>3. server'[p] = server[p] /\ fatCInfoArr'[p] = fatCInfoArr[p]
      BY <1>1, <3>2 DEF BackendTypes
    <3> QED
      BY <1>5, <3>3 DEF RegisterFunction
  <2>2. CASE server[At] # "up"
    BY <1>5, <2>2 DEF RegisterFunction
  <2> QED
    BY <2>1, <2>2
<1>6. CASE RegisterVar
  <2>1. CASE server[At] = "up"
    <3>1. PICK i : SrvRegisterVar(At, i)
      BY <1>6, <2>1 DEF RegisterVar
    <3>2. \/ Dies(At)
          \/ /\ fatCInfoArr' = [fatCInfoArr EXCEPT ![At][i].num_reg_vars = @ + 1]
             /\ UNCHANGED server
      BY <3>1 DEF SrvRegisterVar
    <3>3. server'[p] = server[p] /\ fatCInfoArr'[p] = fatCInfoArr[p]
      BY <1>1, <3>2 DEF BackendTypes
    <3> QED
      BY <1>6, <3>3 DEF RegisterVar
  <2>2. CASE server[At] # "up"
    BY <1>6, <2>2 DEF RegisterVar
  <2> QED
    BY <2>1, <2>2
<1>7. CASE UnregisterFatBinary
  <2>1. CASE Answers(At)
    <3>1. PICK i : SrvUnregister(At, i)
      BY <1>7, <2>1 DEF UnregisterFatBinary
    <3>2. \/ Dies(At)
          \/ /\ fatCInfoArr' = [fatCInfoArr EXCEPT ![At] = RemoveFast(fatCInfoArr[At], i)]
             /\ UNCHANGED server
      BY <3>1 DEF SrvUnregister
    <3>3. server'[p] = server[p] /\ fatCInfoArr'[p] = fatCInfoArr[p]
      BY <1>1, <3>2 DEF BackendTypes
    <3> QED
      BY <1>7, <3>3 DEF UnregisterFatBinary
  <2>2. CASE ~ Answers(At)
    BY <1>7, <2>2 DEF UnregisterFatBinary
  <2> QED
    BY <2>1, <2>2
<1> QED
  BY <1>2, <1>3, <1>4, <1>5, <1>6, <1>7 DEF Loading

\* They keep what is wanted of them.
LEMMA LoadingElsewhere ==
    ASSUME IInv, loader \in Busy, Loading, ~ misordered,
           NEW t \in Threads, NEW n \in Nodes, t # loader.thread \/ n # loader.node
    PROVE  ProcInv(t, n)'
<1>1. /\ Moving /\ At \in Procs /\ At = <<loader.thread, loader.node>> /\ BackendTypes
      /\ loader.node \in Nodes
  BY LoadingMoves
<1>2. <<t, n>> \in Procs /\ <<t, n>> # At
  BY <1>1 DEF Procs
<1>3. server'[<<t, n>>] = server[<<t, n>>] /\ fatCInfoArr'[<<t, n>>] = fatCInfoArr[<<t, n>>]
      /\ hasArr'[<<t, n>>] = hasArr[<<t, n>>]
  BY <1>1, <1>2, OthersKept
<1>4. ASSUME NEW k \in Held(t, n)
      PROVE  fatcubinhandle_array'[k][n] = fatcubinhandle_array[k][n]
  <2> DEFINE K == fatcubin_handle_counter
             m == loader.node
             f == fatcubinhandle_array
  <2>1. CASE f' = f
    BY <2>1
  <2>2. CASE f' # f
    <3>1. loader.phase = "binary" /\ \E h \in Handles : f' = [f EXCEPT ![K][m] = h]
      BY <2>2, LoadingSteps
    <3>2. f \in [1 .. Cardinality(Bins) -> [Nodes -> Handles]]
      BY DEF IInv, TypeInv
    <3>3. K = Len(rows) /\ rows[K] = [thread |-> loader.thread, bin |-> loader.bin]
          /\ K \in 1 .. Cardinality(Bins)
      BY <1>1, TopRow
    <3>4. k # K \/ n # m
      <4>1. rows[k].thread = t
        BY DEF Held
      <4> QED
        BY <3>3, <4>1
    <3>5. k \in 1 .. Cardinality(Bins)
      <4>1. k \in DOMAIN rows /\ DOMAIN rows = 1 .. Len(rows) /\ Len(rows) \in Nat
        BY <1>1, TopRow DEF Held
      <4>2. Cardinality(Bins) \in Nat /\ Len(rows) \in 1 .. Cardinality(Bins)
        BY <1>1, TopRow, RegistryAssumption, FS_CardinalityType
      <4> QED
        BY <4>1, <4>2
    <3> HIDE DEF K, m, f
    <3>6. PICK h \in Handles : f' = [f EXCEPT ![K][m] = h]
      BY <3>1
    <3>7. f'[k][n] = f[k][n]
      BY <3>2, <3>3, <3>4, <3>5, <3>6
    <3> QED
      BY <3>7 DEF f
  <2> QED
    BY <2>1, <2>2
<1>5. Held(t, n)' = Held(t, n) /\ Wanted(t, n)' = Wanted(t, n)
  BY <1>1, <1>4, Elsewhere
<1>6. ProcInv(t, n)
  BY DEF IInv, ArrInv
<1> QED
  BY <1>3, <1>5, <1>6, ProcSame

\* The entry of the top row, which the call is about.
LEMMA TopEntry ==
    ASSUME IInv, loader \in Busy, Loading, ~ misordered,
           loader.phase # "binary", server[At] # "ended",
           NEW t, t = loader.thread, NEW n, n = loader.node, NEW K, K = Len(rows),
           NEW i, i = g_fcia_idx(fatCInfoArr[At], Top)
    PROVE  /\ server[At] = "up" /\ hasArr[At]
           /\ K \in Held(t, n) /\ Wanted(t, n)[K].handle = fatcubinhandle_array[K][n]
           /\ fatCInfoArr[At] \in Seq(Infos) /\ Agrees(fatCInfoArr[At], Wanted(t, n))
           /\ i \in DOMAIN fatCInfoArr[At] /\ i # 0 /\ fatCInfoArr[At][i] = Wanted(t, n)[K]
<1> DEFINE arr == fatCInfoArr[At]
           W == Wanted(t, n)
<1>1. /\ Moving /\ ProcInv(t, n) /\ At \in Procs /\ At = <<t, n>> /\ BackendTypes
  BY LoadingMoves
<1>2. K \in Held(t, n) /\ fatcubin_handle_counter = K
  BY <1>1, HereTop, TopRow
<1>3. server[At] = "up" /\ hasArr[At] /\ arr \in Seq(Infos) /\ Agrees(arr, W)
  <2>1. server[At] \in {"none", "up"}
    BY <1>1 DEF BackendTypes
  <2> QED
    BY <1>1, <1>2, <2>1 DEF ProcInv, BackendTypes
<1>4. K \in DOMAIN W /\ W[K].handle = fatcubinhandle_array[K][n]
  BY <1>2 DEF Wanted
<1>5. i = g_fcia_idx(arr, W[K].handle)
  BY <1>2, <1>4 DEF Top
<1> HIDE DEF arr, W
<1>6. i \in DOMAIN arr /\ arr[i] = W[K]
  BY <1>3, <1>4, <1>5, EntryFound
<1>7. i # 0
  BY <1>3, <1>6, LenProperties
<1> QED
  BY <1>2, <1>3, <1>4, <1>6, <1>7 DEF arr, W

\* A binary is registered.
LEMMA RegisterHere ==
    ASSUME IInv, loader \in Busy, RegisterFatBinary, ~ misordered,
           NEW t, t = loader.thread, NEW n, n = loader.node, NEW K, K = Len(rows)
    PROVE  ProcInv(t, n)'
<1> DEFINE arr == fatCInfoArr[At]
           W == Wanted(t, n)
           V == Wanted(t, n)'
<1>1. Loading /\ loader.phase = "binary"
  BY DEF Loading, RegisterFatBinary
<1>2. /\ Moving /\ ProcInv(t, n) /\ At \in Procs /\ At = <<t, n>> /\ BackendTypes /\ n \in Nodes
  BY <1>1, LoadingMoves
<1>3. PICK h \in Handles : /\ h \notin {arr[i].handle : i \in DOMAIN arr}
                           /\ SrvRegisterFatBinary(At, h)
                           /\ fatcubinhandle_array' =
                                [fatcubinhandle_array EXCEPT ![K][n] = h]
  <2>1. fatcubin_handle_counter = K
    BY <1>2, TopRow
  <2> QED
    BY <2>1 DEF RegisterFatBinary
<1> DEFINE e == [handle |-> h, bin |-> loader.bin, num_reg_fns |-> 0, num_reg_vars |-> 0]
<1>4. arr \in Seq(Infos) /\ Agrees(arr, W)
  <2>1. server[At] \in {"none", "up"}
    BY DEF RegisterFatBinary, Answers
  <2>2. CASE server[At] = "up"
    BY <1>2, <2>2 DEF ProcInv, BackendTypes
  <2>3. CASE server[At] = "none"
    <3>1. arr = <<>> /\ Held(t, n) = {} /\ arr \in Seq(Infos)
      BY <1>2, <2>3 DEF ProcInv, BackendTypes
    <3> QED
      BY <3>1, WantedIs DEF Agrees
  <2> QED
    BY <2>1, <2>2, <2>3
<1>5. /\ fatcubinhandle_array'[K][n] = h
      /\ \A k \in DOMAIN rows : k < K => fatcubinhandle_array'[k][n] = fatcubinhandle_array[k][n]
      /\ rows' = rows /\ rows[K].bin = loader.bin /\ K \in Nat
  <2>1. fatcubinhandle_array \in [1 .. Cardinality(Bins) -> [Nodes -> Handles]]
    BY DEF IInv, TypeInv
  <2>2. /\ K \in 1 .. Cardinality(Bins) /\ DOMAIN rows = 1 .. K /\ K \in Nat \ {0}
        /\ rows[K] = [thread |-> loader.thread, bin |-> loader.bin]
    BY <1>2, TopRow
  <2>3. rows' = rows
    BY DEF RegisterFatBinary
  <2>4. fatcubinhandle_array'[K][n] = h
    BY <1>2, <1>3, <2>1, <2>2
  <2>5. Cardinality(Bins) \in Nat
    BY RegistryAssumption, FS_CardinalityType
  <2>6. \A k \in DOMAIN rows : k < K => k \in 1 .. Cardinality(Bins) /\ k # K
    BY <2>2, <2>5
  <2>7. \A k \in DOMAIN rows : k < K => fatcubinhandle_array'[k][n] = fatcubinhandle_array[k][n]
    BY <1>3, <2>1, <2>6
  <2> QED
    BY <2>2, <2>3, <2>4, <2>7
<1>6. /\ K \notin Held(t, n) /\ K \in Held(t, n)' /\ FnsAt(K, n)' = 0 /\ VarsAt(K, n)' = 0
  BY <1>1, <1>2, HereTop
<1>7. /\ \A k : k # K => (k \in Held(t, n)' <=> k \in Held(t, n))
      /\ \A k \in Held(t, n) : k # K => k \in Held(t, n)' /\ V[k] = W[k]
  <2> HIDE DEF V, W
  <2>1. \A k \in DOMAIN rows : k < K => fatcubinhandle_array'[k][n] = fatcubinhandle_array[k][n]
    BY <1>5
  <2>2. Moving /\ n \in Nodes /\ K = Len(rows)
    BY <1>2
  <2> QED
    BY <2>1, <2>2, HereBelow DEF V, W
<1>8. /\ DOMAIN W = Held(t, n) /\ DOMAIN V = Held(t, n)' /\ V[K] = e
  <2>1. DOMAIN W = Held(t, n) /\ DOMAIN V = Held(t, n)'
    BY DEF Wanted
  <2>2. V[K] = [handle |-> fatcubinhandle_array'[K][n], bin |-> rows'[K].bin,
                num_reg_fns |-> FnsAt(K, n)', num_reg_vars |-> VarsAt(K, n)']
    BY <1>6 DEF Wanted
  <2> QED
    BY <1>5, <1>6, <2>1, <2>2
<1>9. e \in Infos /\ \A i \in DOMAIN arr : arr[i].handle # e.handle
  <2>1. loader.bin \in Bins
    BY DEF Busy
  <2> QED
    BY <1>3, <2>1 DEF Infos
<1>10. /\ fatCInfoArr' = [fatCInfoArr EXCEPT ![At] = Append(arr, e)]
       /\ server' = [server EXCEPT ![At] = "up"] /\ hasArr' = [hasArr EXCEPT ![At] = TRUE]
  BY <1>3 DEF SrvRegisterFatBinary
<1>11. /\ fatCInfoArr'[<<t, n>>] = Append(arr, e) /\ server'[<<t, n>>] = "up"
       /\ hasArr'[<<t, n>>] = TRUE
  <2> HIDE DEF e, arr
  <2> QED
    BY <1>2, <1>10 DEF BackendTypes
<1>12. Agrees(Append(arr, e), V)
  <2> HIDE DEF arr, W, V, e
  <2>1. Puts(W, K, e, V) /\ K \notin DOMAIN W
    BY <1>6, <1>7, <1>8 DEF Puts
  <2>2. Fresh(arr, e) /\ e \in Infos
    BY <1>9 DEF Fresh
  <2> QED
    BY <1>4, <2>1, <2>2, AgreesAppend
<1> QED
  BY <1>11, <1>12 DEF ProcInv

\* The arrays stay on the client's side, but for the counters of the top row.
LEMMA StackKept ==
    ASSUME IInv, loader \in Busy, Loading, ~ misordered, loader.phase # "binary",
           NEW t, t = loader.thread, NEW n, n = loader.node, NEW K, K = Len(rows)
    PROVE  /\ fatcubinhandle_array' = fatcubinhandle_array
           /\ Alone(Wanted(t, n), K)
           /\ \A k : k # K => (k \in Held(t, n)' <=> k \in Held(t, n))
           /\ \A k \in Held(t, n) : k # K => Wanted(t, n)'[k] = Wanted(t, n)[k]
           /\ Wanted(t, n)[K].handle = fatcubinhandle_array[K][n]
           /\ Wanted(t, n)[K].bin = rows[K].bin
<1>1. Moving /\ n \in Nodes
  BY LoadingMoves
<1>2. fatcubinhandle_array' = fatcubinhandle_array
  BY LoadingSteps
<1>3. K \in Held(t, n)
  BY <1>1, HereTop, TopRow
<1>4. /\ \A k : k # K => (k \in Held(t, n)' <=> k \in Held(t, n))
      /\ \A k \in Held(t, n) : k # K => Wanted(t, n)'[k] = Wanted(t, n)[k]
      /\ \A k \in Held(t, n) : k # K => Wanted(t, n)[k].bin # rows[K].bin
  BY <1>1, <1>2, HereBelow
<1>5. /\ DOMAIN Wanted(t, n) = Held(t, n) /\ Wanted(t, n)[K].bin = rows[K].bin
      /\ Wanted(t, n)[K].handle = fatcubinhandle_array[K][n]
  BY <1>3 DEF Wanted
<1>6. Alone(Wanted(t, n), K)
  BY <1>3, <1>4, <1>5 DEF Alone
<1> QED
  BY <1>2, <1>4, <1>5, <1>6

\* The top row's entry, as a record.
LEMMA TopRecord ==
    ASSUME IInv, loader \in Busy, Loading, ~ misordered, loader.phase # "binary",
           NEW t, t = loader.thread, NEW n, n = loader.node, NEW K, K = Len(rows)
    PROVE  Wanted(t, n)[K] = [handle |-> Wanted(t, n)[K].handle, bin |-> Wanted(t, n)[K].bin,
                              num_reg_fns |-> FnsAt(K, n), num_reg_vars |-> VarsAt(K, n)]
<1>1. K \in Held(t, n)
  BY LoadingMoves, HereTop, TopRow
<1> QED
  BY <1>1, WantedRecord

\* What is wanted of the top row while its call registers kernels or variables.
LEMMA TopKept ==
    ASSUME IInv, loader \in Busy, Loading, ~ misordered,
           loader.phase \in {"function", "variable"},
           NEW t, t = loader.thread, NEW n, n = loader.node, NEW K, K = Len(rows),
           NEW e,
           e = [handle |-> Wanted(t, n)[K].handle, bin |-> Wanted(t, n)[K].bin,
                num_reg_fns |-> FnsAt(K, n)', num_reg_vars |-> VarsAt(K, n)']
    PROVE  Held(t, n)' = Held(t, n) /\ Puts(Wanted(t, n), K, e, Wanted(t, n)')
<1>1. Moving
  BY LoadingMoves
<1>2. K \in Held(t, n) /\ K \in Held(t, n)' /\ rows' = rows
  BY <1>1, HereTop
<1>3. /\ fatcubinhandle_array' = fatcubinhandle_array
      /\ \A k : k # K => (k \in Held(t, n)' <=> k \in Held(t, n))
      /\ \A k \in Held(t, n) : k # K => Wanted(t, n)'[k] = Wanted(t, n)[k]
  BY StackKept
<1>4. Held(t, n)' = Held(t, n)
  <2>1. \A k : k \in Held(t, n)' <=> k \in Held(t, n)
    BY <1>2, <1>3
  <2>2. Held(t, n) \subseteq DOMAIN rows /\ Held(t, n)' \subseteq DOMAIN rows'
    BY DEF Held
  <2> QED
    BY <2>1, <2>2
<1>5. Wanted(t, n)'[K] = [handle |-> fatcubinhandle_array'[K][n], bin |-> rows'[K].bin,
                          num_reg_fns |-> FnsAt(K, n)', num_reg_vars |-> VarsAt(K, n)']
  BY <1>2 DEF Wanted
<1>6. Wanted(t, n)[K].handle = fatcubinhandle_array[K][n] /\ Wanted(t, n)[K].bin = rows[K].bin
  BY StackKept
<1>7. DOMAIN Wanted(t, n) = Held(t, n) /\ DOMAIN Wanted(t, n)' = Held(t, n)'
  BY DEF Wanted
<1>8. Wanted(t, n)'[K] = e
  BY <1>2, <1>3, <1>5, <1>6
<1> QED
  BY <1>2, <1>3, <1>4, <1>7, <1>8 DEF Puts

\* A kernel is registered.
LEMMA FunctionHere ==
    ASSUME IInv, loader \in Busy, RegisterFunction, ~ misordered,
           NEW t, t = loader.thread, NEW n, n = loader.node, NEW K, K = Len(rows)
    PROVE  ProcInv(t, n)'
<1> DEFINE arr == fatCInfoArr[At]
           W == Wanted(t, n)
           V == Wanted(t, n)'
           i == g_fcia_idx(arr, Top)
           e == [arr[i] EXCEPT !.num_reg_fns = @ + 1]
<1>1. Loading /\ loader.phase = "function" /\ hasArr' = hasArr
  BY DEF Loading, RegisterFunction
<1>2. /\ Moving /\ At \in Procs /\ At = <<t, n>> /\ BackendTypes /\ ProcInv(t, n)
  BY <1>1, LoadingMoves
<1>3. CASE server[At] = "ended"
  <2>1. server' = server
    BY <1>3 DEF RegisterFunction
  <2> QED
    BY <1>2, <1>3, <2>1, ProcDead
<1>4. CASE server[At] # "ended"
  <2>1. /\ server[At] = "up" /\ hasArr[At] /\ K \in Held(t, n)
        /\ arr \in Seq(Infos) /\ Agrees(arr, W)
        /\ i \in DOMAIN arr /\ i # 0 /\ arr[i] = W[K]
    BY <1>1, <1>4, TopEntry
  <2>2. SrvRegisterFunction(At, i)
    BY <2>1 DEF RegisterFunction
  <2>3. CASE Dies(At)
    <3>1. server'[<<t, n>>] = "ended"
      BY <1>2, <2>3 DEF Dies, BackendTypes
    <3> QED
      BY <3>1, ProcDead
  <2>4. CASE /\ fatCInfoArr' = [fatCInfoArr EXCEPT ![At][i].num_reg_fns = @ + 1]
             /\ UNCHANGED server
    <3>1. fatCInfoArr' = [fatCInfoArr EXCEPT ![At] = [arr EXCEPT ![i] = e]]
      <4> HIDE DEF i
      <4> QED
        BY <1>2, <2>4, RaisedFunctions
    <3>2. e = [handle |-> W[K].handle, bin |-> W[K].bin,
               num_reg_fns |-> FnsAt(K, n)', num_reg_vars |-> VarsAt(K, n)']
      <4>1. FnsAt(K, n) = loader.fn - 1 /\ FnsAt(K, n)' = loader.fn
            /\ VarsAt(K, n) = 0 /\ VarsAt(K, n)' = 0
        BY <1>1, <1>2, HereTop
      <4>2. W[K] = [handle |-> W[K].handle, bin |-> W[K].bin,
                    num_reg_fns |-> FnsAt(K, n), num_reg_vars |-> VarsAt(K, n)]
        BY <1>1, TopRecord
      <4>3. loader.fn \in Nat
        BY DEF Busy
      <4> HIDE DEF W, i, arr
      <4> QED
        BY <2>1, <4>1, <4>2, <4>3
    <3>3. Held(t, n)' = Held(t, n) /\ Puts(W, K, e, V)
      <4> HIDE DEF e
      <4> QED
        BY <1>1, <3>2, TopKept
    <3>4. Alone(W, K)
      BY <1>1, StackKept
    <3>5. e.handle = arr[i].handle
      <4> HIDE DEF W, i, arr
      <4> QED
        BY <2>1, <3>2
    <3>6. Agrees([arr EXCEPT ![i] = e], V)
      <4> HIDE DEF arr, W, V, i, e
      <4> QED
        BY <2>1, <3>3, <3>4, <3>5, AgreesUpdate
    <3>7. fatCInfoArr'[<<t, n>>] = [arr EXCEPT ![i] = e]
      <4> HIDE DEF i, e, arr
      <4> QED
        BY <1>2, <3>1 DEF BackendTypes
    <3> QED
      <4> HIDE DEF i, e, arr, W
      <4> QED
        BY <1>1, <1>2, <2>1, <2>4, <3>6, <3>7 DEF ProcInv
  <2> QED
    BY <2>1, <2>2, <2>3, <2>4 DEF SrvRegisterFunction
<1> QED
  BY <1>3, <1>4

\* A variable is registered.
LEMMA VarHere ==
    ASSUME IInv, loader \in Busy, RegisterVar, ~ misordered,
           NEW t, t = loader.thread, NEW n, n = loader.node, NEW K, K = Len(rows)
    PROVE  ProcInv(t, n)'
<1> DEFINE arr == fatCInfoArr[At]
           W == Wanted(t, n)
           V == Wanted(t, n)'
           i == g_fcia_idx(arr, Top)
           e == [arr[i] EXCEPT !.num_reg_vars = @ + 1]
<1>1. Loading /\ loader.phase = "variable" /\ hasArr' = hasArr
  BY DEF Loading, RegisterVar
<1>2. /\ Moving /\ At \in Procs /\ At = <<t, n>> /\ BackendTypes /\ ProcInv(t, n)
  BY <1>1, LoadingMoves
<1>3. CASE server[At] = "ended"
  <2>1. server' = server
    BY <1>3 DEF RegisterVar
  <2> QED
    BY <1>2, <1>3, <2>1, ProcDead
<1>4. CASE server[At] # "ended"
  <2>1. /\ server[At] = "up" /\ hasArr[At] /\ K \in Held(t, n)
        /\ arr \in Seq(Infos) /\ Agrees(arr, W)
        /\ i \in DOMAIN arr /\ i # 0 /\ arr[i] = W[K]
    BY <1>1, <1>4, TopEntry
  <2>2. SrvRegisterVar(At, i)
    BY <2>1 DEF RegisterVar
  <2>3. CASE Dies(At)
    <3>1. server'[<<t, n>>] = "ended"
      BY <1>2, <2>3 DEF Dies, BackendTypes
    <3> QED
      BY <3>1, ProcDead
  <2>4. CASE /\ fatCInfoArr' = [fatCInfoArr EXCEPT ![At][i].num_reg_vars = @ + 1]
             /\ UNCHANGED server
    <3>1. fatCInfoArr' = [fatCInfoArr EXCEPT ![At] = [arr EXCEPT ![i] = e]]
      <4> HIDE DEF i
      <4> QED
        BY <1>2, <2>4, RaisedVariables
    <3>2. e = [handle |-> W[K].handle, bin |-> W[K].bin,
               num_reg_fns |-> FnsAt(K, n)', num_reg_vars |-> VarsAt(K, n)']
      <4>1. FnsAt(K, n)' = FnsAt(K, n)
            /\ VarsAt(K, n) = 0 /\ VarsAt(K, n)' = 1
        BY <1>1, <1>2, HereTop
      <4>2. W[K] = [handle |-> W[K].handle, bin |-> W[K].bin,
                    num_reg_fns |-> FnsAt(K, n), num_reg_vars |-> VarsAt(K, n)]
        BY <1>1, TopRecord
      <4> HIDE DEF W, i, arr
      <4> QED
        BY <2>1, <4>1, <4>2
    <3>3. Held(t, n)' = Held(t, n) /\ Puts(W, K, e, V)
      <4> HIDE DEF e
      <4> QED
        BY <1>1, <3>2, TopKept
    <3>4. Alone(W, K)
      BY <1>1, StackKept
    <3>5. e.handle = arr[i].handle
      <4> HIDE DEF W, i, arr
      <4> QED
        BY <2>1, <3>2
    <3>6. Agrees([arr EXCEPT ![i] = e], V)
      <4> HIDE DEF arr, W, V, i, e
      <4> QED
        BY <2>1, <3>3, <3>4, <3>5, AgreesUpdate
    <3>7. fatCInfoArr'[<<t, n>>] = [arr EXCEPT ![i] = e]
      <4> HIDE DEF i, e, arr
      <4> QED
        BY <1>2, <3>1 DEF BackendTypes
    <3> QED
      <4> HIDE DEF i, e, arr, W
      <4> QED
        BY <1>1, <1>2, <2>1, <2>4, <3>6, <3>7 DEF ProcInv
  <2> QED
    BY <2>1, <2>2, <2>3, <2>4 DEF SrvRegisterVar
<1> QED
  BY <1>3, <1>4

\* A binary is unregistered: the process removes its entry, or dies of it.
LEMMA UnregisterHere ==
    ASSUME IInv, loader \in Busy, UnregisterFatBinary, ~ misordered,
           NEW t, t = loader.thread, NEW n, n = loader.node, NEW K, K = Len(rows)
    PROVE  ProcInv(t, n)'
<1> DEFINE arr == fatCInfoArr[At]
           W == Wanted(t, n)
           V == Wanted(t, n)'
           i == g_fcia_idx(arr, Top)
<1>1. Loading /\ loader.phase = "unload" /\ hasArr' = hasArr
  BY DEF Loading, UnregisterFatBinary
<1>2. /\ Moving /\ At \in Procs /\ At = <<t, n>> /\ BackendTypes /\ ProcInv(t, n)
  BY <1>1, LoadingMoves
<1>3. CASE server[At] = "ended"
  <2>1. ~ Answers(At)
    BY <1>3 DEF Answers
  <2>2. server' = server
    BY <2>1 DEF UnregisterFatBinary
  <2> QED
    BY <1>2, <1>3, <2>2, ProcDead
<1>4. CASE server[At] # "ended"
  <2>1. /\ server[At] = "up" /\ hasArr[At] /\ K \in Held(t, n)
        /\ arr \in Seq(Infos) /\ Agrees(arr, W)
        /\ i \in DOMAIN arr /\ i # 0 /\ arr[i] = W[K]
    BY <1>1, <1>4, TopEntry
  <2>2. SrvUnregister(At, i)
    BY <2>1 DEF UnregisterFatBinary, Answers
  <2>3. CASE Dies(At)
    <3>1. server'[<<t, n>>] = "ended"
      BY <1>2, <2>3 DEF Dies, BackendTypes
    <3> QED
      BY <3>1, ProcDead
  <2>4. CASE /\ fatCInfoArr' = [fatCInfoArr EXCEPT ![At] = RemoveFast(@, i)]
             /\ UNCHANGED server
    <3>1. fatCInfoArr'[<<t, n>>] = RemoveFast(arr, i)
      <4> HIDE DEF i
      <4> QED
        BY <1>2, <2>4 DEF BackendTypes
    <3>2. K \notin Held(t, n)'
      BY <1>1, <1>2, HereTop
    <3>3. /\ Alone(W, K) /\ \A k : k # K => (k \in Held(t, n)' <=> k \in Held(t, n))
          /\ \A k \in Held(t, n) : k # K => V[k] = W[k]
      BY <1>1, StackKept
    <3>4. \A k : k \in Held(t, n)' <=> k \in Held(t, n) \ {K}
      BY <2>1, <3>2, <3>3
    <3>5. DOMAIN W = Held(t, n) /\ DOMAIN V = Held(t, n)' /\ Held(t, n)' = Held(t, n) \ {K}
      <4>1. Held(t, n) \subseteq DOMAIN rows /\ Held(t, n)' \subseteq DOMAIN rows'
        BY DEF Held
      <4>2. Held(t, n)' = Held(t, n) \ {K}
        BY <3>4, <4>1
      <4> QED
        BY <4>2 DEF Wanted
    <3>6. Drops(W, K, V)
      <4> HIDE DEF W, V
      <4> QED
        BY <3>3, <3>5 DEF Drops
    <3>7. Agrees(RemoveFast(arr, i), V)
      <4> HIDE DEF arr, W, V, i
      <4> QED
        BY <2>1, <3>3, <3>6, AgreesRemove
    <3> QED
      <4> HIDE DEF i, arr, W
      <4> QED
        BY <1>1, <1>2, <2>1, <2>4, <3>1, <3>7 DEF ProcInv
  <2> QED
    BY <2>1, <2>2, <2>3, <2>4 DEF SrvUnregister
<1> QED
  BY <1>3, <1>4

\* So the arrays agree after the step of a call ...
LEMMA LoadingArrays == ASSUME IInv, loader \in Busy, Loading PROVE ArrInv'
<1> SUFFICES ASSUME ~ misordered', NEW t \in Threads, NEW n \in Nodes PROVE ProcInv(t, n)'
  BY DEF ArrInv
<1>1. ~ misordered
  BY LoadingSteps
<1>2. CASE t # loader.thread \/ n # loader.node
  BY <1>1, <1>2, LoadingElsewhere
<1>3. CASE t = loader.thread /\ n = loader.node
  <2>1. PICK K : K = Len(rows)
    OBVIOUS
  <2>2. /\ At = <<t, n>> /\ <<t, n>> \in Procs /\ BackendTypes
    BY <1>1, <1>3, LoadingMoves
  <2>3. CASE RegisterFatBinary
    BY <1>1, <1>3, <2>1, <2>3, RegisterHere
  <2>4. CASE r__cudaRegisterFatBinary
    <3>1. server'[<<t, n>>] = "ended"
      BY <2>2, <2>4 DEF r__cudaRegisterFatBinary, Dies, BackendTypes
    <3> QED
      BY <3>1, ProcDead
  <2>5. CASE RegisterFatBinaryFails
    <3>1. server'[<<t, n>>] = server[<<t, n>>] /\ server[<<t, n>>] \notin {"none", "up"}
      BY <2>2, <2>5 DEF RegisterFatBinaryFails, Answers, backend
    <3>2. server'[<<t, n>>] = "ended"
      BY <2>2, <3>1 DEF BackendTypes
    <3> QED
      BY <3>2, ProcDead
  <2>6. CASE RegisterFunction
    BY <1>1, <1>3, <2>1, <2>6, FunctionHere
  <2>7. CASE RegisterVar
    BY <1>1, <1>3, <2>1, <2>7, VarHere
  <2>8. CASE UnregisterFatBinary
    BY <1>1, <1>3, <2>1, <2>8, UnregisterHere
  <2> QED
    BY <2>3, <2>4, <2>5, <2>6, <2>7, <2>8 DEF Loading
<1> QED
  BY <1>2, <1>3

\* ... and the table of the client has every variable, or has been emptied since.
LEMMA LoadingVariables == ASSUME IInv, loader \in Busy, Loading PROVE VarInv'
<1> SUFFICES ASSUME ~ misordered' PROVE VarInv'
  BY DEF VarInv
<1>1. /\ ~ misordered /\ forgot' = forgot
      /\ loader.phase \in {"binary", "function", "variable", "unload"}
  BY LoadingSteps
<1>2. Moving /\ VarInv
  BY <1>1, LoadingMoves DEF IInv
<1>3. /\ Len(rows) \in Nat \ {0} /\ DOMAIN rows = 1 .. Len(rows)
      /\ rows[Len(rows)].bin = loader.bin
      /\ loader # Nobody
  BY <1>2, TopRow, Idle
<1>4. \/ loader' = Nobody
      \/ /\ loader' # Nobody /\ rows' = rows
         /\ loader'.phase = "unload" <=> loader.phase = "unload"
  <2>1. CASE loader.node < NNodes - 1
    <3>1. Moves(loader.phase, loader.fn, loader.node + 1)
      BY <1>2, <2>1, Advances DEF Moving, CallInv
    <3>2. rows' = rows
      BY <1>2, <2>1 DEF Moving, Pop
    <3> QED
      BY <3>1, <3>2, Idle DEF Moves
  <2>2. CASE ~ (loader.node < NNodes - 1)
    <3>1. loader.phase # "unload" => rows' = rows
      BY <1>2 DEF Moving
    <3>2. CASE loader.phase = "binary"
      BY <1>2, <2>2, <3>1, <3>2, Advances, Idle DEF Moving, CallInv, Moves
    <3>3. CASE loader.phase = "function" /\ loader.fn < Fns[loader.bin]
      BY <1>2, <2>2, <3>1, <3>3, Advances, Idle DEF Moving, CallInv, Moves
    <3>4. CASE loader.phase = "function" /\ ~ (loader.fn < Fns[loader.bin])
      BY <1>2, <2>2, <3>1, <3>4, Advances, Idle DEF Moving, CallInv, Moves
    <3>5. CASE loader.phase \in {"variable", "unload"}
      BY <1>2, <2>2, <3>5, Advances DEF Moving, CallInv
    <3> QED
      BY <1>1, <3>2, <3>3, <3>4, <3>5
  <2> QED
    BY <2>1, <2>2
<1>5. CASE loader.phase = "unload"
  <2>1. \A k \in DOMAIN rows : k < Len(rows) => rows[k].bin \in forgot
    BY <1>1, <1>2, <1>5 DEF VarInv
  <2>2. CASE rows' = rows
    <3>1. loader.node < NNodes - 1
      BY <1>2, <1>5, <2>2, PopChanges
    <3>2. loader' # Nobody
      <4>1. Moves(loader.phase, loader.fn, loader.node + 1)
        BY <1>2, <3>1, Advances DEF Moving, CallInv
      <4> QED
        BY <4>1, Idle DEF Moves
    <3> QED
      BY <1>1, <2>1, <2>2, <3>2 DEF VarInv
  <2>3. CASE rows' # rows
    <3>1. /\ DOMAIN rows' = 1 .. Len(rows) - 1 /\ \A k \in DOMAIN rows' : rows'[k] = rows[k]
          /\ loader'.phase # "unload"
      BY <1>2, <2>3, Popped, Idle
    <3>2. \A k \in DOMAIN rows' : k \in DOMAIN rows /\ k < Len(rows)
      BY <1>3, <3>1
    <3> QED
      BY <1>1, <2>1, <3>1, <3>2 DEF VarInv
  <2> QED
    BY <2>2, <2>3
<1>6. CASE loader.phase # "unload"
  <2>1. rows' = rows /\ loader'.phase # "unload"
    BY <1>2, <1>4, <1>6, Idle DEF Moving
  <2>2. \A k \in DOMAIN rows : k < Len(rows) => rows[k].bin \in forgot \cup regHostVarsTab
    BY <1>1, <1>2 DEF VarInv
  <2>3. CASE loader.phase = "variable"
    <3>1. regHostVarsTab' = regHostVarsTab \cup {loader.bin}
      BY <1>6, <2>3 DEF Loading, RegisterFatBinary, r__cudaRegisterFatBinary,
                        RegisterFatBinaryFails, RegisterFunction, RegisterVar,
                        UnregisterFatBinary, g_vars_insert
    <3>2. \A k \in DOMAIN rows : rows[k].bin \in forgot \cup regHostVarsTab'
      <4>1. \A k \in DOMAIN rows : k < Len(rows) \/ k = Len(rows)
        BY <1>3
      <4> QED
        BY <1>3, <2>2, <3>1, <4>1
    <3> QED
      BY <1>1, <2>1, <3>2 DEF VarInv
  <2>4. CASE loader.phase # "variable"
    <3>1. regHostVarsTab' = regHostVarsTab
      BY <1>6, <2>4 DEF Loading, RegisterFatBinary, r__cudaRegisterFatBinary,
                        RegisterFatBinaryFails, RegisterFunction, RegisterVar,
                        UnregisterFatBinary, client
    <3>2. loader' # Nobody
      <4>1. loader.phase \in {"binary", "function"}
        BY <1>1, <1>6, <2>4
      <4>2. \E q, f, m : Moves(q, f, m)
        BY <1>2, <4>1, Advances DEF Moving, CallInv
      <4> QED
        BY <4>2, Idle DEF Moves
    <3> QED
      BY <1>1, <2>1, <2>2, <3>1, <3>2 DEF VarInv
  <2> QED
    BY <2>3, <2>4
<1> QED
  BY <1>5, <1>6

-----------------------------------------------------------------------------
(* The invariant.                                                           *)

\* It holds initially ...
LEMMA InitInv == ASSUME Init PROVE IInv
<1>1. /\ loader = Nobody /\ rows = <<>> /\ loader.phase = "idle"
  BY Idle DEF Init
<1>2. DOMAIN rows = {} /\ Len(rows) = 0 /\ rows \in Seq(Owners)
  BY <1>1
<1>3. TypeInv
  <2>1. Bogus \in Handles
    <3>1. Cardinality(Bins) \in Nat
      BY RegistryAssumption, FS_CardinalityType
    <3> QED
      BY <3>1 DEF Bogus, Handles
  <2>2. fatCInfoArr \in [Procs -> Seq(Infos)]
    BY EmptySeq DEF Init
  <2>3. fatcubinhandle_array \in [1 .. Cardinality(Bins) -> [Nodes -> Handles]]
    BY <2>1 DEF Init
  <2> QED
    BY <1>1, <1>2, <2>2, <2>3 DEF Init, TypeInv
<1>4. CallInv /\ VarInv
  BY <1>1, <1>2 DEF CallInv, VarInv
<1>5. ArrInv
  <2>1. \A t, n : Held(t, n) = {}
    BY <1>2 DEF Held
  <2>2. ASSUME NEW t \in Threads, NEW n \in Nodes PROVE ProcInv(t, n)
    <3>1. /\ <<t, n>> \in Procs
      BY DEF Procs
    <3>2. server[<<t, n>>] = "none" /\ fatCInfoArr[<<t, n>>] = <<>> /\ ~ hasArr[<<t, n>>]
      BY <3>1 DEF Init
    <3> QED
      BY <2>1, <3>2 DEF ProcInv
  <2> QED
    BY <2>2 DEF ArrInv
<1> QED
  BY <1>3, <1>4, <1>5 DEF IInv

\* ... and every step keeps it.
LEMMA NextInv == ASSUME IInv, [Next]_vars PROVE IInv'
<1>1. ASSUME NEW t \in Threads, NEW b \in Bins, Load(t, b) PROVE IInv'
  BY <1>1, LoadStep
<1>2. ASSUME NEW t \in Threads, NEW b \in Bins, Unload(t, b) PROVE IInv'
  BY <1>2, UnloadStep
<1>3. CASE Loading
  <2>1. loader \in Busy
    <3>1. loader \in Busy \cup {Nobody}
      BY DEF IInv, TypeInv
    <3>2. loader.phase \in {"binary", "function", "variable", "unload"}
      BY <1>3, LoadingSteps
    <3> QED
      BY <3>1, <3>2, Idle
  <2>2. ClientTypes' /\ CallInv'
    BY <1>3, <2>1, LoadingClient DEF IInv
  <2>3. BackendTypes'
    BY <1>3, <2>1, LoadingBackend DEF IInv
  <2>4. TypeInv'
    BY <2>2, <2>3 DEF TypeInv, ClientTypes, BackendTypes
  <2>5. ArrInv' /\ VarInv'
    BY <1>3, <2>1, LoadingArrays, LoadingVariables
  <2> QED
    BY <2>2, <2>4, <2>5 DEF IInv
<1>4. ASSUME NEW t \in Threads, NEW b \in Bins, NEW n \in Nodes, Launch(t, b, n) PROVE IInv'
  BY <1>4, UsesKeep
<1>5. ASSUME NEW t \in Threads, NEW b \in Bins, NEW n \in Nodes, CopySymbol(t, b, n) PROVE IInv'
  BY <1>5, UsesKeep
<1>6. ASSUME NEW p \in Procs, Lose(p) PROVE IInv'
  BY <1>6, LoseStep
<1>7. CASE UNCHANGED vars
  <2>1. TypeInv' /\ CallInv' /\ VarInv'
    BY <1>7 DEF IInv, TypeInv, CallInv, VarInv, vars, client, backend
  <2>2. \A t, n : Held(t, n)' = Held(t, n) /\ Wanted(t, n)' = Wanted(t, n)
    BY <1>7, ClientRests DEF vars
  <2>3. \A t, n : ProcInv(t, n) => ProcInv(t, n)'
    BY <1>7, <2>2 DEF ProcInv, vars, backend
  <2>4. ArrInv'
    BY <1>7, <2>3 DEF IInv, ArrInv, vars, client
  <2> QED
    BY <2>1, <2>4 DEF IInv
<1> QED
  BY <1>1, <1>2, <1>3, <1>4, <1>5, <1>6, <1>7 DEF Next, Finished

(* The inductive invariant holds in every state of the specification.      *)
THEOREM RegistryInvariant == Spec => []IInv
<1>1. Init => IInv
  BY InitInv
<1>2. IInv /\ [Next]_vars => IInv'
  BY NextInv
<1> QED
  BY <1>1, <1>2, PTL DEF Spec

-----------------------------------------------------------------------------
(* What the invariant is for.                                               *)

\* A row of which no call is under way: every node that answers has it complete.
LEMMA Settled ==
    ASSUME IInv, ~ misordered, NEW k \in DOMAIN rows,
           rows[k].bin # loader.bin \/ loader = Nobody, NEW n \in Nodes
    PROVE  /\ k \in Held(rows[k].thread, n)
           /\ FnsAt(k, n) = Fns[rows[k].bin] /\ VarsAt(k, n) = 1
           /\ k < Len(rows) \/ loader = Nobody
<1>1. DOMAIN rows = 1 .. Len(rows) /\ Len(rows) \in Nat
  BY LenProperties DEF IInv, TypeInv
<1>2. k < Len(rows) \/ loader = Nobody
  <2> SUFFICES ASSUME loader # Nobody PROVE k < Len(rows)
    OBVIOUS
  <2>1. rows[Len(rows)].bin = loader.bin
    BY DEF IInv, CallInv
  <2> QED
    BY <1>1, <2>1
<1>3. k < Len(rows) \/ loader.phase = "idle"
  BY <1>2, Idle
<1>4. k \in Held(rows[k].thread, n)
  BY <1>1, <1>3 DEF Held
<1>5. FnsAt(k, n) = Fns[rows[k].bin] /\ VarsAt(k, n) = 1
  BY <1>3 DEF FnsAt, VarsAt
<1> QED
  BY <1>2, <1>4, <1>5

\* Outside calls every row is complete at every node: stack and arrays agree.
LEMMA AgreesRegistries == ASSUME IInv PROVE RegistriesAgree
<1> SUFFICES ASSUME ~ misordered, loader = Nobody, NEW t \in Threads, NEW n \in Nodes,
                    server[<<t, n>>] = "up"
             PROVE  LET arr == fatCInfoArr[<<t, n>>] IN
                    /\ {arr[i].bin : i \in DOMAIN arr}
                         = {o.bin : o \in {o \in Stack : o.thread = t}}
                    /\ \A k \in DOMAIN rows : rows[k].thread = t =>
                         \E i \in DOMAIN arr :
                           /\ arr[i].handle = fatcubinhandle_array[k][n]
                           /\ [bin |-> arr[i].bin, num_reg_fns |-> arr[i].num_reg_fns,
                               num_reg_vars |-> arr[i].num_reg_vars] = Complete(rows[k].bin)
  BY DEF RegistriesAgree
<1> DEFINE arr == fatCInfoArr[<<t, n>>]
<1>1. Agrees(arr, Wanted(t, n))
  BY DEF IInv, ArrInv, ProcInv
<1>2. ASSUME NEW k \in Held(t, n)
      PROVE  /\ k \in DOMAIN rows /\ rows[k].thread = t
             /\ Wanted(t, n)[k].bin = rows[k].bin
             /\ Wanted(t, n)[k].handle = fatcubinhandle_array[k][n]
             /\ Wanted(t, n)[k].num_reg_fns = Fns[rows[k].bin]
             /\ Wanted(t, n)[k].num_reg_vars = 1
  <2>1. k \in DOMAIN rows /\ rows[k].thread = t
    BY DEF Held
  <2>2. FnsAt(k, n) = Fns[rows[k].bin] /\ VarsAt(k, n) = 1
    BY <2>1, Settled
  <2> QED
    BY <2>1, <2>2, WantedFields
<1>3. \A k \in DOMAIN rows : rows[k].thread = t => k \in Held(t, n)
  BY Settled
<1>4. DOMAIN Wanted(t, n) = Held(t, n)
  BY WantedIs
<1> HIDE DEF arr
<1>5. \A i \in DOMAIN arr : \E k \in Held(t, n) : arr[i] = Wanted(t, n)[k]
  BY <1>1, <1>4 DEF Agrees
<1>6. \A k \in Held(t, n) : \E i \in DOMAIN arr : arr[i] = Wanted(t, n)[k]
  BY <1>1, <1>4 DEF Agrees
<1>7. {arr[i].bin : i \in DOMAIN arr} = {o.bin : o \in {o \in Stack : o.thread = t}}
  <2>1. ASSUME NEW i \in DOMAIN arr
        PROVE  \E o \in {o \in Stack : o.thread = t} : arr[i].bin = o.bin
    <3>1. PICK k \in Held(t, n) : arr[i] = Wanted(t, n)[k]
      BY <1>5
    <3>2. rows[k] \in Stack /\ rows[k].thread = t /\ arr[i].bin = rows[k].bin
      BY <1>2, <3>1 DEF Stack
    <3> QED
      BY <3>2
  <2>2. ASSUME NEW o \in Stack, o.thread = t PROVE \E i \in DOMAIN arr : arr[i].bin = o.bin
    <3>1. PICK k \in DOMAIN rows : o = rows[k]
      BY DEF Stack
    <3>2. k \in Held(t, n)
      BY <1>3, <2>2, <3>1
    <3>3. PICK i \in DOMAIN arr : arr[i] = Wanted(t, n)[k]
      BY <1>6, <3>2
    <3> QED
      BY <1>2, <3>1, <3>2, <3>3
  <2> QED
    BY <2>1, <2>2
<1>8. ASSUME NEW k \in DOMAIN rows, rows[k].thread = t
      PROVE  \E i \in DOMAIN arr :
               /\ arr[i].handle = fatcubinhandle_array[k][n]
               /\ [bin |-> arr[i].bin, num_reg_fns |-> arr[i].num_reg_fns,
                   num_reg_vars |-> arr[i].num_reg_vars] = Complete(rows[k].bin)
  <2>1. k \in Held(t, n)
    BY <1>3, <1>8
  <2>2. PICK i \in DOMAIN arr : arr[i] = Wanted(t, n)[k]
    BY <1>6, <2>1
  <2>3. /\ arr[i].handle = fatcubinhandle_array[k][n] /\ arr[i].bin = rows[k].bin
        /\ arr[i].num_reg_fns = Fns[rows[k].bin] /\ arr[i].num_reg_vars = 1
    BY <1>2, <2>1, <2>2
  <2> QED
    BY <2>3 DEF Complete
<1> QED
  BY <1>7, <1>8 DEF arr

\* The entry of a kernel is at the processes of its thread, and at no other's.
LEMMA FindsLaunch == ASSUME IInv PROVE LaunchFound
<1> SUFFICES ASSUME ~ misordered, NEW o \in Loaded, NEW t \in Threads, NEW n \in Nodes,
                    NEW f \in 1 .. Fns[o.bin]
             PROVE  /\ o.thread = t =>
                         LaunchOutcome(t, o.bin, f, n) \in
                           {"lost", IF o.bin \in Old THEN "garbage" ELSE "launched"}
                    /\ o.thread # t => LaunchOutcome(t, o.bin, f, n) \notin {"launched", "garbage"}
  BY DEF LaunchFound
<1> DEFINE p == <<t, n>>
           arr == fatCInfoArr[p]
<1>1. PICK k \in DOMAIN rows : o = rows[k] /\ rows[k].bin # loader.bin
  BY DEF Loaded, Stack
<1>2. /\ k \in Held(o.thread, n) /\ FnsAt(k, n) = Fns[o.bin]
  BY <1>1, Settled
<1>3. ProcInv(t, n) /\ DOMAIN Wanted(t, n) = Held(t, n)
  BY WantedIs DEF IInv, ArrInv
<1>4. ASSUME o.thread = t
      PROVE  LaunchOutcome(t, o.bin, f, n) \in
               {"lost", IF o.bin \in Old THEN "garbage" ELSE "launched"}
  <2>1. CASE ~ Answers(p)
    BY <2>1 DEF LaunchOutcome
  <2>2. CASE Answers(p)
    <3>1. server[p] = "up" /\ hasArr[p] /\ Agrees(arr, Wanted(t, n))
      BY <1>2, <1>3, <1>4, <2>2 DEF ProcInv, Answers
    <3>2. k \in Held(t, n) /\ Wanted(t, n)[k].bin = o.bin /\ Wanted(t, n)[k].num_reg_fns = Fns[o.bin]
      BY <1>1, <1>2, <1>4, WantedFields
    <3>3. PICK i \in DOMAIN arr : arr[i] = Wanted(t, n)[k]
      BY <1>3, <3>1, <3>2 DEF Agrees
    <3>4. HasFunction(arr, o.bin, f)
      BY <3>2, <3>3 DEF HasFunction
    <3> QED
      BY <2>2, <3>1, <3>4 DEF LaunchOutcome
  <2> QED
    BY <2>1, <2>2
<1>5. ASSUME o.thread # t, LaunchOutcome(t, o.bin, f, n) \in {"launched", "garbage"} PROVE FALSE
  <2>1. Answers(p) /\ hasArr[p] /\ HasFunction(arr, o.bin, f)
    BY <1>5 DEF LaunchOutcome
  <2>2. server[p] = "up"
    BY <1>3, <2>1 DEF ProcInv, Answers
  <2>3. PICK i \in DOMAIN arr : arr[i].bin = o.bin
    BY <2>1 DEF HasFunction
  <2>4. PICK j \in Held(t, n) : arr[i] = Wanted(t, n)[j]
    BY <1>3, <2>2 DEF ProcInv, Agrees
  <2>5. j \in DOMAIN rows /\ rows[j].thread = t /\ rows[j].bin = o.bin
    <3>1. Wanted(t, n)[j].bin = rows[j].bin
      BY WantedFields
    <3>2. arr[i].bin = rows[j].bin
      BY <2>4, <3>1
    <3> QED
      BY <2>3, <3>2 DEF Held
  <2>6. j = k
    BY <1>1, <2>5 DEF IInv, TypeInv
  <2> QED
    BY <1>1, <1>5, <2>5, <2>6
<1> QED
  BY <1>4, <1>5

\* The variable is in the table, unless forgotten, and its entry at the process.
LEMMA FindsSymbol == ASSUME IInv PROVE SymbolFound
<1> SUFFICES ASSUME ~ misordered, NEW o \in Loaded, NEW n \in Nodes,
                    server[<<o.thread, n>>] = "up", o.bin \notin forgot
             PROVE  CopyOutcome(o.thread, o.bin, n) = IF o.bin \in Old THEN "garbage" ELSE "found"
  BY DEF SymbolFound
<1> DEFINE t == o.thread
           p == <<t, n>>
           arr == fatCInfoArr[p]
<1>1. PICK k \in DOMAIN rows : o = rows[k] /\ rows[k].bin # loader.bin
  BY DEF Loaded, Stack
<1>2. k \in Held(t, n) /\ VarsAt(k, n) = 1 /\ (k < Len(rows) \/ loader = Nobody)
  BY <1>1, Settled
<1>3. g_vars_find(o.bin)
  <2>1. o.bin \in forgot \cup regHostVarsTab
    BY <1>1, <1>2 DEF IInv, VarInv
  <2> QED
    BY <2>1 DEF g_vars_find
<1>4. t \in Threads
  <2>1. rows[k] \in Owners
    BY ElementOfSeq, LenProperties DEF IInv, TypeInv
  <2> QED
    BY <1>1, <2>1 DEF Owners
<1>5. hasArr[p] /\ Agrees(arr, Wanted(t, n)) /\ DOMAIN Wanted(t, n) = Held(t, n)
  <2>1. ProcInv(t, n)
    BY <1>4 DEF IInv, ArrInv
  <2> QED
    BY <1>2, <2>1, WantedIs DEF ProcInv
<1>6. Wanted(t, n)[k].bin = o.bin /\ Wanted(t, n)[k].num_reg_vars = 1
  BY <1>1, <1>2, WantedFields
<1>7. HasVariable(arr, o.bin)
  <2>1. PICK i \in DOMAIN arr : arr[i] = Wanted(t, n)[k]
    BY <1>2, <1>5 DEF Agrees
  <2> QED
    BY <1>6, <2>1 DEF HasVariable
<1>8. Answers(p)
  BY DEF Answers
<1> QED
  BY <1>3, <1>5, <1>7, <1>8 DEF CopyOutcome

(* As long as binaries are unloaded in reverse order, by the thread that   *)
(* loaded them, the client's stack of handles and the arrays of the living  *)
(* backends agree whenever no call is under way, whatever the processes    *)
(* that are lost meanwhile.                                                 *)
THEOREM StacksAgree == Spec => []RegistriesAgree
<1>1. IInv => RegistriesAgree
  BY AgreesRegistries
<1> QED
  BY <1>1, RegistryInvariant, PTL

(* A launch of a kernel of a loaded binary finds it at every living backend *)
(* of the thread that loaded it, garbage if the binary has the format of    *)
(* CUDA 3.2, and at no backend of another thread.                          *)
THEOREM LaunchesFound == Spec => []LaunchFound
<1>1. IInv => LaunchFound
  BY FindsLaunch
<1> QED
  BY <1>1, RegistryInvariant, PTL

(* The variable of a loaded binary is found at the living backends of the  *)
(* thread that loaded it, garbage if the binary has the format of CUDA 3.2,  *)
(* as long as the client's table was not emptied by an unload since.        *)
THEOREM SymbolsFound == Spec => []SymbolFound
<1>1. IInv => SymbolFound
  BY FindsSymbol
<1> QED
  BY <1>1, RegistryInvariant, PTL

-----------------------------------------------------------------------------
(* The types.  What bounds the arrays and counters does not depend on the   *)
(* order of unloads.                                                        *)

\* The entries of a process have handles of their own, which are the bound on
\* their number; a process that is not up has none.
EntriesOk(p) ==
    LET arr == fatCInfoArr[p] IN
    /\ \A i \in DOMAIN arr :
         /\ arr[i].handle # Bogus
         /\ arr[i].num_reg_fns =< MAX_REGISTERED_FUNCS /\ arr[i].num_reg_vars =< 1
    /\ \A i, j \in DOMAIN arr : arr[i].handle = arr[j].handle => i = j
    /\ server[p] # "up" => arr = <<>>

\* The binary being loaded has not had its variable registered at node n yet.
Bare(n) ==
    \/ loader.phase = "binary" /\ n < loader.node
    \/ loader.phase = "function"
    \/ loader.phase = "variable" /\ n >= loader.node

\* No entry with handle h has a variable.
Unheard(arr, h) == \A i \in DOMAIN arr : arr[i].handle = h => arr[i].num_reg_vars = 0

BareInv ==
    \A n \in Nodes : Bare(n) =>
      Unheard(fatCInfoArr[<<loader.thread, n>>], fatcubinhandle_array[fatcubin_handle_counter][n])

Bounds ==
    /\ regHostVarsTab \subseteq Bins /\ forgot \subseteq Bins
    /\ misordered \in BOOLEAN /\ loads \in 0 .. MaxLoads

FullInv == IInv /\ (\A p \in Procs : EntriesOk(p)) /\ BareInv /\ Bounds

\* The entry that is found has the handle.
LEMMA FoundEntry ==
    ASSUME NEW arr, \A i, j \in DOMAIN arr : arr[i].handle = arr[j].handle => i = j,
           DOMAIN arr \subseteq Nat, NEW h, g_fcia_idx(arr, h) # 0
    PROVE  g_fcia_idx(arr, h) \in DOMAIN arr /\ arr[g_fcia_idx(arr, h)].handle = h
<1> DEFINE found == {i \in DOMAIN arr : arr[i].handle = h}
           least == CHOOSE m \in found : \A j \in found : m =< j
<1>1. g_fcia_idx(arr, h) = IF found = {} THEN 0 ELSE least
  BY DEF g_fcia_idx
<1>2. PICK i \in DOMAIN arr : arr[i].handle = h
  BY <1>1
<1>3. found = {i} /\ i =< i
  BY <1>2
<1>4. least = i
  <2>1. i \in found /\ \A j \in found : i =< j
    BY <1>3
  <2> HIDE DEF found
  <2>2. \E m \in found : \A j \in found : m =< j
    BY <2>1
  <2>3. least \in found
    BY <2>2
  <2> HIDE DEF least
  <2> QED
    BY <1>3, <2>3
<1> HIDE DEF found, least
<1> QED
  BY <1>1, <1>2, <1>3, <1>4

\* Handles of their own bound the number of entries.
LEMMA EntriesFit ==
    ASSUME BackendTypes, NEW p \in Procs, EntriesOk(p)
    PROVE  fatCInfoArr[p] \in Seq(Info) /\ Len(fatCInfoArr[p]) =< Cardinality(Bins)
<1> DEFINE arr == fatCInfoArr[p]
           N == Cardinality(Bins)
<1>1. arr \in Seq(Infos)
  BY DEF BackendTypes
<1>2. Len(arr) \in Nat /\ DOMAIN arr = 1 .. Len(arr)
  BY <1>1, LenProperties
<1>3. N \in Nat /\ MAX_REGISTERED_FUNCS \in Nat
  BY RegistryAssumption, FS_CardinalityType
<1>4. ASSUME NEW i \in 1 .. Len(arr) PROVE arr[i] \in Info /\ arr[i].handle \in 1 .. N
  <2>1. arr[i] \in Infos
    BY <1>1, <1>2
  <2>2. /\ arr[i].handle # 0 /\ arr[i].num_reg_fns =< MAX_REGISTERED_FUNCS
        /\ arr[i].num_reg_vars =< 1
    BY <1>2 DEF EntriesOk, Bogus
  <2> HIDE DEF arr
  <2>3. /\ arr[i].handle \in 0 .. N /\ arr[i].num_reg_fns \in Nat /\ arr[i].num_reg_vars \in Nat
    BY <2>1 DEF Infos, Handles
  <2>4. /\ arr[i].handle \in 1 .. N /\ arr[i].num_reg_fns \in 0 .. MAX_REGISTERED_FUNCS
        /\ arr[i].num_reg_vars \in 0 .. 1
    BY <1>3, <2>2, <2>3
  <2> QED
    BY <2>1, <2>4 DEF Infos, Info
<1>5. arr \in Seq(Info)
  <2>1. arr \in [1 .. Len(arr) -> Info]
    BY <1>1, <1>4
  <2> HIDE DEF arr
  <2> QED
    BY <1>2, <2>1
<1> DEFINE f == [i \in 1 .. Len(arr) |-> arr[i].handle]
<1>6. f \in Injection(1 .. Len(arr), 1 .. N)
  <2>1. \A i, j \in 1 .. Len(arr) : arr[i].handle = arr[j].handle => i = j
    BY <1>2 DEF EntriesOk
  <2> HIDE DEF arr, N
  <2> QED
    BY <1>4, <2>1 DEF Injection, IsInjective
<1>7. IsFiniteSet(1 .. N) /\ Cardinality(1 .. N) = N /\ Cardinality(1 .. Len(arr)) = Len(arr)
  <2>1. ASSUME NEW n \in Nat PROVE IsFiniteSet(1 .. n) /\ Cardinality(1 .. n) = n
    <3>1. IsFiniteSet(1 .. n) /\ Cardinality(1 .. n) = IF 1 > n THEN 0 ELSE n - 1 + 1
      BY FS_Interval
    <3> QED
      BY <3>1
  <2> HIDE DEF arr, N
  <2> QED
    BY <1>2, <1>3, <2>1
<1>8. Cardinality(1 .. Len(arr)) =< Cardinality(1 .. N)
  <2> HIDE DEF f, arr, N
  <2> QED
    BY <1>6, <1>7, FS_Injection
<1> QED
  BY <1>5, <1>7, <1>8

\* A process ends: its entries are gone.
LEMMA DiesEntries ==
    ASSUME BackendTypes, NEW p \in Procs, Dies(p),
           NEW q \in Procs, EntriesOk(q)
    PROVE  EntriesOk(q)' /\ fatCInfoArr'[q] \in {<<>>, fatCInfoArr[q]}
<1>1. DOMAIN <<>> = {}
  OBVIOUS
<1>2. CASE q = p
  <2>1. fatCInfoArr'[q] = <<>>
    BY <1>2 DEF Dies, BackendTypes
  <2> QED
    BY <1>1, <2>1 DEF EntriesOk
<1>3. CASE q # p
  <2>1. fatCInfoArr'[q] = fatCInfoArr[q] /\ server'[q] = server[q]
    BY <1>3 DEF Dies, BackendTypes
  <2> QED
    BY <2>1 DEF EntriesOk
<1> QED
  BY <1>2, <1>3

\* An entry of an array is given other counters.
LEMMA CountersRaised ==
    ASSUME BackendTypes, NEW p \in Procs, EntriesOk(p), NEW i \in DOMAIN fatCInfoArr[p],
           NEW e, e.handle = fatCInfoArr[p][i].handle,
           e.num_reg_fns =< MAX_REGISTERED_FUNCS, e.num_reg_vars =< 1, server[p] = "up",
           UNCHANGED server,
           fatCInfoArr' = [fatCInfoArr EXCEPT ![p] = [fatCInfoArr[p] EXCEPT ![i] = e]]
    PROVE  EntriesOk(p)'
<1> DEFINE arr == fatCInfoArr[p]
<1>1. /\ DOMAIN fatCInfoArr'[p] = DOMAIN arr /\ fatCInfoArr'[p][i] = e
      /\ \A j \in DOMAIN arr : j # i => fatCInfoArr'[p][j] = arr[j]
  BY DEF BackendTypes
<1>2. \A j \in DOMAIN arr : fatCInfoArr'[p][j].handle = arr[j].handle
  BY <1>1
<1> QED
  BY <1>1, <1>2 DEF EntriesOk

\* The step of a call, at the process it speaks to: the entries stay in order, and
\* the binary being loaded gets its variable from __cudaRegisterVar only.
LEMMA EntriesHere ==
    ASSUME TypeInv, CallInv, loader \in Busy, Loading, BareInv,
           NEW p \in Procs, p = At, EntriesOk(p)
    PROVE  /\ EntriesOk(p)'
           /\ loader.phase \in {"binary", "function"} =>
                Unheard(fatCInfoArr'[p],
                        fatcubinhandle_array'[fatcubin_handle_counter][loader.node])
<1> DEFINE arr == fatCInfoArr[p]
           n == loader.node
           top == fatcubinhandle_array'[fatcubin_handle_counter][n]
<1>1. /\ p \in Procs /\ p = <<loader.thread, n>> /\ n \in Nodes /\ BackendTypes
  BY AtKnown, TypeParts DEF Busy
<1>2. /\ arr \in Seq(Infos) /\ Len(arr) \in Nat /\ DOMAIN arr = 1 .. Len(arr)
      /\ \A i \in DOMAIN arr : arr[i] \in Infos
  BY <1>1, LenProperties DEF BackendTypes
<1>3. /\ \A i, j \in DOMAIN arr : arr[i].handle = arr[j].handle => i = j
      /\ \A i \in DOMAIN arr :
           /\ arr[i].handle # Bogus
           /\ arr[i].num_reg_fns =< MAX_REGISTERED_FUNCS /\ arr[i].num_reg_vars =< 1
      /\ server[p] # "up" => arr = <<>>
  BY DEF EntriesOk
<1>4. Unheard(<<>>, top)
  BY DEF Unheard
<1>5. ASSUME Dies(p)
      PROVE  EntriesOk(p)' /\ Unheard(fatCInfoArr'[p], top)
  <2>1. fatCInfoArr'[p] = <<>>
    BY <1>1, <1>5 DEF Dies, BackendTypes
  <2>2. \A q \in Procs : EntriesOk(q) => EntriesOk(q)'
    BY <1>1, <1>5, DiesEntries
  <2>3. EntriesOk(p)'
    <3>1. server'[p] = "ended"
      BY <1>1, <1>5 DEF Dies, BackendTypes
    <3>2. DOMAIN <<>> = {}
      OBVIOUS
    <3> QED
      BY <2>1, <3>2 DEF EntriesOk
  <2> QED
    BY <1>4, <2>1, <2>3
<1>6. MAX_REGISTERED_FUNCS \in Nat
  BY RegistryAssumption
<1>7. CASE RegisterFatBinary
  <2>1. PICK h \in Handles :
          /\ h # Bogus /\ \A i \in DOMAIN arr : arr[i].handle # h
          /\ SrvRegisterFatBinary(p, h)
          /\ fatcubinhandle_array' =
               [fatcubinhandle_array EXCEPT ![fatcubin_handle_counter][loader.node] = h]
    BY <1>7 DEF RegisterFatBinary
  <2> DEFINE e == [handle |-> h, bin |-> loader.bin, num_reg_fns |-> 0, num_reg_vars |-> 0]
  <2>2. /\ e.handle = h /\ e.num_reg_fns = 0 /\ e.num_reg_vars = 0 /\ e \in Infos
    <3>1. loader.bin \in Bins
      BY DEF Busy
    <3> QED
      BY <3>1 DEF Infos
  <2>3. fatCInfoArr'[p] = Append(arr, e) /\ server'[p] = "up"
    BY <1>1, <2>1 DEF SrvRegisterFatBinary, BackendTypes
  <2> HIDE DEF e
  <2>4. /\ DOMAIN Append(arr, e) = 1 .. Len(arr) + 1 /\ Append(arr, e)[Len(arr) + 1] = e
        /\ \A i \in DOMAIN arr : Append(arr, e)[i] = arr[i]
        /\ \A i \in DOMAIN Append(arr, e) : i \in DOMAIN arr \/ i = Len(arr) + 1
    BY <1>2, <2>2
  <2> HIDE DEF arr
  <2>5. \A i \in DOMAIN Append(arr, e) :
          /\ Append(arr, e)[i].handle # Bogus
          /\ Append(arr, e)[i].num_reg_fns =< MAX_REGISTERED_FUNCS
          /\ Append(arr, e)[i].num_reg_vars =< 1
    BY <1>3, <1>6, <2>1, <2>2, <2>4
  <2>6. \A i, j \in DOMAIN Append(arr, e) :
          Append(arr, e)[i].handle = Append(arr, e)[j].handle => i = j
    BY <1>3, <2>1, <2>2, <2>4
  <2>7. EntriesOk(p)'
    BY <2>3, <2>5, <2>6 DEF EntriesOk
  <2>8. top = h
    <3>1. /\ fatcubinhandle_array \in [1 .. Cardinality(Bins) -> [Nodes -> Handles]]
          /\ fatcubin_handle_counter = Len(rows)
          /\ Len(rows) \in 1 .. Cardinality(Bins)
      <4>1. loader # Nobody /\ loader.phase # "unload"
        BY <1>7, Idle DEF RegisterFatBinary
      <4>2. Len(rows) > 0
        BY <4>1 DEF CallInv
      <4>3. Len(rows) \in 0 .. Cardinality(Bins) /\ Cardinality(Bins) \in Nat
        BY StackFits DEF TypeInv
      <4> QED
        BY <4>2, <4>3 DEF TypeInv
    <3> QED
      BY <1>1, <2>1, <3>1
  <2>9. Unheard(fatCInfoArr'[p], h)
    BY <2>1, <2>2, <2>3, <2>4 DEF Unheard
  <2> QED
    BY <2>7, <2>8, <2>9
<1>8. CASE r__cudaRegisterFatBinary
  BY <1>5, <1>8 DEF r__cudaRegisterFatBinary
<1>9. CASE RegisterFatBinaryFails
  <2>1. UNCHANGED <<server, fatCInfoArr>> /\ ~ Answers(p)
    BY <1>9 DEF RegisterFatBinaryFails, backend
  <2>2. arr = <<>>
    BY <1>3, <2>1 DEF Answers
  <2>3. EntriesOk(p)'
    BY <2>1 DEF EntriesOk
  <2> QED
    BY <1>4, <2>1, <2>2, <2>3
<1>10. CASE RegisterFunction
  <2>1. /\ loader.phase = "function" /\ fatcubinhandle_array' = fatcubinhandle_array
    BY <1>10 DEF RegisterFunction, client
  <2>2. Unheard(arr, top)
    BY <1>1, <2>1 DEF BareInv, Bare
  <2>3. CASE server[p] = "up"
    <3> DEFINE i == g_fcia_idx(arr, Top)
    <3>1. SrvRegisterFunction(p, i)
      BY <1>10, <2>3 DEF RegisterFunction
    <3>2. CASE i = 0 \/ arr[i].num_reg_fns >= MAX_REGISTERED_FUNCS
      <4>1. Dies(p)
        BY <3>1, <3>2 DEF SrvRegisterFunction
      <4> QED
        BY <1>5, <4>1
    <3>3. CASE ~ (i = 0 \/ arr[i].num_reg_fns >= MAX_REGISTERED_FUNCS)
      <4>1. /\ fatCInfoArr' = [fatCInfoArr EXCEPT ![p][i].num_reg_fns = @ + 1]
            /\ UNCHANGED server
        BY <3>1, <3>3 DEF SrvRegisterFunction
      <4>2. i \in DOMAIN arr
        BY <1>2, <1>3, <3>3, FoundEntry
      <4> HIDE DEF i
      <4> DEFINE e == [arr[i] EXCEPT !.num_reg_fns = @ + 1]
      <4>3. fatCInfoArr' = [fatCInfoArr EXCEPT ![p] = [arr EXCEPT ![i] = e]]
        BY <1>1, <4>1, RaisedFunctions
      <4>4. /\ e.handle = arr[i].handle /\ e.num_reg_vars = arr[i].num_reg_vars
            /\ e.num_reg_fns =< MAX_REGISTERED_FUNCS /\ e.num_reg_vars =< 1
        <5>1. arr[i] \in Infos /\ ~ (arr[i].num_reg_fns >= MAX_REGISTERED_FUNCS)
          BY <1>2, <3>3, <4>2
        <5>2. /\ e.handle = arr[i].handle /\ e.num_reg_vars = arr[i].num_reg_vars
              /\ e.num_reg_fns = arr[i].num_reg_fns + 1 /\ arr[i].num_reg_fns \in Nat
          <6> HIDE DEF arr
          <6> QED
            BY <5>1 DEF Infos
        <5>3. arr[i].num_reg_vars =< 1
          BY <1>3, <4>2
        <5> HIDE DEF e, arr
        <5> QED
          BY <1>6, <5>1, <5>2, <5>3
      <4> HIDE DEF e
      <4>5. EntriesOk(p)'
        BY <1>1, <2>3, <4>1, <4>2, <4>3, <4>4, CountersRaised
      <4>6. fatCInfoArr'[p] = [arr EXCEPT ![i] = e]
        BY <1>1, <4>3 DEF BackendTypes
      <4>7. Unheard([arr EXCEPT ![i] = e], top)
        <5> HIDE DEF arr, top
        <5> QED
          BY <2>2, <4>2, <4>4 DEF Unheard
      <4> QED
        BY <4>5, <4>6, <4>7
    <3> QED
      BY <3>2, <3>3
  <2>4. CASE server[p] # "up"
    <3>1. UNCHANGED <<server, fatCInfoArr>>
      BY <1>10, <2>4 DEF RegisterFunction
    <3>2. EntriesOk(p)'
      BY <3>1 DEF EntriesOk
    <3> QED
      BY <2>2, <3>1, <3>2
  <2> QED
    BY <2>3, <2>4
<1>11. CASE RegisterVar
  <2>1. loader.phase = "variable" /\ fatcubinhandle_array' = fatcubinhandle_array
    BY <1>11 DEF RegisterVar
  <2>2. Unheard(arr, Top)
    <3>1. ~ (n < n)
      BY <1>1, NodesKnown
    <3>2. n >= n
      BY <1>1, NodesKnown
    <3> QED
      BY <1>1, <2>1, <3>2 DEF BareInv, Bare, Top
  <2>3. CASE server[p] = "up"
    <3> DEFINE i == g_fcia_idx(arr, Top)
    <3>1. SrvRegisterVar(p, i)
      BY <1>11, <2>3 DEF RegisterVar
    <3>2. CASE i = 0
      <4>1. Dies(p)
        BY <3>1, <3>2 DEF SrvRegisterVar
      <4> QED
        BY <1>5, <2>1, <4>1
    <3>3. CASE i # 0
      <4>1. /\ fatCInfoArr' = [fatCInfoArr EXCEPT ![p][i].num_reg_vars = @ + 1]
            /\ UNCHANGED server
        BY <3>1, <3>3 DEF SrvRegisterVar
      <4>2. i \in DOMAIN arr /\ arr[i].handle = Top
        BY <1>2, <1>3, <3>3, FoundEntry
      <4> HIDE DEF i
      <4> DEFINE e == [arr[i] EXCEPT !.num_reg_vars = @ + 1]
      <4>3. fatCInfoArr' = [fatCInfoArr EXCEPT ![p] = [arr EXCEPT ![i] = e]]
        BY <1>1, <4>1, RaisedVariables
      <4>4. /\ e.handle = arr[i].handle
            /\ e.num_reg_fns =< MAX_REGISTERED_FUNCS /\ e.num_reg_vars =< 1
        <5>1. arr[i] \in Infos /\ arr[i].num_reg_vars = 0
          BY <1>2, <2>2, <4>2 DEF Unheard
        <5>2. /\ e.handle = arr[i].handle /\ e.num_reg_vars = 0 + 1
              /\ e.num_reg_fns = arr[i].num_reg_fns
          <6> HIDE DEF arr
          <6> QED
            BY <5>1 DEF Infos
        <5>3. arr[i].num_reg_fns =< MAX_REGISTERED_FUNCS
          BY <1>3, <4>2
        <5> HIDE DEF e, arr
        <5> QED
          BY <5>2, <5>3
      <4> HIDE DEF e
      <4>5. EntriesOk(p)'
        BY <1>1, <2>3, <4>1, <4>2, <4>3, <4>4, CountersRaised
      <4> QED
        BY <2>1, <4>5
    <3> QED
      BY <3>2, <3>3
  <2>4. CASE server[p] # "up"
    <3>1. UNCHANGED <<server, fatCInfoArr>>
      BY <1>11, <2>4 DEF RegisterVar
    <3>2. EntriesOk(p)'
      BY <3>1 DEF EntriesOk
    <3> QED
      BY <2>1, <3>2
  <2> QED
    BY <2>3, <2>4
<1>12. CASE UnregisterFatBinary
  <2>1. loader.phase = "unload"
    BY <1>12 DEF UnregisterFatBinary
  <2>2. CASE Answers(p)
    <3> DEFINE i == g_fcia_idx(arr, Top)
    <3>1. SrvUnregister(p, i)
      BY <1>12, <2>2 DEF UnregisterFatBinary
    <3>2. CASE Dies(p)
      BY <1>5, <2>1, <3>2
    <3>3. CASE ~ Dies(p)
      <4>1. /\ i # 0 /\ UNCHANGED server
            /\ fatCInfoArr' = [fatCInfoArr EXCEPT ![p] = RemoveFast(arr, i)]
        BY <3>1, <3>3 DEF SrvUnregister
      <4>2. i \in 1 .. Len(arr)
        BY <1>2, <1>3, <4>1, FoundEntry
      <4> HIDE DEF i
      <4>3. fatCInfoArr'[p] = RemoveFast(arr, i)
        BY <1>1, <4>1 DEF BackendTypes
      <4> DEFINE from(j) == IF j = i THEN Len(arr) ELSE j
                 new == RemoveFast(arr, i)
      <4>4. /\ DOMAIN new = 1 .. Len(arr) - 1
            /\ \A j \in DOMAIN new : from(j) \in DOMAIN arr /\ new[j] = arr[from(j)]
        <5> HIDE DEF arr
        <5> QED
          BY <1>2, <4>2 DEF RemoveFast
      <4>5. \A j, k \in DOMAIN new : from(j) = from(k) => j = k
        <5> HIDE DEF arr, new
        <5> QED
          BY <1>2, <4>2, <4>4
      <4>6. server[p] = "up"
        BY <1>2, <1>3, <4>2
      <4> HIDE DEF from, new, arr
      <4>7. \A j, k \in DOMAIN new : new[j].handle = new[k].handle => j = k
        BY <1>3, <4>4, <4>5
      <4>8. \A j \in DOMAIN new :
              /\ new[j].handle # Bogus
              /\ new[j].num_reg_fns =< MAX_REGISTERED_FUNCS /\ new[j].num_reg_vars =< 1
        BY <1>3, <4>4
      <4>9. fatCInfoArr'[p] = new /\ server'[p] = "up"
        BY <4>1, <4>3, <4>6 DEF new
      <4>10. EntriesOk(p)'
        BY <4>7, <4>8, <4>9 DEF EntriesOk
      <4> QED
        BY <2>1, <4>10
    <3> QED
      BY <3>2, <3>3
  <2>3. CASE ~ Answers(p)
    <3>1. UNCHANGED <<server, fatCInfoArr>>
      BY <1>12, <2>3 DEF UnregisterFatBinary
    <3>2. EntriesOk(p)'
      BY <3>1 DEF EntriesOk
    <3> QED
      BY <2>1, <3>2
  <2> QED
    BY <2>2, <2>3
<1> QED
  BY <1>7, <1>8, <1>9, <1>10, <1>11, <1>12 DEF Loading

\* A binary without its variable at a node had none before the step either, and
\* the step was not that of __cudaRegisterVar at this node.
LEMMA BareBefore ==
    ASSUME CallInv, loader \in Busy, Loading, NEW n \in Nodes, Bare(n)'
    PROVE  /\ loader'.thread = loader.thread
           /\ loader.phase # "unload" /\ fatcubin_handle_counter' = fatcubin_handle_counter
           /\ \/ n # loader.node /\ Bare(n)
              \/ n = loader.node /\ loader.phase \in {"binary", "function"}
<1>1. /\ loader.node \in Nodes /\ NNodes \in Nat /\ n \in 0 .. NNodes - 1
      /\ loader.node \in 0 .. NNodes - 1
  BY NodesKnown DEF Busy
<1>2. /\ Advance /\ loader.phase \in {"binary", "function", "variable", "unload"}
      /\ loader.phase # "unload" => fatcubin_handle_counter' = fatcubin_handle_counter
  BY LoadingSteps
<1>3. loader.phase = "function" => loader.fn \in 1 .. Fns[loader.bin]
  BY DEF CallInv
<1>4. CASE loader.node < NNodes - 1
  <2>1. Moves(loader.phase, loader.fn, loader.node + 1)
    BY <1>2, <1>3, <1>4, Advances
  <2>2. /\ loader'.thread = loader.thread /\ loader'.phase = loader.phase
        /\ loader'.node = loader.node + 1
    BY <2>1 DEF Moves
  <2>3. loader.phase # "unload"
    BY <2>2 DEF Bare
  <2>4. \/ loader.phase = "binary" /\ n < loader.node + 1
        \/ loader.phase = "function"
        \/ loader.phase = "variable" /\ n >= loader.node + 1
    BY <2>2 DEF Bare
  <2>5. \/ n # loader.node /\ Bare(n)
        \/ n = loader.node /\ loader.phase \in {"binary", "function"}
    BY <1>1, <2>4 DEF Bare
  <2> QED
    BY <1>2, <2>2, <2>3, <2>5
<1>5. CASE ~ (loader.node < NNodes - 1)
  <2>1. loader.node = NNodes - 1
    BY <1>2, <1>3, <1>5, Advances
  <2>2. loader' # Nobody
    <3> SUFFICES ASSUME loader' = Nobody PROVE FALSE
      OBVIOUS
    <3>1. loader'.phase = "idle"
      BY Idle
    <3> QED
      BY <3>1 DEF Bare
  <2>3. loader.phase \in {"binary", "function"}
    BY <1>2, <1>3, <1>5, <2>2, Advances
  <2>4. \E q, f : Moves(q, f, 0)
    BY <1>2, <1>3, <1>5, <2>3, Advances
  <2>5. loader'.thread = loader.thread
    BY <2>4 DEF Moves
  <2>6. n = loader.node \/ Bare(n)
    BY <1>1, <2>1, <2>3 DEF Bare
  <2> QED
    BY <1>2, <2>3, <2>5, <2>6
<1> QED
  BY <1>4, <1>5

\* What a step with the loader's lock makes of the entries.
LEMMA LoadingEntries ==
    ASSUME TypeInv, CallInv, loader \in Busy, Loading, BareInv, \A p \in Procs : EntriesOk(p)
    PROVE  (\A p \in Procs : EntriesOk(p)') /\ BareInv'
<1>1. BackendTypes /\ At \in Procs /\ At = <<loader.thread, loader.node>>
  BY TypeParts, AtKnown
<1>2. PICK here \in Procs : here = At
  BY <1>1
<1>3. /\ EntriesOk(here)'
      /\ loader.phase \in {"binary", "function"} =>
           Unheard(fatCInfoArr'[here],
                   fatcubinhandle_array'[fatcubin_handle_counter][loader.node])
  BY <1>2, EntriesHere
<1>4. ASSUME NEW p \in Procs, p # here
      PROVE  server'[p] = server[p] /\ fatCInfoArr'[p] = fatCInfoArr[p]
  BY <1>1, <1>2, <1>4, OthersKept
<1>5. ASSUME NEW p \in Procs PROVE EntriesOk(p)'
  <2>1. CASE p = here
    BY <1>3, <2>1
  <2>2. CASE p # here
    BY <1>4, <2>2 DEF EntriesOk
  <2> QED
    BY <2>1, <2>2
<1>6. ASSUME NEW n \in Nodes, Bare(n)'
      PROVE  Unheard(fatCInfoArr[<<loader.thread, n>>],
                     fatcubinhandle_array[fatcubin_handle_counter][n])'
  <2>1. /\ loader'.thread = loader.thread
        /\ fatcubin_handle_counter' = fatcubin_handle_counter
        /\ \/ n # loader.node /\ Bare(n)
           \/ n = loader.node /\ loader.phase \in {"binary", "function"}
    BY <1>6, BareBefore
  <2>2. loader.thread \in Threads
    BY DEF Busy
  <2> DEFINE p == <<loader.thread, n>>
  <2>3. Unheard(fatCInfoArr'[p], fatcubinhandle_array'[fatcubin_handle_counter][n])
    <3>1. CASE n = loader.node
      BY <1>1, <1>2, <1>3, <2>1, <3>1
    <3>2. CASE n # loader.node
      <4>1. p \in Procs /\ p # here
        BY <1>1, <1>2, <2>2, <3>2 DEF Procs
      <4>2. fatCInfoArr'[p] = fatCInfoArr[p]
        BY <1>4, <4>1
      <4>3. Unheard(fatCInfoArr[p], fatcubinhandle_array[fatcubin_handle_counter][n])
        BY <2>1, <3>2 DEF BareInv
      <4>4. fatcubinhandle_array'[fatcubin_handle_counter][n]
              = fatcubinhandle_array[fatcubin_handle_counter][n]
        <5>1. fatcubinhandle_array \in [1 .. Cardinality(Bins) -> [Nodes -> Handles]]
          BY DEF TypeInv
        <5>2. \/ fatcubinhandle_array' = fatcubinhandle_array
              \/ \E h \in Handles :
                   fatcubinhandle_array' =
                     [fatcubinhandle_array EXCEPT ![fatcubin_handle_counter][loader.node] = h]
          BY LoadingSteps
        <5> QED
          BY <3>2, <5>1, <5>2
      <4> QED
        BY <4>2, <4>3, <4>4
    <3> QED
      BY <3>1, <3>2
  <2> QED
    BY <2>1, <2>3
<1>7. BareInv'
  BY <1>6 DEF BareInv
<1> QED
  BY <1>5, <1>7

\* Other steps take entries away or leave them.
LEMMA EntriesLeft ==
    ASSUME BackendTypes, NEW p \in Procs, EntriesOk(p),
           \/ UNCHANGED <<server, fatCInfoArr>>
           \/ \E q \in Procs : Dies(q) \/ Reaches(q)
    PROVE  EntriesOk(p)' /\ fatCInfoArr'[p] \in {<<>>, fatCInfoArr[p]}
<1>1. CASE UNCHANGED <<server, fatCInfoArr>>
  BY <1>1 DEF EntriesOk
<1>2. CASE \E q \in Procs : Reaches(q)
  <2>1. fatCInfoArr' = fatCInfoArr /\ (server[p] = "up" => server'[p] = "up")
    BY <1>2 DEF Reaches, BackendTypes
  <2> QED
    BY <2>1 DEF EntriesOk
<1>3. CASE \E q \in Procs : Dies(q)
  BY <1>3, DiesEntries
<1> QED
  BY <1>1, <1>2, <1>3

\* The table, the history and the counter keep their types.
LEMMA BoundsNext == ASSUME TypeInv, Bounds, [Next]_vars PROVE Bounds'
<1>1. /\ loads \in Nat /\ MaxLoads \in Nat /\ loads =< MaxLoads
  BY RegistryAssumption DEF Bounds
<1>2. ASSUME NEW t \in Threads, NEW b \in Bins, Load(t, b) PROVE Bounds'
  <2>1. /\ loads' = loads + 1 /\ loads < MaxLoads
        /\ UNCHANGED <<regHostVarsTab, misordered, forgot>>
    BY <1>2 DEF Load
  <2>2. loads' \in 0 .. MaxLoads
    BY <1>1, <2>1
  <2> QED
    BY <2>1, <2>2 DEF Bounds
<1>3. ASSUME NEW t \in Threads, NEW b \in Bins, Unload(t, b) PROVE Bounds'
  <2>1. /\ loads' = loads + 1 /\ loads < MaxLoads /\ regHostVarsTab' = regHostVarsTab
        /\ misordered' \in BOOLEAN
        /\ forgot' = (forgot \cup {o.bin : o \in Stack}) \ {b}
    BY <1>3 DEF Unload, Bounds
  <2>2. loads' \in 0 .. MaxLoads
    BY <1>1, <2>1
  <2>3. {o.bin : o \in Stack} \subseteq Bins
    <3>1. \A k \in DOMAIN rows : rows[k] \in Owners
      BY LenProperties DEF TypeInv
    <3> QED
      BY <3>1 DEF Stack, Owners
  <2> QED
    BY <2>1, <2>2, <2>3 DEF Bounds
<1>4. CASE Loading
  <2>1. UNCHANGED <<misordered, forgot>>
    BY <1>4, LoadingSteps
  <2>2. loads' = loads
    BY <1>4 DEF Loading, RegisterFatBinary, r__cudaRegisterFatBinary, RegisterFatBinaryFails,
                RegisterFunction, RegisterVar, UnregisterFatBinary, client
  <2>3. \/ regHostVarsTab' = regHostVarsTab
        \/ regHostVarsTab' = {}
        \/ loader.phase = "variable" /\ regHostVarsTab' = regHostVarsTab \cup {loader.bin}
    BY <1>4 DEF Loading, RegisterFatBinary, r__cudaRegisterFatBinary, RegisterFatBinaryFails,
                RegisterFunction, RegisterVar, UnregisterFatBinary, client, g_vars_insert,
                DropVars
  <2>4. loader.phase = "variable" => loader.bin \in Bins
    <3>1. loader \in Busy \/ loader = Nobody
      BY DEF TypeInv
    <3>2. loader \in Busy => loader.bin \in Bins
      BY DEF Busy
    <3> QED
      BY <3>1, <3>2, Idle
  <2> QED
    BY <2>1, <2>2, <2>3, <2>4 DEF Bounds
<1>5. CASE UNCHANGED client
  BY <1>5 DEF client, Bounds
<1> QED
  BY <1>2, <1>3, <1>4, <1>5
  DEF Next, Launch, CopySymbol, Lose, Finished, vars

\* The whole invariant holds initially ...
LEMMA FullInit == ASSUME Init PROVE FullInv
<1>1. IInv
  BY InitInv
<1>2. \A p \in Procs : EntriesOk(p)
  BY DEF Init, EntriesOk
<1>3. BareInv
  <2>1. loader.phase = "idle"
    BY Idle DEF Init
  <2> QED
    BY <2>1 DEF BareInv, Bare
<1>4. Bounds
  <2>1. MaxLoads \in Nat /\ 0 \in 0 .. MaxLoads
    BY RegistryAssumption
  <2>2. regHostVarsTab = {} /\ forgot = {} /\ misordered = FALSE /\ loads = 0
    BY DEF Init
  <2> QED
    BY <2>1, <2>2 DEF Bounds
<1> QED
  BY <1>1, <1>2, <1>3, <1>4 DEF FullInv

\* ... and every step keeps it.
LEMMA FullNext == ASSUME FullInv, [Next]_vars PROVE FullInv'
<1>1. /\ TypeInv /\ CallInv /\ BareInv /\ Bounds /\ \A p \in Procs : EntriesOk(p)
      /\ BackendTypes
  BY TypeParts DEF FullInv, IInv
<1>2. IInv' /\ Bounds'
  BY NextInv, BoundsNext DEF FullInv, IInv
<1>3. CASE Loading
  <2>1. loader \in Busy
    BY <1>1, <1>3, LoadingSteps DEF TypeInv, Nobody
  <2> QED
    BY <1>1, <1>2, <1>3, <2>1, LoadingEntries DEF FullInv
<1>4. ASSUME NEW t \in Threads, NEW b \in Bins, Load(t, b) \/ Unload(t, b)
      PROVE  (\A p \in Procs : EntriesOk(p)') /\ BareInv'
  <2>1. UNCHANGED <<server, fatCInfoArr>>
    BY <1>4 DEF Load, Unload, backend
  <2>2. /\ loader'.phase \in {"binary", "unload"} /\ loader'.node = 0
    BY <1>4 DEF Load, Unload
  <2>3. \A n \in Nodes : ~ Bare(n)'
    <3>1. \A n \in Nodes : ~ (n < 0)
      BY NodesKnown
    <3> QED
      BY <2>2, <3>1 DEF Bare
  <2>4. BareInv'
    BY <2>3 DEF BareInv
  <2> QED
    BY <1>1, <2>1, <2>4 DEF EntriesOk
<1>5. ASSUME UNCHANGED <<client, loader>>, NEW p0 \in Procs,
             \/ UNCHANGED <<server, fatCInfoArr>>
             \/ Dies(p0) \/ Reaches(p0)
      PROVE  (\A p \in Procs : EntriesOk(p)') /\ BareInv'
  <2>1. ASSUME NEW p \in Procs
        PROVE  EntriesOk(p)' /\ fatCInfoArr'[p] \in {<<>>, fatCInfoArr[p]}
    BY <1>1, <1>5, EntriesLeft
  <2>2. /\ loader' = loader /\ fatcubinhandle_array' = fatcubinhandle_array
        /\ fatcubin_handle_counter' = fatcubin_handle_counter
    BY <1>5 DEF client
  <2>3. ASSUME NEW n \in Nodes, Bare(n)'
        PROVE  Unheard(fatCInfoArr[<<loader.thread, n>>],
                       fatcubinhandle_array[fatcubin_handle_counter][n])'
    <3>1. Bare(n)
      BY <2>2, <2>3 DEF Bare
    <3>2. <<loader.thread, n>> \in Procs
      <4>1. loader \in Busy
        BY <1>1, <3>1 DEF TypeInv, Nobody, Bare
      <4> QED
        BY <4>1 DEF Busy, Procs
    <3>3. Unheard(fatCInfoArr[<<loader.thread, n>>],
                  fatcubinhandle_array[fatcubin_handle_counter][n])
      BY <1>1, <3>1 DEF BareInv
    <3>4. fatCInfoArr'[<<loader.thread, n>>] \in {<<>>, fatCInfoArr[<<loader.thread, n>>]}
      BY <2>1, <3>2
    <3>5. \A h : Unheard(<<>>, h)
      BY DEF Unheard
    <3> QED
      BY <2>2, <3>3, <3>4, <3>5
  <2>4. BareInv'
    BY <2>3 DEF BareInv
  <2> QED
    BY <2>1, <2>4
<1>6. ASSUME NEW t \in Threads, NEW b \in Bins, NEW n \in Nodes,
             Launch(t, b, n) \/ CopySymbol(t, b, n)
      PROVE  (\A p \in Procs : EntriesOk(p)') /\ BareInv'
  <2>1. /\ <<t, n>> \in Procs /\ UNCHANGED <<client, loader>>
        /\ Dies(<<t, n>>) \/ Reaches(<<t, n>>) \/ UNCHANGED <<server, fatCInfoArr>>
    BY <1>6, UseSteps
  <2> QED
    BY <1>5, <2>1
<1>7. ASSUME NEW p \in Procs, Lose(p)
      PROVE  (\A q \in Procs : EntriesOk(q)') /\ BareInv'
  <2>1. UNCHANGED <<client, loader>> /\ Dies(p)
    BY <1>7 DEF Lose
  <2> QED
    BY <1>5, <2>1
<1>8. ASSUME UNCHANGED vars PROVE (\A p \in Procs : EntriesOk(p)') /\ BareInv'
  <2>1. UNCHANGED <<client, loader>> /\ UNCHANGED <<server, fatCInfoArr>>
    BY <1>8 DEF vars, backend
  <2>2. \A p \in Procs : EntriesOk(p)'
    BY <1>1, <2>1 DEF EntriesOk
  <2>3. BareInv'
    BY <1>1, <2>1 DEF BareInv, Bare, client
  <2> QED
    BY <2>2, <2>3
<1>9. (\A p \in Procs : EntriesOk(p)') /\ BareInv'
  BY <1>3, <1>4, <1>6, <1>7, <1>8 DEF Next, Finished, FullInv
<1> QED
  BY <1>2, <1>9 DEF FullInv

\* The invariant is what the types ask for.
LEMMA TypesHold == ASSUME FullInv PROVE TypeOK
<1>1. TypeInv /\ BackendTypes /\ Bounds /\ \A p \in Procs : EntriesOk(p)
  BY TypeParts DEF FullInv, IInv
<1>2. fatcubin_handle_counter \in 0 .. Cardinality(Bins)
  BY <1>1, StackFits DEF TypeInv
<1>3. loader \in [thread : Threads \cup {"nobody"}, bin : Bins \cup {"none"}, phase : Phases,
                  fn : Nat, node : Nodes]
  <2>1. Nobody \in [thread : Threads \cup {"nobody"}, bin : Bins \cup {"none"}, phase : Phases,
                    fn : Nat, node : Nodes]
    BY NodesKnown DEF Nobody, Phases
  <2>2. Busy \subseteq [thread : Threads \cup {"nobody"}, bin : Bins \cup {"none"},
                        phase : Phases, fn : Nat, node : Nodes]
    BY DEF Busy
  <2> QED
    BY <1>1, <2>1, <2>2 DEF TypeInv
<1>4. \A p \in Procs :
        fatCInfoArr[p] \in Seq(Info) /\ Len(fatCInfoArr[p]) =< Cardinality(Bins)
  BY <1>1, EntriesFit
<1> QED
  BY <1>1, <1>2, <1>3, <1>4 DEF TypeInv, Bounds, TypeOK

(* The variables of the registry keep their types, in whatever order        *)
(* binaries are unloaded: no stack or array grows beyond its size, no       *)
(* process counts more kernels than its array holds, and no binary gets its *)
(* variable twice.                                                          *)
THEOREM RegistryTypeCorrect == Spec => []TypeOK
<1>1. Init => FullInv
  BY FullInit
<1>2. FullInv /\ [Next]_vars => FullInv'
  BY FullNext
<1>3. FullInv => TypeOK
  BY TypesHold
<1> QED
  BY <1>1, <1>2, <1>3, PTL DEF Spec
=============================================================================
