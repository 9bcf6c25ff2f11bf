----------------------------- MODULE MCPacking ------------------------------
(* Instances of Packing for TLC.                                           *)
EXTENDS Packing

Str == {Null, 0, 1}

\* A null pointer, or a list of at most two entries of set E.
ListsOf(E) == {Absent} \cup {List(l) : l \in UNION {[1 .. n -> E] : n \in 0 .. 2}}

Plain == [kind |-> "fat3", header |-> [NoHeader EXCEPT !.magic = 3, !.flags = 2, !.debugInfo = 1],
          ptx |-> List(<<<<1, 2>>>>), cubin |-> List(<<<<2, 1>>>>),
          debug |-> List(<<<<1, 1, 5>>>>), elf |-> List(<<<<1, 0, 2>>>>),
          exported |-> List(<<<<1>>>>), imported |-> List(<<<<2>>>>), dependends |-> 0]

\* A binary with one section at a time of every form, and with all sections of
\* a few forms.
Fat3 ==
    UNION {
      {[Plain EXCEPT !.header.key = k, !.header.ident = i, !.header.usageMode = u] :
         k \in Str, i \in Str, u \in Str},
      {[Plain EXCEPT !.ptx = l] : l \in ListsOf(Str \X Str)},
      {[Plain EXCEPT !.cubin = l] : l \in ListsOf(Str \X Str)},
      {[Plain EXCEPT !.debug = l] : l \in ListsOf(Str \X Str \X {5})},
      {[Plain EXCEPT !.elf = l] : l \in ListsOf(Str \X {Null, 0} \X {0, 2})},
      {[Plain EXCEPT !.exported = l] : l \in ListsOf({<<n>> : n \in Str})},
      {[Plain EXCEPT !.imported = l] : l \in ListsOf({<<n>> : n \in Str})},
      {[Plain EXCEPT !.dependends = n] : n \in {1, 2}},
      {[Plain EXCEPT !.ptx = p, !.debug = d, !.elf = e, !.imported = i] :
         p \in {Absent, Plain.ptx}, d \in {Absent, Plain.debug}, e \in {Absent, Plain.elf},
         i \in {Absent, Plain.imported}}}

Fat4 ==
    {[kind |-> "fat4", header4 |-> [magic |-> 1, version |-> 2, hmagic |-> 3, hversion |-> 4,
                                    length |-> n, f |-> s]] : n \in {0, 3}, s \in Str}

Func ==
    {[kind |-> "func", func |-> [fatCubinHandle |-> 1, hostFun |-> h, hostFEaddr |-> 2,
        deviceFun |-> d, deviceName |-> n, thread_limit |-> 3, tid |-> t, bid |-> b, bDim |-> bd,
        gDim |-> gd, wSize |-> w]] :
       h \in Str, d \in Str, n \in {1}, t \in BOOLEAN, b \in BOOLEAN, bd \in BOOLEAN,
       gd \in BOOLEAN, w \in BOOLEAN}

Var ==
    {[kind |-> "var", var |-> [fatCubinHandle |-> 1, hostVar |-> 2, deviceAddress |-> d,
        deviceName |-> n, ext |-> 3, size |-> 4, constant |-> 5, global |-> 6]] :
       d \in Str, n \in Str}

All == Fat3 \cup Fat4 \cup Func \cup Var
=============================================================================
