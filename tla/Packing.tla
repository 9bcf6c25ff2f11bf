------------------------------- MODULE Packing -------------------------------
(***************************************************************************)
(* How interposer/libciutils.c carries structures full of pointers over    *)
(* the network: l_getSize... computes the bytes a structure needs, a buffer *)
(* of that size is allocated, pack... writes into it, and unpack... reads   *)
(* it back in the backend.  Three walks over the same structure that have   *)
(* to agree, none of which checks a bound.                                  *)
(*                                                                         *)
(* A packed buffer is a sequence of cells, each with the bytes it takes.    *)
(* Of a string or a block of bytes only its length matters: the bytes are   *)
(* copied, never looked at.                                                *)
(***************************************************************************)
EXTENDS Integers, Sequences, FiniteSets, SequencesExt

CONSTANT Objects   \* the structures to be sent

Null == -1         \* a null string; n >= 0 stands for a string of length n
Strings == Nat \cup {Null}

\* A list of entries, or the null pointer.
Absent == [there |-> FALSE, list |-> <<>>]
List(s) == [there |-> TRUE, list |-> s]
Lists(E) == {l \in [there : BOOLEAN, list : Seq(E)] : l.there \/ l.list = <<>>}

\* The structures: a CUDA 3 binary, a CUDA 4 binary, the arguments of
\* __cudaRegisterFunction and of __cudaRegisterVar.  An elf entry has a name, a
\* pointer to code or none, and the size of the code.
Pairs == Strings \X Strings
DebugEntries == Strings \X Strings \X Int
ElfEntries == Strings \X {Null, 0} \X Nat
SymbolEntries == [1 .. 1 -> Strings]

Headers == [magic : Int, version : Int, gpuInfoVersion : Int, flags : Int, characteristic : Int,
            key : Strings, ident : Strings, usageMode : Strings, debugInfo : Int]
Binaries4 == [magic : Int, version : Int, hmagic : Int, hversion : Int, length : Nat, f : Strings]
FuncArgs == [fatCubinHandle : Int, hostFun : Strings, hostFEaddr : Int, deviceFun : Strings,
             deviceName : Strings, thread_limit : Int, tid : BOOLEAN, bid : BOOLEAN, bDim : BOOLEAN,
             gDim : BOOLEAN, wSize : BOOLEAN]
VarArgs == [fatCubinHandle : Int, hostVar : Int, deviceAddress : Strings, deviceName : Strings,
            ext : Int, size : Int, constant : Int, global : Int]

Structures ==
    [kind : {"fat3"}, header : Headers, ptx : Lists(Pairs), cubin : Lists(Pairs),
     debug : Lists(DebugEntries), elf : Lists(ElfEntries), exported : Lists(SymbolEntries),
     imported : Lists(SymbolEntries), dependends : Nat]
    \cup [kind : {"fat4"}, header4 : Binaries4]
    \cup [kind : {"func"}, func : FuncArgs]
    \cup [kind : {"var"}, var : VarArgs]

ASSUME PackingAssumption == Objects \subseteq Structures

\* The parts of a structure in the order of its packed form.
Sections(kind) ==
    CASE kind = "fat3" -> <<"header", "ptx", "cubin", "debug", "elf", "exported", "imported",
                            "dependends">>
      [] kind = "fat4" -> <<"header4">>
      [] kind = "func" -> <<"func">>
      [] kind = "var" -> <<"var">>

VARIABLES
    obj,     \* the structure: its kind, and the value of each section
    pc,      \* size, pack, unpack or done
    step,    \* the section that comes next
    count,   \* cache_num_entries_t: the number of entries found by l_getSize...
    size,    \* the bytes of the buffer
    buf,     \* what has been written
    mark,    \* bytes before each section, as it was written
    at,      \* cells that have been read
    read,    \* bytes before each section, as it was read
    out,     \* the structure that has been read
    failed   \* an assertion failed

vars == <<obj, pc, step, count, size, buf, mark, at, read, out, failed>>

Section == Sections(obj.kind)[step]
LastSection == step = Len(Sections(obj.kind))

-----------------------------------------------------------------------------
(* Cells.                                                                  *)

Num(n) == [k |-> "num", v |-> n, w |-> 4]     \* size_pkt_field_t, int
Long(n) == [k |-> "long", v |-> n, w |-> 8]   \* unsigned long, pointer
Chars(n) == [k |-> "chars", v |-> n, w |-> n]

Total(ns) == FoldLeft(LAMBDA sum, n : sum + n, 0, ns)
Bytes(cells) == Total([i \in DOMAIN cells |-> cells[i].w])

Value(c, k) == IF c.k = k THEN c.v ELSE 0

\* The number of entries before the first one that does not satisfy P.
Leading(list, P(_)) ==
    LET stops == {i \in DOMAIN list : ~ P(list[i])}
    IN  IF stops = {} THEN Len(list) ELSE (CHOOSE i \in stops : \A j \in stops : i =< j) - 1

\* Strings: the length and the characters, no terminator.
l_getStringPktSize(s) == IF s = Null THEN 4 ELSE 4 + s

l_packStr(s) == LET n == IF s = Null THEN 0 ELSE s IN [k |-> "str", v |-> n, w |-> 4 + n]
l_unpackStr(c) == IF c.k # "str" \/ c.v = 0 THEN Null ELSE c.v

\* Arrays ended by an entry of null pointers.
BothThere(e) == e[1] # Null /\ e[2] # Null
NameThere(e) == e[1] # Null

\* n, and then the n first entries.
PackEntries(l, n, Cells(_)) ==
    <<Num(n)>> \o (IF l.there THEN FlattenSeq([i \in 1 .. n |-> Cells(l.list[i])]) ELSE <<>>)

\* n, and then n entries of m cells each.
UnpackEntries(cells, p, m, Entry(_)) ==
    LET n == Value(cells[p], "num")
    IN  [val |-> List([i \in 1 .. n |-> Entry(p + 1 + (i - 1) * m)]), next |-> p + 1 + n * m]

-----------------------------------------------------------------------------
(* Entries of PTX and cubin code.                                          *)

CountPtx(l) == Leading(l.list, BothThere)

l_getSizePtx(l) ==
    4 + Total([i \in 1 .. CountPtx(l) |->
                 l_getStringPktSize(l.list[i][1]) + l_getStringPktSize(l.list[i][2])])
l_packPtx(l, n) == PackEntries(l, n, LAMBDA e : <<l_packStr(e[1]), l_packStr(e[2])>>)
l_unpackPtx(cells, p) ==
    UnpackEntries(cells, p, 2, LAMBDA i : <<l_unpackStr(cells[i]), l_unpackStr(cells[i + 1])>>)

l_getSizeCubin(l) == l_getSizePtx(l)
l_packCubin(l, n) == PackEntries(l, n, LAMBDA e : <<l_packStr(e[1]), l_packStr(e[2])>>)
l_unpackCubin(cells, p) ==
    UnpackEntries(cells, p, 2, LAMBDA i : <<l_unpackStr(cells[i]), l_unpackStr(cells[i + 1])>>)

(* Debug entries, in a linked list: two strings and a size.                 *)

CountDebug(l) == Leading(l.list, BothThere)

\* Wrong variant of l_getSizeDebug: the size of an entry is forgotten.
l_getSizeDebugShort(l) ==
    4 + Total([i \in 1 .. CountDebug(l) |->
                 l_getStringPktSize(l.list[i][1]) + l_getStringPktSize(l.list[i][2])])

l_getSizeDebug(l) ==
    4 + Total([i \in 1 .. CountDebug(l) |->
                 l_getStringPktSize(l.list[i][1]) + l_getStringPktSize(l.list[i][2]) + 4])
l_packDebug(l, n) ==
    PackEntries(l, n, LAMBDA e : <<l_packStr(e[1]), l_packStr(e[2]), Num(e[3])>>)
l_unpackDebug(cells, p) ==
    LET u == UnpackEntries(cells, p, 3, LAMBDA i :
               <<l_unpackStr(cells[i]), l_unpackStr(cells[i + 1]), Value(cells[i + 2], "num")>>)
    IN  IF u.val.list = <<>> THEN [u EXCEPT !.val = Absent] ELSE u

(* Elf entries, in a linked list: name, code and the size of the code.  The *)
(* size is computed up to the first entry without code of some size, but    *)
(* all entries with a name and a pointer to code are packed.                *)

CountElf(l) == Leading(l.list, LAMBDA e : BothThere(e) /\ e[3] # 0)
WalkElf(l, n) == IF n = 0 THEN 0 ELSE Leading(l.list, BothThere)

l_getSizeElf(l) ==
    4 + Total([i \in 1 .. CountElf(l) |->
                 l_getStringPktSize(l.list[i][1]) + l.list[i][3] + 4])
l_packElf(l, n) ==
    <<Num(n)>> \o Tail(PackEntries(l, WalkElf(l, n),
                                   LAMBDA e : <<l_packStr(e[1]), Num(e[3]), Chars(e[3])>>))
l_unpackElf(cells, p) ==
    LET u == UnpackEntries(cells, p, 3, LAMBDA i :
               LET s == Value(cells[i + 1], "num")
               IN  <<l_unpackStr(cells[i]), IF s = 0 THEN Null ELSE 0, s>>)
    IN  IF u.val.list = <<>> THEN [u EXCEPT !.val = Absent] ELSE u

(* Symbols: names only.  The size has room for a string more when there are *)
(* none.                                                                    *)

CountSymbol(l) == Leading(l.list, NameThere)

l_getSizeSymbol(l) ==
    4 + (IF CountSymbol(l) = 0 THEN l_getStringPktSize(Null)
         ELSE Total([i \in 1 .. CountSymbol(l) |-> l_getStringPktSize(l.list[i][1])]))
l_packSymbol(l, n) == PackEntries(l, n, LAMBDA e : <<l_packStr(e[1])>>)

l_unpackSymbol(cells, p) ==
    LET u == UnpackEntries(cells, p, 1, LAMBDA i : <<l_unpackStr(cells[i])>>)
    IN  IF u.val.list = <<>> THEN [u EXCEPT !.val = Absent] ELSE u

-----------------------------------------------------------------------------
(* The fixed parts: three longs, two integers, three strings and a pointer. *)

HeaderSize(h) ==
    3 * 8 + 2 * 4 + l_getStringPktSize(h.key) + l_getStringPktSize(h.ident)
    + l_getStringPktSize(h.usageMode) + 8
PackHeader(h) ==
    <<Long(h.magic), Long(h.version), Long(h.gpuInfoVersion), Num(h.flags),
      Num(h.characteristic), l_packStr(h.key), l_packStr(h.ident), l_packStr(h.usageMode),
      Long(h.debugInfo)>>
UnpackHeader(cells, p) ==
    [val |-> [magic |-> Value(cells[p], "long"), version |-> Value(cells[p + 1], "long"),
              gpuInfoVersion |-> Value(cells[p + 2], "long"), flags |-> Value(cells[p + 3], "num"),
              characteristic |-> Value(cells[p + 4], "num"), key |-> l_unpackStr(cells[p + 5]),
              ident |-> l_unpackStr(cells[p + 6]), usageMode |-> l_unpackStr(cells[p + 7]),
              debugInfo |-> Value(cells[p + 8], "long")],
     next |-> p + 9]

(* A CUDA 4 binary: magic and version, the header of the data with the      *)
(* length of the data, the data, and a string.                              *)

l_getFatRecPktSize_4(b) == 4 + 4 + 4 + 4 + 8 + b.length + l_getStringPktSize(b.f)
l_packFatBinary_4(b) ==
    <<Num(b.magic), Num(b.version), Num(b.hmagic), Num(b.hversion), Long(b.length),
      Chars(b.length), l_packStr(b.f)>>
unpackFatBinary_4(cells, p) ==
    [val |-> [magic |-> Value(cells[p], "num"), version |-> Value(cells[p + 1], "num"),
              hmagic |-> Value(cells[p + 2], "num"), hversion |-> Value(cells[p + 3], "num"),
              length |-> Value(cells[p + 4], "long"), f |-> l_unpackStr(cells[p + 6])],
     next |-> p + 7]

(* Pointers to a value (uint3, dim3: 12 bytes; int: 4 bytes) or to nothing. *)

PtrSize(there, w) == IF there THEN 8 + w ELSE 8
l_getUint3PtrPktSize(there) == PtrSize(there, 12)
l_getDim3PtrPktSize(there) == PtrSize(there, 12)
l_getIntPtrPktSize(there) == PtrSize(there, 4)

PackPtr(there, w) ==
    <<Long(IF there THEN 1 ELSE 0), [k |-> "val", v |-> w, w |-> IF there THEN w ELSE 0]>>
l_packUint3Ptr(there) == PackPtr(there, 12)
l_packDim3Ptr(there) == PackPtr(there, 12)
l_packIntPtr(there) == PackPtr(there, 4)

\* The target is allocated when the value read before it is not null.
UnpackPtr(c) == Value(c, "long") = 1
l_unpackUint3Ptr(c) == UnpackPtr(c)
l_unpackDim3Ptr(c) == UnpackPtr(c)
l_unpackIntPtr(c) == UnpackPtr(c)

(* The arguments of __cudaRegisterFunction.                                 *)

l_getSize_regFuncArgs(a) ==
    8 + l_getStringPktSize(a.hostFun) + 8 + l_getStringPktSize(a.deviceFun)
    + l_getStringPktSize(a.deviceName) + 4 + l_getUint3PtrPktSize(a.tid) + l_getUint3PtrPktSize(a.bid)
    + l_getDim3PtrPktSize(a.bDim) + l_getDim3PtrPktSize(a.gDim) + l_getIntPtrPktSize(a.wSize)
packRegFuncArgs(a) ==
    <<Long(a.fatCubinHandle), l_packStr(a.hostFun), Long(a.hostFEaddr), l_packStr(a.deviceFun),
      l_packStr(a.deviceName), Num(a.thread_limit)>>
    \o l_packUint3Ptr(a.tid) \o l_packUint3Ptr(a.bid) \o l_packDim3Ptr(a.bDim)
    \o l_packDim3Ptr(a.gDim) \o l_packIntPtr(a.wSize)
unpackRegFuncArgs(cells, p) ==
    [val |-> [fatCubinHandle |-> Value(cells[p], "long"), hostFun |-> l_unpackStr(cells[p + 1]),
              hostFEaddr |-> Value(cells[p + 2], "long"), deviceFun |-> l_unpackStr(cells[p + 3]),
              deviceName |-> l_unpackStr(cells[p + 4]), thread_limit |-> Value(cells[p + 5], "num"),
              tid |-> l_unpackUint3Ptr(cells[p + 6]), bid |-> l_unpackUint3Ptr(cells[p + 8]),
              bDim |-> l_unpackDim3Ptr(cells[p + 10]), gDim |-> l_unpackDim3Ptr(cells[p + 12]),
              wSize |-> l_unpackIntPtr(cells[p + 14])],
     next |-> p + 16]

(* The arguments of __cudaRegisterVar.                                      *)

l_getSize_regVar(a) ==
    8 + 8 + l_getStringPktSize(a.deviceAddress) + l_getStringPktSize(a.deviceName) + 4 * 4
packRegVar(a) ==
    <<Long(a.fatCubinHandle), Long(a.hostVar), l_packStr(a.deviceAddress), l_packStr(a.deviceName),
      Num(a.ext), Num(a.size), Num(a.constant), Num(a.global)>>

\* Wrong variant of unpackRegVar: size before ext.
unpackRegVarSwapped(cells, p) ==
    [val |-> [fatCubinHandle |-> Value(cells[p], "long"), hostVar |-> Value(cells[p + 1], "long"),
              deviceAddress |-> l_unpackStr(cells[p + 2]), deviceName |-> l_unpackStr(cells[p + 3]),
              size |-> Value(cells[p + 4], "num"), ext |-> Value(cells[p + 5], "num"),
              constant |-> Value(cells[p + 6], "num"), global |-> Value(cells[p + 7], "num")],
     next |-> p + 8]

unpackRegVar(cells, p) ==
    [val |-> [fatCubinHandle |-> Value(cells[p], "long"), hostVar |-> Value(cells[p + 1], "long"),
              deviceAddress |-> l_unpackStr(cells[p + 2]), deviceName |-> l_unpackStr(cells[p + 3]),
              ext |-> Value(cells[p + 4], "num"), size |-> Value(cells[p + 5], "num"),
              constant |-> Value(cells[p + 6], "num"), global |-> Value(cells[p + 7], "num")],
     next |-> p + 8]

-----------------------------------------------------------------------------
(* Binaries a binary depends on: only none can be packed.                   *)

NoHeader == [magic |-> 0, version |-> 0, gpuInfoVersion |-> 0, flags |-> 0, characteristic |-> 0,
             key |-> Null, ident |-> Null, usageMode |-> Null, debugInfo |-> 0]

\* n binaries without entries (one record each, without its dependends).
l_getSizeDep(n) ==
    4 + n * (HeaderSize(NoHeader) + l_getSizePtx(Absent) + l_getSizeCubin(Absent)
             + l_getSizeDebug(Absent) + l_getSizeElf(Absent) + 2 * l_getSizeSymbol(Absent))
l_packDep(n) == <<Num(n)>>

\* When there are none the reader is not told how far to go on.  It goes on by the
\* bytes of the section before, to a place where nothing is read any more: here,
\* it stays.
l_unpackDep(cells, p) == [val |-> Value(cells[p], "num"), next |-> p]

(* The order of the sections is the order in which getFatRecPktSize,        *)
(* packFatBinary and unpackFatBinary call these.                            *)

Count(s, v) ==
    CASE s \in {"ptx", "cubin"} -> CountPtx(v)
      [] s = "debug" -> CountDebug(v)
      [] s = "elf" -> CountElf(v)
      [] s \in {"exported", "imported"} -> CountSymbol(v)
      [] s = "dependends" -> v
      [] OTHER -> 0

SizeOf(s, v) ==
    CASE s = "header" -> HeaderSize(v)
      [] s = "ptx" -> l_getSizePtx(v)
      [] s = "cubin" -> l_getSizeCubin(v)
      [] s = "debug" -> l_getSizeDebug(v)
      [] s = "elf" -> l_getSizeElf(v)
      [] s \in {"exported", "imported"} -> l_getSizeSymbol(v)
      [] s = "dependends" -> l_getSizeDep(v)
      [] s = "header4" -> l_getFatRecPktSize_4(v)
      [] s = "func" -> l_getSize_regFuncArgs(v)
      [] s = "var" -> l_getSize_regVar(v)

PackOf(s, v, n) ==
    CASE s = "header" -> PackHeader(v)
      [] s = "ptx" -> l_packPtx(v, n)
      [] s = "cubin" -> l_packCubin(v, n)
      [] s = "debug" -> l_packDebug(v, n)
      [] s = "elf" -> l_packElf(v, n)
      [] s \in {"exported", "imported"} -> l_packSymbol(v, n)
      [] s = "dependends" -> l_packDep(n)
      [] s = "header4" -> l_packFatBinary_4(v)
      [] s = "func" -> packRegFuncArgs(v)
      [] s = "var" -> packRegVar(v)

\* The assertions in l_packElf and l_packDep.
PackAsserts(s, v, n) ==
    CASE s = "elf" -> WalkElf(v, n) # n
      [] s = "dependends" -> n # 0
      [] OTHER -> FALSE

UnpackOf(s, cells, p) ==
    CASE s = "header" -> UnpackHeader(cells, p)
      [] s = "ptx" -> l_unpackPtx(cells, p)
      [] s = "cubin" -> l_unpackCubin(cells, p)
      [] s = "debug" -> l_unpackDebug(cells, p)
      [] s = "elf" -> l_unpackElf(cells, p)
      [] s \in {"exported", "imported"} -> l_unpackSymbol(cells, p)
      [] s = "dependends" -> l_unpackDep(cells, p)
      [] s = "header4" -> unpackFatBinary_4(cells, p)
      [] s = "func" -> unpackRegFuncArgs(cells, p)
      [] s = "var" -> unpackRegVar(cells, p)

-----------------------------------------------------------------------------
Put(f, s, v) == [x \in DOMAIN f \cup {s} |-> IF x = s THEN v ELSE f[x]]
Empty == [x \in {} |-> 0]

Init ==
    /\ obj \in Objects
    /\ pc = "size"
    /\ step = 1
    /\ count = Empty
    /\ size = 0
    /\ buf = <<>>
    /\ mark = Empty
    /\ at = 0
    /\ read = Empty
    /\ out = Empty
    /\ failed = FALSE

\* After the last section the next phase begins.
GoOn(next) ==
    IF LastSection THEN pc' = next /\ step' = 1 ELSE step' = step + 1 /\ UNCHANGED pc

\* l_getSize...: the size of a section is added, its entries are counted.
Size ==
    /\ pc = "size"
    /\ size' = size + SizeOf(Section, obj[Section])
    /\ count' = Put(count, Section, Count(Section, obj[Section]))
    /\ GoOn("pack")
    /\ UNCHANGED <<obj, buf, mark, at, read, out, failed>>

\* pack...: a section is written behind the previous one.
Pack ==
    /\ pc = "pack"
    /\ mark' = Put(mark, Section, Bytes(buf))
    /\ buf' = buf \o PackOf(Section, obj[Section], count[Section])
    /\ IF PackAsserts(Section, obj[Section], count[Section])
         THEN pc' = "done" /\ failed' = TRUE /\ UNCHANGED step
         ELSE GoOn("unpack") /\ UNCHANGED failed
    /\ UNCHANGED <<obj, count, size, at, read, out>>

\* unpack...: a section is read behind the previous one.
Unpack ==
    /\ pc = "unpack"
    /\ LET u == UnpackOf(Section, buf, at + 1) IN
       /\ out' = Put(out, Section, u.val)
       /\ at' = u.next - 1
    /\ read' = Put(read, Section, Bytes(SubSeq(buf, 1, at)))
    /\ GoOn("done")
    /\ UNCHANGED <<obj, count, size, buf, mark, failed>>

Done == pc = "done" /\ UNCHANGED vars

Next == Size \/ Pack \/ Unpack \/ Done

Spec == Init /\ [][Next]_vars

-----------------------------------------------------------------------------
(* Elf entries: some of size zero behind one of another size.               *)
ElfMixed ==
    obj.kind = "fat3" /\ obj.elf.there /\ CountElf(obj.elf) \notin {0, WalkElf(obj.elf, 1)}

ListSections == {"ptx", "cubin", "debug", "elf", "exported", "imported"}
Symbols == {"exported", "imported"}

(* A string of length zero among the entries, which arrives as a null       *)
(* pointer.                                                                  *)
EmptyEntry(s) ==
    \E i \in 1 .. count[s] : \E j \in 1 .. (IF s \in Symbols \cup {"elf"} THEN 1 ELSE 2) :
      obj[s].list[i][j] = 0

Arrived(v) == IF v = 0 THEN Null ELSE v

TypeOK ==
    /\ obj \in Objects
    /\ pc \in {"size", "pack", "unpack", "done"}
    /\ step \in 1 .. 8
    /\ size \in Nat
    /\ \A i \in DOMAIN buf : buf[i].w \in Nat /\ buf[i].v \in Int
    /\ at \in 0 .. Len(buf)
    /\ failed \in BOOLEAN

(* The computed size, the packing and the unpacking walk the same bytes:     *)
(* packing stays within the buffer whose size was computed beforehand, and   *)
(* fails no assertion, except for a list of elf entries in which one of size *)
(* zero follows another and for a binary with dependends; and every section  *)
(* is read at the byte at which it was written.                              *)
WalksAgree ==
    /\ Bytes(buf) > size /\ pc # "size" => ElfMixed
    /\ failed =>
         obj.kind = "fat3" /\ (ElfMixed \/ obj.dependends # 0)
    /\ \A s \in DOMAIN read : read[s] = mark[s]

(* What a reader finds by walking the lists that arrive is what it would     *)
(* have found in the lists that were sent, unless an entry has an empty      *)
(* string, which ends the list that arrives.  Strings outside the lists      *)
(* arrive, with the empty string as the null pointer.                        *)
RoundTrip ==
    pc = "done" =>
      \A s \in DOMAIN out :
        IF s \in ListSections
          THEN /\ Len(out[s].list) = count[s]
               /\ ~ EmptyEntry(s) => out[s].list = SubSeq(obj[s].list, 1, count[s])
               /\ EmptyEntry(s) => Count(s, out[s]) < count[s]
        ELSE IF s = "dependends" THEN out[s] = obj[s]
        ELSE \A f \in DOMAIN out[s] :
               out[s][f] = IF f \in {"key", "ident", "usageMode", "f", "hostFun", "deviceFun",
                                     "deviceName", "deviceAddress"}
                             THEN Arrived(obj[s][f]) ELSE obj[s][f]

=============================================================================
