------------------------------ MODULE RpcProofs ------------------------------
(***************************************************************************)
(* Proofs about Rpc, for any connections, methods and bounds: first the    *)
(* stream of requests (IInv), then, strengthened by what is known of the   *)
(* stream of responses (FullInv), what a call returns and that the         *)
(* protocol implements RpcService.                                         *)
(***************************************************************************)
EXTENDS Rpc, SequenceTheorems, TLAPS

-----------------------------------------------------------------------------
(* The stream of requests as a chain: each message is the part that follows *)
(* the message before it, the first one is the part the server reads next,  *)
(* and while the connection is open the last one is followed by the part    *)
(* the application sends next.                                              *)

Pos(x) == <<x.n, x.part>>

After(x) ==
    IF x.part = "hdr" THEN <<x.n, "pkt">>
    ELSE IF x.part = "pkt" /\ ReqSize(x.m) > 0 THEN <<x.n, "buf">>
    ELSE <<x.n + 1, "hdr">>

Chained(q, from) ==
    /\ q # <<>> => Pos(q[1]) = from
    /\ \A k \in 1 .. Len(q) : k + 1 <= Len(q) => Pos(q[k + 1]) = After(q[k])

End(q, from) == IF q = <<>> THEN from ELSE After(q[Len(q)])

SrvWants(c) ==
    IF spc[c] = "get_pkt" THEN <<Len(executed[c]) + 1, "pkt">>
    ELSE IF spc[c] = "get_buf" THEN <<Len(executed[c]) + 1, "buf">>
    ELSE IF spc[c] = "execute" THEN <<Len(executed[c]) + 2, "hdr">>
    ELSE <<Len(executed[c]) + 1, "hdr">>

CliSends(c) ==
    IF conn = c /\ cpc = "put_hdr" THEN <<Len(issued[c]), "hdr">>
    ELSE IF conn = c /\ cpc = "put_pkt" THEN <<Len(issued[c]), "pkt">>
    ELSE IF conn = c /\ cpc = "put_buf" THEN <<Len(issued[c]), "buf">>
    ELSE <<Len(issued[c]) + 1, "hdr">>

MsgOK(c, x) ==
    /\ x.n \in 1 .. Len(issued[c])
    /\ x.m = issued[c][x.n]
    /\ x.part = "hdr" => x.size = ReqSize(x.m)

UpInv(c) ==
    /\ \A k \in 1 .. Len(up[c]) : MsgOK(c, up[c][k])
    /\ Chained(up[c], SrvWants(c))
    /\ link[c] # "cut" => End(up[c], SrvWants(c)) = CliSends(c)

\* What the server holds of the call it is about to execute.
SrvInv(c) ==
    /\ spc[c] = "get_pkt" =>
         /\ Len(executed[c]) < Len(issued[c])
         /\ sdata[c] = ReqSize(issued[c][Len(executed[c]) + 1])
    /\ spc[c] \in {"get_buf", "execute"} =>
         /\ Len(executed[c]) < Len(issued[c])
         /\ sn[c] = Len(executed[c]) + 1
         /\ sm[c] = issued[c][sn[c]]
    /\ spc[c] = "closed" => link[c] = "cut" /\ up[c] = <<>>

ExecInv(c) ==
    /\ Len(executed[c]) <= Len(issued[c])
    /\ \A k \in 1 .. Len(executed[c]) :
         executed[c][k].n = k /\ executed[c][k].m = issued[c][k]

\* The call the application thread is in.
CliInv ==
    /\ cpc \in Putting \cup Getting =>
         /\ issued[conn] # <<>>
         /\ meth = issued[conn][Len(issued[conn])]
         /\ link[conn] # "none"
    /\ cpc = "put_buf" => ReqSize(meth) > 0
    /\ cpc \in Getting => ExpectsResponse(meth)

IInv ==
    /\ TypeOK
    /\ CliInv
    /\ \A c \in Conns : UpInv(c) /\ SrvInv(c) /\ ExecInv(c)

-----------------------------------------------------------------------------
(* Type correctness.                                                        *)

\* A fresh packet and what a handler leaves are values of the packet's type.
LEMMA OutcomeType ==
    ASSUME NEW m \in Methods, NEW o \in Outcomes(m)
    PROVE  o \in Outcome
<1>1. HandlerRets(m) \subseteq Rets
  BY DEF HandlerRets, Rets
<1> QED
  BY <1>1 DEF Outcomes, Outcome, Rets, Sizes

\* A wrapper returns OK or ERROR.
LEMMA VerdictType ==
    ASSUME NEW m, NEW r
    PROVE  Verdict(m, r) \in {"OK", "ERROR"}
BY DEF Verdict

\* A prefix of a sequence is a sequence over the same set.
LEMMA PrefixType ==
    ASSUME NEW S, NEW q \in Seq(S), NEW i \in 0 .. Len(q)
    PROVE  /\ SubSeq(q, 1, i) \in Seq(S)
           /\ Len(SubSeq(q, 1, i)) = i
           /\ \A k \in 1 .. i : SubSeq(q, 1, i)[k] = q[k]
BY SubSeqProperties

\* What Append, Tail and Deliver do to one of a family of sequences.
LEMMA FamilyType ==
    ASSUME NEW S, NEW f \in [Conns -> Seq(S)], NEW c \in Conns
    PROVE  /\ \A x \in S : [f EXCEPT ![c] = Append(@, x)] \in [Conns -> Seq(S)]
           /\ \A x \in S : Deliver(f, c, x) \in [Conns -> Seq(S)]
           /\ f[c] # <<>> => [f EXCEPT ![c] = Tail(@)] \in [Conns -> Seq(S)] /\ Head(f[c]) \in S
           /\ [f EXCEPT ![c] = <<>>] \in [Conns -> Seq(S)]
           /\ \A i \in 0 .. Len(f[c]) :
                [f EXCEPT ![c] = SubSeq(@, 1, i)] \in [Conns -> Seq(S)]
<1>1. f[c] \in Seq(S)
  OBVIOUS
<1>2. \A x \in S : Append(f[c], x) \in Seq(S)
  BY <1>1, AppendProperties
<1>3. f[c] # <<>> => Tail(f[c]) \in Seq(S) /\ Head(f[c]) \in S
  BY <1>1, HeadTailProperties
<1>4. \A i \in 0 .. Len(f[c]) : SubSeq(f[c], 1, i) \in Seq(S)
  BY <1>1, PrefixType
<1>5. <<>> \in Seq(S)
  OBVIOUS
<1> QED
  BY <1>2, <1>3, <1>4, <1>5 DEF Deliver

\* The same for the streams and the histories of Rpc.
LEMMA StateType ==
    ASSUME TypeOK, NEW c \in Conns
    PROVE  /\ \A x \in Request : Deliver(up, c, x) \in [Conns -> Seq(Request)]
           /\ up[c] # <<>> => /\ [up EXCEPT ![c] = Tail(@)] \in [Conns -> Seq(Request)]
                              /\ Head(up[c]) \in Request
           /\ [up EXCEPT ![c] = <<>>] \in [Conns -> Seq(Request)]
           /\ \A i \in 0 .. Len(up[c]) :
                [up EXCEPT ![c] = SubSeq(@, 1, i)] \in [Conns -> Seq(Request)]
           /\ \A x \in Response : Deliver(down, c, x) \in [Conns -> Seq(Response)]
           /\ down[c] # <<>> => /\ [down EXCEPT ![c] = Tail(@)] \in [Conns -> Seq(Response)]
                                /\ Head(down[c]) \in Response
           /\ \A i \in 0 .. Len(down[c]) :
                [down EXCEPT ![c] = SubSeq(@, 1, i)] \in [Conns -> Seq(Response)]
           /\ \A x \in Methods : [issued EXCEPT ![c] = Append(@, x)] \in [Conns -> Seq(Methods)]
           /\ \A x \in ExecRec :
                [executed EXCEPT ![c] = Append(@, x)] \in [Conns -> Seq(ExecRec)]
           /\ \A x \in ReturnRec :
                [returned EXCEPT ![c] = Append(@, x)] \in [Conns -> Seq(ReturnRec)]
<1>1. /\ up \in [Conns -> Seq(Request)]
      /\ down \in [Conns -> Seq(Response)]
      /\ issued \in [Conns -> Seq(Methods)]
      /\ executed \in [Conns -> Seq(ExecRec)]
      /\ returned \in [Conns -> Seq(ReturnRec)]
  BY DEF TypeOK
<1> QED
  BY <1>1, FamilyType

\* The initial state is well typed.
LEMMA TypeInit == Init => TypeOK
<1> SUFFICES ASSUME Init PROVE TypeOK
  OBVIOUS
<1>1. conn \in Conns
  BY RpcAssumption DEF Init
<1>2. meth \in Methods
  BY RpcAssumption DEF Init
<1>3. NoOutcome \in Outcome
  BY DEF NoOutcome, Outcome, Rets, Sizes
<1>4. \A S : [c \in Conns |-> <<>>] \in [Conns -> Seq(S)]
  OBVIOUS
<1>5. /\ up \in [Conns -> Seq(Request)]
      /\ down \in [Conns -> Seq(Response)]
      /\ issued \in [Conns -> Seq(Methods)]
      /\ executed \in [Conns -> Seq(ExecRec)]
      /\ returned \in [Conns -> Seq(ReturnRec)]
  BY <1>4 DEF Init
<1>6. /\ cpc = "idle" /\ ret = "unknown" /\ rsp = 0
      /\ link = [c \in Conns |-> "none"]
      /\ spc = [c \in Conns |-> "none"]
      /\ sn = [c \in Conns |-> 0]
      /\ sm = [c \in Conns |-> meth]
      /\ sdata = [c \in Conns |-> 0]
      /\ sres = [c \in Conns |-> NoOutcome]
  BY DEF Init
<1> QED
  BY <1>1, <1>2, <1>3, <1>5, <1>6 DEF TypeOK, Rets, Sizes

\* Every step keeps the types.
LEMMA TypeNext == TypeOK /\ [Next]_vars => TypeOK'
<1> SUFFICES ASSUME TypeOK, [Next]_vars PROVE TypeOK'
  OBVIOUS
<1> USE DEF TypeOK, Putting, Getting, client, server
<1>0. conn \in Conns /\ Len(issued[conn]) \in Nat
  OBVIOUS
<1>ret. ASSUME NEW r, NEW got \in Sizes, Return(r, got)
        PROVE cpc' = "idle" /\ returned' \in [Conns -> Seq(ReturnRec)]
  <2>1. [m |-> meth, v |-> Verdict(meth, r), size |-> got] \in ReturnRec
    BY VerdictType DEF ReturnRec
  <2> QED
    BY <1>0, <1>ret, <2>1, StateType DEF Return
<1>req. ASSUME NEW p \in Parts, NEW z \in Sizes
        PROVE [part |-> p, n |-> Len(issued[conn]), m |-> meth, size |-> z] \in Request
  BY <1>0 DEF Request
<1>rsp. ASSUME NEW c \in Conns, NEW p \in Parts, NEW r \in Rets, NEW z \in Sizes
        PROVE [part |-> p, n |-> sn[c], ret |-> r, size |-> z] \in Response
  BY DEF Response
<1> USE DEF Parts, Sizes
<1>1. ASSUME NEW c \in Conns, NEW m \in Methods, Call(c, m) PROVE TypeOK'
  BY <1>1, StateType DEF Call, Rets
<1>2. ASSUME Quit PROVE TypeOK'
  BY <1>2 DEF Quit
<1>3. CASE PutHdr
  BY <1>3, <1>0, <1>req, StateType DEF PutHdr, ReqSize
<1>4. CASE PutPkt
  <2>1. up' \in [Conns -> Seq(Request)]
    BY <1>4, <1>0, <1>req, StateType DEF PutPkt
  <2>2. returned' \in [Conns -> Seq(ReturnRec)] /\ cpc' \in {"put_buf", "get_hdr", "idle"}
    BY <1>4, <1>ret DEF PutPkt, Sent
  <2> QED
    BY <1>4, <2>1, <2>2 DEF PutPkt
<1>5. CASE PutBuf
  <2>1. up' \in [Conns -> Seq(Request)]
    BY <1>5, <1>0, <1>req, StateType DEF PutBuf
  <2>2. returned' \in [Conns -> Seq(ReturnRec)] /\ cpc' \in {"get_hdr", "idle"}
    BY <1>5, <1>ret DEF PutBuf, Sent
  <2> QED
    BY <1>5, <2>1, <2>2 DEF PutBuf
<1>6. CASE PutFails
  BY <1>6, <1>ret DEF PutFails
<1>7. CASE GetHdr
  BY <1>7, <1>0, StateType DEF GetHdr, Response
<1>8. CASE GetPkt
  <2>1. down' \in [Conns -> Seq(Response)] /\ ret' \in Rets
    BY <1>8, <1>0, StateType DEF GetPkt, Response
  <2>2. returned' \in [Conns -> Seq(ReturnRec)] /\ cpc' \in {"get_buf", "idle"}
    BY <1>8, <1>ret DEF GetPkt
  <2> QED
    BY <1>8, <2>1, <2>2 DEF GetPkt
<1>9. CASE GetBuf
  BY <1>9, <1>0, <1>ret, StateType DEF GetBuf
<1>10. CASE GetFails
  BY <1>10, <1>ret DEF GetFails
<1>11. ASSUME NEW c \in Conns, Accept(c) PROVE TypeOK'
  BY <1>11 DEF Accept
<1>12. ASSUME NEW c \in Conns, SrvGetHdr(c) PROVE TypeOK'
  BY <1>12, StateType DEF SrvGetHdr, Request
<1>13. ASSUME NEW c \in Conns, SrvGetPkt(c) PROVE TypeOK'
  BY <1>13, StateType DEF SrvGetPkt, Request
<1>14. ASSUME NEW c \in Conns, SrvGetBuf(c) PROVE TypeOK'
  BY <1>14, StateType DEF SrvGetBuf
<1>15. ASSUME NEW c \in Conns, Execute(c) PROVE TypeOK'
  <2>1. PICK o \in Outcomes(sm[c]) :
          /\ sres' = [sres EXCEPT ![c] = o]
          /\ executed' = [executed EXCEPT ![c] =
                             Append(@, [n |-> sn[c], m |-> sm[c], ret |-> o.ret])]
    BY <1>15 DEF Execute
  <2>2. o \in Outcome
    BY OutcomeType
  <2>3. [n |-> sn[c], m |-> sm[c], ret |-> o.ret] \in ExecRec
    BY <2>2 DEF Outcome, ExecRec
  <2> QED
    BY <1>15, <2>1, <2>2, <2>3, StateType DEF Execute
<1>16. ASSUME NEW c \in Conns, SrvPutHdr(c) PROVE TypeOK'
  BY <1>16, <1>rsp, StateType DEF SrvPutHdr, Outcome, Rets
<1>17. ASSUME NEW c \in Conns, SrvPutPkt(c) PROVE TypeOK'
  BY <1>17, <1>rsp, StateType DEF SrvPutPkt, Outcome
<1>18. ASSUME NEW c \in Conns, SrvPutBuf(c) PROVE TypeOK'
  BY <1>18, <1>rsp, StateType DEF SrvPutBuf, Outcome, Rets
<1>19. ASSUME NEW c \in Conns, Teardown(c) PROVE TypeOK'
  BY <1>19, StateType DEF Teardown
<1>20. ASSUME NEW c \in Conns, Cut(c) PROVE TypeOK'
  BY <1>20 DEF Cut
<1>21. ASSUME NEW c \in Conns, Drop(c) PROVE TypeOK'
  <2>1. up' \in [Conns -> Seq(Request)]
    <3>1. CASE UNCHANGED up
      BY <3>1
    <3>2. ASSUME NEW i \in 0 .. Len(up[c]), up' = [up EXCEPT ![c] = SubSeq(@, 1, i)]
          PROVE up' \in [Conns -> Seq(Request)]
      BY <3>2, StateType
    <3> QED
      BY <1>21, <3>1, <3>2 DEF Drop
  <2>2. down' \in [Conns -> Seq(Response)]
    <3>1. CASE UNCHANGED down
      BY <3>1
    <3>2. ASSUME NEW i \in 0 .. Len(down[c]), down' = [down EXCEPT ![c] = SubSeq(@, 1, i)]
          PROVE down' \in [Conns -> Seq(Response)]
      BY <3>2, StateType
    <3> QED
      BY <1>21, <3>1, <3>2 DEF Drop
  <2> QED
    BY <1>21, <2>1, <2>2 DEF Drop
<1>22. CASE UNCHANGED vars
  BY <1>22 DEF vars
<1> QED
  BY <1>1, <1>2, <1>3, <1>4, <1>5, <1>6, <1>7, <1>8, <1>9, <1>10, <1>11, <1>12, <1>13,
     <1>14, <1>15, <1>16, <1>17, <1>18, <1>19, <1>20, <1>21, <1>22
  DEF Next, ClientStep, ServerStep, ConnectFails, Exit, PutKills, SrvIoFails, SrvDies, Terminated

\* Every variable of the client, the servers and the streams keeps its type.
THEOREM TypeCorrect == Spec => []TypeOK
<1>1. Init => TypeOK
  BY TypeInit
<1>2. TypeOK /\ [Next]_vars => TypeOK'
  BY TypeNext
<1> QED
  BY <1>1, <1>2, PTL DEF Spec
-----------------------------------------------------------------------------
(* Chains of messages.                                                      *)

\* Only the empty sequence has length 0.
LEMMA EmptyLen ==
    ASSUME NEW S, NEW t \in Seq(S)
    PROVE  t = <<>> <=> Len(t) = 0
BY EmptySeq

\* Taking the first message leaves a chain from the message's successor.
LEMMA ChainTail ==
    ASSUME NEW q \in Seq(Request), q # <<>>, NEW p, Chained(q, p)
    PROVE  /\ Chained(Tail(q), After(Head(q)))
           /\ End(Tail(q), After(Head(q))) = End(q, p)
           /\ Pos(Head(q)) = p
<1>1. /\ Tail(q) \in Seq(Request)
      /\ Len(q) \in Nat /\ Len(q) > 0
      /\ Len(Tail(q)) = Len(q) - 1
      /\ \A i \in 1 .. Len(Tail(q)) : Tail(q)[i] = q[i + 1]
      /\ Head(q) = q[1]
  BY HeadTailProperties
<1>2. Tail(q) = <<>> <=> Len(q) = 1
  <2>1. Tail(q) = <<>> <=> Len(Tail(q)) = 0
    BY <1>1, EmptyLen
  <2> QED
    BY <1>1, <2>1
<1>3. Pos(q[1]) = p
  BY DEF Chained
<1>4. \A k \in 1 .. Len(q) : k + 1 <= Len(q) => Pos(q[k + 1]) = After(q[k])
  BY DEF Chained
<1>5. Tail(q) # <<>> => Pos(Tail(q)[1]) = After(Head(q))
  BY <1>1, <1>2, <1>4
<1>6. ASSUME NEW k \in 1 .. Len(Tail(q)), k + 1 <= Len(Tail(q))
      PROVE Pos(Tail(q)[k + 1]) = After(Tail(q)[k])
  <2>1. Tail(q)[k + 1] = q[k + 2] /\ Tail(q)[k] = q[k + 1]
    BY <1>1, <1>6
  <2>2. k + 1 \in 1 .. Len(q) /\ (k + 1) + 1 <= Len(q) /\ (k + 1) + 1 = k + 2
    BY <1>1, <1>6
  <2> QED
    BY <2>1, <2>2, <1>4
<1>7. End(Tail(q), After(Head(q))) = End(q, p)
  <2>1. CASE Tail(q) = <<>>
    BY <2>1, <1>1, <1>2 DEF End
  <2>2. CASE Tail(q) # <<>>
    BY <2>2, <1>1, <1>2 DEF End
  <2> QED
    BY <2>1, <2>2
<1>8. Chained(Tail(q), After(Head(q)))
  BY <1>5, <1>6 DEF Chained
<1> QED
  BY <1>1, <1>3, <1>7, <1>8

\* The message that comes next extends a chain.
LEMMA ChainAppend ==
    ASSUME NEW q \in Seq(Request), NEW p, Chained(q, p), NEW x \in Request, Pos(x) = End(q, p)
    PROVE  Chained(Append(q, x), p) /\ End(Append(q, x), p) = After(x)
<1>1. /\ Append(q, x) \in Seq(Request)
      /\ Append(q, x) # <<>>
      /\ Len(q) \in Nat
      /\ Len(Append(q, x)) = Len(q) + 1
      /\ \A i \in 1 .. Len(q) : Append(q, x)[i] = q[i]
      /\ Append(q, x)[Len(q) + 1] = x
  BY AppendProperties
<1>2. q = <<>> <=> Len(q) = 0
  OBVIOUS
<1>3. \A k \in 1 .. Len(q) : k + 1 <= Len(q) => Pos(q[k + 1]) = After(q[k])
  BY DEF Chained
<1>4. Pos(Append(q, x)[1]) = p
  <2>1. CASE q = <<>>
    BY <2>1, <1>1, <1>2 DEF End
  <2>2. CASE q # <<>>
    BY <2>2, <1>1, <1>2 DEF Chained
  <2> QED
    BY <2>1, <2>2
<1>5. ASSUME NEW k \in 1 .. Len(Append(q, x)), k + 1 <= Len(Append(q, x))
      PROVE Pos(Append(q, x)[k + 1]) = After(Append(q, x)[k])
  <2>1. CASE k < Len(q)
    BY <2>1, <1>1, <1>3
  <2>2. CASE k = Len(q)
    BY <2>2, <1>1, <1>2 DEF End
  <2> QED
    BY <2>1, <2>2, <1>1, <1>5
<1> QED
  BY <1>1, <1>4, <1>5 DEF Chained, End

\* A prefix of a chain is a chain.
LEMMA ChainPrefix ==
    ASSUME NEW q \in Seq(Request), NEW p, Chained(q, p), NEW i \in 0 .. Len(q)
    PROVE  Chained(SubSeq(q, 1, i), p)
<1>1. /\ SubSeq(q, 1, i) \in Seq(Request)
      /\ Len(SubSeq(q, 1, i)) = i
      /\ \A k \in 1 .. i : SubSeq(q, 1, i)[k] = q[k]
      /\ Len(q) \in Nat
  BY PrefixType
<1>2. SubSeq(q, 1, i) # <<>> => q # <<>> /\ SubSeq(q, 1, i)[1] = q[1]
  BY <1>1
<1>3. ASSUME NEW k \in 1 .. i, k + 1 <= i
      PROVE Pos(SubSeq(q, 1, i)[k + 1]) = After(SubSeq(q, 1, i)[k])
  BY <1>1, <1>3 DEF Chained
<1> QED
  BY <1>1, <1>2, <1>3 DEF Chained
-----------------------------------------------------------------------------
(* What sending and receiving a part of a request do to the stream.         *)

\* The application sends the part that is due.
LEMMA SendKeepsUp ==
    ASSUME NEW c \in Conns, TypeOK, UpInv(c), link[c] # "none",
           NEW x \in Request, MsgOK(c, x), Pos(x) = CliSends(c),
           up' = Deliver(up, c, x), link' = link, UNCHANGED <<issued, executed, spc>>,
           CliSends(c)' = After(x)
    PROVE  UpInv(c)'
<1>1. link[c] \in {"open", "cut"} /\ up[c] \in Seq(Request)
  BY DEF TypeOK
<1>2. SrvWants(c)' = SrvWants(c)
  BY DEF SrvWants
<1>3. CASE link[c] = "cut"
  <2>1. up' = up
    BY <1>3 DEF Deliver
  <2> QED
    BY <1>2, <1>3, <2>1 DEF UpInv, MsgOK
<1>4. CASE link[c] = "open"
  <2>1. up'[c] = Append(up[c], x)
    BY <1>4 DEF Deliver, TypeOK
  <2>2. Chained(up[c], SrvWants(c)) /\ End(up[c], SrvWants(c)) = CliSends(c)
    BY <1>4 DEF UpInv
  <2>3. Chained(up'[c], SrvWants(c)) /\ End(up'[c], SrvWants(c)) = After(x)
    BY <1>1, <2>1, <2>2, ChainAppend
  <2>4. ASSUME NEW k \in 1 .. Len(up'[c]) PROVE MsgOK(c, up'[c][k])
    <3>1. k \in 1 .. Len(up[c]) \/ k = Len(up[c]) + 1
      BY <1>1, <2>1, AppendProperties
    <3> QED
      BY <1>1, <2>1, <3>1, AppendProperties DEF UpInv
  <2> QED
    BY <1>2, <2>3, <2>4 DEF UpInv, MsgOK
<1> QED
  BY <1>1, <1>3, <1>4

\* The server takes the first message.
LEMMA TakeKeepsUp ==
    ASSUME NEW c \in Conns, TypeOK, UpInv(c), up[c] # <<>>,
           up' = [up EXCEPT ![c] = Tail(@)], UNCHANGED <<client, link, issued>>,
           SrvWants(c)' = After(Head(up[c]))
    PROVE  UpInv(c)'
<1>1. up[c] \in Seq(Request) /\ up'[c] = Tail(up[c])
  BY DEF TypeOK
<1>2. CliSends(c)' = CliSends(c)
  BY DEF CliSends, client
<1>3. /\ Chained(up'[c], SrvWants(c)')
      /\ End(up'[c], SrvWants(c)') = End(up[c], SrvWants(c))
  BY <1>1, ChainTail DEF UpInv
<1>4. ASSUME NEW k \in 1 .. Len(up'[c]) PROVE MsgOK(c, up'[c][k])
  <2>1. /\ Len(up[c]) \in Nat
        /\ Len(Tail(up[c])) = Len(up[c]) - 1
        /\ \A i \in 1 .. Len(Tail(up[c])) : Tail(up[c])[i] = up[c][i + 1]
    BY <1>1, HeadTailProperties
  <2>2. Len(up'[c]) = Len(up[c]) - 1
    BY <1>1, <2>1
  <2>3. k + 1 \in 1 .. Len(up[c])
    BY <2>1, <2>2
  <2>4. k \in 1 .. Len(Tail(up[c]))
    BY <1>1
  <2>5. up'[c][k] = up[c][k + 1]
    BY <1>1, <2>1, <2>4
  <2> QED
    BY <2>3, <2>5 DEF UpInv
<1> QED
  BY <1>2, <1>3, <1>4 DEF UpInv, MsgOK

\* What the first message is, by where the server is.
LEMMA HeadOfUp ==
    ASSUME NEW c \in Conns, TypeOK, UpInv(c), up[c] # <<>>
    PROVE  /\ Pos(Head(up[c])) = SrvWants(c)
           /\ MsgOK(c, Head(up[c]))
           /\ Head(up[c]) \in Request
<1>1. up[c] \in Seq(Request) /\ Head(up[c]) = up[c][1] /\ 1 \in 1 .. Len(up[c])
  BY HeadTailProperties DEF TypeOK
<1> QED
  BY <1>1, ChainTail, HeadTailProperties DEF UpInv

\* A step that touches nothing of connection d, except to cut it.
LEMMA Frame ==
    ASSUME NEW d \in Conns, UpInv(d), SrvInv(d), ExecInv(d),
           up'[d] = up[d], issued'[d] = issued[d], executed'[d] = executed[d],
           spc'[d] = spc[d], sn'[d] = sn[d], sm'[d] = sm[d], sdata'[d] = sdata[d],
           link'[d] = link[d] \/ link'[d] = "cut",
           CliSends(d)' = CliSends(d) \/ link'[d] = "cut"
    PROVE  (UpInv(d) /\ SrvInv(d) /\ ExecInv(d))'
<1>1. SrvWants(d)' = SrvWants(d)
  BY DEF SrvWants
<1>2. UpInv(d)'
  BY <1>1 DEF UpInv, MsgOK
<1> QED
  BY <1>2 DEF SrvInv, ExecInv
-----------------------------------------------------------------------------
(* The inductive invariant: one step per action, and under it the           *)
(* connection the action is about and the thread.                           *)

Conn(d) == UpInv(d) /\ SrvInv(d) /\ ExecInv(d)

\* The invariant of the requests holds initially.
LEMMA IInvInit == Init => IInv
<1> SUFFICES ASSUME Init PROVE IInv
  OBVIOUS
<1>1. TypeOK
  BY TypeInit
<1>2. CliInv
  BY DEF Init, CliInv, Putting, Getting
<1>3. ASSUME NEW c \in Conns PROVE UpInv(c) /\ SrvInv(c) /\ ExecInv(c)
  <2>1. /\ up[c] = <<>> /\ issued[c] = <<>> /\ executed[c] = <<>>
        /\ spc[c] = "none" /\ cpc = "idle"
    BY DEF Init
  <2> QED
    BY <2>1 DEF UpInv, SrvInv, ExecInv, Chained, End, SrvWants, CliSends
<1> QED
  BY <1>1, <1>2, <1>3 DEF IInv

\* A call is begun.
LEMMA CallKeeps ==
    ASSUME IInv, NEW c \in Conns, NEW m \in Methods, Call(c, m)
    PROVE  CliInv' /\ \A d \in Conns : Conn(d)'
<1> USE DEF IInv
<1>1. /\ issued[c] \in Seq(Methods) /\ Len(issued[c]) \in Nat
      /\ issued'[c] = Append(issued[c], m)
      /\ executed[c] \in Seq(ExecRec) /\ Len(executed[c]) \in Nat
  BY DEF Call, TypeOK
<1>2. /\ issued'[c] # <<>>
      /\ Len(issued'[c]) = Len(issued[c]) + 1
      /\ \A i \in 1 .. Len(issued[c]) : issued'[c][i] = issued[c][i]
      /\ issued'[c][Len(issued[c]) + 1] = m
  BY <1>1, AppendProperties
<1>3. CliInv'
  <2>1. link'[c] # "none"
    BY DEF Call, TypeOK
  <2> QED
    BY <1>1, <1>2, <2>1 DEF Call, CliInv, Putting, Getting
<1>4. CliSends(c)' = CliSends(c)
  BY <1>1, <1>2 DEF Call, CliSends
<1>5. SrvWants(c)' = SrvWants(c)
  BY DEF Call, SrvWants, server
<1>6. ASSUME NEW x, MsgOK(c, x) PROVE MsgOK(c, x)'
  BY <1>1, <1>2, <1>6 DEF MsgOK
<1>7. UpInv(c)'
  <2>1. up' = up /\ (link'[c] # "cut" => link[c] # "cut")
    BY DEF Call, TypeOK
  <2> QED
    BY <1>4, <1>5, <1>6, <2>1 DEF UpInv, MsgOK
<1>8. SrvInv(c)' /\ ExecInv(c)'
  <2>1. UNCHANGED <<spc, sn, sm, sdata, executed, up>>
    BY DEF Call, server
  <2>2. spc[c] = "closed" => link'[c] = "cut"
    BY DEF Call, SrvInv, TypeOK
  <2>3. ExecInv(c)'
    BY <1>1, <1>2, <2>1 DEF ExecInv
  <2>4. SrvInv(c)'
    BY <1>1, <1>2, <2>1, <2>2 DEF SrvInv
  <2> QED
    BY <2>3, <2>4
<1>9. ASSUME NEW d \in Conns, d # c PROVE Conn(d)'
  <2>1. CliSends(d)' = CliSends(d)
    BY <1>9 DEF Call, CliSends, TypeOK
  <2>2. /\ issued'[d] = issued[d] /\ link'[d] = link[d]
        /\ UNCHANGED <<up, executed, spc, sn, sm, sdata>>
    BY <1>9 DEF Call, TypeOK, server
  <2> QED
    BY <2>1, <2>2, Frame DEF Conn
<1> QED
  BY <1>3, <1>7, <1>8, <1>9 DEF Conn

\* The application ends.
LEMMA QuitKeeps ==
    ASSUME IInv, Quit
    PROVE  CliInv' /\ \A d \in Conns : Conn(d)'
<1> USE DEF IInv
<1>1. CliInv'
  BY DEF Quit, CliInv, Putting, Getting
<1>2. ASSUME NEW d \in Conns PROVE Conn(d)'
  <2>1. UNCHANGED <<up, issued, executed, spc, sn, sm, sdata>>
    BY DEF Quit, server
  <2>2. CASE link[d] = "none"
    <3>1. link'[d] = link[d]
      BY <2>2 DEF Quit, TypeOK
    <3>2. CliSends(d)' = CliSends(d)
      BY <2>2 DEF Quit, CliSends, CliInv, Putting, Getting
    <3> QED
      BY <2>1, <3>1, <3>2, Frame DEF Conn
  <2>3. CASE link[d] # "none"
    <3>1. link'[d] = "cut"
      BY <2>3 DEF Quit, TypeOK
    <3> QED
      BY <2>1, <3>1, Frame DEF Conn
  <2> QED
    BY <2>2, <2>3
<1> QED
  BY <1>1, <1>2

\* A step of the thread that sends nothing, and after which the next part to
\* send is the same or the connection is cut.
LEMMA ThreadKeeps ==
    ASSUME IInv, cpc \in Putting \cup Getting, UNCHANGED <<conn, meth, link, up, server, issued, executed>>,
           \/ cpc \in Getting /\ cpc' \in Getting \cup {"idle"}
           \/ link[conn] = "cut" /\ cpc' = "idle"
    PROVE  CliInv' /\ \A d \in Conns : Conn(d)'
<1> USE DEF IInv
<1>1. CliInv'
  BY DEF CliInv, Putting, Getting
<1>2. ASSUME NEW d \in Conns PROVE Conn(d)'
  <2>1. UNCHANGED <<spc, sn, sm, sdata>>
    BY DEF server
  <2>2. CliSends(d)' = CliSends(d) \/ link'[d] = "cut"
    BY DEF CliSends, Putting, Getting
  <2> QED
    BY <2>1, <2>2, Frame DEF Conn
<1> QED
  BY <1>1, <1>2
\* The thread sends a part of its request.
LEMMA SendKeeps ==
    ASSUME IInv, cpc \in Putting, NEW x \in Request,
           x.n = Len(issued[conn]), x.m = meth, x.part = "hdr" => x.size = ReqSize(meth),
           Pos(x) = CliSends(conn), up' = Deliver(up, conn, x),
           UNCHANGED <<conn, meth, link, server, issued, executed>>,
           CliSends(conn)' = After(x),
           cpc' = "put_buf" => ReqSize(meth) > 0,
           cpc' \in Putting \cup {"get_hdr", "idle"},
           cpc' = "get_hdr" => ExpectsResponse(meth)
    PROVE  CliInv' /\ \A d \in Conns : Conn(d)'
<1> USE DEF IInv
<1>0. conn \in Conns /\ issued[conn] \in Seq(Methods) /\ Len(issued[conn]) \in Nat
  BY DEF TypeOK
<1>1. CliInv'
  BY DEF CliInv, Putting, Getting
<1>2. MsgOK(conn, x)
  <2>1. Len(issued[conn]) \in 1 .. Len(issued[conn])
    BY <1>0, EmptyLen DEF CliInv
  <2> QED
    BY <2>1 DEF CliInv, MsgOK
<1>3. UpInv(conn)'
  <2>1. UNCHANGED spc
    BY DEF server
  <2>2. link[conn] # "none"
    BY DEF CliInv
  <2>3. CliSends(conn)' = After(x)
    OBVIOUS
  <2> QED
    BY <1>0, <1>2, <2>1, <2>2, <2>3, SendKeepsUp
<1>4. SrvInv(conn)' /\ ExecInv(conn)'
  <2>1. UNCHANGED <<spc, sn, sm, sdata>>
    BY DEF server
  <2>2. spc[conn] = "closed" => up'[conn] = <<>>
    BY <1>0 DEF SrvInv, Deliver
  <2> QED
    BY <1>0, <2>1, <2>2 DEF SrvInv, ExecInv
<1>5. ASSUME NEW d \in Conns, d # conn PROVE Conn(d)'
  <2>1. UNCHANGED <<spc, sn, sm, sdata>>
    BY DEF server
  <2>2. CliSends(d)' = CliSends(d)
    BY <1>5 DEF CliSends
  <2>3. up'[d] = up[d]
    BY <1>5 DEF Deliver, TypeOK
  <2> QED
    BY <2>1, <2>2, <2>3, Frame DEF Conn
<1> QED
  BY <1>0, <1>1, <1>3, <1>4, <1>5 DEF Conn

\* The three put() calls of l_do_cuda_rpc keep the invariant.
LEMMA PutKeeps ==
    ASSUME IInv, PutHdr \/ PutPkt \/ PutBuf
    PROVE  CliInv' /\ \A d \in Conns : Conn(d)'
<1> USE DEF IInv
<1>0. conn \in Conns /\ meth \in Methods /\ Len(issued[conn]) \in Nat
  BY DEF TypeOK
<1>1. CASE PutHdr
  <2> DEFINE x == [part |-> "hdr", n |-> Len(issued[conn]), m |-> meth, size |-> ReqSize(meth)]
  <2>1. x \in Request
    BY <1>0 DEF Request, Parts, Sizes, ReqSize
  <2>2. Pos(x) = CliSends(conn)
    BY <1>1 DEF PutHdr, Pos, CliSends
  <2>3. CliSends(conn)' = After(x)
    BY <1>1 DEF PutHdr, After, CliSends
  <2>4. cpc \in Putting /\ cpc' = "put_pkt" /\ cpc' \in Putting
    BY <1>1 DEF PutHdr, Putting
  <2> QED
    BY <1>1, <2>1, <2>2, <2>3, <2>4, SendKeeps DEF PutHdr
<1>2. CASE PutPkt
  <2> DEFINE x == [part |-> "pkt", n |-> Len(issued[conn]), m |-> meth, size |-> 0]
  <2>1. x \in Request
    BY <1>0 DEF Request, Parts, Sizes
  <2>2. Pos(x) = CliSends(conn)
    BY <1>2 DEF PutPkt, Pos, CliSends
  <2>3. CliSends(conn)' = After(x)
    BY <1>2 DEF PutPkt, Sent, Return, After, CliSends
  <2>4. /\ cpc \in Putting
        /\ cpc' = "put_buf" => ReqSize(meth) > 0
        /\ cpc' \in Putting \cup {"get_hdr", "idle"}
        /\ cpc' = "get_hdr" => ExpectsResponse(meth)
    BY <1>2 DEF PutPkt, Sent, Return, Putting
  <2> QED
    BY <1>2, <2>1, <2>2, <2>3, <2>4, SendKeeps DEF PutPkt
<1>3. CASE PutBuf
  <2> DEFINE x == [part |-> "buf", n |-> Len(issued[conn]), m |-> meth, size |-> 0]
  <2>1. x \in Request
    BY <1>0 DEF Request, Parts, Sizes
  <2>2. Pos(x) = CliSends(conn)
    BY <1>3 DEF PutBuf, Pos, CliSends
  <2>3. CliSends(conn)' = After(x)
    BY <1>3 DEF PutBuf, Sent, Return, After, CliSends
  <2>4. /\ cpc \in Putting
        /\ cpc' # "put_buf"
        /\ cpc' \in Putting \cup {"get_hdr", "idle"}
        /\ cpc' = "get_hdr" => ExpectsResponse(meth)
    BY <1>3 DEF PutBuf, Sent, Return, Putting
  <2> QED
    BY <1>3, <2>1, <2>2, <2>3, <2>4, SendKeeps DEF PutBuf
<1> QED
  BY <1>1, <1>2, <1>3

\* A step of the server of c changes nothing of the thread and of the others.
LEMMA ServerKeeps ==
    ASSUME IInv, NEW c \in Conns, UNCHANGED <<client, issued>>, Conn(c)',
           link[c] # "none" => link'[c] # "none",
           \A d \in Conns \ {c} :
             /\ up'[d] = up[d] /\ executed'[d] = executed[d] /\ link'[d] = link[d]
             /\ spc'[d] = spc[d] /\ sn'[d] = sn[d] /\ sm'[d] = sm[d] /\ sdata'[d] = sdata[d]
    PROVE  CliInv' /\ \A d \in Conns : Conn(d)'
<1> USE DEF IInv
<1>1. CliInv'
  BY DEF CliInv, client, TypeOK
<1>2. ASSUME NEW d \in Conns, d # c PROVE Conn(d)'
  <2>1. CliSends(d)' = CliSends(d)
    BY DEF CliSends, client
  <2> QED
    BY <1>2, <2>1, Frame DEF Conn
<1> QED
  BY <1>1, <1>2

\* The three get() calls of the server keep the invariant.
LEMMA SrvGetKeeps ==
    ASSUME IInv, NEW c \in Conns, SrvGetHdr(c) \/ SrvGetPkt(c) \/ SrvGetBuf(c)
    PROVE  CliInv' /\ \A d \in Conns : Conn(d)'
<1> USE DEF IInv
<1> DEFINE x == Head(up[c])
           E == Len(executed[c])
<1>0. up[c] # <<>> /\ up' = [up EXCEPT ![c] = Tail(@)] /\ UNCHANGED <<client, link, issued, executed>>
  BY DEF SrvGetHdr, SrvGetPkt, SrvGetBuf
<1>1. Pos(x) = SrvWants(c) /\ MsgOK(c, x) /\ x \in Request
  BY <1>0, HeadOfUp
<1>2. E \in Nat /\ Len(issued[c]) \in Nat
  BY DEF TypeOK
<1>3. SrvWants(c)' = After(x) /\ SrvInv(c)'
  <2>1. CASE SrvGetHdr(c)
    <3>1. /\ spc[c] = "get_hdr"
          /\ spc'[c] = "get_pkt" /\ sdata'[c] = x.size
      BY <2>1 DEF SrvGetHdr, TypeOK
    <3>2. x.n = E + 1 /\ x.part = "hdr"
      BY <1>1, <3>1 DEF SrvWants, Pos
    <3>3. x.n \in 1 .. Len(issued[c]) /\ x.size = ReqSize(issued[c][E + 1])
      BY <1>1, <3>2 DEF MsgOK
    <3>4. SrvWants(c)' = After(x)
      BY <1>0, <3>1, <3>2 DEF SrvWants, After
    <3>5. SrvInv(c)'
      BY <1>0, <1>2, <3>1, <3>2, <3>3 DEF SrvInv
    <3> QED
      BY <3>4, <3>5
  <2>2. CASE SrvGetPkt(c)
    <3>1. /\ spc[c] = "get_pkt"
          /\ spc'[c] = (IF sdata[c] > 0 THEN "get_buf" ELSE "execute")
          /\ sn'[c] = x.n /\ sm'[c] = x.m
      BY <2>2 DEF SrvGetPkt, TypeOK
    <3>2. x.n = E + 1 /\ x.part = "pkt"
      BY <1>1, <3>1 DEF SrvWants, Pos
    <3>3. x.n \in 1 .. Len(issued[c]) /\ x.m = issued[c][E + 1] /\ sdata[c] = ReqSize(x.m)
      BY <1>1, <3>1, <3>2 DEF MsgOK, SrvInv
    <3>4. SrvWants(c)' = After(x)
      BY <1>0, <1>2, <3>1, <3>2, <3>3 DEF SrvWants, After
    <3>5. SrvInv(c)'
      BY <1>0, <1>2, <3>1, <3>2, <3>3 DEF SrvInv
    <3> QED
      BY <3>4, <3>5
  <2>3. CASE SrvGetBuf(c)
    <3>1. /\ spc[c] = "get_buf"
          /\ spc'[c] = "execute" /\ UNCHANGED <<sn, sm>>
      BY <2>3 DEF SrvGetBuf, TypeOK
    <3>2. x.n = E + 1 /\ x.part = "buf"
      BY <1>1, <3>1 DEF SrvWants, Pos
    <3>4. SrvWants(c)' = After(x)
      BY <1>0, <1>2, <3>1, <3>2 DEF SrvWants, After
    <3>5. SrvInv(c)'
      BY <1>0, <3>1 DEF SrvInv
    <3> QED
      BY <3>4, <3>5
  <2> QED
    BY <2>1, <2>2, <2>3
<1>4. UpInv(c)'
  BY <1>0, <1>3, TakeKeepsUp
<1>5. ExecInv(c)'
  BY <1>0 DEF ExecInv
<1>6. \A d \in Conns \ {c} :
        /\ up'[d] = up[d] /\ spc'[d] = spc[d] /\ sn'[d] = sn[d] /\ sm'[d] = sm[d]
        /\ sdata'[d] = sdata[d]
  BY DEF SrvGetHdr, SrvGetPkt, SrvGetBuf, TypeOK
<1>7. Conn(c)'
  BY <1>3, <1>4, <1>5 DEF Conn
<1> QED
  BY <1>0, <1>6, <1>7, ServerKeeps

\* pkt_execute: the call that is executed is the next one.
LEMMA ExecuteKeeps ==
    ASSUME IInv, NEW c \in Conns, Execute(c)
    PROVE  CliInv' /\ \A d \in Conns : Conn(d)'
<1> USE DEF IInv
<1>1. PICK o \in Outcomes(sm[c]) :
        executed' = [executed EXCEPT ![c] =
                       Append(@, [n |-> sn[c], m |-> sm[c], ret |-> o.ret])]
  BY DEF Execute
<1> DEFINE x == [n |-> sn[c], m |-> sm[c], ret |-> o.ret]
           E == Len(executed[c])
<1>2. executed[c] \in Seq(ExecRec) /\ E \in Nat /\ Len(issued[c]) \in Nat
  BY DEF TypeOK
<1>3. x \in ExecRec
  BY OutcomeType DEF TypeOK, ExecRec, Outcome
<1>4. executed'[c] = Append(executed[c], x)
  BY <1>1 DEF TypeOK
<1>5. /\ Len(executed'[c]) = E + 1
      /\ \A k \in 1 .. E : executed'[c][k] = executed[c][k]
      /\ executed'[c][E + 1] = x
  BY <1>2, <1>3, <1>4, AppendProperties
<1>6. spc[c] = "execute" /\ spc'[c] \in {"put_hdr", "get_hdr"}
      /\ UNCHANGED <<client, link, up, sn, sm, sdata, issued>>
  BY DEF Execute, TypeOK
<1>7. E < Len(issued[c]) /\ sn[c] = E + 1 /\ sm[c] = issued[c][sn[c]]
  BY <1>6 DEF SrvInv
<1>8. ExecInv(c)'
  <2>1. ASSUME NEW k \in 1 .. E + 1
        PROVE executed'[c][k].n = k /\ executed'[c][k].m = issued[c][k]
    <3>1. CASE k = E + 1
      BY <1>5, <1>7, <3>1
    <3>2. CASE k # E + 1
      <4>1. k \in 1 .. E /\ executed'[c][k] = executed[c][k]
        BY <1>2, <1>5, <3>2
      <4> QED
        BY <4>1 DEF ExecInv
    <3> QED
      BY <3>1, <3>2
  <2> QED
    BY <1>2, <1>5, <1>6, <1>7, <2>1 DEF ExecInv
<1>9. SrvWants(c)' = SrvWants(c)
  BY <1>2, <1>5, <1>6 DEF SrvWants
<1>10. UpInv(c)'
  <2>1. CliSends(c)' = CliSends(c)
    BY <1>6 DEF CliSends, client
  <2> QED
    BY <1>6, <1>9, <2>1 DEF UpInv, MsgOK
<1>11. SrvInv(c)'
  BY <1>6 DEF SrvInv
<1>12. \A d \in Conns \ {c} : executed'[d] = executed[d] /\ spc'[d] = spc[d]
  BY <1>1 DEF Execute, TypeOK
<1>13. Conn(c)'
  BY <1>8, <1>10, <1>11 DEF Conn
<1> QED
  BY <1>6, <1>12, <1>13, ServerKeeps

\* Accepting and answering leave the stream of requests alone.
LEMMA AnswerKeeps ==
    ASSUME IInv, NEW c \in Conns, Accept(c) \/ SrvPutHdr(c) \/ SrvPutPkt(c) \/ SrvPutBuf(c)
    PROVE  CliInv' /\ \A d \in Conns : Conn(d)'
<1> USE DEF IInv
<1>1. /\ spc[c] \in {"none"} \cup Putting
      /\ spc'[c] \in {"get_hdr", "put_pkt", "put_buf"}
      /\ \A d \in Conns \ {c} : spc'[d] = spc[d]
      /\ UNCHANGED <<client, link, up, sn, sm, sdata, issued, executed>>
  BY DEF Accept, SrvPutHdr, SrvPutPkt, SrvPutBuf, TypeOK, Putting
<1>2. SrvWants(c)' = SrvWants(c) /\ CliSends(c)' = CliSends(c)
  BY <1>1 DEF SrvWants, CliSends, client, Putting
<1>3. UpInv(c)'
  BY <1>1, <1>2 DEF UpInv, MsgOK
<1>4. SrvInv(c)' /\ ExecInv(c)'
  BY <1>1 DEF SrvInv, ExecInv
<1>5. Conn(c)'
  BY <1>3, <1>4 DEF Conn
<1> QED
  BY <1>1, <1>5, ServerKeeps

\* The server ends: nothing of what was sent to it is left.
LEMMA TeardownKeeps ==
    ASSUME IInv, NEW c \in Conns, Teardown(c)
    PROVE  CliInv' /\ \A d \in Conns : Conn(d)'
<1> USE DEF IInv
<1>1. /\ spc'[c] = "closed" /\ link'[c] = "cut" /\ up'[c] = <<>>
      /\ \A d \in Conns \ {c} : spc'[d] = spc[d] /\ link'[d] = link[d] /\ up'[d] = up[d]
      /\ UNCHANGED <<client, sn, sm, sdata, issued, executed>>
  BY DEF Teardown, TypeOK
<1>2. UpInv(c)'
  BY <1>1 DEF UpInv, Chained
<1>3. SrvInv(c)' /\ ExecInv(c)'
  BY <1>1 DEF SrvInv, ExecInv
<1>4. Conn(c)'
  BY <1>2, <1>3 DEF Conn
<1> QED
  BY <1>1, <1>4, ServerKeeps

\* The connection breaks, and what is in flight is lost from its end.
LEMMA NetworkKeeps ==
    ASSUME IInv, NEW c \in Conns, Cut(c) \/ Drop(c)
    PROVE  CliInv' /\ \A d \in Conns : Conn(d)'
<1> USE DEF IInv
<1>1. CASE Cut(c)
  <2>1. /\ link'[c] = "cut"
        /\ \A d \in Conns \ {c} : link'[d] = link[d]
        /\ UNCHANGED <<client, up, spc, sn, sm, sdata, issued, executed>>
    BY <1>1 DEF Cut, TypeOK, server
  <2>2. Conn(c)'
    BY <2>1, Frame DEF Conn
  <2> QED
    BY <2>1, <2>2, ServerKeeps
<1>2. CASE Drop(c)
  <2>1. /\ link[c] = "cut"
        /\ UNCHANGED <<client, link, spc, sn, sm, sdata, issued, executed>>
    BY <1>2 DEF Drop, server
  <2>2. up[c] \in Seq(Request) /\ Len(up[c]) \in Nat
    BY DEF TypeOK
  <2>3. PICK i \in 0 .. Len(up[c]) : up'[c] = SubSeq(up[c], 1, i) \/ up'[c] = up[c]
    BY <1>2, <2>2 DEF Drop, TypeOK
  <2>4. SrvWants(c)' = SrvWants(c)
    BY <2>1 DEF SrvWants
  <2>5. Chained(up'[c], SrvWants(c)) /\ \A k \in 1 .. Len(up'[c]) : MsgOK(c, up'[c][k])
    <3>1. CASE up'[c] = up[c]
      BY <3>1 DEF UpInv
    <3>2. CASE up'[c] = SubSeq(up[c], 1, i)
      <4>1. Len(up'[c]) = i /\ \A k \in 1 .. i : up'[c][k] = up[c][k]
        BY <2>2, <3>2, PrefixType
      <4>2. Chained(up'[c], SrvWants(c))
        BY <2>2, <3>2, ChainPrefix DEF UpInv
      <4> QED
        BY <2>2, <4>1, <4>2 DEF UpInv
    <3> QED
      BY <2>3, <3>1, <3>2
  <2>6. UpInv(c)'
    BY <2>1, <2>4, <2>5 DEF UpInv, MsgOK
  <2>7. SrvInv(c)' /\ ExecInv(c)'
    <3>1. up[c] = <<>> => up'[c] = <<>>
      BY <2>2, <2>3, PrefixType, EmptyLen
    <3> QED
      BY <2>1, <3>1 DEF SrvInv, ExecInv
  <2>8. \A d \in Conns \ {c} : up'[d] = up[d]
    BY <1>2 DEF Drop, TypeOK
  <2>9. Conn(c)'
    BY <2>6, <2>7 DEF Conn
  <2> QED
    BY <2>1, <2>8, <2>9, ServerKeeps
<1> QED
  BY <1>1, <1>2

\* Every step keeps the invariant of the requests.
LEMMA IInvNext == IInv /\ [Next]_vars => IInv'
<1> SUFFICES ASSUME IInv, [Next]_vars PROVE IInv'
  OBVIOUS
<1>1. TypeOK'
  BY TypeNext DEF IInv
<1> DEFINE Keeps == CliInv' /\ \A d \in Conns : Conn(d)'
<1> SUFFICES Keeps
  BY <1>1 DEF IInv, Conn
<1>2. ASSUME NEW c \in Conns, NEW m \in Methods, Call(c, m) PROVE Keeps
  BY <1>2, CallKeeps
<1>3. CASE Quit
  BY <1>3, QuitKeeps
<1>4. CASE PutHdr \/ PutPkt \/ PutBuf
  BY <1>4, PutKeeps
<1>5. CASE PutFails \/ GetHdr \/ GetPkt \/ GetBuf \/ GetFails
  <2>1. /\ cpc \in Putting \cup Getting
        /\ UNCHANGED <<conn, meth, link, up, server, issued, executed>>
        /\ \/ cpc \in Getting /\ cpc' \in Getting \cup {"idle"}
           \/ link[conn] = "cut" /\ cpc' = "idle"
    BY <1>5 DEF PutFails, GetHdr, GetPkt, GetBuf, GetFails, Return, Putting, Getting
  <2> QED
    BY <2>1, ThreadKeeps
<1>6. ASSUME NEW c \in Conns, SrvGetHdr(c) \/ SrvGetPkt(c) \/ SrvGetBuf(c) PROVE Keeps
  BY <1>6, SrvGetKeeps
<1>7. ASSUME NEW c \in Conns, Execute(c) PROVE Keeps
  BY <1>7, ExecuteKeeps
<1>8. ASSUME NEW c \in Conns, Accept(c) \/ SrvPutHdr(c) \/ SrvPutPkt(c) \/ SrvPutBuf(c)
      PROVE Keeps
  BY <1>8, AnswerKeeps
<1>9. ASSUME NEW c \in Conns, Teardown(c) PROVE Keeps
  BY <1>9, TeardownKeeps
<1>10. ASSUME NEW c \in Conns, Cut(c) \/ Drop(c) PROVE Keeps
  BY <1>10, NetworkKeeps
<1>11. CASE UNCHANGED vars
  <2>1. CliInv'
    BY <1>11 DEF vars, client, IInv, CliInv
  <2>2. ASSUME NEW d \in Conns PROVE Conn(d)'
    <3>1. CliSends(d)' = CliSends(d)
      BY <1>11 DEF vars, client, CliSends
    <3> QED
      BY <1>11, <3>1, Frame DEF vars, server, IInv, Conn
  <2> QED
    BY <2>1, <2>2
<1> QED
  BY <1>2, <1>3, <1>4, <1>5, <1>6, <1>7, <1>8, <1>9, <1>10, <1>11
  DEF Next, ClientStep, ServerStep, ConnectFails, Exit, PutKills, SrvIoFails, SrvDies, Terminated

\* The server executes the calls of a connection in the order they were made,
\* each at most once and none skipped, whatever breaks and whenever.
THEOREM ExecutedInOrder == Spec => []InOrderOnce
<1>1. Init => IInv
  BY IInvInit
<1>2. IInv /\ [Next]_vars => IInv'
  BY IInvNext
<1>3. IInv => InOrderOnce
  BY DEF IInv, ExecInv, InOrderOnce
<1> QED
  BY <1>1, <1>2, <1>3, PTL DEF Spec

-----------------------------------------------------------------------------
(* The stream of responses holds at most the response to the call the       *)
(* application waits for, from the part it reads next to the part the       *)
(* server sends next.  z is the data_size of the response.                  *)

DAfter(z, y) ==
    IF y.part = "hdr" THEN "pkt"
    ELSE IF y.part = "pkt" /\ z > 0 THEN "buf" ELSE "end"

DChained(q, from, z) ==
    /\ q # <<>> => q[1].part = from
    /\ \A k \in 1 .. Len(q) : k + 1 <= Len(q) => q[k + 1].part = DAfter(z, q[k])

DEnd(q, from, z) == IF q = <<>> THEN from ELSE DAfter(z, q[Len(q)])

CliWants == IF cpc = "get_hdr" THEN "hdr" ELSE IF cpc = "get_pkt" THEN "pkt" ELSE "buf"

SrvSends(c) ==
    IF spc[c] = "put_hdr" THEN "hdr"
    ELSE IF spc[c] = "put_pkt" THEN "pkt"
    ELSE IF spc[c] = "put_buf" THEN "buf"
    ELSE "end"

Waiting(c) == conn = c /\ cpc \in Getting
Busy(c) == conn = c /\ cpc \in Putting \cup Getting
Done(c) == Len(executed[c]) = Len(issued[c])

RspOK(c, y) ==
    /\ y.n = Len(issued[c])
    /\ y.part = "hdr" => y.size = sres[c].size
    /\ y.part = "pkt" => y.ret = sres[c].ret

DownInv(c) ==
    /\ down[c] # <<>> => Waiting(c) /\ Done(c)
    /\ \A k \in 1 .. Len(down[c]) : RspOK(c, down[c][k])
    /\ DChained(down[c], CliWants, sres[c].size)
    /\ Waiting(c) /\ cpc # "get_hdr" => Done(c) /\ rsp = sres[c].size
    /\ link[c] # "cut" /\ Waiting(c) /\ Done(c) =>
         DEnd(down[c], CliWants, sres[c].size) = SrvSends(c)

\* What the server remembers of the call it executed last.
ResInv(c) ==
    /\ executed[c] # <<>> =>
         /\ sres[c].ret = executed[c][Len(executed[c])].ret
         /\ sres[c].size > 0 => RspBuffer(executed[c][Len(executed[c])].m)
    /\ spc[c] \in Putting =>
         /\ sn[c] = Len(executed[c])
         /\ link[c] # "cut" => Waiting(c) /\ Done(c)
    /\ spc[c] = "put_buf" => sres[c].size > 0

\* While the connection is open only the current call can be synchronous and
\* not yet executed.
SyncInv(c) ==
    link[c] # "cut" =>
      \A k \in 1 .. Len(issued[c]) :
        k > Len(executed[c]) /\ ExpectsResponse(issued[c][k]) => k = Len(issued[c]) /\ Busy(c)

Rsp(c) == DownInv(c) /\ ResInv(c) /\ SyncInv(c)

\* The return value in the packet of the current call.
RetInv ==
    /\ cpc \in Putting \cup {"get_hdr", "get_pkt"} => ret = "unknown"
    /\ cpc = "get_buf" => ret = sres[conn].ret /\ rsp > 0

\* The calls that returned are the calls that were made, but for the current one.
HistInv(c) ==
    /\ Len(returned[c]) <= Len(issued[c])
    /\ \A k \in 1 .. Len(returned[c]) : returned[c][k].m = issued[c][k]
    /\ Busy(c) => Len(returned[c]) + 1 = Len(issued[c])
    /\ cpc # "exited" /\ ~ Busy(c) => Len(returned[c]) = Len(issued[c])

FullInv ==
    /\ IInv
    /\ RetInv
    /\ OkWasExecuted
    /\ \A c \in Conns : Rsp(c) /\ HistInv(c)

-----------------------------------------------------------------------------
(* Chains of responses.                                                     *)

\* Taking the first part of a response leaves a chain from the next part.
LEMMA DChainTail ==
    ASSUME NEW q \in Seq(Response), q # <<>>, NEW p, NEW z, DChained(q, p, z)
    PROVE  /\ DChained(Tail(q), DAfter(z, Head(q)), z)
           /\ DEnd(Tail(q), DAfter(z, Head(q)), z) = DEnd(q, p, z)
           /\ Head(q).part = p
           /\ Head(q) = q[1]
           /\ 1 \in 1 .. Len(q)
<1>1. /\ Tail(q) \in Seq(Response)
      /\ Len(q) \in Nat /\ Len(q) > 0
      /\ Len(Tail(q)) = Len(q) - 1
      /\ \A i \in 1 .. Len(Tail(q)) : Tail(q)[i] = q[i + 1]
      /\ Head(q) = q[1]
  BY HeadTailProperties
<1>2. Tail(q) = <<>> <=> Len(q) = 1
  <2>1. Tail(q) = <<>> <=> Len(Tail(q)) = 0
    BY <1>1, EmptyLen
  <2> QED
    BY <1>1, <2>1
<1>3. q[1].part = p
  BY DEF DChained
<1>4. \A k \in 1 .. Len(q) : k + 1 <= Len(q) => q[k + 1].part = DAfter(z, q[k])
  BY DEF DChained
<1>5. Tail(q) # <<>> => Tail(q)[1].part = DAfter(z, Head(q))
  BY <1>1, <1>2, <1>4
<1>6. ASSUME NEW k \in 1 .. Len(Tail(q)), k + 1 <= Len(Tail(q))
      PROVE Tail(q)[k + 1].part = DAfter(z, Tail(q)[k])
  <2>1. Tail(q)[k + 1] = q[k + 2] /\ Tail(q)[k] = q[k + 1]
    BY <1>1, <1>6
  <2>2. k + 1 \in 1 .. Len(q) /\ (k + 1) + 1 <= Len(q) /\ (k + 1) + 1 = k + 2
    BY <1>1, <1>6
  <2> QED
    BY <2>1, <2>2, <1>4
<1>7. DEnd(Tail(q), DAfter(z, Head(q)), z) = DEnd(q, p, z)
  <2>1. CASE Tail(q) = <<>>
    BY <2>1, <1>1, <1>2 DEF DEnd
  <2>2. CASE Tail(q) # <<>>
    BY <2>2, <1>1, <1>2 DEF DEnd
  <2> QED
    BY <2>1, <2>2
<1>8. DChained(Tail(q), DAfter(z, Head(q)), z)
  BY <1>5, <1>6 DEF DChained
<1> QED
  BY <1>1, <1>3, <1>7, <1>8

\* The part that is due extends a chain.
LEMMA DChainAppend ==
    ASSUME NEW q \in Seq(Response), NEW p, NEW z, DChained(q, p, z), NEW x \in Response,
           x.part = DEnd(q, p, z)
    PROVE  DChained(Append(q, x), p, z) /\ DEnd(Append(q, x), p, z) = DAfter(z, x)
<1>1. /\ Append(q, x) # <<>>
      /\ Len(q) \in Nat
      /\ Len(Append(q, x)) = Len(q) + 1
      /\ \A i \in 1 .. Len(q) : Append(q, x)[i] = q[i]
      /\ Append(q, x)[Len(q) + 1] = x
  BY AppendProperties
<1>2. q = <<>> <=> Len(q) = 0
  BY EmptyLen
<1>3. \A k \in 1 .. Len(q) : k + 1 <= Len(q) => q[k + 1].part = DAfter(z, q[k])
  BY DEF DChained
<1>4. Append(q, x)[1].part = p
  <2>1. CASE q = <<>>
    BY <2>1, <1>1, <1>2 DEF DEnd
  <2>2. CASE q # <<>>
    BY <2>2, <1>1, <1>2 DEF DChained
  <2> QED
    BY <2>1, <2>2
<1>5. ASSUME NEW k \in 1 .. Len(Append(q, x)), k + 1 <= Len(Append(q, x))
      PROVE Append(q, x)[k + 1].part = DAfter(z, Append(q, x)[k])
  <2>1. CASE k < Len(q)
    BY <2>1, <1>1, <1>3
  <2>2. CASE k = Len(q)
    BY <2>2, <1>1, <1>2 DEF DEnd
  <2> QED
    BY <2>1, <2>2, <1>1, <1>5
<1> QED
  BY <1>1, <1>4, <1>5 DEF DChained, DEnd

\* A prefix of a chain is a chain.
LEMMA DChainPrefix ==
    ASSUME NEW q \in Seq(Response), NEW p, NEW z, DChained(q, p, z), NEW i \in 0 .. Len(q)
    PROVE  DChained(SubSeq(q, 1, i), p, z)
<1>1. /\ SubSeq(q, 1, i) \in Seq(Response)
      /\ Len(SubSeq(q, 1, i)) = i
      /\ \A k \in 1 .. i : SubSeq(q, 1, i)[k] = q[k]
      /\ Len(q) \in Nat
  BY PrefixType
<1>2. SubSeq(q, 1, i) # <<>> => q # <<>> /\ SubSeq(q, 1, i)[1] = q[1]
  BY <1>1
<1>3. ASSUME NEW k \in 1 .. i, k + 1 <= i
      PROVE SubSeq(q, 1, i)[k + 1].part = DAfter(z, SubSeq(q, 1, i)[k])
  BY <1>1, <1>3 DEF DChained
<1> QED
  BY <1>1, <1>2, <1>3 DEF DChained
-----------------------------------------------------------------------------
(* Facts about one connection.                                              *)

\* While the application sends a request over an open connection, the server
\* has not yet taken all of it.
LEMMA PuttingNotTaken ==
    ASSUME IInv, cpc \in Putting, link[conn] # "cut"
    PROVE  /\ Len(executed[conn]) < Len(issued[conn])
           /\ spc[conn] = "execute" => Len(executed[conn]) + 1 < Len(issued[conn])
<1> USE DEF IInv
<1> DEFINE E == Len(executed[conn])
           I == Len(issued[conn])
<1>1. conn \in Conns /\ E \in Nat /\ I \in Nat
  BY DEF TypeOK
<1>2. End(up[conn], SrvWants(conn)) = CliSends(conn)
  BY <1>1 DEF UpInv
<1>3. \E p \in Parts : CliSends(conn) = <<I, p>>
  BY DEF CliSends, Putting, Parts
<1>4. \E e \in Nat, p \in Parts :
        /\ SrvWants(conn) = <<e, p>>
        /\ e = IF spc[conn] = "execute" THEN E + 2 ELSE E + 1
  BY <1>1 DEF SrvWants, Parts
<1>5. CASE up[conn] = <<>>
  BY <1>1, <1>2, <1>3, <1>4, <1>5 DEF End
<1>6. CASE up[conn] # <<>>
  <2>1. Pos(Head(up[conn])) = SrvWants(conn) /\ MsgOK(conn, Head(up[conn]))
    BY <1>1, <1>6, HeadOfUp
  <2>2. Head(up[conn]).n \in 1 .. I
    BY <2>1 DEF MsgOK
  <2> QED
    BY <1>1, <1>4, <2>1, <2>2 DEF Pos
<1> QED
  BY <1>5, <1>6

\* A step that leaves the responses of d alone: the thread goes on waiting for
\* them or does not wait for them, and the server sends none.
LEMMA RspFrame ==
    ASSUME NEW d \in Conns, Rsp(d),
           down'[d] = down[d], issued'[d] = issued[d], executed'[d] = executed[d],
           sres'[d] = sres[d],
           link'[d] = link[d] \/ link'[d] = "cut",
           \/ spc'[d] = spc[d] /\ sn'[d] = sn[d]
           \/ spc'[d] \notin Putting /\ (spc[d] \notin Putting \/ link'[d] = "cut"),
           Waiting(d) <=> Waiting(d)',
           Waiting(d) => cpc' = cpc /\ rsp' = rsp,
           Busy(d) => Busy(d)' \/ link'[d] = "cut"
    PROVE  Rsp(d)'
<1> USE DEF Rsp, Done
<1>1. CASE ~ Waiting(d)
  <2>1. down[d] = <<>>
    BY <1>1 DEF DownInv
  <2>2. DownInv(d)'
    BY <1>1, <2>1 DEF DownInv, DChained
  <2>3. ResInv(d)'
    BY <1>1 DEF ResInv, Putting
  <2>4. SyncInv(d)'
    BY DEF SyncInv
  <2> QED
    BY <2>2, <2>3, <2>4
<1>2. CASE Waiting(d)
  <2>1. CliWants' = CliWants
    BY <1>2 DEF CliWants
  <2>2. link'[d] # "cut" => SrvSends(d)' = SrvSends(d)
    BY DEF SrvSends, Putting
  <2>3. DownInv(d)'
    BY <1>2, <2>1, <2>2 DEF DownInv, RspOK
  <2>4. ResInv(d)'
    BY <1>2 DEF ResInv, Putting
  <2>5. SyncInv(d)'
    BY DEF SyncInv
  <2> QED
    BY <2>3, <2>4, <2>5
<1> QED
  BY <1>1, <1>2
-----------------------------------------------------------------------------
(* The steps of the thread and the responses.                               *)

\* A call is begun: no response is in flight on any connection.
LEMMA RspCall ==
    ASSUME FullInv, NEW c \in Conns, NEW m \in Methods, Call(c, m)
    PROVE  \A d \in Conns : Rsp(d)'
<1> USE DEF FullInv
<1>1. /\ cpc = "idle" /\ cpc' = "put_hdr" /\ conn' = c
      /\ UNCHANGED <<down, spc, sn, sres, executed>>
      /\ \A d \in Conns \ {c} : issued'[d] = issued[d] /\ link'[d] = link[d]
      /\ issued'[c] = Append(issued[c], m)
      /\ link'[c] # "cut" => link[c] # "cut"
  BY DEF Call, server, IInv, TypeOK
<1>2. \A d \in Conns : ~ Waiting(d) /\ ~ Busy(d) /\ ~ Waiting(d)'
  BY <1>1 DEF Waiting, Busy, Putting, Getting
<1>3. Rsp(c)'
  <2>1. /\ Len(issued[c]) \in Nat /\ Len(issued'[c]) = Len(issued[c]) + 1
        /\ \A k \in 1 .. Len(issued[c]) : issued'[c][k] = issued[c][k]
    BY <1>1, AppendProperties DEF IInv, TypeOK
  <2>2. DownInv(c)'
    BY <1>1, <1>2 DEF Rsp, DownInv, DChained
  <2>3. ResInv(c)'
    BY <1>1, <1>2 DEF Rsp, ResInv
  <2>4. Busy(c)'
    BY <1>1 DEF Busy, Putting
  <2>5. SyncInv(c)'
    <3> SUFFICES ASSUME link'[c] # "cut", NEW k \in 1 .. Len(issued'[c]),
                        k > Len(executed[c]), ExpectsResponse(issued'[c][k])
                 PROVE  k = Len(issued'[c])
      BY <1>1, <2>4 DEF SyncInv
    <3>1. CASE k \in 1 .. Len(issued[c])
      BY <1>1, <1>2, <2>1, <3>1 DEF Rsp, SyncInv
    <3> QED
      BY <2>1, <3>1
  <2> QED
    BY <2>2, <2>3, <2>5 DEF Rsp
<1>4. ASSUME NEW d \in Conns, d # c PROVE Rsp(d)'
  BY <1>1, <1>2, <1>4, RspFrame
<1> QED
  BY <1>3, <1>4

\* The application ends: what is known of the responses still holds.
LEMMA RspQuit ==
    ASSUME FullInv, cpc \in {"idle"} \cup Putting, Quit
    PROVE  \A d \in Conns : Rsp(d)'
<1> USE DEF FullInv
<1>1. cpc' = "exited" /\ UNCHANGED <<down, spc, sn, sres, executed, issued>>
  BY DEF Quit, server
<1>2. ASSUME NEW d \in Conns PROVE Rsp(d)'
  <2>1. link'[d] = link[d] \/ link'[d] = "cut"
    BY DEF Quit
  <2>2. ~ Waiting(d) /\ ~ Waiting(d)'
    BY <1>1 DEF Waiting, Putting, Getting
  <2>3. Busy(d) => link'[d] = "cut"
    BY DEF Quit, Busy, IInv, CliInv, TypeOK
  <2> QED
    BY <1>1, <2>1, <2>2, <2>3, RspFrame
<1> QED
  BY <1>2

\* Sending a part of a request does not disturb the responses.
LEMMA RspPut ==
    ASSUME FullInv, PutHdr \/ PutPkt \/ PutBuf
    PROVE  \A d \in Conns : Rsp(d)'
<1> USE DEF FullInv
<1>c. PICK c \in Conns : c = conn
  BY DEF IInv, TypeOK
<1>1. /\ cpc \in Putting /\ cpc' \in Putting \cup {"get_hdr", "idle"}
      /\ cpc' = "idle" => ~ ExpectsResponse(meth)
      /\ UNCHANGED <<conn, link, down, spc, sn, sres, executed, issued>>
  BY DEF PutHdr, PutPkt, PutBuf, Sent, Return, server, Putting
<1>2. ASSUME NEW d \in Conns, d # conn PROVE Rsp(d)'
  <2>1. ~ Waiting(d) /\ ~ Waiting(d)' /\ ~ Busy(d)
    BY <1>1, <1>2 DEF Waiting, Busy
  <2> QED
    BY <1>1, <2>1, RspFrame
<1>3. Rsp(c)'
  <2>0. c \in Conns /\ Len(issued[c]) \in Nat /\ Len(executed[c]) \in Nat
    BY <1>c DEF IInv, TypeOK
  <2>1. ~ Waiting(c)
    BY <1>c, <1>1 DEF Waiting, Putting, Getting
  <2>2. down[c] = <<>>
    BY <1>c, <2>0, <2>1 DEF Rsp, DownInv
  <2>3. cpc' \in Getting => cpc' = "get_hdr"
    BY <1>c, <1>1 DEF Putting, Getting
  <2>4. link[c] # "cut" => ~ Done(c)
    BY <1>c, <1>1, <2>0, PuttingNotTaken DEF Done
  <2>5. DownInv(c)'
    BY <1>c, <1>1, <2>2, <2>3, <2>4 DEF DownInv, DChained, Waiting, Done
  <2>6. ResInv(c)'
    BY <1>c, <1>1, <2>0, <2>1 DEF Rsp, ResInv
  <2>7. SyncInv(c)'
    <3>1. CASE cpc' = "idle"
      BY <1>c, <1>1, <2>0, <3>1 DEF Rsp, SyncInv, IInv, CliInv
    <3>2. CASE cpc' # "idle"
      <4>1. Busy(c)'
        BY <1>c, <1>1, <3>2 DEF Busy, Getting
      <4> QED
        BY <1>c, <1>1, <2>0, <4>1 DEF Rsp, SyncInv
    <3> QED
      BY <1>c, <3>1, <3>2
  <2> QED
    BY <1>c, <1>1, <2>5, <2>6, <2>7 DEF Rsp
<1> QED
  BY <1>c, <1>2, <1>3

\* A call that fails leaves its connection cut.
LEMMA RspFails ==
    ASSUME FullInv, PutFails \/ GetFails
    PROVE  \A d \in Conns : Rsp(d)'
<1> USE DEF FullInv
<1>c. PICK c \in Conns : c = conn
  BY DEF IInv, TypeOK
<1>1. /\ link[conn] = "cut" /\ cpc' = "idle"
      /\ UNCHANGED <<conn, link, down, spc, sn, sres, executed, issued>>
  BY DEF PutFails, GetFails, Return, server
<1>2. ASSUME NEW d \in Conns, d # conn PROVE Rsp(d)'
  <2>1. ~ Waiting(d) /\ ~ Waiting(d)' /\ ~ Busy(d)
    BY <1>1, <1>2 DEF Waiting, Busy
  <2> QED
    BY <1>1, <2>1, RspFrame
<1>3. Rsp(c)'
  <2>1. ~ Waiting(c)'
    BY <1>c, <1>1 DEF Waiting, Getting
  <2>2. c \in Conns /\ down[c] = <<>>
    BY <1>c DEF PutFails, GetFails, Putting, Getting, Rsp, DownInv, Waiting, IInv, TypeOK
  <2>3. DownInv(c)'
    BY <1>c, <1>1, <2>1, <2>2 DEF DownInv, DChained, Waiting
  <2>4. ResInv(c)' /\ SyncInv(c)'
    BY <1>c, <1>1, <2>2 DEF Rsp, ResInv, SyncInv
  <2> QED
    BY <1>c, <1>1, <2>3, <2>4 DEF Rsp
<1> QED
  BY <1>c, <1>2, <1>3

\* The application takes a part of its response.
LEMMA RspGet ==
    ASSUME FullInv, GetHdr \/ GetPkt \/ GetBuf
    PROVE  \A d \in Conns : Rsp(d)'
<1> USE DEF FullInv
<1>c. PICK c \in Conns : c = conn
  BY DEF IInv, TypeOK
<1> DEFINE y == Head(down[c])
           z == sres[c].size
<1>0. down[c] \in Seq(Response)
  BY <1>c DEF IInv, TypeOK
<1>1. /\ cpc \in Getting /\ down[c] # <<>>
      /\ down'[c] = Tail(down[c])
      /\ \A d \in Conns \ {c} : down'[d] = down[d]
      /\ UNCHANGED <<conn, link, spc, sn, sres, executed, issued>>
  BY <1>c DEF GetHdr, GetPkt, GetBuf, server, IInv, TypeOK, Getting
<1>2. ASSUME NEW d \in Conns, d # c PROVE Rsp(d)'
  <2>1. ~ Waiting(d) /\ ~ Waiting(d)' /\ ~ Busy(d)
    BY <1>c, <1>1, <1>2 DEF Waiting, Busy
  <2> QED
    BY <1>c, <1>1, <1>2, <2>1, RspFrame
<1>3. Waiting(c) /\ Done(c)
  BY <1>c, <1>0, <1>1 DEF Rsp, DownInv
<1>4. /\ DChained(down'[c], DAfter(z, y), z)
      /\ DEnd(down'[c], DAfter(z, y), z) = DEnd(down[c], CliWants, z)
      /\ y.part = CliWants
      /\ RspOK(c, y)
  BY <1>c, <1>0, <1>1, DChainTail DEF Rsp, DownInv
<1>5. \A k \in 1 .. Len(down'[c]) : RspOK(c, down'[c][k]) /\ down'[c][k].part \in Parts
  <2>1. /\ Len(down[c]) \in Nat
        /\ Len(down'[c]) = Len(down[c]) - 1
        /\ \A k \in 1 .. Len(down'[c]) : down'[c][k] = down[c][k + 1]
    BY <1>c, <1>0, <1>1, HeadTailProperties
  <2>2. \A k \in 1 .. Len(down[c]) : RspOK(c, down[c][k]) /\ down[c][k] \in Response
    BY <1>c, <1>0, ElementOfSeq DEF Rsp, DownInv
  <2> QED
    BY <1>c, <2>1, <2>2 DEF Response
<1>6. link[c] # "cut" => DEnd(down[c], CliWants, z) = SrvSends(c)
  BY <1>c, <1>0, <1>3 DEF Rsp, DownInv
<1>7. CASE cpc' \in Getting
  <2>1. CliWants' = DAfter(z, y) /\ (cpc' # "get_hdr" => rsp' = z)
    <3>1. CASE GetHdr
      BY <1>c, <3>1, <1>4 DEF GetHdr, CliWants, DAfter, RspOK
    <3>2. CASE GetPkt
      BY <1>c, <3>2, <1>0, <1>3, <1>4, <1>7 DEF GetPkt, Return, CliWants, DAfter, Rsp, DownInv, Getting
    <3>3. CASE GetBuf
      BY <1>c, <3>3, <1>7 DEF GetBuf, Return, Getting
    <3> QED
      BY <1>c, <3>1, <3>2, <3>3
  <2>2. DownInv(c)'
    BY <1>c, <1>0, <1>1, <1>3, <1>4, <1>5, <1>6, <1>7, <2>1
    DEF DownInv, RspOK, Waiting, Done, SrvSends
  <2>3. ResInv(c)' /\ SyncInv(c)'
    BY <1>c, <1>0, <1>1, <1>3, <1>7 DEF Rsp, ResInv, SyncInv, Waiting, Busy, Done
  <2>4. Rsp(c)'
    BY <1>c, <1>1, <2>2, <2>3 DEF Rsp
  <2> QED
    BY <1>c, <1>2, <2>4
<1>8. CASE cpc' \notin Getting
  <2>1. DAfter(z, y) = "end" /\ cpc' = "idle"
    <3>1. CASE GetHdr
      BY <1>c, <3>1, <1>8 DEF GetHdr, Getting
    <3>2. CASE GetPkt
      <4>1. rsp = z /\ ~ rsp > 0
        BY <1>c, <3>2, <1>0, <1>3, <1>8 DEF GetPkt, Rsp, DownInv, Getting
      <4> QED
        BY <1>c, <3>2, <1>4, <4>1 DEF GetPkt, Return, CliWants, DAfter
    <3>3. CASE GetBuf
      BY <1>c, <3>3, <1>4 DEF GetBuf, Return, CliWants, DAfter
    <3> QED
      BY <1>c, <3>1, <3>2, <3>3
  <2>2. down'[c] = <<>>
    <3>1. Tail(down[c]) \in Seq(Response)
      BY <1>c, <1>0, <1>1, HeadTailProperties
    <3> SUFFICES ASSUME down'[c] # <<>> PROVE FALSE
      OBVIOUS
    <3>2. 1 \in 1 .. Len(down'[c])
      BY <1>c, <1>1, <3>1
    <3> QED
      BY <1>c, <1>4, <1>5, <2>1, <3>2 DEF DChained, Parts
  <2>3. link[c] # "cut" => SrvSends(c) = "end"
    BY <1>c, <1>4, <1>6, <2>1, <2>2 DEF DEnd
  <2>4. DownInv(c)'
    BY <1>8, <2>2 DEF DownInv, DChained, Waiting
  <2>5. ResInv(c)'
    BY <1>c, <1>0, <1>1, <2>3 DEF Rsp, ResInv, SrvSends, Putting
  <2>6. SyncInv(c)'
    BY <1>c, <1>0, <1>1, <1>3 DEF SyncInv, Done, IInv, TypeOK
  <2>7. Rsp(c)'
    BY <1>c, <1>1, <2>4, <2>5, <2>6 DEF Rsp
  <2> QED
    BY <1>c, <1>2, <2>7
<1> QED
  BY <1>c, <1>7, <1>8
-----------------------------------------------------------------------------
(* The steps of the servers and of the network, and the responses.          *)

\* The server of c sends the part y of its response.
LEMMA RspSend ==
    ASSUME FullInv, NEW c \in Conns, spc[c] \in Putting, NEW y \in Response,
           y.n = sn[c], y.part = SrvSends(c),
           y.part = "hdr" => y.size = sres[c].size,
           y.part = "pkt" => y.ret = sres[c].ret,
           down' = Deliver(down, c, y), SrvSends(c)' = DAfter(sres[c].size, y),
           spc'[c] = "put_buf" => sres[c].size > 0,
           \A d \in Conns \ {c} : spc'[d] = spc[d],
           UNCHANGED <<client, link, sn, sres, issued, executed>>
    PROVE  \A d \in Conns : Rsp(d)'
<1> USE DEF FullInv
<1>0. UNCHANGED <<cpc, conn, rsp>>
  BY DEF client
<1>1. ASSUME NEW d \in Conns, d # c PROVE Rsp(d)'
  <2>1. down'[d] = down[d]
    BY <1>1 DEF Deliver, IInv, TypeOK
  <2> QED
    BY <1>0, <1>1, <2>1, RspFrame DEF Waiting, Busy
<1>2. SyncInv(c)'
  BY <1>0 DEF Rsp, SyncInv, Busy
<1>3. ResInv(c)'
  BY <1>0 DEF Rsp, ResInv, Waiting, Done, Putting
<1>4. CliWants' = CliWants
  BY <1>0 DEF CliWants
<1>5. DownInv(c)'
  <2>1. CASE link[c] = "cut"
    BY <1>0, <1>4, <2>1 DEF Deliver, Rsp, DownInv, RspOK, Waiting, Done
  <2>2. CASE link[c] # "cut"
    <3>1. Waiting(c) /\ Done(c) /\ y.n = Len(issued[c])
      BY <2>2 DEF Rsp, ResInv, Done
    <3>2. link[c] = "open"
      BY <2>2, <3>1 DEF IInv, TypeOK, CliInv, Waiting
    <3>3. down[c] \in Seq(Response) /\ down'[c] = Append(down[c], y)
      BY <3>2 DEF IInv, TypeOK, Deliver
    <3>4. DChained(down[c], CliWants, sres[c].size) /\ DEnd(down[c], CliWants, sres[c].size) = y.part
      BY <2>2, <3>1 DEF Rsp, DownInv
    <3>5. /\ DChained(down'[c], CliWants, sres[c].size)
          /\ DEnd(down'[c], CliWants, sres[c].size) = DAfter(sres[c].size, y)
      BY <3>3, <3>4, DChainAppend
    <3>6. ASSUME NEW k \in 1 .. Len(down'[c]) PROVE RspOK(c, down'[c][k])
      <4>1. k \in 1 .. Len(down[c]) \/ k = Len(down[c]) + 1
        BY <3>3, AppendProperties
      <4>2. CASE k \in 1 .. Len(down[c])
        BY <3>3, <4>2, AppendProperties DEF Rsp, DownInv
      <4>3. CASE k = Len(down[c]) + 1
        <5>1. down'[c][k] = y
          BY <3>3, <4>3, AppendProperties
        <5> QED
          BY <3>1, <5>1 DEF RspOK
      <4> QED
        BY <4>1, <4>2, <4>3
    <3> QED
      BY <1>0, <1>4, <3>1, <3>5, <3>6 DEF Rsp, DownInv, RspOK, Waiting, Done
  <2> QED
    BY <2>1, <2>2
<1> QED
  BY <1>1, <1>2, <1>3, <1>5 DEF Rsp

\* The three put() calls of the server send the part that is due.
LEMMA RspSrvPut ==
    ASSUME FullInv, NEW c \in Conns, SrvPutHdr(c) \/ SrvPutPkt(c) \/ SrvPutBuf(c)
    PROVE  \A d \in Conns : Rsp(d)'
<1> USE DEF FullInv
<1>0. sn[c] \in Nat /\ sres[c] \in Outcome
  BY DEF IInv, TypeOK
<1>1. /\ UNCHANGED <<client, link, sn, sres, issued, executed>>
      /\ \A d \in Conns \ {c} : spc'[d] = spc[d]
  BY DEF SrvPutHdr, SrvPutPkt, SrvPutBuf, IInv, TypeOK
<1>2. CASE SrvPutHdr(c)
  <2> DEFINE y == [part |-> "hdr", n |-> sn[c], ret |-> "unknown", size |-> sres[c].size]
  <2>1. y \in Response
    BY <1>0 DEF Response, Parts, Rets, Outcome
  <2>2. spc[c] = "put_hdr" /\ spc'[c] = "put_pkt" /\ down' = Deliver(down, c, y)
    BY <1>2 DEF SrvPutHdr, IInv, TypeOK
  <2>3. y.part = SrvSends(c) /\ SrvSends(c)' = DAfter(sres[c].size, y)
    BY <2>2 DEF SrvSends, DAfter
  <2> QED
    BY <1>1, <2>1, <2>2, <2>3, RspSend DEF Putting
<1>3. CASE SrvPutPkt(c)
  <2> DEFINE y == [part |-> "pkt", n |-> sn[c], ret |-> sres[c].ret, size |-> 0]
  <2>1. y \in Response
    BY <1>0 DEF Response, Parts, Sizes, Outcome
  <2>2. /\ spc[c] = "put_pkt" /\ down' = Deliver(down, c, y)
        /\ spc'[c] = (IF sres[c].size > 0 THEN "put_buf" ELSE "get_hdr")
    BY <1>3 DEF SrvPutPkt, IInv, TypeOK
  <2>3. y.part = SrvSends(c) /\ SrvSends(c)' = DAfter(sres[c].size, y)
    BY <2>2 DEF SrvSends, DAfter
  <2> QED
    BY <1>1, <2>1, <2>2, <2>3, RspSend DEF Putting
<1>4. CASE SrvPutBuf(c)
  <2> DEFINE y == [part |-> "buf", n |-> sn[c], ret |-> "unknown", size |-> 0]
  <2>1. y \in Response
    BY <1>0 DEF Response, Parts, Sizes, Rets
  <2>2. spc[c] = "put_buf" /\ spc'[c] = "get_hdr" /\ down' = Deliver(down, c, y)
    BY <1>4 DEF SrvPutBuf, IInv, TypeOK
  <2>3. y.part = SrvSends(c) /\ SrvSends(c)' = DAfter(sres[c].size, y)
    BY <2>2 DEF SrvSends, DAfter
  <2> QED
    BY <1>1, <2>1, <2>2, <2>3, RspSend DEF Putting
<1> QED
  BY <1>2, <1>3, <1>4

\* A call is executed: its response is now due, if it has one.
LEMMA RspExecute ==
    ASSUME FullInv, NEW c \in Conns, Execute(c)
    PROVE  \A d \in Conns : Rsp(d)'
<1> USE DEF FullInv
<1> DEFINE E == Len(executed[c])
           I == Len(issued[c])
<1>1. PICK o \in Outcomes(sm[c]) :
        /\ sres' = [sres EXCEPT ![c] = o]
        /\ executed' = [executed EXCEPT ![c] =
                          Append(@, [n |-> sn[c], m |-> sm[c], ret |-> o.ret])]
  BY DEF Execute
<1> DEFINE x == [n |-> sn[c], m |-> sm[c], ret |-> o.ret]
<1>2. executed[c] \in Seq(ExecRec) /\ E \in Nat /\ I \in Nat /\ sm[c] \in Methods
  BY DEF IInv, TypeOK
<1>3. x \in ExecRec
  BY OutcomeType DEF IInv, TypeOK, ExecRec, Outcome
<1>4. executed'[c] = Append(executed[c], x) /\ sres'[c] = o
  BY <1>1 DEF IInv, TypeOK
<1>5. Len(executed'[c]) = E + 1 /\ executed'[c][E + 1] = x
  BY <1>2, <1>3, <1>4, AppendProperties
<1>6. /\ spc[c] = "execute"
      /\ spc'[c] = (IF ExpectsResponse(sm[c]) THEN "put_hdr" ELSE "get_hdr")
      /\ UNCHANGED <<cpc, conn, rsp, link, down, sn, sm, issued>>
      /\ \A d \in Conns \ {c} : /\ spc'[d] = spc[d] /\ executed'[d] = executed[d]
                                /\ sres'[d] = sres[d]
  BY <1>1 DEF Execute, client, IInv, TypeOK
<1>7. E < I /\ sn[c] = E + 1 /\ sm[c] = issued[c][E + 1]
  BY <1>6 DEF IInv, SrvInv
<1>8. ASSUME NEW d \in Conns, d # c PROVE Rsp(d)'
  BY <1>6, <1>8, RspFrame DEF Waiting, Busy
<1>9. down[c] = <<>> /\ ~ (Waiting(c) /\ cpc # "get_hdr")
  BY <1>2, <1>7 DEF Rsp, DownInv, Done
<1>10. ASSUME link[c] # "cut", ExpectsResponse(sm[c]) PROVE Waiting(c) /\ E + 1 = I
  <2>1. E + 1 = I /\ Busy(c)
    BY <1>2, <1>7, <1>10 DEF Rsp, SyncInv
  <2>2. cpc \notin Putting
    BY <1>6, <1>10, <2>1, PuttingNotTaken DEF Busy
  <2> QED
    BY <2>1, <2>2 DEF Busy, Waiting
<1>11. ASSUME Waiting(c), E + 1 = I PROVE ExpectsResponse(sm[c])
  BY <1>7, <1>11 DEF IInv, CliInv, Waiting, Getting
<1>12. DownInv(c)'
  <2>1. Waiting(c)' /\ Done(c)' => CliWants' = "hdr" /\ SrvSends(c)' = "hdr"
    BY <1>5, <1>6, <1>9, <1>11 DEF Waiting, Done, CliWants, SrvSends
  <2> QED
    BY <1>6, <1>9, <2>1 DEF DownInv, DChained, DEnd, Waiting
<1>13. ResInv(c)'
  <2>1. o.size > 0 => RspBuffer(sm[c])
    BY DEF Outcomes
  <2>2. spc'[c] \in Putting => sn'[c] = E + 1 /\ (link'[c] # "cut" => Waiting(c)' /\ Done(c)')
    BY <1>5, <1>6, <1>7, <1>10 DEF Waiting, Done, Putting
  <2> QED
    BY <1>4, <1>5, <1>6, <2>1, <2>2 DEF ResInv
<1>14. SyncInv(c)'
  <2>1. SUFFICES ASSUME link[c] # "cut", NEW k \in 1 .. I, k > E + 1, ExpectsResponse(issued[c][k])
                 PROVE  k = I /\ Busy(c)
    BY <1>5, <1>6 DEF SyncInv, Busy
  <2>2. SyncInv(c) /\ k > E
    BY <1>2, <2>1 DEF Rsp
  <2> QED
    BY <2>1, <2>2 DEF SyncInv
<1> QED
  BY <1>8, <1>12, <1>13, <1>14 DEF Rsp

\* Steps of the server that neither execute nor answer.
LEMMA RspOther ==
    ASSUME FullInv, NEW c \in Conns,
           \/ Accept(c) \/ SrvGetHdr(c) \/ SrvGetPkt(c) \/ SrvGetBuf(c)
           \/ Teardown(c) \/ Cut(c)
    PROVE  \A d \in Conns : Rsp(d)'
<1> USE DEF FullInv
<1>1. UNCHANGED <<cpc, conn, rsp, down, issued, executed, sres>>
  BY DEF Accept, SrvGetHdr, SrvGetPkt, SrvGetBuf, Teardown, Cut, client, server
<1>2. ASSUME NEW d \in Conns PROVE link'[d] = link[d] \/ link'[d] = "cut"
  BY DEF Accept, SrvGetHdr, SrvGetPkt, SrvGetBuf, Teardown, Cut, IInv, TypeOK
<1>3. ASSUME NEW d \in Conns
      PROVE \/ spc'[d] = spc[d] /\ sn'[d] = sn[d]
            \/ spc'[d] \notin Putting /\ (spc[d] \notin Putting \/ link'[d] = "cut")
  BY DEF Accept, SrvGetHdr, SrvGetPkt, SrvGetBuf, Teardown, Cut, IInv, TypeOK, Putting, server
<1> QED
  BY <1>1, <1>2, <1>3, RspFrame DEF Waiting, Busy

\* The end of what is in flight on a cut connection is lost.
LEMMA RspDrop ==
    ASSUME FullInv, NEW c \in Conns, Drop(c)
    PROVE  \A d \in Conns : Rsp(d)'
<1> USE DEF FullInv
<1>1. /\ link[c] = "cut"
      /\ UNCHANGED <<cpc, conn, rsp, link, issued, executed, sres, spc, sn>>
  BY DEF Drop, client, server
<1>2. \A d \in Conns \ {c} : down'[d] = down[d]
  BY DEF Drop, IInv, TypeOK
<1>3. ASSUME NEW d \in Conns, d # c PROVE Rsp(d)'
  BY <1>1, <1>2, <1>3, RspFrame DEF Waiting, Busy
<1>4. down[c] \in Seq(Response) /\ Len(down[c]) \in Nat
  BY DEF IInv, TypeOK
<1>5. PICK i \in 0 .. Len(down[c]) : down'[c] = SubSeq(down[c], 1, i) \/ down'[c] = down[c]
  BY <1>4 DEF Drop, IInv, TypeOK
<1>6. /\ DChained(down'[c], CliWants, sres[c].size)
      /\ \A k \in 1 .. Len(down'[c]) : RspOK(c, down'[c][k])
      /\ down'[c] # <<>> => down[c] # <<>>
  <2>1. CASE down'[c] = down[c]
    BY <2>1 DEF Rsp, DownInv
  <2>2. CASE down'[c] = SubSeq(down[c], 1, i)
    <3>1. Len(down'[c]) = i /\ \A k \in 1 .. i : down'[c][k] = down[c][k]
      BY <1>4, <2>2, PrefixType
    <3>2. DChained(down'[c], CliWants, sres[c].size)
      BY <1>4, <2>2, DChainPrefix DEF Rsp, DownInv
    <3>3. down[c] = <<>> => down'[c] = <<>>
      BY <1>4, <2>2, PrefixType, EmptyLen
    <3> QED
      BY <1>4, <3>1, <3>2, <3>3 DEF Rsp, DownInv
  <2> QED
    BY <1>5, <2>1, <2>2
<1>7. CliWants' = CliWants
  BY <1>1 DEF CliWants
<1>8. DownInv(c)'
  BY <1>1, <1>6, <1>7 DEF Rsp, DownInv, RspOK, Waiting, Done
<1>9. ResInv(c)' /\ SyncInv(c)'
  BY <1>1 DEF Rsp, ResInv, SyncInv
<1> QED
  BY <1>3, <1>8, <1>9 DEF Rsp
-----------------------------------------------------------------------------
(* What calls return.                                                       *)

\* The histories, the packet of the current call, and the verdicts.
Hist == RetInv /\ OkWasExecuted /\ \A d \in Conns : HistInv(d)

\* The current call returns, with OK only if its packet says success.
LEMMA ReturnHist ==
    ASSUME FullInv, cpc \in Putting \cup Getting, NEW r, NEW got \in Sizes, Return(r, got),
           UNCHANGED <<conn, issued, executed>>,
           ExpectsResponse(meth) /\ r = "success" =>
             Done(conn) /\ sres[conn].ret = "success"
    PROVE  Hist'
<1> USE DEF FullInv
<1>c. PICK c \in Conns : c = conn
  BY DEF IInv, TypeOK
<1> DEFINE x == [m |-> meth, v |-> Verdict(meth, r), size |-> got]
           K == Len(returned[c])
<1>1. /\ returned[c] \in Seq(ReturnRec) /\ K \in Nat
      /\ issued[c] \in Seq(Methods) /\ Len(issued[c]) \in Nat
      /\ executed[c] \in Seq(ExecRec) /\ Len(executed[c]) \in Nat
  BY DEF IInv, TypeOK
<1>2. x \in ReturnRec
  BY VerdictType DEF IInv, TypeOK, ReturnRec
<1>3. cpc' = "idle" /\ returned'[c] = Append(returned[c], x)
      /\ \A d \in Conns \ {c} : returned'[d] = returned[d]
  BY <1>c DEF Return, IInv, TypeOK
<1>4. /\ Len(returned'[c]) = K + 1 /\ returned'[c][K + 1] = x
      /\ \A k \in 1 .. K : returned'[c][k] = returned[c][k]
  BY <1>1, <1>2, <1>3, AppendProperties
<1>5. /\ K + 1 = Len(issued[c])
      /\ meth = issued[c][K + 1]
  BY <1>c DEF HistInv, Busy, IInv, CliInv
<1>6. RetInv'
  BY <1>3 DEF RetInv, Putting
<1>7. ASSUME NEW d \in Conns PROVE HistInv(d)'
  <2>1. ~ Busy(d)'
    BY <1>3 DEF Busy, Putting, Getting
  <2>2. CASE d = c
    <3>1. ASSUME NEW k \in 1 .. K + 1 PROVE returned'[c][k].m = issued[c][k]
      <4>1. CASE k = K + 1
        BY <1>4, <1>5, <4>1
      <4>2. CASE k # K + 1
        <5>1. k \in 1 .. K /\ returned'[c][k] = returned[c][k]
          BY <1>1, <1>4, <4>2
        <5> QED
          BY <5>1 DEF HistInv
      <4> QED
        BY <4>1, <4>2
    <3> QED
      BY <1>1, <1>4, <1>5, <2>1, <2>2, <3>1 DEF HistInv
  <2>3. CASE d # c
    <3>1. ~ Busy(d)
      BY <1>c, <2>3 DEF Busy
    <3> QED
      BY <1>3, <2>1, <2>3, <3>1 DEF HistInv, Putting, Getting
  <2> QED
    BY <2>2, <2>3
<1>8. OkWasExecuted'
  <2> SUFFICES ASSUME NEW d \in Conns, NEW k \in 1 .. Len(returned'[d]),
                      returned'[d][k].v = "OK", ExpectsResponse(returned'[d][k].m),
                      returned'[d][k].m # "RegisterFatBinary"
               PROVE  /\ k <= Len(executed[d])
                      /\ executed[d][k].m = returned'[d][k].m
                      /\ executed[d][k].ret = "success"
    BY DEF OkWasExecuted
  <2>1. CASE d = c /\ k = K + 1
    <3>1. ExpectsResponse(meth) /\ meth # "RegisterFatBinary" /\ Verdict(meth, r) = "OK"
      BY <1>4, <2>1
    <3>2. r = "success"
      BY <3>1 DEF Verdict
    <3>3. Done(c) /\ sres[c].ret = "success"
      BY <1>c, <3>1, <3>2
    <3>4. Len(executed[c]) = K + 1 /\ executed[c] # <<>>
      BY <1>1, <1>5, <3>3, EmptyLen DEF Done
    <3>5. executed[c][K + 1].ret = "success"
      BY <3>3, <3>4 DEF Rsp, ResInv
    <3>6. executed[c][K + 1].m = issued[c][K + 1]
      BY <1>1, <3>4 DEF IInv, ExecInv
    <3> QED
      BY <1>1, <1>4, <1>5, <2>1, <3>4, <3>5, <3>6
  <2>2. CASE d # c \/ k # K + 1
    <3>1. k \in 1 .. Len(returned[d]) /\ returned'[d][k] = returned[d][k]
      BY <1>1, <1>3, <1>4, <2>2
    <3> QED
      BY <3>1 DEF OkWasExecuted
  <2> QED
    BY <2>1, <2>2
<1> QED
  BY <1>6, <1>7, <1>8 DEF Hist

\* No call returns: what was executed stays executed.
LEMMA OkFrame ==
    ASSUME OkWasExecuted, TypeOK, UNCHANGED returned,
           \A d \in Conns : /\ Len(executed[d]) <= Len(executed'[d])
                            /\ \A k \in 1 .. Len(executed[d]) : executed'[d][k] = executed[d][k],
           \A d \in Conns : Len(executed'[d]) \in Nat
    PROVE  OkWasExecuted'
<1> SUFFICES ASSUME NEW d \in Conns, NEW k \in 1 .. Len(returned[d]),
                    returned[d][k].v = "OK", ExpectsResponse(returned[d][k].m),
                    returned[d][k].m # "RegisterFatBinary"
             PROVE  /\ k <= Len(executed'[d])
                    /\ executed'[d][k].m = returned[d][k].m
                    /\ executed'[d][k].ret = "success"
  BY DEF OkWasExecuted
<1>1. k <= Len(executed[d]) /\ executed[d][k].m = returned[d][k].m /\ executed[d][k].ret = "success"
  BY DEF OkWasExecuted
<1>2. Len(executed[d]) \in Nat /\ Len(returned[d]) \in Nat
  BY DEF TypeOK
<1>3. k \in 1 .. Len(executed[d]) /\ executed'[d][k] = executed[d][k]
  BY <1>1, <1>2
<1> QED
  BY <1>1, <1>2, <1>3

\* The thread goes on with its call, or ends.
LEMMA ThreadHist ==
    ASSUME FullInv, UNCHANGED <<issued, executed, returned>>, RetInv',
           \A d \in Conns : \/ cpc' = "exited" /\ ~ Busy(d)'
                            \/ cpc # "exited" /\ (Busy(d) <=> Busy(d)')
    PROVE  Hist'
<1> USE DEF FullInv
<1>1. OkWasExecuted'
  BY DEF OkWasExecuted
<1>2. ASSUME NEW d \in Conns PROVE HistInv(d)'
  BY DEF HistInv
<1> QED
  BY <1>1, <1>2 DEF Hist

\* What the first message of a response is.
LEMMA HeadOfDown ==
    ASSUME FullInv, down[conn] # <<>>
    PROVE  Done(conn) /\ Head(down[conn]).part = CliWants /\ RspOK(conn, Head(down[conn]))
<1>1. conn \in Conns /\ down[conn] \in Seq(Response)
  BY DEF FullInv, IInv, TypeOK
<1>2. DownInv(conn)
  BY <1>1 DEF FullInv, Rsp
<1>3. DChained(down[conn], CliWants, sres[conn].size)
  BY <1>2 DEF DownInv
<1>4. /\ Head(down[conn]).part = CliWants
      /\ Head(down[conn]) = down[conn][1] /\ 1 \in 1 .. Len(down[conn])
  BY <1>1, <1>3, DChainTail
<1> QED
  BY <1>2, <1>4 DEF DownInv

\* A step of the thread.
LEMMA ClientHist ==
    ASSUME FullInv, ClientStep
    PROVE  Hist'
<1> USE DEF FullInv
<1>0. conn \in Conns /\ 0 \in Sizes /\ 1 \in Sizes
  BY DEF IInv, TypeOK, Sizes
<1>1. CASE cpc' = "idle" /\ (PutPkt \/ PutBuf \/ PutFails \/ GetFails)
  <2>1. Return(ret, 0)
    BY <1>1 DEF PutPkt, PutBuf, PutFails, GetFails, Sent
  <2>2. /\ cpc \in Putting \cup Getting
        /\ UNCHANGED <<conn, issued, executed>>
    BY <1>1 DEF PutPkt, PutBuf, PutFails, GetFails, Putting
  <2>3. ASSUME ret = "success" PROVE Done(conn) /\ sres[conn].ret = "success"
    <3>1. cpc = "get_buf"
      BY <2>2, <2>3 DEF RetInv, Putting, Getting
    <3> QED
      BY <1>0, <2>3, <3>1 DEF RetInv, Rsp, DownInv, Waiting, Getting
  <2> QED
    BY <1>0, <2>1, <2>2, <2>3, ReturnHist
<1>2. CASE cpc' = "idle" /\ (GetPkt \/ GetBuf)
  <2> DEFINE y == Head(down[conn])
  <2>1. /\ cpc \in Getting /\ cpc # "get_hdr" /\ down[conn] # <<>>
        /\ UNCHANGED <<conn, issued, executed>>
    BY <1>2 DEF GetPkt, GetBuf, Getting
  <2>2. Done(conn) /\ y.part = CliWants /\ RspOK(conn, y)
    BY <2>1, HeadOfDown
  <2>3. CASE GetPkt
    <3>1. Return(y.ret, 0)
      BY <1>2, <2>3 DEF GetPkt, Return
    <3>2. y.ret = sres[conn].ret
      BY <2>2, <2>3 DEF GetPkt, CliWants, RspOK
    <3> QED
      BY <1>0, <2>1, <2>2, <3>1, <3>2, ReturnHist
  <2>4. CASE GetBuf
    <3>1. Return(ret, 1) /\ ret = sres[conn].ret
      BY <2>4 DEF GetBuf, RetInv
    <3> QED
      BY <1>0, <2>1, <2>2, <3>1, ReturnHist
  <2> QED
    BY <1>2, <2>3, <2>4
<1>3. CASE cpc' # "idle" /\ ~ PutKills
  <2>1. /\ cpc \in Putting \cup Getting /\ cpc' \in Putting \cup Getting
        /\ UNCHANGED <<conn, issued, executed, returned, sres>>
    BY <1>3 DEF ClientStep, PutHdr, PutPkt, PutBuf, PutFails, GetHdr, GetPkt, GetBuf, GetFails,
                Sent, Return, Putting, Getting, server
  <2>2. RetInv'
    <3>1. CASE PutHdr \/ PutPkt \/ PutBuf
      BY <1>3, <3>1 DEF PutHdr, PutPkt, PutBuf, Sent, Return, RetInv, Putting
    <3>2. CASE GetHdr
      BY <1>3, <3>2 DEF GetHdr, RetInv, Putting
    <3>3. CASE GetPkt
      <4>1. down[conn] # <<>> /\ cpc = "get_pkt"
        BY <3>3 DEF GetPkt
      <4>2. Head(down[conn]).part = CliWants /\ RspOK(conn, Head(down[conn]))
        BY <4>1, HeadOfDown
      <4>3. Head(down[conn]).ret = sres[conn].ret
        BY <4>1, <4>2 DEF CliWants, RspOK
      <4> QED
        BY <1>3, <2>1, <3>3, <4>3 DEF GetPkt, Return, RetInv, Putting
    <3> QED
      BY <1>3, <3>1, <3>2, <3>3 DEF ClientStep, PutFails, GetBuf, GetFails, Return
  <2>3. \A d \in Conns : cpc # "exited" /\ (Busy(d) <=> Busy(d)')
    BY <2>1 DEF Busy, Putting, Getting
  <2> QED
    BY <2>1, <2>2, <2>3, ThreadHist
<1>4. CASE PutKills
  <2>1. cpc' = "exited" /\ UNCHANGED <<issued, executed, returned>>
    BY <1>4 DEF PutKills, Quit
  <2>2. RetInv' /\ \A d \in Conns : ~ Busy(d)'
    BY <2>1 DEF RetInv, Busy, Putting, Getting
  <2> QED
    BY <2>1, <2>2, ThreadHist
<1> QED
  BY <1>1, <1>2, <1>3, <1>4 DEF ClientStep, PutHdr, GetHdr
\* A call is begun, or the application ends between two calls.
LEMMA CallHist ==
    ASSUME FullInv, NEW c \in Conns, NEW m \in Methods, Call(c, m)
    PROVE  Hist'
<1> USE DEF FullInv
<1>1. /\ cpc = "idle" /\ cpc' = "put_hdr" /\ conn' = c /\ ret' = "unknown"
      /\ UNCHANGED <<executed, returned>>
      /\ \A d \in Conns \ {c} : issued'[d] = issued[d]
      /\ issued'[c] = Append(issued[c], m)
  BY DEF Call, IInv, TypeOK
<1>2. RetInv'
  BY <1>1 DEF RetInv, Putting
<1>3. OkWasExecuted'
  BY <1>1 DEF OkWasExecuted
<1>4. ASSUME NEW d \in Conns PROVE HistInv(d)'
  <2>1. ~ Busy(d) /\ Len(returned[d]) = Len(issued[d])
    BY <1>1 DEF Busy, HistInv, Putting, Getting
  <2>2. CASE d = c
    <3>1. /\ Len(issued[c]) \in Nat /\ Len(issued'[c]) = Len(issued[c]) + 1
          /\ \A k \in 1 .. Len(issued[c]) : issued'[c][k] = issued[c][k]
      BY <1>1, AppendProperties DEF IInv, TypeOK
    <3>2. Busy(c)'
      BY <1>1 DEF Busy, Putting
    <3> QED
      BY <1>1, <2>1, <2>2, <3>1, <3>2 DEF HistInv
  <2>3. CASE d # c
    <3>1. ~ Busy(d)'
      BY <1>1, <2>3 DEF Busy
    <3> QED
      BY <1>1, <2>1, <2>3, <3>1 DEF HistInv
  <2> QED
    BY <2>2, <2>3
<1> QED
  BY <1>2, <1>3, <1>4 DEF Hist

\* The application ends: the histories stay as they are.
LEMMA QuitHist ==
    ASSUME FullInv, Quit
    PROVE  Hist'
<1>1. cpc' = "exited" /\ UNCHANGED <<issued, executed, returned>>
  BY DEF Quit
<1>2. RetInv' /\ \A d \in Conns : ~ Busy(d)'
  BY <1>1 DEF RetInv, Busy, Putting, Getting
<1> QED
  BY <1>1, <1>2, ThreadHist

\* A step of a server or of the network.
LEMMA OtherHist ==
    ASSUME FullInv, UNCHANGED <<client, issued, executed, returned, sres>>
    PROVE  Hist'
<1> USE DEF FullInv
<1>1. UNCHANGED <<cpc, conn, ret, rsp>>
  BY DEF client
<1>2. RetInv'
  BY <1>1 DEF RetInv
<1>3. OkWasExecuted'
  BY DEF OkWasExecuted
<1>4. ASSUME NEW d \in Conns PROVE HistInv(d)'
  BY <1>1 DEF HistInv, Busy
<1> QED
  BY <1>2, <1>3, <1>4 DEF Hist

\* A call is executed: what returned OK stays executed.
LEMMA ExecuteHist ==
    ASSUME FullInv, NEW c \in Conns, Execute(c)
    PROVE  Hist'
<1> USE DEF FullInv
<1>1. PICK o \in Outcomes(sm[c]) :
        /\ sres' = [sres EXCEPT ![c] = o]
        /\ executed' = [executed EXCEPT ![c] =
                          Append(@, [n |-> sn[c], m |-> sm[c], ret |-> o.ret])]
  BY DEF Execute
<1>2. spc[c] = "execute" /\ UNCHANGED <<cpc, conn, ret, rsp, issued, returned>>
  BY DEF Execute, client
<1>3. [n |-> sn[c], m |-> sm[c], ret |-> o.ret] \in ExecRec
  BY OutcomeType DEF IInv, TypeOK, ExecRec, Outcome
<1>4. ASSUME NEW d \in Conns
      PROVE  /\ Len(executed'[d]) \in Nat /\ Len(executed[d]) <= Len(executed'[d])
             /\ \A k \in 1 .. Len(executed[d]) : executed'[d][k] = executed[d][k]
  <2>1. executed[d] \in Seq(ExecRec) /\ Len(executed[d]) \in Nat
    BY DEF IInv, TypeOK
  <2>2. CASE d # c
    BY <1>1, <2>1, <2>2 DEF IInv, TypeOK
  <2>3. CASE d = c
    <3>1. executed'[c] = Append(executed[c], [n |-> sn[c], m |-> sm[c], ret |-> o.ret])
      BY <1>1 DEF IInv, TypeOK
    <3> QED
      BY <1>3, <2>1, <2>3, <3>1, AppendProperties
  <2> QED
    BY <2>2, <2>3
<1>5. OkWasExecuted'
  BY <1>2, <1>4, OkFrame DEF IInv
<1>6. RetInv'
  <2>1. cpc = "get_buf" => conn # c
    <3> SUFFICES ASSUME cpc = "get_buf", conn = c PROVE FALSE
      OBVIOUS
    <3>1. Len(executed[c]) < Len(issued[c])
      BY <1>2 DEF IInv, SrvInv
    <3>2. Done(c)
      BY DEF Rsp, DownInv, Waiting, Getting
    <3> QED
      BY <3>1, <3>2 DEF Done, IInv, TypeOK
  <2>2. cpc = "get_buf" => sres'[conn] = sres[conn]
    BY <1>1, <2>1 DEF IInv, TypeOK
  <2> QED
    BY <1>2, <2>2 DEF RetInv
<1>7. ASSUME NEW d \in Conns PROVE HistInv(d)'
  BY <1>2 DEF HistInv, Busy
<1> QED
  BY <1>5, <1>6, <1>7 DEF Hist

-----------------------------------------------------------------------------
(* The theorems.                                                            *)

\* The full invariant holds initially.
LEMMA FullInvInit == Init => FullInv
<1> SUFFICES ASSUME Init PROVE FullInv
  OBVIOUS
<1>1. IInv
  BY IInvInit
<1>2. RetInv
  BY DEF Init, RetInv, Putting
<1>3. ASSUME NEW c \in Conns
      PROVE /\ down[c] = <<>> /\ issued[c] = <<>> /\ executed[c] = <<>> /\ returned[c] = <<>>
            /\ spc[c] = "none" /\ cpc = "idle"
  BY DEF Init
<1>4. OkWasExecuted
  BY <1>3 DEF OkWasExecuted
<1>5. ASSUME NEW c \in Conns PROVE Rsp(c) /\ HistInv(c)
  BY <1>3, <1>5 DEF Rsp, DownInv, ResInv, SyncInv, HistInv, DChained, Waiting, Busy, Putting, Getting
<1> QED
  BY <1>1, <1>2, <1>4, <1>5 DEF FullInv

\* Every step keeps the full invariant.
LEMMA FullInvNext == FullInv /\ [Next]_vars => FullInv'
<1> SUFFICES ASSUME FullInv, [Next]_vars PROVE (\A d \in Conns : Rsp(d)') /\ Hist'
  BY IInvNext DEF FullInv, Hist
<1> DEFINE Goal == (\A d \in Conns : Rsp(d)') /\ Hist'
<1>1. ASSUME NEW c \in Conns, NEW m \in Methods, Call(c, m) PROVE Goal
  BY <1>1, RspCall, CallHist
<1>2. CASE Quit /\ cpc = "idle"
  BY <1>2, RspQuit, QuitHist
<1>3. CASE ClientStep
  <2>1. CASE PutHdr \/ PutPkt \/ PutBuf
    BY <1>3, <2>1, RspPut, ClientHist
  <2>2. CASE PutFails \/ GetFails
    BY <1>3, <2>2, RspFails, ClientHist
  <2>3. CASE PutKills
    BY <1>3, <2>3, RspQuit, ClientHist DEF PutKills
  <2>4. CASE GetHdr \/ GetPkt \/ GetBuf
    BY <1>3, <2>4, RspGet, ClientHist
  <2> QED
    BY <1>3, <2>1, <2>2, <2>3, <2>4 DEF ClientStep
<1>4. ASSUME NEW c \in Conns, Execute(c) PROVE Goal
  BY <1>4, RspExecute, ExecuteHist
<1>5. ASSUME NEW c \in Conns, SrvPutHdr(c) \/ SrvPutPkt(c) \/ SrvPutBuf(c) PROVE Goal
  <2>1. UNCHANGED <<client, issued, executed, returned, sres>>
    BY <1>5 DEF SrvPutHdr, SrvPutPkt, SrvPutBuf
  <2> QED
    BY <1>5, <2>1, RspSrvPut, OtherHist
<1>6. ASSUME NEW c \in Conns,
             \/ Accept(c) \/ SrvGetHdr(c) \/ SrvGetPkt(c) \/ SrvGetBuf(c)
             \/ Teardown(c) \/ Cut(c)
      PROVE Goal
  <2>1. UNCHANGED <<client, issued, executed, returned, sres>>
    BY <1>6 DEF Accept, SrvGetHdr, SrvGetPkt, SrvGetBuf, Teardown, Cut, server
  <2> QED
    BY <1>6, <2>1, RspOther, OtherHist
<1>7. ASSUME NEW c \in Conns, Drop(c) PROVE Goal
  <2>1. UNCHANGED <<client, issued, executed, returned, sres>>
    BY <1>7 DEF Drop, server
  <2> QED
    BY <1>7, <2>1, RspDrop, OtherHist
<1>8. CASE UNCHANGED vars
  <2>1. UNCHANGED <<client, issued, executed, returned, sres, link, down, spc, sn, cpc, conn, rsp>>
    BY <1>8 DEF vars, client, server
  <2>2. ASSUME NEW d \in Conns PROVE Rsp(d)'
    BY <2>1, RspFrame DEF FullInv, Waiting, Busy
  <2> QED
    BY <2>1, <2>2, OtherHist
<1> QED
  BY <1>1, <1>2, <1>3, <1>4, <1>5, <1>6, <1>7, <1>8
  DEF Next, ServerStep, ConnectFails, Exit, SrvIoFails, SrvDies, Terminated

\* The full invariant always holds.
LEMMA FullInvAlways == Spec => []FullInv
<1>1. Init => FullInv
  BY FullInvInit
<1>2. FullInv /\ [Next]_vars => FullInv'
  BY FullInvNext
<1> QED
  BY <1>1, <1>2, PTL DEF Spec

\* A synchronous call that returns OK was executed and succeeded, although
\* the wrappers ignore what l_do_cuda_rpc returns and no message names the
\* call it answers.
THEOREM OkMeansExecuted == Spec => []OkWasExecuted
<1>1. FullInv => OkWasExecuted
  BY DEF FullInv
<1> QED
  BY <1>1, FullInvAlways, PTL

\* The assertions of l_do_cuda_rpc on the response buffer cannot fail.
THEOREM ResponsesFit == Spec => []ResponseFits
<1>1. FullInv => ResponseFits
  <2> SUFFICES ASSUME FullInv, cpc \in Getting, cpc # "get_hdr", rsp > 0
               PROVE  RspBuffer(meth)
    BY DEF ResponseFits
  <2>1. /\ conn \in Conns /\ issued[conn] \in Seq(Methods) /\ executed[conn] \in Seq(ExecRec)
        /\ Len(issued[conn]) \in Nat /\ issued[conn] # <<>>
        /\ meth = issued[conn][Len(issued[conn])]
    BY DEF FullInv, IInv, TypeOK, CliInv
  <2>2. Len(executed[conn]) = Len(issued[conn]) /\ rsp = sres[conn].size
    BY <2>1 DEF FullInv, Rsp, DownInv, Waiting, Done
  <2>3. executed[conn] # <<>> /\ Len(issued[conn]) \in 1 .. Len(executed[conn])
    BY <2>1, <2>2, EmptyLen
  <2>4. executed[conn][Len(issued[conn])].m = meth
    BY <2>1, <2>3 DEF FullInv, IInv, ExecInv
  <2> QED
    BY <2>1, <2>2, <2>3, <2>4 DEF FullInv, Rsp, ResInv
<1> QED
  BY <1>1, FullInvAlways, PTL

\* The two ends of a connection never get out of step: every get() finds the
\* part it is meant for, of the call it is meant for.
THEOREM StreamsFramed == Spec => []Framing
<1>1. FullInv => Framing
  <2> SUFFICES ASSUME FullInv, NEW c \in Conns
               PROVE  /\ up[c] # <<>> =>
                           /\ spc[c] \in {"none", "get_hdr", "execute"} \cup Putting =>
                                Head(up[c]).part = "hdr"
                           /\ spc[c] = "get_pkt" => Head(up[c]).part = "pkt"
                           /\ spc[c] = "get_buf" => Head(up[c]).part = "buf" /\ Head(up[c]).n = sn[c]
                      /\ down[c] # <<>> =>
                           /\ c = conn /\ cpc \in Getting
                           /\ Head(down[c]).n = Len(issued[c])
                           /\ <<cpc, Head(down[c]).part>> \in
                                {<<"get_hdr", "hdr">>, <<"get_pkt", "pkt">>, <<"get_buf", "buf">>}
    BY DEF Framing
  <2>1. ASSUME up[c] # <<>>
        PROVE  /\ spc[c] \in {"none", "get_hdr", "execute"} \cup Putting => Head(up[c]).part = "hdr"
               /\ spc[c] = "get_pkt" => Head(up[c]).part = "pkt"
               /\ spc[c] = "get_buf" => Head(up[c]).part = "buf" /\ Head(up[c]).n = sn[c]
    <3>1. <<Head(up[c]).n, Head(up[c]).part>> = SrvWants(c)
      BY <2>1, HeadOfUp DEF FullInv, IInv, Pos
    <3>2. spc[c] = "get_buf" => sn[c] = Len(executed[c]) + 1
      BY DEF FullInv, IInv, SrvInv
    <3> QED
      BY <3>1, <3>2 DEF SrvWants, Putting
  <2>2. ASSUME down[c] # <<>>
        PROVE  /\ c = conn /\ cpc \in Getting
               /\ Head(down[c]).n = Len(issued[c])
               /\ <<cpc, Head(down[c]).part>> \in
                    {<<"get_hdr", "hdr">>, <<"get_pkt", "pkt">>, <<"get_buf", "buf">>}
    <3>1. c = conn /\ cpc \in Getting
      BY <2>2 DEF FullInv, Rsp, DownInv, Waiting
    <3>2. Head(down[c]).part = CliWants /\ RspOK(c, Head(down[c]))
      BY <2>2, <3>1, HeadOfDown
    <3> QED
      BY <3>1, <3>2 DEF CliWants, RspOK, Getting
  <2> QED
    BY <2>1, <2>2
<1> QED
  BY <1>1, FullInvAlways, PTL

-----------------------------------------------------------------------------
(* Refinement: every step of the protocol is a step of RpcService, or one    *)
(* RpcService does not see.                                                  *)

\* A call that returns is the Answer of the service to its outstanding call.
LEMMA ReturnIsAnswer ==
    ASSUME FullInv, OkWasExecuted', cpc \in Putting \cup Getting,
           NEW r, NEW got \in Sizes, Return(r, got), UNCHANGED <<issued, executed>>
    PROVE  Service!Answer(conn)
<1> USE DEF FullInv
<1>c. PICK c \in Conns : c = conn
  BY DEF IInv, TypeOK
<1> DEFINE v == Verdict(meth, r)
           x == [m |-> meth, v |-> v, size |-> got]
           k == Len(returned[c]) + 1
<1>1. returned[c] \in Seq(ReturnRec) /\ Len(returned[c]) \in Nat /\ Len(issued[c]) \in Nat
  BY DEF IInv, TypeOK
<1>2. v \in {"OK", "ERROR"} /\ x \in ReturnRec
  BY VerdictType DEF IInv, TypeOK, ReturnRec
<1>3. k = Len(issued[c]) /\ meth = issued[c][k]
  BY <1>c DEF HistInv, Busy, IInv, CliInv
<1>4. returned' = [returned EXCEPT ![c] = Append(@, x)]
  BY <1>c DEF Return
<1>5. returned'[c] = Append(returned[c], x)
  BY <1>4 DEF IInv, TypeOK
<1>6. k \in 1 .. Len(returned'[c]) /\ returned'[c][k] = x
  BY <1>1, <1>2, <1>5, AppendProperties
<1>7. v = "OK" /\ issued[c][k] \in SyncMethods \ {"RegisterFatBinary"} =>
        k <= Len(executed[c]) /\ executed[c][k].ret = "success"
  BY <1>3, <1>6 DEF OkWasExecuted, ExpectsResponse
<1>8. got \in {0, 1}
  BY DEF Sizes
<1>9. x = [m |-> issued[c][k], v |-> v, size |-> got]
  BY <1>3
<1>10. k <= Len(issued[c])
  BY <1>1, <1>3
<1> HIDE DEF v, x, k
<1>11. /\ k <= Len(issued[c])
       /\ \E w \in {"OK", "ERROR"}, z \in {0, 1} :
            /\ w = "OK" /\ issued[c][k] \in SyncMethods \ {"RegisterFatBinary"} =>
                 k <= Len(executed[c]) /\ executed[c][k].ret = "success"
            /\ returned' = [returned EXCEPT ![c] =
                               Append(@, [m |-> issued[c][k], v |-> w, size |-> z])]
       /\ UNCHANGED <<issued, executed>>
  BY <1>2, <1>4, <1>7, <1>8, <1>9, <1>10
<1> QED
  BY <1>c, <1>11 DEF Service!Answer, k

\* The server executes what the service would perform next.
LEMMA ExecuteIsPerform ==
    ASSUME IInv, NEW c \in Conns, Execute(c)
    PROVE  Service!Perform(c)
<1>1. PICK o \in Outcomes(sm[c]) :
        executed' = [executed EXCEPT ![c] =
                       Append(@, [n |-> sn[c], m |-> sm[c], ret |-> o.ret])]
  BY DEF Execute
<1>2. /\ Len(executed[c]) < Len(issued[c]) /\ Len(executed[c]) \in Nat /\ Len(issued[c]) \in Nat
      /\ sn[c] = Len(executed[c]) + 1 /\ sm[c] = issued[c][sn[c]]
  BY DEF Execute, IInv, SrvInv, TypeOK
<1>3. o.ret \in {"unknown", "success", "failure", "handle", "null"}
  BY OutcomeType DEF IInv, TypeOK, Outcome, Rets
<1>4. UNCHANGED <<issued, returned>>
  BY DEF Execute
<1>5. Len(executed[c]) + 1 <= Len(issued[c])
  BY <1>2
<1> QED
  BY <1>1, <1>2, <1>3, <1>4, <1>5 DEF Service!Perform

\* Seen through issued, executed and returned alone, the protocol behaves as
\* the in-order, at-most-once service of RpcService.
THEOREM ServiceImplemented == Spec => ImplementsService
<1>1. Init => Service!Init
  BY DEF Init, Service!Init
<1>2. FullInv /\ FullInv' /\ [Next]_vars => [Service!Next]_(Service!vars)
  <2> SUFFICES ASSUME FullInv, FullInv', [Next]_vars
               PROVE  Service!Next \/ UNCHANGED <<issued, executed, returned>>
    BY DEF Service!vars
  <2>0. conn \in Conns /\ 0 \in Sizes /\ 1 \in Sizes /\ OkWasExecuted'
    BY DEF FullInv, IInv, TypeOK, Sizes
  <2>1. ASSUME NEW c \in Conns, NEW m \in Methods, Call(c, m) PROVE Service!Next
    <3>1. \A d \in Conns : Len(returned[d]) = Len(issued[d])
      BY <2>1 DEF Call, FullInv, HistInv, Busy, Putting, Getting
    <3>2. issued' = [issued EXCEPT ![c] = Append(@, m)] /\ UNCHANGED <<executed, returned>>
      BY <2>1 DEF Call
    <3> QED
      BY <3>1, <3>2 DEF Service!Issue, Service!Next
  <2>2. CASE ClientStep
    <3>1. cpc \in Putting \cup Getting /\ UNCHANGED <<issued, executed>>
      BY <2>2 DEF ClientStep, PutHdr, PutPkt, PutBuf, PutFails, PutKills, GetHdr, GetPkt, GetBuf,
                  GetFails, Putting, Getting, Quit
    <3>2. \/ UNCHANGED returned
          \/ \E r, got : got \in Sizes /\ Return(r, got)
      <4>1. Sent => UNCHANGED returned \/ Return(ret, 0)
        BY DEF Sent
      <4>2. PutHdr \/ PutKills \/ GetHdr => UNCHANGED returned
        BY DEF PutHdr, PutKills, GetHdr, Quit
      <4>3. PutPkt \/ PutBuf \/ PutFails \/ GetFails => UNCHANGED returned \/ Return(ret, 0)
        BY <4>1 DEF PutPkt, PutBuf, PutFails, GetFails
      <4>4. GetPkt => UNCHANGED returned \/ Return(ret', 0)
        BY DEF GetPkt
      <4>5. GetBuf => Return(ret, 1)
        BY DEF GetBuf
      <4> QED
        BY <2>0, <2>2, <4>2, <4>3, <4>4, <4>5 DEF ClientStep
    <3> QED
      BY <2>0, <3>1, <3>2, ReturnIsAnswer DEF Service!Next
  <2>3. ASSUME NEW c \in Conns, Execute(c) PROVE Service!Next
    BY <2>3, ExecuteIsPerform DEF FullInv, Service!Next
  <2>4. ASSUME NEW c \in Conns,
               \/ ConnectFails(c) \/ Accept(c) \/ SrvGetHdr(c) \/ SrvGetPkt(c) \/ SrvGetBuf(c)
               \/ SrvPutHdr(c) \/ SrvPutPkt(c) \/ SrvPutBuf(c) \/ SrvIoFails(c) \/ SrvDies(c)
               \/ Cut(c) \/ Drop(c)
        PROVE  UNCHANGED <<issued, executed, returned>>
    BY <2>4 DEF ConnectFails, Quit, Accept, SrvGetHdr, SrvGetPkt, SrvGetBuf, SrvPutHdr, SrvPutPkt,
                SrvPutBuf, SrvIoFails, SrvDies, Teardown, Cut, Drop
  <2>5. Exit \/ Terminated \/ UNCHANGED vars => UNCHANGED <<issued, executed, returned>>
    BY DEF Exit, Quit, Terminated, vars
  <2> QED
    BY <2>1, <2>2, <2>3, <2>4, <2>5 DEF Next, ServerStep
<1> QED
  BY <1>1, <1>2, FullInvAlways, PTL DEF Spec, ImplementsService, Service!Spec
=============================================================================
