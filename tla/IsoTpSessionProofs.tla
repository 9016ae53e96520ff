------------------------- MODULE IsoTpSessionProofs -------------------------
(***************************************************************************)
(* Proofs about IsoTpSession, for every list of requests and responses,     *)
(* whatever the ECU asks for and the bus loses: the types and the           *)
(* refinement of AnswerOrder; and, when nothing goes wrong, that every      *)
(* request is answered with the whole of its own response.                  *)
(***************************************************************************)
EXTENDS IsoTpSession, SequenceTheorems, FiniteSetTheorems, TLAPS

-----------------------------------------------------------------------------
(* The inductive invariants.                                                *)

\* What the tester may find in rx_buf_ and on the wire, and the ECU on the bus.
Inbound  == {f \in SessionFrame : (f.pci = "FF" => f.n <= MaxLength)
                                  /\ (Matches(f) => f.msg \in Requests)}
Outbound == {f \in SessionFrame : Matches(f)
                                  /\ (f.pci \in {"SF", "FF"} => f.msg \in Requests)}

\* What TypeOK says, and what it takes to keep it.
TesterType ==
  /\ req \in 1..(Len(ReqSize) + 1)
  /\ pc \in {"send", "fc", "cf", "first", "more", "done"}
  /\ idx \in 1..(MaxLength + 1) /\ total \in 0..MaxLength
  /\ out \in Seq(SessionFrame) /\ expected_sn \in Nibble
  /\ answers \in Seq(Result) /\ Len(answers) = req - 1
  /\ pc = "done" <=> req = Len(ReqSize) + 1
  /\ pc = "fc" => idx = 2 /\ ReqSize[req] > 1
  /\ pc = "cf" => 1 < idx /\ idx <= ReqSize[req]
  /\ pc = "more" => out # << >>

EcuType ==
  /\ ecu \in [pc: {"idle", "hold", "recv", "answer", "wait_fc", "burst"},
              msg: Requests \cup {0}, k: Nat, block: Nat, credit: Nat]
  /\ ecu.pc # "idle" => ecu.msg \in Requests
  /\ ecu.pc \in {"wait_fc", "burst"} => ecu.k > 0 /\ RspFrames(ecu.msg) > 1

LinkType ==
  /\ rx_buf_ \in Seq(Inbound) /\ wire \in Seq(Inbound) /\ bus \in Seq(Outbound)
  /\ native => rx_buf_ = << >>

LuckType ==
  /\ foreign \in 0..MaxForeign /\ lost \in 0..MaxLost
  /\ held \in 0..MaxHeld /\ early \in 0..MaxEarly
  /\ native \in HwIsoTp

IType == TesterType /\ EcuType /\ LinkType /\ LuckType

\* The frames that the tester has yet to look at.
Flight == rx_buf_ \o wire

IsPart(f)  == Matches(f) /\ f.pci # "FC"
IsStart(f) == Matches(f) /\ f.pci \in {"SF", "FF"}

\* The frames of a response follow those of the responses before it, its first
\* frame comes first, and there is one.
Precedes(f, g) ==
  IsPart(f) /\ IsPart(g) => f.msg <= g.msg /\ (IsStart(g) => f.msg < g.msg)

\* Response n was begun: the ECU will begin only later ones.
Begun(n) == n <= ecu.msg /\ (ecu.pc \in {"hold", "recv", "answer"} => n < ecu.msg)

FlightOrder ==
  /\ \A i, j \in 1..Len(Flight) : i < j => Precedes(Flight[i], Flight[j])
  /\ \A i \in 1..Len(Flight) : IsPart(Flight[i]) => Begun(Flight[i].msg)

UsedFirst ==
  \A u \in Used :
    /\ u \in Requests /\ Begun(u)
    /\ \A i \in 1..Len(Flight) : IsStart(Flight[i]) => u < Flight[i].msg

\* The response that recv() is putting together.
OutNext ==
  pc = "more" =>
    /\ IsPart(out[1]) /\ Begun(out[1].msg) /\ out[1].msg \in Requests
    /\ \A u \in Used : u < out[1].msg
    /\ \A i \in 1..Len(Flight) : Precedes(out[1], Flight[i])
    /\ \A k \in 1..Len(out) : out[1].msg <= out[k].msg

RequestsLast ==
  /\ ecu.msg <= req /\ (pc = "send" => ecu.msg < req)
  /\ \A i, j \in 1..Len(bus) :
       i < j /\ IsStart(bus[i]) /\ IsStart(bus[j]) => bus[i].msg < bus[j].msg
  /\ \A i \in 1..Len(bus) : IsStart(bus[i]) =>
       /\ ecu.msg < bus[i].msg /\ bus[i].msg <= req
       /\ pc = "send" => bus[i].msg < req

\* Over a channel with ISO-TP of its own there are only whole PDUs.
NativeOnly ==
  native =>
    /\ pc \in {"send", "first", "done"} /\ ecu.pc \in {"idle", "answer"}
    /\ \A i \in 1..Len(bus) : bus[i].pci = "SF"
    /\ \A i \in 1..Len(wire) : Matches(wire[i]) => wire[i].pci = "SF"

Ordered == FlightOrder /\ UsedFirst /\ OutNext /\ RequestsLast

\* The latest request whose response was used.
IsLatest(n) == n \in Used \cup {0} /\ \A m \in Used \cup {0} : m <= n

IOrder == IType /\ NativeOnly /\ Ordered /\ \E n \in Used \cup {0} : IsLatest(n)

-----------------------------------------------------------------------------
(* Operators.                                                               *)

LEMMA Sizes ==
  /\ MaxLength = 32 /\ Len(ReqSize) \in Nat /\ Len(ReqSize) > 0
  /\ \A r \in Requests : ReqSize[r] \in 1..MaxLength /\ RspSize[r] \in 1..MaxLength
  /\ HwIsoTp \subseteq BOOLEAN /\ FcBlockSize \in Nat
  /\ MaxForeign \in Nat /\ MaxLost \in Nat /\ MaxHeld \in Nat /\ MaxEarly \in Nat
<1>1. MaxLength = 32
  BY DEF MaxLength, SnMod
<1>2. Len(ReqSize) \in Nat /\ Len(ReqSize) > 0 /\ Len(RspSize) = Len(ReqSize)
  BY SessionAssumption
<1>3. \A r \in Requests : ReqSize[r] \in 1..MaxLength /\ RspSize[r] \in 1..MaxLength
  BY <1>2, SessionAssumption, ElementOfSeq DEF Requests
<1>. QED  BY <1>1, <1>2, <1>3, SessionAssumption

LEMMA LengthIs == MaxLength = 32
BY DEF MaxLength, SnMod

LEMMA AppendFacts ==
  ASSUME NEW S, NEW s \in Seq(S), NEW e \in S
  PROVE  /\ Append(s, e) \in Seq(S) /\ Len(Append(s, e)) = Len(s) + 1
         /\ \A i \in 1..Len(s) : Append(s, e)[i] = s[i]
         /\ Append(s, e)[Len(s) + 1] = e
OBVIOUS

LEMMA TailFacts ==
  ASSUME NEW S, NEW s \in Seq(S), s # << >>
  PROVE  /\ Tail(s) \in Seq(S) /\ Len(Tail(s)) = Len(s) - 1 /\ Len(s) > 0
         /\ Head(s) = s[1] /\ Head(s) \in S
         /\ \A i \in 1..Len(Tail(s)) : Tail(s)[i] = s[i + 1]
OBVIOUS

LEMMA SuffixFacts ==
  ASSUME NEW S, NEW s \in Seq(S), NEW j \in 0..Len(s)
  PROVE  /\ SubSeq(s, j + 1, Len(s)) \in Seq(S)
         /\ Len(SubSeq(s, j + 1, Len(s))) = Len(s) - j
         /\ \A i \in 1..(Len(s) - j) : SubSeq(s, j + 1, Len(s))[i] = s[i + j]
OBVIOUS

LEMMA PrefixFacts ==
  ASSUME NEW S, NEW s \in Seq(S), NEW j \in 0..Len(s)
  PROVE  /\ SubSeq(s, 1, j) \in Seq(S) /\ Len(SubSeq(s, 1, j)) = j
         /\ \A i \in 1..j : SubSeq(s, 1, j)[i] = s[i]
OBVIOUS

LEMMA PartTyped ==
  ASSUME NEW msg \in Requests, NEW k \in Nat \ {0}, NEW n \in 1..MaxLength
  PROVE  Part(msg, k, n) \in Inbound /\ Part(msg, k, n) \in Outbound
<1>1. (k - 1) % SnMod \in Nibble
  BY DEF SnMod, Nibble
<1>. QED  BY <1>1, Sizes DEF Part, Inbound, Outbound, SessionFrame, Matches

LEMMA FlowTyped ==
  ASSUME NEW msg \in Requests \cup {0}, NEW status \in {Cts, Wait, Overflow}, NEW b \in Nat
  PROVE  /\ Flow(msg, status, b) \in Outbound
         /\ msg \in Requests => Flow(msg, status, b) \in Inbound
BY DEF Flow, Inbound, Outbound, SessionFrame, Cts, Wait, Overflow, Nibble, Matches

LEMMA ForeignTyped ==
  [Part(0, 1, 1) EXCEPT !.id = "other"] \in Inbound
  /\ ~Matches([Part(0, 1, 1) EXCEPT !.id = "other"])
BY DEF Part, Inbound, SessionFrame, Nibble, SnMod, Matches

LEMMA RspFramesTyped ==
  ASSUME NEW msg \in Requests
  PROVE  RspFrames(msg) \in 1..MaxLength
BY Sizes DEF RspFrames

LEMMA InboundIsFrame == Seq(Inbound) \subseteq Seq(SessionFrame)
BY DEF Inbound

LEMMA TypesImply == IType => TypeOK
BY InboundIsFrame, SMTT(30) DEF IType, TesterType, EcuType, LinkType, LuckType, TypeOK, Inbound, Outbound

\* t is what is left of s without its first d elements.
Drops(s, d, t) ==
  /\ d \in 0..Len(s) /\ t \in Seq(Inbound) /\ Len(t) = Len(s) - d
  /\ \A i \in 1..Len(t) : t[i] = s[i + d]

LEMMA TakeFacts ==
  ASSUME IType, NEW f, Take(f)
  PROVE  /\ f \in Inbound /\ Matches(f) /\ ~native
         /\ \E j \in 1..Len(rx_buf_) :
              /\ f = rx_buf_[j] /\ \A i \in 1..(j - 1) : ~Matches(rx_buf_[i])
              /\ Drops(rx_buf_, j, rx_buf_')
<1>1. rx_buf_ \in Seq(Inbound) /\ (native => rx_buf_ = << >>)
  BY DEF IType, LinkType
<1>2. PICK j \in 1..Len(rx_buf_) :
        /\ f = rx_buf_[j] /\ Matches(f)
        /\ \A i \in 1..(j - 1) : ~Matches(rx_buf_[i])
        /\ rx_buf_' = After(rx_buf_, j)
  BY DEF Take
<1>3. j \in 0..Len(rx_buf_) /\ Len(rx_buf_) \in Nat /\ rx_buf_ # << >>
  BY <1>1
<1>4. Drops(rx_buf_, j, rx_buf_')
  BY <1>1, <1>2, <1>3, SuffixFacts DEF Drops, After
<1>5. f \in Inbound
  BY <1>1, <1>2, ElementOfSeq
<1>. QED  BY <1>1, <1>2, <1>3, <1>4, <1>5

-----------------------------------------------------------------------------
(* Types.                                                                   *)

LEMMA ReturnTyped ==
  ASSUME TesterType, pc # "done", NEW ok \in BOOLEAN, NEW pdu \in Seq(SessionFrame),
         Return(ok, pdu)
  PROVE  /\ TesterType' /\ Len(answers') = Len(answers) + 1
         /\ answers'[Len(answers) + 1] = [ok |-> ok, pdu |-> pdu]
         /\ \A r \in 1..Len(answers) : answers'[r] = answers[r]
<1>. DEFINE a == [ok |-> ok, pdu |-> pdu]
<1>1. a \in Result
  BY DEF Result
<1>. HIDE DEF a
<1>2. answers \in Seq(Result) /\ answers' = Append(answers, a)
  BY DEF TesterType, Return, a
<1>3. /\ answers' \in Seq(Result) /\ Len(answers') = Len(answers) + 1
      /\ \A r \in 1..Len(answers) : answers'[r] = answers[r]
      /\ answers'[Len(answers) + 1] = a
  BY <1>1, <1>2, AppendFacts
<1>4. /\ req' \in 1..(Len(ReqSize) + 1) /\ Len(answers') = req' - 1
      /\ pc' \in {"send", "done"} /\ (pc' = "done" <=> req' = Len(ReqSize) + 1)
  BY <1>3, Sizes DEF TesterType, Return
<1>5. /\ idx' \in 1..(MaxLength + 1) /\ total' \in 0..MaxLength
      /\ out' \in Seq(SessionFrame) /\ expected_sn' \in Nibble
  BY Sizes DEF Return, Nibble
<1>. QED  BY <1>3, <1>4, <1>5 DEF TesterType, a

LEMMA FailTyped ==
  ASSUME TesterType, pc # "done", Fail
  PROVE  TesterType'
BY ReturnTyped DEF Fail, TesterType

LEMMA FetchTyped ==
  ASSUME IType, Fetch
  PROVE  LinkType'
<1>1. PICK k \in 1..Len(wire) :
        rx_buf_' = SubSeq(wire, 1, k) /\ wire' = SubSeq(wire, k + 1, Len(wire))
  BY DEF Fetch
<1>2. wire \in Seq(Inbound) /\ k \in 0..Len(wire)
  BY DEF IType, LinkType
<1>3. rx_buf_' \in Seq(Inbound) /\ wire' \in Seq(Inbound)
  BY <1>1, <1>2, PrefixFacts, SuffixFacts
<1>. QED  BY <1>3 DEF IType, LinkType, Fetch, luck

LEMMA TakeTyped ==
  ASSUME IType, NEW f, Take(f), UNCHANGED <<wire, native>>, bus' \in Seq(Outbound)
  PROVE  LinkType'
<1>1. rx_buf_' \in Seq(Inbound) /\ ~native
  BY TakeFacts DEF Drops
<1>. QED  BY <1>1 DEF IType, LinkType

LEMMA BusTyped ==
  ASSUME IType, NEW f \in Outbound, bus' = Append(bus, f), UNCHANGED <<rx_buf_, wire, native>>
  PROVE  LinkType'
<1>1. bus' \in Seq(Outbound)
  BY AppendFacts DEF IType, LinkType
<1>. QED  BY <1>1 DEF IType, LinkType

LEMMA EcuSame == ASSUME EcuType, UNCHANGED <<ecu, native>> PROVE EcuType'
BY DEF EcuType, RspFrames

LEMMA SendFirstTyped ==
  ASSUME IType, SendFirst \/ NativeSend
  PROVE  IType'
<1>1. req \in Requests /\ ReqSize[req] \in 1..MaxLength
  BY Sizes DEF IType, TesterType, SendFirst, NativeSend, Requests
<1>2. Part(req, 1, ReqSize[req]) \in Outbound /\ Part(req, 1, 1) \in Outbound
  <2>1. 1 \in Nat \ {0} /\ 1 \in 1..MaxLength
    BY LengthIs
  <2>. QED  BY <1>1, <2>1, PartTyped
<1>3. LinkType'
  BY <1>2, BusTyped DEF SendFirst, NativeSend, luck
<1>4. TesterType'
  <2>1. CASE SendFirst
    <3>1. /\ idx' = 2 /\ pc' = IF ReqSize[req] = 1 THEN "first" ELSE "fc"
          /\ pc # "done" /\ UNCHANGED <<req, total, out, expected_sn, answers>>
      BY <2>1 DEF SendFirst
    <3>2. idx' \in 1..(MaxLength + 1) /\ idx' = 2
      BY <3>1, LengthIs
    <3>3. (pc' = "fc" => ReqSize[req] > 1) /\ pc' \in {"fc", "first"}
      BY <1>1, <3>1
    <3>. QED  BY <3>1, <3>2, <3>3 DEF IType, TesterType
  <2>2. CASE NativeSend
    BY <1>1, <2>2 DEF IType, TesterType, NativeSend
  <2>. QED  BY <2>1, <2>2
<1>5. EcuType' /\ LuckType'
  BY EcuSame DEF IType, LuckType, SendFirst, NativeSend, luck
<1>. QED  BY <1>3, <1>4, <1>5 DEF IType

LEMMA SendGetsFlowTyped ==
  ASSUME IType, SendGetsFlow
  PROVE  IType'
<1>1. PICK f \in Buffered :
        /\ Take(f)
        /\ IF LetsGo(f)
           THEN pc' = "cf" /\ UNCHANGED <<req, idx, total, out, expected_sn, answers>>
           ELSE Fail
  BY DEF SendGetsFlow
<1>2. LinkType'
  BY <1>1, TakeTyped DEF SendGetsFlow, luck, IType, LinkType
<1>3. TesterType'
  <2>1. CASE LetsGo(f)
    <3>1. req \in Requests
      BY DEF IType, TesterType, SendGetsFlow, Requests
    <3>2. ReqSize[req] \in 1..MaxLength /\ ReqSize[req] > 1 /\ idx = 2 /\ pc = "fc"
      BY <3>1, Sizes DEF IType, TesterType, SendGetsFlow
    <3>3. 1 < idx /\ idx <= ReqSize[req]
      BY <3>2, LengthIs
    <3>4. pc' = "cf" /\ UNCHANGED <<req, idx, total, out, expected_sn, answers>>
      BY <1>1, <2>1
    <3>. QED  BY <3>2, <3>3, <3>4 DEF IType, TesterType
  <2>2. CASE ~LetsGo(f)
    BY <1>1, <2>2, FailTyped DEF IType, SendGetsFlow
  <2>. QED  BY <2>1, <2>2
<1>4. EcuType' /\ LuckType'
  BY EcuSame DEF IType, LuckType, SendGetsFlow, luck
<1>. QED  BY <1>2, <1>3, <1>4 DEF IType

LEMMA SendConsecutiveTyped ==
  ASSUME IType, SendConsecutive
  PROVE  IType'
<1>1. req \in Requests /\ ReqSize[req] \in 1..MaxLength /\ idx \in Nat \ {0} /\ idx <= ReqSize[req]
  BY Sizes DEF IType, TesterType, SendConsecutive, Requests
<1>2. Part(req, idx, ReqSize[req]) \in Outbound
  BY <1>1, PartTyped
<1>3. LinkType'
  BY <1>2, BusTyped DEF SendConsecutive, luck
<1>4. TesterType'
  <2>1. /\ idx' = idx + 1 /\ pc' = IF idx < ReqSize[req] THEN "cf" ELSE "first"
        /\ pc = "cf" /\ UNCHANGED <<req, total, out, expected_sn, answers>>
    BY DEF SendConsecutive
  <2>2. idx' \in 1..(MaxLength + 1) /\ (pc' = "cf" => 1 < idx' /\ idx' <= ReqSize[req])
    BY <1>1, <2>1, LengthIs
  <2>3. pc' \in {"cf", "first"}
    BY <2>1
  <2>. QED  BY <2>1, <2>2, <2>3 DEF IType, TesterType
<1>5. EcuType' /\ LuckType'
  BY EcuSame DEF IType, LuckType, SendConsecutive, luck
<1>. QED  BY <1>3, <1>4, <1>5 DEF IType

LEMMA OneFrame ==
  ASSUME NEW f \in Inbound
  PROVE  f \in SessionFrame /\ <<f>> \in Seq(SessionFrame)
BY DEF Inbound

LEMMA RecvFirstTyped ==
  ASSUME IType, RecvFirst
  PROVE  IType'
<1>1. PICK f \in Buffered :
       /\ Take(f)
       /\ \/ /\ f.pci = "SF"
             /\ Return(TRUE, <<f>>)
             /\ UNCHANGED bus
          \/ /\ f.pci = "FF"
             /\ out' = <<f>> /\ total' = f.n /\ expected_sn' = 1
             /\ pc' = "more"
             /\ bus' = Append(bus, Flow(f.msg, Cts, FcBlockSize))
             /\ UNCHANGED <<req, idx, answers>>
          \/ /\ f.pci \notin {"SF", "FF"}
             /\ Fail
             /\ UNCHANGED bus
  BY DEF RecvFirst
<1>2. f \in Inbound /\ f \in SessionFrame /\ <<f>> \in Seq(SessionFrame)
  BY <1>1, TakeFacts, OneFrame
<1>3. bus \in Seq(Outbound) /\ pc = "first" /\ pc # "done" /\ TesterType
  BY DEF IType, LinkType, RecvFirst
<1>4. TesterType' /\ bus' \in Seq(Outbound)
  <2>1. CASE f.pci = "SF"
    <3>1. Return(TRUE, <<f>>) /\ UNCHANGED bus
      BY <1>1, <2>1
    <3>. QED  BY <1>2, <1>3, <3>1, ReturnTyped
  <2>2. CASE f.pci = "FF"
    <3>1. /\ out' = <<f>> /\ total' = f.n /\ expected_sn' = 1 /\ pc' = "more"
          /\ bus' = Append(bus, Flow(f.msg, Cts, FcBlockSize))
          /\ UNCHANGED <<req, idx, answers>>
      BY <1>1, <2>2
    <3>2. f.n \in 0..MaxLength /\ f.msg \in Requests \cup {0}
      BY <1>2, <2>2, LengthIs DEF Inbound, SessionFrame
    <3>3. Flow(f.msg, Cts, FcBlockSize) \in Outbound
      BY <3>2, FlowTyped, Sizes
    <3>4. bus' \in Seq(Outbound)
      BY <1>3, <3>1, <3>3, AppendFacts
    <3>5. TesterType'
      BY <1>2, <1>3, <3>1, <3>2 DEF TesterType, Nibble
    <3>. QED  BY <3>4, <3>5
  <2>3. CASE f.pci \notin {"SF", "FF"}
    <3>1. Fail /\ UNCHANGED bus
      BY <1>1, <2>3
    <3>. QED  BY <1>3, <3>1, FailTyped
  <2>. QED  BY <2>1, <2>2, <2>3
<1>5. LinkType'
  BY <1>1, <1>4, TakeTyped DEF RecvFirst, luck
<1>6. EcuType' /\ LuckType'
  BY EcuSame DEF IType, LuckType, RecvFirst, luck
<1>. QED  BY <1>4, <1>5, <1>6 DEF IType

LEMMA NextSnTyped == ASSUME NEW n \in Nibble PROVE NextSn(n) \in Nibble
BY DEF NextSn, Nibble, SnMod

LEMMA RecvMoreTyped ==
  ASSUME IType, RecvMore
  PROVE  IType'
<1>1. PICK f \in Buffered :
       /\ Take(f)
       /\ \/ /\ f.pci # "CF"
             /\ UNCHANGED tester
          \/ /\ f.pci = "CF" /\ ~InSequence(f, expected_sn)
             /\ Fail
          \/ /\ f.pci = "CF" /\ InSequence(f, expected_sn)
             /\ Len(out) + 1 < total
             /\ out' = Append(out, f)
             /\ expected_sn' = NextSn(expected_sn)
             /\ UNCHANGED <<req, pc, idx, total, answers>>
          \/ /\ f.pci = "CF" /\ InSequence(f, expected_sn)
             /\ Len(out) + 1 >= total
             /\ Return(TRUE, Append(out, f))
  BY DEF RecvMore
<1>2. f \in SessionFrame
  BY <1>1, TakeFacts, OneFrame
<1>3. bus \in Seq(Outbound) /\ pc = "more" /\ pc # "done" /\ TesterType
      /\ out \in Seq(SessionFrame) /\ expected_sn \in Nibble
  BY DEF IType, LinkType, RecvMore, TesterType
<1>4. Append(out, f) \in Seq(SessionFrame) /\ Append(out, f) # << >>
  BY <1>2, <1>3
<1>5. TesterType'
  <2>1. CASE UNCHANGED tester
    BY <1>3, <2>1 DEF tester, TesterType
  <2>2. CASE Fail
    BY <1>3, <2>2, FailTyped
  <2>3. CASE /\ out' = Append(out, f) /\ expected_sn' = NextSn(expected_sn)
             /\ UNCHANGED <<req, pc, idx, total, answers>>
    BY <1>3, <1>4, <2>3, NextSnTyped DEF TesterType
  <2>4. CASE Return(TRUE, Append(out, f))
    BY <1>3, <1>4, <2>4, ReturnTyped
  <2>. QED  BY <1>1, <2>1, <2>2, <2>3, <2>4
<1>6. LinkType'
  BY <1>1, <1>3, TakeTyped DEF RecvMore, luck
<1>7. EcuType' /\ LuckType'
  BY EcuSame DEF IType, LuckType, RecvMore, luck
<1>. QED  BY <1>5, <1>6, <1>7 DEF IType

LEMMA EarlyTyped ==
  ASSUME LuckType, NothingComes \/ (~Quiet /\ TooEarly) \/ TooEarly,
         UNCHANGED <<foreign, lost, held, native>>
  PROVE  LuckType'
BY Sizes DEF LuckType, NothingComes, TooEarly

LEMMA TimeoutTyped ==
  ASSUME IType, ReadTimesOut \/ AssemblyTimesOut \/ NativeRecvFails
  PROVE  IType'
<1>1. TesterType'
  BY FailTyped DEF IType, ReadTimesOut, AssemblyTimesOut, NativeRecvFails
<1>2. LuckType' /\ EcuType'
  BY EarlyTyped, EcuSame DEF IType, ReadTimesOut, AssemblyTimesOut, NativeRecvFails
<1>3. rx_buf_' \in Seq(Inbound) /\ (native => rx_buf_' = << >>)
  <2>1. rx_buf_' = << >> \/ rx_buf_' = rx_buf_
    BY DEF ReadTimesOut, AssemblyTimesOut, NativeRecvFails
  <2>2. << >> \in Seq(Inbound)
    OBVIOUS
  <2>3. native' = native
    BY DEF ReadTimesOut, AssemblyTimesOut, NativeRecvFails
  <2>. QED  BY <2>1, <2>2, <2>3 DEF IType, LinkType
<1>4. LinkType'
  BY <1>3 DEF IType, LinkType, ReadTimesOut, AssemblyTimesOut, NativeRecvFails
<1>. QED  BY <1>1, <1>2, <1>4 DEF IType

LEMMA NativeSendFailsTyped ==
  ASSUME IType, NativeSendFails
  PROVE  IType'
<1>1. TesterType'
  BY FailTyped DEF IType, NativeSendFails
<1>2. LuckType' /\ EcuType' /\ LinkType'
  <2>1. lost' \in 0..MaxLost
    BY Sizes DEF IType, LuckType, NativeSendFails
  <2>. QED  BY <2>1, EcuSame DEF IType, LuckType, LinkType, NativeSendFails
<1>. QED  BY <1>1, <1>2 DEF IType

\* The PDU that the adapter hands over, and the ones it keeps.
LEMMA NativeRecvFacts ==
  ASSUME IType, NativeRecv
  PROVE  /\ rx_buf_ = << >>
         /\ \E j \in 1..Len(wire) :
              /\ Matches(wire[j]) /\ \A i \in 1..(j - 1) : ~Matches(wire[i])
              /\ wire[j] \in Inbound /\ Return(TRUE, <<wire[j]>>)
              /\ Drops(wire, j, wire')
<1>1. wire \in Seq(Inbound) /\ rx_buf_ = << >>
  BY DEF IType, LinkType, NativeRecv
<1>2. PICK j \in 1..Len(wire) :
        /\ Matches(wire[j]) /\ \A i \in 1..(j - 1) : ~Matches(wire[i])
        /\ Return(TRUE, <<wire[j]>>) /\ wire' = After(wire, j)
  BY DEF NativeRecv
<1>3. j \in 0..Len(wire) /\ Len(wire) \in Nat
  BY <1>1
<1>4. Drops(wire, j, wire')
  BY <1>1, <1>2, <1>3, SuffixFacts DEF Drops, After
<1>5. wire[j] \in Inbound
  BY <1>1, <1>2, ElementOfSeq
<1>. QED  BY <1>1, <1>2, <1>4, <1>5

LEMMA NativeRecvTyped ==
  ASSUME IType, NativeRecv
  PROVE  IType'
<1>1. PICK j \in 1..Len(wire) :
        wire[j] \in Inbound /\ Return(TRUE, <<wire[j]>>) /\ Drops(wire, j, wire')
  BY NativeRecvFacts
<1>2. TesterType'
  BY <1>1, OneFrame, ReturnTyped DEF IType, NativeRecv
<1>3. LinkType'
  BY <1>1 DEF Drops, IType, LinkType, NativeRecv, luck
<1>4. EcuType' /\ LuckType'
  BY EcuSame DEF IType, LuckType, NativeRecv, luck
<1>. QED  BY <1>2, <1>3, <1>4 DEF IType

\* What a flow control means to the ECU that sends it.
LEMMA FlowFacts ==
  ASSUME NEW fc \in EcuFlows
  PROVE  /\ fc.status \in {Cts, Wait, Overflow} /\ fc.block \in Nat
         /\ EcuThen[fc.status] \in {"recv", "hold", "idle"}
<1>1. fc.status \in {Cts, Wait, Overflow} /\ fc.block \in Nat
  BY SessionAssumption
<1>2. EcuThen[Cts] = "recv" /\ EcuThen[Wait] = "hold" /\ EcuThen[Overflow] = "idle"
  BY DEF EcuThen, Cts, Wait, Overflow
<1>. QED  BY <1>1, <1>2

LEMMA HeadFacts ==
  ASSUME IType, bus # << >>
  PROVE  /\ Head(bus) \in Outbound /\ Head(bus) = bus[1] /\ Head(bus) \in SessionFrame
         /\ Tail(bus) \in Seq(Outbound) /\ Len(bus) > 0 /\ Len(Tail(bus)) = Len(bus) - 1
         /\ \A i \in 1..Len(Tail(bus)) : Tail(bus)[i] = bus[i + 1]
<1>1. bus \in Seq(Outbound)
  BY DEF IType, LinkType
<1>. QED  BY <1>1, TailFacts DEF Outbound

\* The ECU takes a frame off the bus, and may write one.
LEMMA HearTyped ==
  ASSUME IType, bus # << >>, bus' = Tail(bus), UNCHANGED <<rx_buf_, native>>,
         wire' = wire \/ \E f \in Inbound : wire' = Append(wire, f)
  PROVE  LinkType'
<1>1. bus' \in Seq(Outbound)
  BY HeadFacts
<1>2. wire' \in Seq(Inbound)
  BY AppendFacts, SMTT(30) DEF IType, LinkType
<1>. QED  BY <1>1, <1>2 DEF IType, LinkType

LEMMA WireTyped ==
  ASSUME IType, NEW f \in Inbound, wire' = Append(wire, f), UNCHANGED <<rx_buf_, bus, native>>
  PROVE  LinkType'
BY AppendFacts DEF IType, LinkType

LEMMA TesterSame ==
  ASSUME TesterType, UNCHANGED tester
  PROVE  TesterType'
BY DEF TesterType, tester

LEMMA EcuHearsRequestTyped ==
  ASSUME IType, EcuHearsRequest
  PROVE  IType'
<1>. DEFINE f == Head(bus)
<1>1. f \in Outbound /\ f \in SessionFrame /\ bus # << >>
  BY HeadFacts DEF EcuHearsRequest
<1>2. CASE /\ f.pci = "SF"
           /\ ecu' = [pc |-> "answer", msg |-> f.msg, k |-> 0, block |-> 0, credit |-> 0]
           /\ UNCHANGED <<wire, held>>
  <2>1. f.msg \in Requests
    BY <1>1, <1>2 DEF Outbound
  <2>2. EcuType'
    BY <1>2, <2>1 DEF EcuType
  <2>3. LinkType'
    BY <1>1, <1>2, HearTyped DEF EcuHearsRequest
  <2>4. TesterType' /\ LuckType'
    BY <1>2, TesterSame DEF IType, LuckType, EcuHearsRequest
  <2>. QED  BY <2>2, <2>3, <2>4 DEF IType
<1>3. CASE /\ f.pci = "FF"
           /\ \E fc \in EcuFlows :
               /\ held' = IF fc = LetsAllThrough THEN held ELSE held + 1
               /\ held' <= MaxHeld
               /\ wire' = Append(wire, Flow(f.msg, fc.status, fc.block))
               /\ ecu' = [pc |-> EcuThen[fc.status], msg |-> f.msg, k |-> 1,
                          block |-> fc.block, credit |-> fc.block]
  <2>1. f.msg \in Requests
    BY <1>1, <1>3 DEF Outbound
  <2>2. PICK fc \in EcuFlows :
               /\ held' = IF fc = LetsAllThrough THEN held ELSE held + 1
               /\ held' <= MaxHeld
               /\ wire' = Append(wire, Flow(f.msg, fc.status, fc.block))
               /\ ecu' = [pc |-> EcuThen[fc.status], msg |-> f.msg, k |-> 1,
                          block |-> fc.block, credit |-> fc.block]
    BY <1>3
  <2>3. EcuType'
    BY <2>1, <2>2, FlowFacts DEF EcuType
  <2>4. Flow(f.msg, fc.status, fc.block) \in Inbound
    BY <2>1, FlowFacts, FlowTyped
  <2>5. LinkType'
    BY <1>1, <2>2, <2>4, HearTyped DEF EcuHearsRequest
  <2>6. held' \in 0..MaxHeld
    BY <2>2, Sizes DEF IType, LuckType
  <2>7. TesterType' /\ LuckType'
    BY <2>6, TesterSame DEF IType, LuckType, EcuHearsRequest
  <2>. QED  BY <2>3, <2>5, <2>7 DEF IType
<1>. QED  BY <1>2, <1>3 DEF EcuHearsRequest

LEMMA EcuHearsConsecutiveTyped ==
  ASSUME IType, EcuHearsConsecutive
  PROVE  IType'
<1>. DEFINE k == ecu.k + 1
            done == k = Head(bus).n
            blockEnds == ecu.credit = 1
<1>1. bus # << >> /\ bus' = Tail(bus) /\ UNCHANGED <<rx_buf_, native>>
  BY DEF EcuHearsConsecutive, luck
<1>2. TesterType' /\ LuckType'
  BY TesterSame DEF IType, LuckType, EcuHearsConsecutive, luck
<1>3. CASE UNCHANGED <<ecu, wire>>
  BY <1>1, <1>2, <1>3, HearTyped, EcuSame DEF IType
<1>4. CASE /\ ecu.pc = "recv"
           /\ ecu' = [ecu EXCEPT !.pc = IF done THEN "answer" ELSE "recv",
                                 !.k = k,
                                 !.credit = IF blockEnds THEN ecu.block
                                            ELSE IF @ > 0 THEN @ - 1 ELSE 0]
           /\ wire' = IF blockEnds /\ ~done
                      THEN Append(wire, Flow(ecu.msg, Cts, ecu.block)) ELSE wire
  <2>1. EcuType'
    <3>1. ecu'.pc \in {"answer", "recv"} /\ ecu'.msg = ecu.msg /\ ecu.msg \in Requests
      BY <1>4 DEF IType, EcuType
    <3>2. ecu' \in [pc: {"idle", "hold", "recv", "answer", "wait_fc", "burst"},
                    msg: Requests \cup {0}, k: Nat, block: Nat, credit: Nat]
      <4>1. k \in Nat /\ (IF blockEnds THEN ecu.block
                          ELSE IF ecu.credit > 0 THEN ecu.credit - 1 ELSE 0) \in Nat
        BY DEF IType, EcuType
      <4>. HIDE DEF k, done, blockEnds
      <4>. QED  BY <1>4, <4>1 DEF IType, EcuType
    <3>. QED  BY <3>1, <3>2 DEF EcuType
  <2>2. Flow(ecu.msg, Cts, ecu.block) \in Inbound
    <3>1. ecu.msg \in Requests /\ ecu.block \in Nat /\ Cts \in {Cts, Wait, Overflow}
      BY <1>4 DEF IType, EcuType
    <3>. QED  BY <3>1, FlowTyped
  <2>3. wire' = wire \/ \E f \in Inbound : wire' = Append(wire, f)
    BY <1>4, <2>2
  <2>. QED  BY <1>1, <1>2, <2>1, <2>3, HearTyped DEF IType
<1>. QED  BY <1>3, <1>4 DEF EcuHearsConsecutive

LEMMA EcuHearsFlowTyped ==
  ASSUME IType, EcuHearsFlow
  PROVE  IType'
<1>1. bus # << >> /\ bus' = Tail(bus) /\ UNCHANGED <<rx_buf_, wire, native>>
  BY DEF EcuHearsFlow, luck
<1>2. Head(bus).n \in Nat
  BY <1>1, HeadFacts DEF SessionFrame
<1>3. EcuType'
  <2>1. CASE ecu.pc = "wait_fc"
    <3>1. ecu' = [ecu EXCEPT !.pc = "burst", !.credit = Head(bus).n]
      BY <2>1 DEF EcuHearsFlow
    <3>. QED  BY <1>1, <1>2, <2>1, <3>1 DEF IType, EcuType, RspFrames
  <2>2. CASE ecu.pc # "wait_fc"
    <3>1. ecu' = ecu
      BY <2>2 DEF EcuHearsFlow
    <3>. QED  BY <1>1, <3>1, EcuSame DEF IType
  <2>. QED  BY <2>1, <2>2
<1>4. TesterType' /\ LuckType'
  BY TesterSame DEF IType, LuckType, EcuHearsFlow, luck
<1>. QED  BY <1>1, <1>3, <1>4, HearTyped DEF IType

LEMMA EcuResumesTyped ==
  ASSUME IType, EcuResumes
  PROVE  IType'
<1>1. Flow(ecu.msg, Cts, ecu.block) \in Inbound
  <2>1. ecu.msg \in Requests /\ ecu.block \in Nat /\ Cts \in {Cts, Wait, Overflow}
    BY DEF IType, EcuType, EcuResumes
  <2>. QED  BY <2>1, FlowTyped
<1>2. LinkType'
  BY <1>1, WireTyped DEF EcuResumes, luck
<1>3. EcuType'
  BY DEF IType, EcuType, EcuResumes
<1>4. TesterType' /\ LuckType'
  BY TesterSame DEF IType, LuckType, EcuResumes, luck
<1>. QED  BY <1>2, <1>3, <1>4 DEF IType

LEMMA EcuAnswersTyped ==
  ASSUME IType, EcuAnswers
  PROVE  IType'
<1>. DEFINE n == RspFrames(ecu.msg)
<1>1. ecu.msg \in Requests /\ n \in 1..MaxLength
  BY RspFramesTyped DEF IType, EcuType, EcuAnswers
<1>2. /\ wire' = Append(wire, Part(ecu.msg, 1, n))
      /\ ecu' = [ecu EXCEPT !.pc = IF n = 1 THEN "idle" ELSE "wait_fc", !.k = 1]
      /\ UNCHANGED <<tester, rx_buf_, bus, luck>>
  BY DEF EcuAnswers
<1>3. Part(ecu.msg, 1, n) \in Inbound
  BY <1>1, PartTyped
<1>4. LinkType'
  BY <1>2, <1>3, WireTyped DEF luck
<1>5. EcuType'
  <2>1. /\ ecu' \in [pc: {"idle", "hold", "recv", "answer", "wait_fc", "burst"},
                      msg: Requests \cup {0}, k: Nat, block: Nat, credit: Nat]
        /\ ecu'.msg = ecu.msg /\ ecu'.k = 1
        /\ ecu'.pc = IF n = 1 THEN "idle" ELSE "wait_fc"
    <3>. HIDE DEF n
    <3>. QED  BY <1>2 DEF IType, EcuType
  <2>2. n' = n
    BY <1>2, <2>1 DEF RspFrames, luck
  <2>3. ecu'.pc # "idle" => n > 1
    BY <1>1, <2>1, LengthIs
  <2>. QED  BY <1>1, <2>1, <2>2, <2>3 DEF EcuType
<1>6. TesterType' /\ LuckType'
  BY <1>2, TesterSame DEF IType, LuckType, luck
<1>. QED  BY <1>4, <1>5, <1>6 DEF IType

LEMMA EcuSendsConsecutiveTyped ==
  ASSUME IType, EcuSendsConsecutive
  PROVE  IType'
<1>. DEFINE k == ecu.k + 1
            n == RspSize[ecu.msg]
<1>1. ecu.msg \in Requests /\ k \in Nat \ {0} /\ n \in 1..MaxLength
  BY Sizes DEF IType, EcuType, EcuSendsConsecutive
<1>2. /\ wire' = Append(wire, Part(ecu.msg, k, n))
      /\ ecu' = [ecu EXCEPT !.k = k,
                              !.pc = IF k = n THEN "idle"
                                     ELSE IF ecu.credit = 1 THEN "wait_fc" ELSE "burst",
                              !.credit = IF @ > 0 THEN @ - 1 ELSE 0]
      /\ ecu.pc = "burst" /\ UNCHANGED <<tester, rx_buf_, bus, luck>>
  BY DEF EcuSendsConsecutive
<1>3. Part(ecu.msg, k, n) \in Inbound
  BY <1>1, PartTyped
<1>4. LinkType'
  BY <1>2, <1>3, WireTyped DEF luck
<1>5. EcuType'
  <2>1. /\ ecu' \in [pc: {"idle", "hold", "recv", "answer", "wait_fc", "burst"},
                      msg: Requests \cup {0}, k: Nat, block: Nat, credit: Nat]
        /\ ecu'.msg = ecu.msg /\ ecu'.k = k
    <3>1. (IF ecu.credit > 0 THEN ecu.credit - 1 ELSE 0) \in Nat
      BY DEF IType, EcuType
    <3>2. (IF k = n THEN "idle" ELSE IF ecu.credit = 1 THEN "wait_fc" ELSE "burst")
            \in {"idle", "wait_fc", "burst"}
      OBVIOUS
    <3>. HIDE DEF k, n
    <3>. QED  BY <1>1, <1>2, <3>1, <3>2 DEF IType, EcuType
  <2>2. RspFrames(ecu.msg)' = RspFrames(ecu.msg) /\ RspFrames(ecu.msg) > 1
    BY <1>2, <2>1 DEF RspFrames, luck, IType, EcuType
  <2>. QED  BY <1>1, <2>1, <2>2 DEF EcuType
<1>6. TesterType' /\ LuckType'
  BY <1>2, TesterSame DEF IType, LuckType, luck
<1>. QED  BY <1>4, <1>5, <1>6 DEF IType

LEMMA ForeignFrameTyped ==
  ASSUME IType, ForeignFrame
  PROVE  IType'
<1>1. LinkType'
  BY ForeignTyped, WireTyped DEF ForeignFrame
<1>2. foreign' \in 0..MaxForeign
  BY Sizes DEF IType, LuckType, ForeignFrame
<1>3. TesterType' /\ EcuType' /\ LuckType'
  BY <1>2, TesterSame, EcuSame DEF IType, LuckType, ForeignFrame
<1>. QED  BY <1>1, <1>3 DEF IType

LEMMA LoseFrameTyped ==
  ASSUME IType, LoseFrame
  PROVE  IType'
<1>1. lost' \in 0..MaxLost
  BY Sizes DEF IType, LuckType, LoseFrame
<1>2. bus' \in Seq(Outbound) /\ wire' \in Seq(Inbound)
  BY TailFacts DEF IType, LinkType, LoseFrame
<1>3. TesterType' /\ EcuType' /\ LuckType' /\ LinkType'
  BY <1>1, <1>2, TesterSame, EcuSame DEF IType, LinkType, LuckType, LoseFrame
<1>. QED  BY <1>3 DEF IType

LEMMA StutterTyped == ASSUME IType, UNCHANGED vars PROVE IType'
BY TesterSame, EcuSame DEF IType, LinkType, LuckType, vars, luck

LEMMA InitTyped == Init => IType
<1>. SUFFICES ASSUME Init PROVE IType
  OBVIOUS
<1>1. TesterType
  BY Sizes DEF Init, TesterType, Nibble
<1>2. EcuType /\ LinkType /\ LuckType
  BY Sizes DEF Init, EcuType, LinkType, LuckType
<1>. QED  BY <1>1, <1>2 DEF IType

LEMMA StepTyped == IType /\ [Next]_vars => IType'
<1>. SUFFICES ASSUME IType, [Next]_vars PROVE IType'
  OBVIOUS
<1>1. CASE Fetch
  BY <1>1, FetchTyped, TesterSame, EcuSame DEF IType, Fetch, LuckType, luck
<1>2. CASE SendFirst \/ NativeSend
  BY <1>2, SendFirstTyped
<1>3. CASE SendGetsFlow \/ SendConsecutive
  BY <1>3, SendGetsFlowTyped, SendConsecutiveTyped
<1>4. CASE RecvFirst \/ RecvMore
  BY <1>4, RecvFirstTyped, RecvMoreTyped
<1>5. CASE ReadTimesOut \/ AssemblyTimesOut \/ NativeRecvFails
  BY <1>5, TimeoutTyped
<1>6. CASE NativeSendFails \/ NativeRecv
  BY <1>6, NativeSendFailsTyped, NativeRecvTyped
<1>7. CASE EcuHearsRequest \/ EcuHearsConsecutive \/ EcuHearsFlow
  BY <1>7, EcuHearsRequestTyped, EcuHearsConsecutiveTyped, EcuHearsFlowTyped
<1>8. CASE EcuResumes \/ EcuAnswers \/ EcuSendsConsecutive
  BY <1>8, EcuResumesTyped, EcuAnswersTyped, EcuSendsConsecutiveTyped
<1>9. CASE ForeignFrame \/ LoseFrame
  BY <1>9, ForeignFrameTyped, LoseFrameTyped
<1>10. CASE Finished \/ UNCHANGED vars
  BY <1>10, StutterTyped DEF Finished
<1>. QED  BY <1>1, <1>2, <1>3, <1>4, <1>5, <1>6, <1>7, <1>8, <1>9, <1>10
         DEF Next, Tester, Ecu

\* A session keeps to its types, whatever the ECU does and the bus loses: in
\* particular send() never reads behind the end of its request, and recv() never
\* assembles on an empty message (isotp.cpp:97-235).
THEOREM TypeCorrect == Spec => []TypeOK
<1>1. IType /\ [Next]_vars => IType'
  BY StepTyped
<1>. QED  BY <1>1, InitTyped, TypesImply, PTL DEF Spec

-----------------------------------------------------------------------------
(* What the tester's reads do to the frames on their way.                   *)

LEMMA ConcatFacts ==
  ASSUME NEW s \in Seq(Inbound), NEW t \in Seq(Inbound)
  PROVE  /\ s \o t \in Seq(Inbound) /\ Len(s \o t) = Len(s) + Len(t)
         /\ Len(s) \in Nat /\ Len(t) \in Nat
         /\ \A i \in 1..Len(s) : (s \o t)[i] = s[i]
         /\ \A i \in 1..Len(t) : (s \o t)[Len(s) + i] = t[i]
<1>1. Len(s) \in Nat /\ Len(t) \in Nat
  OBVIOUS
<1>2. /\ s \o t \in Seq(Inbound) /\ Len(s \o t) = Len(s) + Len(t)
      /\ \A i \in 1..(Len(s) + Len(t)) :
           (s \o t)[i] = IF i <= Len(s) THEN s[i] ELSE t[i - Len(s)]
  BY ConcatProperties
<1>3. ASSUME NEW i \in 1..Len(s) PROVE (s \o t)[i] = s[i]
  BY <1>1, <1>2
<1>4. ASSUME NEW i \in 1..Len(t) PROVE (s \o t)[Len(s) + i] = t[i]
  <2>1. Len(s) + i \in 1..(Len(s) + Len(t)) /\ ~(Len(s) + i <= Len(s))
        /\ (Len(s) + i) - Len(s) = i
    BY <1>1
  <2>. QED  BY <1>2, <2>1
<1>. QED  BY <1>1, <1>2, <1>3, <1>4

LEMMA FlightFacts ==
  ASSUME IType
  PROVE  /\ Flight \in Seq(Inbound) /\ Len(Flight) \in Nat
         /\ Len(Flight) = Len(rx_buf_) + Len(wire)
         /\ \A i \in 1..Len(Flight) : Flight[i] \in Inbound /\ Flight[i].msg \in Nat
<1>1. Flight \in Seq(Inbound) /\ Len(Flight) = Len(rx_buf_) + Len(wire)
  BY ConcatFacts DEF IType, LinkType, Flight
<1>2. Len(Flight) \in Nat /\ \A i \in 1..Len(Flight) : Flight[i] \in Inbound
  BY <1>1, ElementOfSeq
<1>3. \A f \in Inbound : f.msg \in Nat
  BY Sizes DEF Inbound, SessionFrame, Requests
<1>. QED  BY <1>1, <1>2, <1>3

\* An index into a concatenation is one into its parts.
LEMMA TwoParts ==
  ASSUME NEW a \in Nat, NEW b \in Nat, NEW i \in 1..(a + b)
  PROVE  i \in 1..a \/ \E k \in 1..b : i = a + k
<1>1. CASE i > a
  <2>1. i - a \in 1..b /\ i = a + (i - a)
    BY <1>1
  <2>. QED  BY <2>1
<1>. QED  BY <1>1

\* Frames are dropped from rx_buf_.
LEMMA BufferDrops ==
  ASSUME IType, IType', NEW d, Drops(rx_buf_, d, rx_buf_'), UNCHANGED wire
  PROVE  Drops(Flight, d, Flight')
<1>. DEFINE a == Len(rx_buf_)
            b == Len(wire)
<1>1. /\ rx_buf_ \in Seq(Inbound) /\ wire \in Seq(Inbound) /\ rx_buf_' \in Seq(Inbound)
      /\ a \in Nat /\ b \in Nat /\ d \in 0..a /\ Len(rx_buf_') = a - d
      /\ \A i \in 1..(a - d) : rx_buf_'[i] = rx_buf_[i + d]
  BY DEF IType, LinkType, Drops
<1>2. /\ Len(Flight) = a + b
      /\ \A i \in 1..a : Flight[i] = rx_buf_[i]
      /\ \A i \in 1..b : Flight[a + i] = wire[i]
  BY <1>1, ConcatFacts DEF Flight
<1>3. /\ Flight' \in Seq(Inbound) /\ Len(Flight') = (a - d) + b
      /\ \A i \in 1..(a - d) : Flight'[i] = rx_buf_'[i]
      /\ \A i \in 1..b : Flight'[(a - d) + i] = wire[i]
  <2>1. Flight' = rx_buf_' \o wire
    BY DEF Flight
  <2>2. /\ rx_buf_' \o wire \in Seq(Inbound) /\ Len(rx_buf_' \o wire) = Len(rx_buf_') + b
        /\ \A i \in 1..Len(rx_buf_') : (rx_buf_' \o wire)[i] = rx_buf_'[i]
        /\ \A i \in 1..b : (rx_buf_' \o wire)[Len(rx_buf_') + i] = wire[i]
    BY <1>1, ConcatFacts
  <2>. HIDE DEF a, b
  <2>. QED  BY <1>1, <2>1, <2>2
<1>4. ASSUME NEW i \in 1..Len(Flight') PROVE Flight'[i] = Flight[i + d]
  <2>. HIDE DEF a, b
  <2>1. a - d \in Nat /\ i \in 1..((a - d) + b)
    BY <1>1, <1>3
  <2>2. CASE i \in 1..(a - d)
    <3>1. i + d \in 1..a
      BY <1>1, <2>2
    <3>. QED  BY <1>1, <1>2, <1>3, <2>2, <3>1
  <2>3. CASE \E k \in 1..b : i = (a - d) + k
    <3>1. PICK k \in 1..b : i = (a - d) + k
      BY <2>3
    <3>2. i + d = a + k
      BY <1>1, <3>1
    <3>. QED  BY <1>2, <1>3, <3>1, <3>2
  <2>. QED  BY <1>1, <2>1, <2>2, <2>3, TwoParts
<1>5. Len(Flight') = Len(Flight) - d /\ d \in 0..Len(Flight)
  BY <1>1, <1>2, <1>3
<1>. QED  BY <1>3, <1>4, <1>5 DEF Drops

\* Frames are dropped from the adapter of a channel with ISO-TP of its own.
LEMMA WireDrops ==
  ASSUME IType, rx_buf_ = << >>, rx_buf_' = << >>, NEW d, Drops(wire, d, wire')
  PROVE  Drops(Flight, d, Flight')
<1>1. wire \in Seq(Inbound) /\ wire' \in Seq(Inbound)
  BY DEF IType, LinkType, Drops
<1>2. Flight = wire /\ Flight' = wire'
  BY <1>1, ConcatEmptySeq DEF Flight
<1>. QED  BY <1>2

\* rx_buf_ is emptied.
LEMMA BufferLost ==
  ASSUME IType, IType', rx_buf_' = << >>, UNCHANGED wire
  PROVE  Drops(Flight, Len(rx_buf_), Flight')
<1>1. rx_buf_ \in Seq(Inbound) /\ Len(rx_buf_') = 0 /\ rx_buf_' \in Seq(Inbound)
  BY DEF IType, LinkType
<1>2. Drops(rx_buf_, Len(rx_buf_), rx_buf_')
  BY <1>1 DEF Drops
<1>. QED  BY <1>2, BufferDrops

\* The channel is read, and rx_buf_ had nothing for us.
LEMMA FetchDrops ==
  ASSUME IType, IType', Fetch
  PROVE  Drops(Flight, Len(rx_buf_), Flight')
<1>. DEFINE a == Len(rx_buf_)
            b == Len(wire)
<1>1. rx_buf_ \in Seq(Inbound) /\ wire \in Seq(Inbound) /\ a \in Nat /\ b \in Nat
  BY DEF IType, LinkType
<1>2. PICK k \in 1..b : rx_buf_' = SubSeq(wire, 1, k) /\ wire' = SubSeq(wire, k + 1, b)
  BY DEF Fetch
<1>3. Flight' = wire
  <2>1. 1 \in 1..(Len(wire) + 1) /\ k \in (1 - 1)..Len(wire) /\ b \in k..Len(wire)
    BY <1>1
  <2>2. SubSeq(wire, 1, k) \o SubSeq(wire, k + 1, b) = SubSeq(wire, 1, b)
    BY <1>1, <2>1, ConcatAdjacentSubSeq
  <2>3. SubSeq(wire, 1, b) = wire
    BY <1>1
  <2>. QED  BY <1>2, <2>2, <2>3 DEF Flight
<1>4. Len(Flight) = a + b /\ \A i \in 1..b : Flight[a + i] = wire[i]
  BY <1>1, ConcatFacts DEF Flight
<1>. HIDE DEF a, b
<1>5. a \in 0..Len(Flight) /\ Len(Flight') = Len(Flight) - a /\ Len(Flight') = b
  BY <1>1, <1>3, <1>4 DEF b
<1>6. \A i \in 1..Len(Flight') : Flight'[i] = Flight[i + a]
  BY <1>1, <1>3, <1>4, <1>5
<1>7. Drops(Flight, a, Flight')
  BY <1>1, <1>3, <1>5, <1>6 DEF Drops
<1>. QED  BY <1>7 DEF a

\* The frames of t are frames of s, in the order of s.
Thins(t, s) ==
  \E pos \in [1..Len(t) -> 1..Len(s)] :
    /\ \A i, j \in 1..Len(t) : i < j => pos[i] < pos[j]
    /\ \A i \in 1..Len(t) : t[i] = s[pos[i]]

LEMMA DropsThin ==
  ASSUME NEW s \in Seq(Inbound), NEW t, NEW d, Drops(s, d, t)
  PROVE  Thins(t, s)
<1>. DEFINE pos == [i \in 1..Len(t) |-> i + d]
<1>1. Len(s) \in Nat /\ d \in 0..Len(s) /\ Len(t) = Len(s) - d
      /\ \A i \in 1..Len(t) : t[i] = s[i + d]
  <2>1. Len(s) \in Nat
    OBVIOUS
  <2>. QED  BY <2>1, Zenon DEF Drops
<1>2. pos \in [1..Len(t) -> 1..Len(s)]
  <2>1. PICK m \in Nat : m = Len(s)
    BY <1>1
  <2>2. d \in 0..m /\ Len(t) = m - d
    BY <1>1, <2>1, Zenon
  <2>3. \A i \in 1..(m - d) : i + d \in 1..m
    BY ONLY <2>1, <2>2
  <2>. QED  BY <2>1, <2>2, <2>3, Zenon
<1>3. /\ \A i, j \in 1..Len(t) : i < j => pos[i] < pos[j]
      /\ \A i \in 1..Len(t) : t[i] = s[pos[i]]
  BY <1>1
<1>. QED  BY <1>2, <1>3 DEF Thins

LEMMA SameThin ==
  ASSUME NEW s \in Seq(Inbound)
  PROVE  Thins(s, s)
<1>1. Drops(s, 0, s)
  BY DEF Drops
<1>. QED  BY <1>1, DropsThin

\* A frame is lost on its way to the tester.
LEMMA LossThins ==
  ASSUME IType, IType', wire # << >>, wire' = Tail(wire), UNCHANGED rx_buf_
  PROVE  Thins(Flight', Flight)
<1>. DEFINE a == Len(rx_buf_)
            b == Len(wire)
            pos == [i \in 1..Len(Flight') |-> IF i <= a THEN i ELSE i + 1]
<1>1. /\ rx_buf_ \in Seq(Inbound) /\ wire \in Seq(Inbound) /\ wire' \in Seq(Inbound)
      /\ a \in Nat /\ b \in Nat
  BY DEF IType, LinkType
<1>2. b > 0 /\ Len(wire') = b - 1 /\ \A i \in 1..(b - 1) : wire'[i] = wire[i + 1]
  BY <1>1, TailFacts
<1>3. /\ Len(Flight) = a + b
      /\ \A i \in 1..a : Flight[i] = rx_buf_[i]
      /\ \A i \in 1..b : Flight[a + i] = wire[i]
  BY <1>1, ConcatFacts DEF Flight
<1>4. /\ Len(Flight') = a + (b - 1)
      /\ \A i \in 1..a : Flight'[i] = rx_buf_[i]
      /\ \A i \in 1..(b - 1) : Flight'[a + i] = wire'[i]
  BY <1>1, <1>2, ConcatFacts DEF Flight
<1>. HIDE DEF a, b
<1>5. pos \in [1..Len(Flight') -> 1..Len(Flight)]
  BY <1>1, <1>2, <1>3, <1>4
<1>6. \A i, j \in 1..Len(Flight') : i < j => pos[i] < pos[j]
  BY <1>1, <1>4
<1>7. ASSUME NEW i \in 1..Len(Flight') PROVE Flight'[i] = Flight[pos[i]]
  <2>1. b - 1 \in Nat /\ i \in 1..(a + (b - 1))
    BY <1>2, <1>1, <1>4
  <2>2. CASE i \in 1..a
    BY <1>3, <1>4, <2>2
  <2>3. CASE \E k \in 1..(b - 1) : i = a + k
    <3>1. PICK k \in 1..(b - 1) : i = a + k
      BY <2>3
    <3>2. pos[i] = a + (k + 1) /\ k + 1 \in 1..b
      BY <1>1, <3>1
    <3>3. Flight'[i] = wire[k + 1] /\ Flight[a + (k + 1)] = wire[k + 1]
      BY <1>2, <1>3, <1>4, <3>1, <3>2
    <3>. QED  BY <3>2, <3>3
  <2>. QED  BY <1>1, <2>1, <2>2, <2>3, TwoParts
<1>. HIDE DEF pos
<1>. QED  BY <1>5, <1>6, <1>7 DEF Thins

\* A frame is written for the tester.
LEMMA FlightAppend ==
  ASSUME IType, NEW f \in Inbound, wire' = Append(wire, f), UNCHANGED rx_buf_
  PROVE  Flight' = Append(Flight, f)
<1>1. rx_buf_ \in Seq(Inbound) /\ wire \in Seq(Inbound)
  BY DEF IType, LinkType
<1>. DEFINE a == Len(rx_buf_)
            b == Len(wire)
<1>2. /\ Append(wire, f) \in Seq(Inbound) /\ Len(Append(wire, f)) = b + 1
      /\ \A i \in 1..b : Append(wire, f)[i] = wire[i]
      /\ Append(wire, f)[b + 1] = f /\ a \in Nat /\ b \in Nat
  BY <1>1, AppendFacts
<1>3. /\ Flight \in Seq(Inbound) /\ Len(Flight) = a + b
      /\ \A i \in 1..a : Flight[i] = rx_buf_[i]
      /\ \A i \in 1..b : Flight[a + i] = wire[i]
  BY <1>1, ConcatFacts DEF Flight
<1>4. /\ Flight' \in Seq(Inbound) /\ Len(Flight') = a + (b + 1)
      /\ \A i \in 1..a : Flight'[i] = rx_buf_[i]
      /\ \A i \in 1..(b + 1) : Flight'[a + i] = Append(wire, f)[i]
  BY <1>1, <1>2, ConcatFacts DEF Flight
<1>5. /\ Append(Flight, f) \in Seq(Inbound) /\ Len(Append(Flight, f)) = a + (b + 1)
      /\ \A i \in 1..(a + b) : Append(Flight, f)[i] = Flight[i]
      /\ Append(Flight, f)[a + (b + 1)] = f
  BY <1>2, <1>3, AppendFacts
<1>. HIDE DEF a, b
<1>6. ASSUME NEW i \in 1..(a + (b + 1)) PROVE Flight'[i] = Append(Flight, f)[i]
  <2>1. CASE i \in 1..a
    <3>1. i \in 1..(a + b)
      BY <1>2, <2>1
    <3>. QED  BY <1>3, <1>4, <1>5, <2>1, <3>1
  <2>2. CASE \E k \in 1..(b + 1) : i = a + k
    <3>1. PICK k \in 1..(b + 1) : i = a + k
      BY <2>2
    <3>2. CASE k = b + 1
      BY <1>2, <1>4, <1>5, <3>1, <3>2
    <3>3. CASE k \in 1..b
      <4>1. i \in 1..(a + b)
        BY <1>2, <3>1, <3>3
      <4>. QED  BY <1>2, <1>3, <1>4, <1>5, <3>1, <3>3, <4>1
    <3>4. k = b + 1 \/ k \in 1..b
      BY <1>2
    <3>. QED  BY <3>2, <3>3, <3>4
  <2>3. b + 1 \in Nat
    BY <1>2
  <2>. QED  BY <1>2, <2>1, <2>2, <2>3, TwoParts
<1>. QED  BY <1>4, <1>5, <1>6, SeqEqual

\* The frame that read_matching() or recvHwIsoTp() returns: the first one of our id.
Got(f) ==
  \E d \in 1..Len(Flight) :
    /\ f = Flight[d] /\ Matches(f)
    /\ \A i \in 1..(d - 1) : ~Matches(Flight[i])
    /\ Drops(Flight, d, Flight')

LEMMA TakeGets ==
  ASSUME IType, IType', NEW f, Take(f), UNCHANGED wire
  PROVE  Got(f)
<1>1. PICK j \in 1..Len(rx_buf_) :
        /\ f = rx_buf_[j] /\ \A i \in 1..(j - 1) : ~Matches(rx_buf_[i])
        /\ Drops(rx_buf_, j, rx_buf_')
  BY TakeFacts
<1>2. rx_buf_ \in Seq(Inbound) /\ wire \in Seq(Inbound)
  BY DEF IType, LinkType
<1>3. /\ Len(Flight) = Len(rx_buf_) + Len(wire) /\ Len(rx_buf_) \in Nat /\ Len(wire) \in Nat
      /\ \A i \in 1..Len(rx_buf_) : Flight[i] = rx_buf_[i]
  BY <1>2, ConcatFacts DEF Flight
<1>4. j \in 1..Len(Flight) /\ f = Flight[j] /\ Drops(Flight, j, Flight')
  BY <1>1, <1>3, BufferDrops
<1>5. \A i \in 1..(j - 1) : ~Matches(Flight[i])
  BY <1>1, <1>3
<1>6. Matches(f)
  BY TakeFacts
<1>. QED  BY <1>4, <1>5, <1>6 DEF Got

LEMMA NativeGets ==
  ASSUME IType, NativeRecv
  PROVE  \E f \in Inbound : Got(f) /\ Return(TRUE, <<f>>)
<1>1. rx_buf_ = << >> /\ rx_buf_' = << >>
  BY NativeRecvFacts DEF NativeRecv
<1>2. PICK j \in 1..Len(wire) :
        /\ Matches(wire[j]) /\ \A i \in 1..(j - 1) : ~Matches(wire[i])
        /\ wire[j] \in Inbound /\ Return(TRUE, <<wire[j]>>)
        /\ Drops(wire, j, wire')
  BY NativeRecvFacts
<1>3. Drops(Flight, j, Flight')
  BY <1>1, <1>2, WireDrops
<1>4. Flight = wire
  BY <1>1, ConcatEmptySeq DEF Flight, IType, LinkType
<1>5. Got(wire[j])
  BY <1>2, <1>3, <1>4 DEF Got
<1>. QED  BY <1>2, <1>5

LEMMA GotFacts ==
  ASSUME IType, NEW f, Got(f)
  PROVE  f \in Inbound /\ Matches(f) /\ Thins(Flight', Flight)
<1>1. PICK d \in 1..Len(Flight) : f = Flight[d] /\ Matches(f) /\ Drops(Flight, d, Flight')
  BY DEF Got
<1>2. Flight \in Seq(Inbound)
  BY FlightFacts
<1>. QED  BY <1>1, <1>2, FlightFacts, DropsThin

-----------------------------------------------------------------------------
(* The order of the responses on their way.                                 *)

LEMMA BegunSame == ASSUME UNCHANGED ecu, NEW n, Begun(n) PROVE Begun(n)'
BY DEF Begun

LEMMA ThinFlight ==
  ASSUME FlightOrder, Thins(Flight', Flight), UNCHANGED ecu
  PROVE  FlightOrder'
<1>. PICK F : F = Flight'
  OBVIOUS
<1>1. PICK pos \in [1..Len(F) -> 1..Len(Flight)] :
        /\ \A i, j \in 1..Len(F) : i < j => pos[i] < pos[j]
        /\ \A i \in 1..Len(F) : F[i] = Flight[pos[i]]
  BY DEF Thins
<1>2. ASSUME NEW i \in 1..Len(F), NEW j \in 1..Len(F), i < j
      PROVE  Precedes(F[i], F[j])
  BY <1>1, <1>2 DEF FlightOrder
<1>3. ASSUME NEW i \in 1..Len(F), IsPart(F[i])
      PROVE  Begun(F[i].msg)'
  BY <1>1, <1>3, BegunSame DEF FlightOrder
<1>4. \A i, j \in 1..Len(F) : i < j => Precedes(F[i], F[j])
  BY <1>2
<1>5. \A i \in 1..Len(F) : IsPart(F[i]) => Begun(F[i].msg)'
  BY <1>3
<1>. QED  BY <1>4, <1>5 DEF FlightOrder, Precedes, IsPart, IsStart, Matches

LEMMA ThinUsed ==
  ASSUME UsedFirst, Thins(Flight', Flight), UNCHANGED ecu, Used' = Used
  PROVE  UsedFirst'
<1>. PICK F : F = Flight'
  OBVIOUS
<1>1. PICK pos \in [1..Len(F) -> 1..Len(Flight)] :
        \A i \in 1..Len(F) : F[i] = Flight[pos[i]]
  BY DEF Thins
<1>2. ASSUME NEW u \in Used, NEW i \in 1..Len(F), IsStart(F[i])
      PROVE  u < F[i].msg
  BY <1>1, <1>2 DEF UsedFirst
<1>3. \A u \in Used : u \in Requests /\ Begun(u)'
  BY BegunSame DEF UsedFirst
<1>. QED  BY <1>2, <1>3 DEF UsedFirst, IsStart, Matches

LEMMA ThinOut ==
  ASSUME OutNext, Thins(Flight', Flight), UNCHANGED <<ecu, out>>, Used' = Used,
         pc' = "more" => pc = "more"
  PROVE  OutNext'
<1>. SUFFICES ASSUME pc' = "more" PROVE OutNext'
  BY DEF OutNext
<1>. PICK F : F = Flight'
  OBVIOUS
<1>1. PICK pos \in [1..Len(F) -> 1..Len(Flight)] :
        \A i \in 1..Len(F) : F[i] = Flight[pos[i]]
  BY DEF Thins
<1>2. \A i \in 1..Len(F) : Precedes(out[1], F[i])
  BY <1>1 DEF OutNext
<1>3. Begun(out[1].msg)'
  BY BegunSame DEF OutNext
<1>. QED  BY <1>2, <1>3 DEF OutNext, Precedes, IsPart, IsStart, Matches

\* The bus gets nothing but frames that begin no request, and the next request may
\* be one further.
LEMMA RequestsStay ==
  ASSUME IType, RequestsLast, UNCHANGED ecu,
         \/ UNCHANGED bus
         \/ \E f \in Outbound : ~IsStart(f) /\ bus' = Append(bus, f),
         \/ UNCHANGED req /\ (pc' = "send" => pc = "send")
         \/ req' = req + 1
  PROVE  RequestsLast'
<1>1. /\ bus \in Seq(Outbound) /\ req \in Nat /\ ecu.msg \in Nat /\ Len(bus) \in Nat
      /\ \A i \in 1..Len(bus) : bus[i].msg \in Nat
  <2>1. bus \in Seq(Outbound) /\ req \in Nat /\ ecu.msg \in Nat /\ Len(bus) \in Nat
    BY Sizes DEF IType, LinkType, TesterType, EcuType, Requests
  <2>2. \A f \in Outbound : f.msg \in Nat
    BY Sizes DEF Outbound, SessionFrame, Requests
  <2>. QED  BY <2>1, <2>2, ElementOfSeq
<1>2. /\ \A i \in 1..Len(bus') : IsStart(bus'[i]) => i \in 1..Len(bus) /\ bus'[i] = bus[i]
  <2>1. CASE UNCHANGED bus
    BY <2>1
  <2>2. CASE \E f \in Outbound : ~IsStart(f) /\ bus' = Append(bus, f)
    <3>1. PICK f \in Outbound : ~IsStart(f) /\ bus' = Append(bus, f)
      BY <2>2
    <3>2. /\ Len(bus') = Len(bus) + 1 /\ bus'[Len(bus) + 1] = f
          /\ \A i \in 1..Len(bus) : bus'[i] = bus[i]
      BY <1>1, <3>1, AppendFacts
    <3>3. \A i \in 1..Len(bus') : i \in 1..Len(bus) \/ i = Len(bus) + 1
      BY <1>1, <3>2
    <3>. QED  BY <3>1, <3>2, <3>3
  <2>. QED  BY <2>1, <2>2
<1>3. req <= req' /\ req' \in Nat
  BY <1>1
<1>4. ASSUME NEW i \in 1..Len(bus'), IsStart(bus'[i])
      PROVE  ecu.msg < bus'[i].msg /\ bus'[i].msg <= req'
             /\ (pc' = "send" => bus'[i].msg < req')
  <2>1. i \in 1..Len(bus) /\ bus'[i] = bus[i]
    BY <1>2, <1>4
  <2>2. /\ ecu.msg < bus[i].msg /\ bus[i].msg <= req
        /\ pc = "send" => bus[i].msg < req
    BY <1>4, <2>1 DEF RequestsLast
  <2>3. bus[i].msg \in Nat
    BY <1>1, <2>1
  <2>. QED  BY <1>1, <1>3, <2>1, <2>2, <2>3
<1>5. ecu.msg <= req' /\ (pc' = "send" => ecu.msg < req')
  BY <1>1, <1>3 DEF RequestsLast
<1>6. \A i, j \in 1..Len(bus') :
        i < j /\ IsStart(bus'[i]) /\ IsStart(bus'[j]) => bus'[i].msg < bus'[j].msg
  BY <1>2 DEF RequestsLast
<1>. QED  BY <1>4, <1>5, <1>6 DEF RequestsLast, IsStart, Matches

LEMMA NoStart ==
  /\ \A msg, status, b : ~IsStart(Flow(msg, status, b)) /\ ~IsPart(Flow(msg, status, b))
  /\ \A msg, n : \A k \in Nat \ {0, 1} : n > 1 => ~IsStart(Part(msg, k, n))
BY DEF IsStart, IsPart, Flow, Part

-----------------------------------------------------------------------------
(* The responses used.                                                      *)

LEMMA MinIs ==
  ASSUME NEW S \in SUBSET Nat, NEW n \in S, \A m \in S : n <= m
  PROVE  Min(S) = n
<1>1. n \in S /\ \A m \in S : n <= m
  OBVIOUS
<1>2. \A x \in S : (\A m \in S : x <= m) => x = n
  BY <1>1
<1>. QED  BY <1>1, <1>2 DEF Min

LEMMA MaxIs ==
  ASSUME NEW S \in SUBSET Nat, NEW n \in S, \A m \in S : m <= n
  PROVE  Max(S) = n
<1>1. n \in S /\ \A m \in S : n >= m
  OBVIOUS
<1>2. \A x \in S : (\A m \in S : x >= m) => x = n
  BY <1>1
<1>. QED  BY <1>1, <1>2 DEF Max

\* The messages that a PDU is from, when none of its frames is from an older one
\* than its first.
LEMMA OldestSource ==
  ASSUME NEW pdu \in Seq(SessionFrame), pdu # << >>,
         \A k \in 1..Len(pdu) : pdu[1].msg <= pdu[k].msg
  PROVE  Min({pdu[k].msg : k \in 1..Len(pdu)}) = pdu[1].msg
<1>1. \A k \in 1..Len(pdu) : pdu[k] \in SessionFrame
  BY ElementOfSeq
<1>2. \A f \in SessionFrame : f.msg \in Nat
  BY Sizes DEF SessionFrame, Requests
<1>3. {pdu[k].msg : k \in 1..Len(pdu)} \in SUBSET Nat
  BY <1>1, <1>2
<1>4. 1 \in 1..Len(pdu)
  <2>1. Len(pdu) > 0
    BY TailFacts
  <2>. QED  BY <2>1
<1>. QED  BY <1>3, <1>4, MinIs

\* The messages that a result was put together from.
Pieces(a) == {a.pdu[k].msg : k \in 1..Len(a.pdu)}

LEMMA UsedAppend ==
  ASSUME TesterType, pc # "done", NEW ok \in BOOLEAN, NEW pdu \in Seq(SessionFrame),
         Return(ok, pdu)
  PROVE  /\ ~ok => Used' = Used
         /\ ok /\ pdu # << >> /\ (\A k \in 1..Len(pdu) : pdu[1].msg <= pdu[k].msg)
              => Used' = Used \cup {pdu[1].msg}
<1>. DEFINE n == Len(answers) + 1
<1>1. /\ Len(answers') = n /\ answers'[n] = [ok |-> ok, pdu |-> pdu]
      /\ \A r \in 1..Len(answers) : answers'[r] = answers[r]
      /\ Len(answers) \in Nat
  BY ReturnTyped DEF TesterType
<1>2. \A r : r \in 1..Len(answers') <=> r \in 1..Len(answers) \/ r = n
  BY <1>1
<1>3. Used = {Min(Pieces(answers[r])) : r \in {q \in 1..Len(answers) : answers[q].ok}}
  BY DEF Used, Sources, Pieces
<1>4. Used' = {Min(Pieces(answers'[r])) : r \in {q \in 1..Len(answers') : answers'[q].ok}}
  BY DEF Used, Sources, Pieces
<1>. HIDE DEF n
<1>5. n \notin 1..Len(answers)
  BY <1>1 DEF n
<1>6. ASSUME ~ok PROVE Used' = Used
  <2>1. {q \in 1..Len(answers') : answers'[q].ok} = {q \in 1..Len(answers) : answers[q].ok}
    BY <1>1, <1>2, <1>5, <1>6
  <2>2. \A r \in {q \in 1..Len(answers) : answers[q].ok} : answers'[r] = answers[r]
    BY <1>1
  <2>. QED  BY <1>3, <1>4, <2>1, <2>2
<1>7. ASSUME ok, pdu # << >>, \A k \in 1..Len(pdu) : pdu[1].msg <= pdu[k].msg
      PROVE  Used' = Used \cup {pdu[1].msg}
  <2>. DEFINE Good == {q \in 1..Len(answers) : answers[q].ok}
  <2>1. {q \in 1..Len(answers') : answers'[q].ok} = Good \cup {n}
    BY <1>1, <1>2, <1>5, <1>7
  <2>2. Min(Pieces(answers'[n])) = pdu[1].msg
    BY <1>1, <1>7, OldestSource DEF Pieces
  <2>3. \A r \in Good : Min(Pieces(answers'[r])) = Min(Pieces(answers[r]))
    BY <1>1
  <2>4. Used = {Min(Pieces(answers[r])) : r \in Good}
    BY <1>3
  <2>5. Used' = {Min(Pieces(answers'[r])) : r \in Good \cup {n}}
    BY <1>4, <2>1
  <2>. HIDE DEF Good
  <2>. QED  BY <2>2, <2>3, <2>4, <2>5
<1>. QED  BY <1>6, <1>7

-----------------------------------------------------------------------------
(* Every step keeps the order.                                              *)

\* Where the frame that was read stands to those that are still on their way.
LEMMA GotOrder ==
  ASSUME IType, IType', Ordered, NEW f, Got(f), IsPart(f)
  PROVE  /\ f \in Inbound /\ f.msg \in Requests /\ Begun(f.msg)
         /\ \A i \in 1..Len(Flight') : Precedes(f, Flight'[i])
         /\ IsStart(f) => \A u \in Used : u < f.msg
         /\ pc = "more" => Precedes(out[1], f)
<1>1. PICK d \in 1..Len(Flight) : f = Flight[d] /\ Matches(f) /\ Drops(Flight, d, Flight')
  BY DEF Got
<1>2. f \in Inbound /\ f.msg \in Requests
  BY <1>1, FlightFacts DEF Inbound
<1>3. Begun(f.msg)
  BY <1>1 DEF Ordered, FlightOrder
<1>4. ASSUME NEW i \in 1..Len(Flight') PROVE Precedes(f, Flight'[i])
  <2>1. Len(Flight) \in Nat /\ Len(Flight') = Len(Flight) - d
    BY <1>1, FlightFacts DEF Drops
  <2>2. i + d \in 1..Len(Flight) /\ d < i + d
    BY <2>1
  <2>3. Flight'[i] = Flight[i + d]
    BY <1>1 DEF Drops
  <2>. QED  BY <1>1, <2>2, <2>3 DEF Ordered, FlightOrder
<1>5. (IsStart(f) => \A u \in Used : u < f.msg) /\ (pc = "more" => Precedes(out[1], f))
  BY <1>1 DEF Ordered, UsedFirst, OutNext
<1>. QED  BY <1>2, <1>3, <1>4, <1>5

\* The tester moves, and no request returns.
LEMMA MoveOrdered ==
  ASSUME IType, Ordered, Thins(Flight', Flight), UNCHANGED <<ecu, answers, out, req>>,
         pc' = "more" => pc = "more", pc' = "send" => pc = "send",
         bus' = bus \/ \E f \in Outbound : ~IsStart(f) /\ bus' = Append(bus, f)
  PROVE  Ordered'
<1>1. Used' = Used
  BY DEF Used, Sources
<1>2. FlightOrder' /\ UsedFirst' /\ OutNext'
  BY <1>1, ThinFlight, ThinUsed, ThinOut DEF Ordered
<1>3. RequestsLast'
  BY RequestsStay DEF Ordered
<1>. QED  BY <1>2, <1>3 DEF Ordered

\* A request fails.
LEMMA FailOrdered ==
  ASSUME IType, Ordered, pc # "done", Fail, Thins(Flight', Flight), UNCHANGED <<ecu, bus>>
  PROVE  Ordered' /\ Used' = Used
<1>1. out \in Seq(SessionFrame) /\ TesterType
  BY DEF IType, TesterType
<1>2. Used' = Used
  BY <1>1, UsedAppend DEF Fail
<1>3. req' = req + 1 /\ pc' # "more"
  BY DEF Fail, Return
<1>4. FlightOrder' /\ UsedFirst' /\ RequestsLast'
  BY <1>2, <1>3, ThinFlight, ThinUsed, RequestsStay DEF Ordered
<1>. QED  BY <1>2, <1>3, <1>4 DEF Ordered, OutNext

\* A request returns a PDU.
LEMMA UseOrdered ==
  ASSUME IType, Ordered, pc # "done", NEW pdu \in Seq(SessionFrame), pdu # << >>,
         \A k \in 1..Len(pdu) : pdu[1].msg <= pdu[k].msg,
         Return(TRUE, pdu), Thins(Flight', Flight), UNCHANGED <<ecu, bus>>,
         Begun(pdu[1].msg), pdu[1].msg \in Requests,
         \A i \in 1..Len(Flight') : Precedes(pdu[1], Flight'[i]),
         IsPart(pdu[1])
  PROVE  Ordered' /\ Used' = Used \cup {pdu[1].msg}
<1>. DEFINE m == pdu[1].msg
<1>1. Used' = Used \cup {m}
  BY UsedAppend DEF IType
<1>2. req' = req + 1 /\ pc' # "more"
  BY DEF Return
<1>3. FlightOrder' /\ RequestsLast'
  BY <1>2, ThinFlight, RequestsStay DEF Ordered
<1>. PICK F : F = Flight'
  OBVIOUS
<1>4. \A i \in 1..Len(F) : IsStart(F[i]) => m < F[i].msg
  BY DEF Precedes, IsStart, IsPart
<1>5. ASSUME NEW u \in Used, NEW i \in 1..Len(F), IsStart(F[i]) PROVE u < F[i].msg
  <2>1. PICK pos \in [1..Len(F) -> 1..Len(Flight)] :
          \A j \in 1..Len(F) : F[j] = Flight[pos[j]]
    BY DEF Thins
  <2>. QED  BY <1>5, <2>1 DEF Ordered, UsedFirst
<1>6. /\ m \in Requests /\ Begun(m)'
      /\ \A u \in Used : u \in Requests /\ Begun(u)'
  BY BegunSame DEF Ordered, UsedFirst
<1>7. \A u \in Used' : /\ u \in Requests /\ Begun(u)'
                       /\ \A i \in 1..Len(F) : IsStart(F[i]) => u < F[i].msg
  BY <1>1, <1>4, <1>5, <1>6
<1>8. UsedFirst'
  BY <1>7 DEF UsedFirst, IsStart, Matches
<1>. QED  BY <1>1, <1>2, <1>3, <1>8 DEF Ordered, OutNext

\* What a step of the tester makes of the request in progress.
Outcome ==
  \/ UNCHANGED answers
  \/ pc # "done" /\ Fail /\ Used' = Used
  \/ \E pdu \in Seq(SessionFrame) :
       /\ pc # "done" /\ Return(TRUE, pdu) /\ Used' = Used \cup {pdu[1].msg}
       /\ pdu[1].msg \in Requests /\ pdu[1].msg <= req
       /\ \A u \in Used : u < pdu[1].msg

\* Frames are lost on their way, in both directions.
LEMMA ThinRequests ==
  ASSUME RequestsLast, Thins(bus', bus), UNCHANGED <<ecu, req, pc>>
  PROVE  RequestsLast'
<1>. PICK B : B = bus'
  OBVIOUS
<1>1. PICK pos \in [1..Len(B) -> 1..Len(bus)] :
        /\ \A i, j \in 1..Len(B) : i < j => pos[i] < pos[j]
        /\ \A i \in 1..Len(B) : B[i] = bus[pos[i]]
  BY DEF Thins
<1>2. ASSUME NEW i \in 1..Len(B), NEW j \in 1..Len(B), i < j, IsStart(B[i]), IsStart(B[j])
      PROVE  B[i].msg < B[j].msg
  <2>1. /\ pos[i] \in 1..Len(bus) /\ pos[j] \in 1..Len(bus) /\ pos[i] < pos[j]
        /\ B[i] = bus[pos[i]] /\ B[j] = bus[pos[j]]
    BY <1>1, <1>2
  <2>2. IsStart(bus[pos[i]]) /\ IsStart(bus[pos[j]])
    BY <1>2, <2>1, Zenon
  <2>. QED  BY <2>1, <2>2 DEF RequestsLast
<1>3. ASSUME NEW i \in 1..Len(B), IsStart(B[i])
      PROVE  ecu.msg < B[i].msg /\ B[i].msg <= req /\ (pc = "send" => B[i].msg < req)
  BY <1>1, <1>3 DEF RequestsLast
<1>. QED  BY <1>2, <1>3 DEF RequestsLast, IsStart, Matches

LEMMA ThinOrdered ==
  ASSUME Ordered, UNCHANGED <<tester, ecu>>, Thins(Flight', Flight), Thins(bus', bus)
  PROVE  Ordered' /\ Outcome
<1>1. UNCHANGED <<req, pc, out, answers>> /\ Used' = Used
  BY DEF tester, Used, Sources
<1>2. FlightOrder' /\ UsedFirst' /\ OutNext' /\ RequestsLast'
  BY <1>1, ThinFlight, ThinUsed, ThinOut, ThinRequests DEF Ordered
<1>. QED  BY <1>1, <1>2 DEF Ordered, Outcome

LEMMA BegunIsAsked ==
  ASSUME IType, RequestsLast, NEW n \in Requests, Begun(n)
  PROVE  n <= req
<1>1. n \in Nat /\ req \in Nat /\ ecu.msg \in Nat
  BY Sizes DEF IType, TesterType, EcuType, Requests
<1>. QED  BY <1>1 DEF Begun, RequestsLast

LEMMA OneIsSeq ==
  ASSUME NEW f \in Inbound, f.msg \in Requests
  PROVE  /\ <<f>> \in Seq(SessionFrame) /\ <<f>> # << >>
         /\ <<f>>[1] = f /\ \A k \in 1..Len(<<f>>) : <<f>>[1].msg <= <<f>>[k].msg
<1>1. f.msg \in Nat /\ f \in SessionFrame
  BY Sizes DEF Requests, Inbound
<1>. QED  BY <1>1

\* A request returns the PDU of a single frame.
LEMMA SingleOrdered ==
  ASSUME IType, IType', Ordered, pc # "done", NEW f, Got(f), IsStart(f),
         Return(TRUE, <<f>>), UNCHANGED <<ecu, bus>>
  PROVE  Ordered' /\ Outcome
<1>1. IsPart(f)
  BY DEF IsStart, IsPart
<1>2. /\ f \in Inbound /\ f.msg \in Requests /\ Begun(f.msg)
      /\ \A i \in 1..Len(Flight') : Precedes(f, Flight'[i])
      /\ \A u \in Used : u < f.msg
  BY <1>1, GotOrder
<1>3. f.msg <= req
  BY <1>2, BegunIsAsked DEF Ordered
<1>. DEFINE pdu == <<f>>
<1>4. pdu \in Seq(SessionFrame) /\ pdu # << >> /\ pdu[1] = f
      /\ \A k \in 1..Len(pdu) : pdu[1].msg <= pdu[k].msg
  BY <1>2, OneIsSeq
<1>5. Return(TRUE, pdu) /\ Thins(Flight', Flight)
  BY GotFacts
<1>. HIDE DEF pdu
<1>6. Ordered' /\ Used' = Used \cup {pdu[1].msg}
  BY <1>1, <1>2, <1>4, <1>5, UseOrdered
<1>. QED  BY <1>2, <1>3, <1>4, <1>5, <1>6 DEF Outcome

LEMMA FetchOrdered ==
  ASSUME IType, IType', Ordered, Fetch
  PROVE  Ordered' /\ Outcome
<1>1. Thins(Flight', Flight)
  BY FetchDrops, FlightFacts, DropsThin
<1>. QED  BY <1>1, MoveOrdered DEF Fetch, tester, Outcome

LEMMA FlightSame ==
  ASSUME IType, UNCHANGED <<rx_buf_, wire>>
  PROVE  Flight' = Flight /\ Thins(Flight', Flight)
<1>1. Flight' = Flight
  BY DEF Flight
<1>. QED  BY <1>1, FlightFacts, SameThin

LEMMA SendGetsFlowOrdered ==
  ASSUME IType, IType', Ordered, SendGetsFlow
  PROVE  Ordered' /\ Outcome
<1>1. PICK f \in Buffered :
        /\ Take(f)
        /\ IF LetsGo(f)
           THEN pc' = "cf" /\ UNCHANGED <<req, idx, total, out, expected_sn, answers>>
           ELSE Fail
  BY DEF SendGetsFlow
<1>2. UNCHANGED <<wire, bus, ecu>> /\ pc # "done"
  BY DEF SendGetsFlow
<1>3. Thins(Flight', Flight)
  BY <1>1, <1>2, TakeGets, GotFacts
<1>4. CASE LetsGo(f)
  BY <1>1, <1>2, <1>3, <1>4, MoveOrdered DEF Outcome
<1>5. CASE ~LetsGo(f)
  BY <1>1, <1>2, <1>3, <1>5, FailOrdered DEF Outcome
<1>. QED  BY <1>4, <1>5

LEMMA SendConsecutiveOrdered ==
  ASSUME IType, Ordered, SendConsecutive
  PROVE  Ordered' /\ Outcome
<1>1. /\ req \in Requests /\ ReqSize[req] \in 1..MaxLength
      /\ idx \in Nat \ {0} /\ 1 < idx /\ idx <= ReqSize[req]
  BY Sizes DEF IType, TesterType, SendConsecutive, Requests
<1>. DEFINE f == Part(req, idx, ReqSize[req])
<1>2. f \in Outbound /\ bus' = Append(bus, f)
  BY <1>1, PartTyped DEF SendConsecutive
<1>3. ~IsStart(f)
  <2>1. ReqSize[req] # 1 /\ idx # 1
    BY <1>1, LengthIs
  <2>. QED  BY <2>1 DEF IsStart, Part
<1>4. Thins(Flight', Flight) /\ Flight' = Flight
  BY FlightSame DEF SendConsecutive
<1>. HIDE DEF f
<1>. QED  BY <1>2, <1>3, <1>4, MoveOrdered DEF SendConsecutive, Outcome

\* The first frame of a long response.
LEMMA FirstOrdered ==
  ASSUME IType, IType', Ordered, NEW f, Got(f), IsStart(f), UNCHANGED <<ecu, req, answers>>,
         out' = <<f>>, pc' = "more",
         bus' = Append(bus, Flow(f.msg, Cts, FcBlockSize))
  PROVE  Ordered'
<1>1. IsPart(f)
  BY DEF IsStart, IsPart
<1>2. /\ f \in Inbound /\ f.msg \in Requests /\ Begun(f.msg)
      /\ \A i \in 1..Len(Flight') : Precedes(f, Flight'[i])
      /\ \A u \in Used : u < f.msg
  BY <1>1, GotOrder
<1>3. Thins(Flight', Flight)
  BY GotFacts
<1>4. Used' = Used
  BY DEF Used, Sources
<1>5. FlightOrder' /\ UsedFirst'
  BY <1>3, <1>4, ThinFlight, ThinUsed DEF Ordered
<1>6. Flow(f.msg, Cts, FcBlockSize) \in Outbound /\ ~IsStart(Flow(f.msg, Cts, FcBlockSize))
  BY <1>2, FlowTyped, NoStart, Sizes
<1>7. RequestsLast'
  BY <1>6, RequestsStay DEF Ordered
<1>8. /\ out'[1] = f /\ Len(out') = 1
      /\ \A k \in 1..Len(out') : out'[1].msg <= out'[k].msg
  BY <1>2, OneIsSeq
<1>9. OutNext'
  <2>. PICK F : F = Flight'
    OBVIOUS
  <2>1. \A i \in 1..Len(F) : Precedes(f, F[i])
    BY <1>2
  <2>2. Begun(f.msg)'
    BY <1>2, BegunSame
  <2>. QED  BY <1>1, <1>2, <1>4, <1>8, <2>1, <2>2
            DEF OutNext, Precedes, IsPart, IsStart, Matches
<1>. QED  BY <1>5, <1>7, <1>9 DEF Ordered

LEMMA RecvFirstOrdered ==
  ASSUME IType, IType', Ordered, RecvFirst
  PROVE  Ordered' /\ Outcome
<1>1. PICK f \in Buffered :
       /\ Take(f)
       /\ \/ /\ f.pci = "SF"
             /\ Return(TRUE, <<f>>)
             /\ UNCHANGED bus
          \/ /\ f.pci = "FF"
             /\ out' = <<f>> /\ total' = f.n /\ expected_sn' = 1
             /\ pc' = "more"
             /\ bus' = Append(bus, Flow(f.msg, Cts, FcBlockSize))
             /\ UNCHANGED <<req, idx, answers>>
          \/ /\ f.pci \notin {"SF", "FF"}
             /\ Fail
             /\ UNCHANGED bus
  BY DEF RecvFirst
<1>2. UNCHANGED <<wire, ecu>> /\ pc # "done"
  BY DEF RecvFirst
<1>3. Got(f) /\ Matches(f) /\ Thins(Flight', Flight)
  BY <1>1, <1>2, TakeGets, GotFacts
<1>4. CASE f.pci = "SF"
  <2>1. Return(TRUE, <<f>>) /\ UNCHANGED bus
    BY <1>1, <1>4
  <2>. QED  BY <1>2, <1>3, <1>4, <2>1, SingleOrdered DEF IsStart
<1>5. CASE f.pci = "FF"
  <2>1. /\ out' = <<f>> /\ pc' = "more" /\ bus' = Append(bus, Flow(f.msg, Cts, FcBlockSize))
        /\ UNCHANGED <<req, answers>>
    BY <1>1, <1>5
  <2>. QED  BY <1>2, <1>3, <1>5, <2>1, FirstOrdered DEF IsStart, Outcome
<1>6. CASE f.pci \notin {"SF", "FF"}
  <2>1. Fail /\ UNCHANGED bus
    BY <1>1, <1>6
  <2>. QED  BY <1>2, <1>3, <2>1, FailOrdered DEF Outcome
<1>. QED  BY <1>4, <1>5, <1>6

\* The PDU that recv() is putting together, with one more consecutive frame.
LEMMA OneMore ==
  ASSUME IType, IType', Ordered, pc = "more", NEW f, Got(f), f.pci = "CF"
  PROVE  /\ Append(out, f) \in Seq(SessionFrame) /\ Append(out, f) # << >>
         /\ Append(out, f)[1] = out[1]
         /\ \A k \in 1..Len(Append(out, f)) : out[1].msg <= Append(out, f)[k].msg
         /\ IsPart(out[1]) /\ Begun(out[1].msg) /\ out[1].msg \in Requests
         /\ \A u \in Used : u < out[1].msg
         /\ \A i \in 1..Len(Flight') : Precedes(out[1], Flight'[i])
<1>1. f \in Inbound /\ f \in SessionFrame /\ IsPart(f) /\ Thins(Flight', Flight)
  BY GotFacts, OneFrame DEF IsPart
<1>2. out \in Seq(SessionFrame) /\ out # << >> /\ Len(out) \in Nat /\ Len(out) > 0
  <2>1. out \in Seq(SessionFrame) /\ out # << >>
    BY DEF IType, TesterType
  <2>. QED  BY <2>1, TailFacts
<1>3. /\ Append(out, f) \in Seq(SessionFrame) /\ Len(Append(out, f)) = Len(out) + 1
      /\ \A k \in 1..Len(out) : Append(out, f)[k] = out[k]
      /\ Append(out, f)[Len(out) + 1] = f
  BY <1>1, <1>2, AppendFacts
<1>4. 1 \in 1..Len(out) /\ Append(out, f) # << >>
  BY <1>2, <1>3
<1>5. /\ IsPart(out[1]) /\ Begun(out[1].msg) /\ out[1].msg \in Requests
      /\ \A u \in Used : u < out[1].msg
      /\ \A i \in 1..Len(Flight) : Precedes(out[1], Flight[i])
      /\ \A k \in 1..Len(out) : out[1].msg <= out[k].msg
  BY DEF Ordered, OutNext
<1>6. out[1].msg <= f.msg
  BY <1>1, <1>5, GotOrder DEF Precedes
<1>7. \A k \in 1..(Len(out) + 1) : k \in 1..Len(out) \/ k = Len(out) + 1
  BY <1>2
<1>8. \A k \in 1..Len(Append(out, f)) : out[1].msg <= Append(out, f)[k].msg
  BY <1>3, <1>5, <1>6, <1>7
<1>9. \A i \in 1..Len(Flight') : Precedes(out[1], Flight'[i])
  <2>1. PICK pos \in [1..Len(Flight') -> 1..Len(Flight)] :
          \A i \in 1..Len(Flight') : Flight'[i] = Flight[pos[i]]
    BY <1>1 DEF Thins
  <2>. QED  BY <1>5, <2>1
<1>. QED  BY <1>3, <1>4, <1>5, <1>8, <1>9

LEMMA RecvMoreOrdered ==
  ASSUME IType, IType', Ordered, RecvMore
  PROVE  Ordered' /\ Outcome
<1>1. PICK f \in Buffered :
       /\ Take(f)
       /\ \/ /\ f.pci # "CF"
             /\ UNCHANGED tester
          \/ /\ f.pci = "CF" /\ ~InSequence(f, expected_sn)
             /\ Fail
          \/ /\ f.pci = "CF" /\ InSequence(f, expected_sn)
             /\ Len(out) + 1 < total
             /\ out' = Append(out, f)
             /\ expected_sn' = NextSn(expected_sn)
             /\ UNCHANGED <<req, pc, idx, total, answers>>
          \/ /\ f.pci = "CF" /\ InSequence(f, expected_sn)
             /\ Len(out) + 1 >= total
             /\ Return(TRUE, Append(out, f))
  BY DEF RecvMore
<1>2. UNCHANGED <<wire, ecu, bus>> /\ pc # "done" /\ pc = "more"
  BY DEF RecvMore
<1>3. Got(f) /\ Matches(f) /\ Thins(Flight', Flight)
  BY <1>1, <1>2, TakeGets, GotFacts
<1>4. CASE UNCHANGED tester
  BY <1>2, <1>3, <1>4, MoveOrdered DEF tester, Outcome
<1>5. CASE Fail
  BY <1>2, <1>3, <1>5, FailOrdered DEF Outcome
<1>. PICK pdu : pdu = Append(out, f)
  OBVIOUS
<1>6. CASE f.pci = "CF" /\ out' = pdu /\ UNCHANGED <<req, pc, answers>>
  <2>1. Used' = Used
    BY <1>6 DEF Used, Sources
  <2>2. FlightOrder' /\ UsedFirst' /\ RequestsLast'
    BY <1>2, <1>3, <1>6, <2>1, ThinFlight, ThinUsed, RequestsStay DEF Ordered
  <2>3. /\ pdu[1] = out[1] /\ \A k \in 1..Len(pdu) : out[1].msg <= pdu[k].msg
        /\ IsPart(out[1]) /\ Begun(out[1].msg) /\ out[1].msg \in Requests
        /\ \A u \in Used : u < out[1].msg
        /\ \A i \in 1..Len(Flight') : Precedes(out[1], Flight'[i])
    BY <1>2, <1>3, <1>6, OneMore
  <2>. PICK F : F = Flight'
    OBVIOUS
  <2>4. \A i \in 1..Len(F) : Precedes(pdu[1], F[i])
    BY <2>3
  <2>5. Begun(pdu[1].msg)'
    BY <1>2, <2>3, BegunSame
  <2>6. OutNext'
    BY <1>6, <2>1, <2>3, <2>4, <2>5 DEF OutNext, Precedes, IsPart, IsStart, Matches
  <2>. QED  BY <1>6, <2>2, <2>6 DEF Ordered, Outcome
<1>7. CASE f.pci = "CF" /\ Return(TRUE, pdu)
  <2>1. /\ pdu \in Seq(SessionFrame) /\ pdu # << >> /\ pdu[1] = out[1]
        /\ \A k \in 1..Len(pdu) : out[1].msg <= pdu[k].msg
        /\ IsPart(out[1]) /\ Begun(out[1].msg) /\ out[1].msg \in Requests
        /\ \A u \in Used : u < out[1].msg
        /\ \A i \in 1..Len(Flight') : Precedes(out[1], Flight'[i])
    BY <1>2, <1>3, <1>7, OneMore
  <2>2. Ordered' /\ Used' = Used \cup {pdu[1].msg}
    BY <1>2, <1>3, <1>7, <2>1, UseOrdered
  <2>3. pdu[1].msg <= req
    BY <2>1, BegunIsAsked DEF Ordered
  <2>. QED  BY <1>2, <1>7, <2>1, <2>2, <2>3 DEF Outcome
<1>8. \/ UNCHANGED tester \/ Fail
      \/ f.pci = "CF" /\ out' = pdu /\ UNCHANGED <<req, pc, answers>>
      \/ f.pci = "CF" /\ Return(TRUE, pdu)
  BY <1>1
<1>. QED  BY <1>4, <1>5, <1>6, <1>7, <1>8

-----------------------------------------------------------------------------
(* A channel with ISO-TP of its own.                                        *)

LEMMA AppendSingle ==
  ASSUME NEW S, NEW s \in Seq(S), NEW f \in S, f.pci = "SF" \/ ~Matches(f),
         \A i \in 1..Len(s) : Matches(s[i]) => s[i].pci = "SF"
  PROVE  \A i \in 1..Len(Append(s, f)) :
           Matches(Append(s, f)[i]) => Append(s, f)[i].pci = "SF"
<1>1. /\ Len(Append(s, f)) = Len(s) + 1 /\ Append(s, f)[Len(s) + 1] = f
      /\ \A i \in 1..Len(s) : Append(s, f)[i] = s[i]
  BY AppendFacts
<1>2. \A i \in 1..Len(Append(s, f)) : i \in 1..Len(s) \/ i = Len(s) + 1
  BY <1>1
<1>. QED  BY <1>1, <1>2

LEMMA NativeStep ==
  ASSUME IType, IType', NativeOnly, [Next]_vars
  PROVE  NativeOnly'
<1>. SUFFICES ASSUME native' PROVE NativeOnly'
  BY DEF NativeOnly
<1>1. native' = native
  BY DEF Next, Tester, Ecu, Fetch, SendFirst, SendGetsFlow, SendConsecutive, RecvFirst,
         RecvMore, ReadTimesOut, AssemblyTimesOut, NativeSend, NativeSendFails,
         NativeRecv, NativeRecvFails, EcuHearsRequest, EcuHearsConsecutive,
         EcuHearsFlow, EcuResumes, EcuAnswers, EcuSendsConsecutive, ForeignFrame,
         LoseFrame, Finished, vars, luck
<1>2. /\ native /\ pc \in {"send", "first", "done"} /\ ecu.pc \in {"idle", "answer"}
      /\ \A i \in 1..Len(bus) : bus[i].pci = "SF"
      /\ \A i \in 1..Len(wire) : Matches(wire[i]) => wire[i].pci = "SF"
      /\ rx_buf_ = << >>
  BY <1>1 DEF NativeOnly, IType, LinkType
<1>3. \A f : ~Take(f)
  BY <1>2, TakeFacts
<1>4. bus \in Seq(Outbound) /\ wire \in Seq(Inbound)
  BY DEF IType, LinkType
<1>5. CASE NativeSend
  <2>. PICK f : f = Part(req, 1, 1)
    OBVIOUS
  <2>1. req \in Requests /\ 1 \in Nat \ {0} /\ 1 \in 1..MaxLength
    BY <1>5, LengthIs DEF IType, TesterType, NativeSend, Requests
  <2>2. f \in Outbound /\ f.pci = "SF"
    BY <2>1, PartTyped DEF Part
  <2>3. bus' = Append(bus, f) /\ pc' = "first" /\ UNCHANGED <<wire, ecu>>
    BY <1>5 DEF NativeSend
  <2>4. \A i \in 1..Len(bus') : bus'[i].pci = "SF"
    <3>1. /\ Len(bus') = Len(bus) + 1 /\ bus'[Len(bus) + 1] = f /\ Len(bus) \in Nat
          /\ \A i \in 1..Len(bus) : bus'[i] = bus[i]
      BY <1>4, <2>2, <2>3, AppendFacts
    <3>2. \A i \in 1..Len(bus') : i \in 1..Len(bus) \/ i = Len(bus) + 1
      BY <3>1
    <3>. QED  BY <1>2, <2>2, <3>1, <3>2
  <2>. QED  BY <1>2, <2>3, <2>4 DEF NativeOnly
<1>6. CASE NativeSendFails \/ NativeRecvFails
  <2>1. pc' \in {"send", "done"} /\ UNCHANGED <<bus, wire, ecu>>
    BY <1>6 DEF NativeSendFails, NativeRecvFails, Fail, Return
  <2>. QED  BY <1>2, <2>1 DEF NativeOnly
<1>7. CASE NativeRecv
  <2>1. PICK j \in 1..Len(wire) : Return(TRUE, <<wire[j]>>) /\ Drops(wire, j, wire')
    BY <1>7, NativeRecvFacts
  <2>2. pc' \in {"send", "done"} /\ UNCHANGED <<bus, ecu>>
    BY <1>7, <2>1 DEF NativeRecv, Return
  <2>3. \A i \in 1..Len(wire') : i + j \in 1..Len(wire) /\ wire'[i] = wire[i + j]
    BY <1>4, <2>1 DEF Drops
  <2>4. \A i \in 1..Len(wire') : Matches(wire'[i]) => wire'[i].pci = "SF"
    BY <1>2, <2>3
  <2>. QED  BY <1>2, <2>2, <2>4 DEF NativeOnly
<1>8. CASE EcuHearsRequest
  <2>1. bus # << >> /\ Len(bus) > 0 /\ Head(bus) = bus[1] /\ Head(bus).pci = "SF"
        /\ \A i \in 1..Len(Tail(bus)) : i + 1 \in 1..Len(bus) /\ Tail(bus)[i] = bus[i + 1]
    <3>1. bus # << >>
      BY <1>8 DEF EcuHearsRequest
    <3>2. /\ Len(bus) > 0 /\ Head(bus) = bus[1] /\ Len(Tail(bus)) = Len(bus) - 1
          /\ \A i \in 1..Len(Tail(bus)) : Tail(bus)[i] = bus[i + 1]
      BY <3>1, HeadFacts
    <3>. QED  BY <1>2, <1>4, <3>1, <3>2
  <2>2. ecu'.pc = "answer" /\ wire' = wire /\ bus' = Tail(bus) /\ pc' = pc
    BY <1>8, <2>1 DEF EcuHearsRequest, tester
  <2>. QED  BY <1>2, <2>1, <2>2 DEF NativeOnly
<1>9. CASE EcuHearsConsecutive \/ EcuHearsFlow
  <2>1. bus # << >> /\ Head(bus).pci # "SF"
    BY <1>9 DEF EcuHearsConsecutive, EcuHearsFlow
  <2>2. Len(bus) \in Nat
    BY <1>4
  <2>. QED  BY <1>2, <2>1, <2>2, HeadFacts
<1>10. CASE EcuAnswers
  <2>. PICK f : f = Part(ecu.msg, 1, 1)
    OBVIOUS
  <2>1. ecu.msg \in Requests /\ 1 \in Nat \ {0} /\ 1 \in 1..MaxLength
    BY <1>10, LengthIs DEF IType, EcuType, EcuAnswers
  <2>2. f \in Inbound /\ f.pci = "SF"
    BY <2>1, PartTyped DEF Part
  <2>3. wire' = Append(wire, f) /\ ecu'.pc = "idle" /\ UNCHANGED <<pc, bus>>
    BY <1>2, <1>10 DEF EcuAnswers, RspFrames, tester, IType, EcuType
  <2>4. \A i \in 1..Len(wire') : Matches(wire'[i]) => wire'[i].pci = "SF"
    BY <1>2, <1>4, <2>2, <2>3, AppendSingle
  <2>. QED  BY <1>2, <2>3, <2>4 DEF NativeOnly
<1>11. CASE ForeignFrame
  <2>. PICK f : f = [Part(0, 1, 1) EXCEPT !.id = "other"]
    OBVIOUS
  <2>1. f \in Inbound /\ ~Matches(f) /\ wire' = Append(wire, f)
    BY <1>11, ForeignTyped DEF ForeignFrame
  <2>2. \A i \in 1..Len(wire') : Matches(wire'[i]) => wire'[i].pci = "SF"
    BY <1>2, <1>4, <2>1, AppendSingle
  <2>. QED  BY <1>2, <1>11, <2>2 DEF NativeOnly, ForeignFrame, tester
<1>12. CASE LoseFrame
  <2>1. UNCHANGED <<pc, ecu>>
    BY <1>12 DEF LoseFrame, tester
  <2>2. CASE bus # << >> /\ bus' = Tail(bus) /\ wire' = wire
    <3>1. \A i \in 1..Len(bus') : i + 1 \in 1..Len(bus) /\ bus'[i] = bus[i + 1]
      BY <1>4, <2>2, TailFacts
    <3>. QED  BY <1>2, <2>1, <2>2, <3>1 DEF NativeOnly
  <2>3. CASE wire # << >> /\ wire' = Tail(wire) /\ bus' = bus
    <3>1. \A i \in 1..Len(wire') : i + 1 \in 1..Len(wire) /\ wire'[i] = wire[i + 1]
      BY <1>4, <2>3, TailFacts
    <3>. QED  BY <1>2, <2>1, <2>3, <3>1 DEF NativeOnly
  <2>. QED  BY <1>12, <2>2, <2>3 DEF LoseFrame
<1>13. CASE UNCHANGED vars
  BY <1>2, <1>13 DEF NativeOnly, vars, tester
<1>14. ~Fetch /\ ~SendFirst /\ ~SendGetsFlow /\ ~SendConsecutive /\ ~RecvFirst
       /\ ~RecvMore /\ ~ReadTimesOut /\ ~AssemblyTimesOut
  BY <1>2, <1>3 DEF Fetch, SendFirst, SendGetsFlow, SendConsecutive, RecvFirst,
                    RecvMore, ReadTimesOut, AssemblyTimesOut
<1>15. ~EcuResumes /\ ~EcuSendsConsecutive
  BY <1>2 DEF EcuResumes, EcuSendsConsecutive
<1>. QED  BY <1>5, <1>6, <1>7, <1>8, <1>9, <1>10, <1>11, <1>12, <1>13, <1>14, <1>15
         DEF Next, Tester, Ecu, Finished

-----------------------------------------------------------------------------
(* The order of the responses, continued: the other steps.                  *)

LEMMA BusFacts ==
  ASSUME IType
  PROVE  /\ bus \in Seq(Outbound) /\ req \in Nat /\ ecu.msg \in Nat /\ Len(bus) \in Nat
         /\ \A i \in 1..Len(bus) : bus[i].msg \in Nat
<1>1. bus \in Seq(Outbound) /\ req \in Nat /\ ecu.msg \in Nat /\ Len(bus) \in Nat
  BY Sizes DEF IType, LinkType, TesterType, EcuType, Requests
<1>2. \A f \in Outbound : f.msg \in Nat
  BY Sizes DEF Outbound, SessionFrame, Requests
<1>. QED  BY <1>1, <1>2, ElementOfSeq

\* A request goes out.
LEMMA SendFirstOrdered ==
  ASSUME IType, Ordered, SendFirst \/ NativeSend
  PROVE  Ordered' /\ Outcome
<1>1. PICK f \in Outbound : f.msg = req /\ bus' = Append(bus, f)
  <2>1. /\ req \in Requests /\ ReqSize[req] \in 1..MaxLength
        /\ 1 \in Nat \ {0} /\ 1 \in 1..MaxLength
    BY Sizes, LengthIs DEF IType, TesterType, SendFirst, NativeSend, Requests
  <2>2. /\ Part(req, 1, ReqSize[req]) \in Outbound /\ Part(req, 1, 1) \in Outbound
        /\ \A n : Part(req, 1, n).msg = req
    BY <2>1, PartTyped DEF Part
  <2>. QED  BY <2>2 DEF SendFirst, NativeSend
<1>2. /\ pc = "send" /\ pc' \in {"first", "fc"}
      /\ UNCHANGED <<req, out, answers, rx_buf_, wire, ecu>>
  BY DEF SendFirst, NativeSend
<1>3. Used' = Used
  BY <1>2 DEF Used, Sources
<1>4. FlightOrder' /\ UsedFirst' /\ OutNext'
  BY <1>2, <1>3, FlightSame, ThinFlight, ThinUsed, ThinOut DEF Ordered
<1>5. /\ Len(bus') = Len(bus) + 1 /\ bus'[Len(bus) + 1] = f
      /\ \A i \in 1..Len(bus) : bus'[i] = bus[i]
  BY <1>1, BusFacts, AppendFacts
<1>6. \A i \in 1..Len(bus') : i \in 1..Len(bus) \/ i = Len(bus) + 1
  BY <1>5, BusFacts
<1>7. /\ ecu.msg < req
      /\ \A i \in 1..Len(bus) : IsStart(bus[i]) => ecu.msg < bus[i].msg /\ bus[i].msg < req
      /\ \A i, j \in 1..Len(bus) :
           i < j /\ IsStart(bus[i]) /\ IsStart(bus[j]) => bus[i].msg < bus[j].msg
  BY <1>2 DEF Ordered, RequestsLast
<1>8. /\ \A i \in 1..Len(bus') : IsStart(bus'[i]) =>
           ecu.msg < bus'[i].msg /\ bus'[i].msg <= req
  BY <1>1, <1>5, <1>6, <1>7, BusFacts
<1>9. ASSUME NEW i \in 1..Len(bus'), NEW j \in 1..Len(bus'), i < j,
             IsStart(bus'[i]), IsStart(bus'[j])
      PROVE  bus'[i].msg < bus'[j].msg
  <2>1. i \in 1..Len(bus)
    BY <1>5, <1>9, BusFacts
  <2>2. CASE j \in 1..Len(bus)
    BY <1>5, <1>7, <1>9, <2>1, <2>2
  <2>3. CASE j = Len(bus) + 1
    BY <1>1, <1>5, <1>7, <1>9, <2>1, <2>3
  <2>. QED  BY <1>6, <2>2, <2>3
<1>10. RequestsLast'
  <2>1. ecu.msg <= req
    BY <1>7, BusFacts
  <2>. QED  BY <1>2, <1>8, <1>9, <2>1 DEF RequestsLast, IsStart, Matches
<1>. QED  BY <1>2, <1>4, <1>10 DEF Ordered, Outcome

\* The bus is read, and the ECU goes on, or turns to the request it has heard.
LEMMA RequestsHeard ==
  ASSUME IType, RequestsLast, UNCHANGED <<req, pc>>,
         \/ bus' = bus /\ ecu'.msg = ecu.msg
         \/ bus # << >> /\ bus' = Tail(bus) /\ ecu'.msg = ecu.msg
         \/ bus # << >> /\ bus' = Tail(bus) /\ IsStart(Head(bus)) /\ ecu'.msg = Head(bus).msg
  PROVE  RequestsLast'
<1>1. CASE bus' = bus /\ ecu'.msg = ecu.msg
  BY <1>1 DEF RequestsLast, IsStart, Matches
<1>2. CASE bus # << >> /\ bus' = Tail(bus)
  <2>1. /\ Len(bus') = Len(bus) - 1 /\ Head(bus) = bus[1] /\ 1 \in 1..Len(bus)
        /\ \A i \in 1..Len(bus') : bus'[i] = bus[i + 1] /\ i + 1 \in 1..Len(bus)
    <3>1. /\ Head(bus) = bus[1] /\ Len(bus) > 0 /\ Len(bus') = Len(bus) - 1
          /\ \A i \in 1..Len(bus') : bus'[i] = bus[i + 1]
      BY <1>2, HeadFacts
    <3>. QED  BY <3>1, BusFacts
  <2>2. /\ \A i, j \in 1..Len(bus) :
             i < j /\ IsStart(bus[i]) /\ IsStart(bus[j]) => bus[i].msg < bus[j].msg
        /\ \A i \in 1..Len(bus) : IsStart(bus[i]) =>
             /\ ecu.msg < bus[i].msg /\ bus[i].msg <= req
             /\ pc = "send" => bus[i].msg < req
        /\ ecu.msg <= req /\ (pc = "send" => ecu.msg < req)
    BY DEF RequestsLast
  <2>3. ecu'.msg = ecu.msg \/ (IsStart(bus[1]) /\ ecu'.msg = bus[1].msg)
    BY <1>2, <2>1
  <2>4. ecu'.msg <= req /\ (pc = "send" => ecu'.msg < req)
    BY <2>1, <2>2, <2>3
  <2>5. ASSUME NEW i \in 1..Len(bus'), IsStart(bus'[i])
        PROVE  /\ ecu'.msg < bus'[i].msg /\ bus'[i].msg <= req
               /\ pc = "send" => bus'[i].msg < req
    <3>1. 1 < i + 1 /\ i + 1 \in 1..Len(bus) /\ bus'[i] = bus[i + 1]
      BY <2>1
    <3>. QED  BY <2>1, <2>2, <2>3, <2>5, <3>1
  <2>6. \A i, j \in 1..Len(bus') :
             i < j /\ IsStart(bus'[i]) /\ IsStart(bus'[j]) => bus'[i].msg < bus'[j].msg
    <3>. TAKE i, j \in 1..Len(bus')
    <3>1. /\ i + 1 \in 1..Len(bus) /\ bus'[i] = bus[i + 1]
          /\ j + 1 \in 1..Len(bus) /\ bus'[j] = bus[j + 1]
          /\ i < j => i + 1 < j + 1
      BY <2>1
    <3>. QED  BY <2>2, <3>1
  <2>. QED  BY <2>4, <2>5, <2>6 DEF RequestsLast, IsStart, Matches
<1>. QED  BY <1>1, <1>2

\* The ECU goes on, and writes a frame or none.
LEMMA EcuOrdered ==
  ASSUME IType, Ordered, UNCHANGED <<tester, rx_buf_>>,
         \A n \in Nat : Begun(n) => Begun(n)',
         \/ UNCHANGED wire
         \/ \E f \in Inbound :
              /\ wire' = Append(wire, f)
              /\ IsPart(f) => /\ Begun(f.msg)'
                              /\ \A n \in Nat : Begun(n) => n <= f.msg
                              /\ IsStart(f) => \A n \in Nat : Begun(n) => n < f.msg
  PROVE  FlightOrder' /\ UsedFirst' /\ OutNext'
<1>. PICK F : F = Flight'
  OBVIOUS
<1>0. Requests \subseteq Nat
  BY Sizes DEF Requests
<1>1. Used' = Used /\ UNCHANGED <<pc, out>>
  BY DEF Used, Sources, tester
<1>2. /\ \A i, j \in 1..Len(Flight) : i < j => Precedes(Flight[i], Flight[j])
      /\ \A i \in 1..Len(Flight) : IsPart(Flight[i]) => Begun(Flight[i].msg)
      /\ \A u \in Used :
           /\ u \in Requests /\ Begun(u)
           /\ \A i \in 1..Len(Flight) : IsStart(Flight[i]) => u < Flight[i].msg
      /\ \A i \in 1..Len(Flight) : Flight[i].msg \in Nat
      /\ Len(Flight) \in Nat
  BY FlightFacts DEF Ordered, FlightOrder, UsedFirst
<1>3. CASE UNCHANGED wire
  <2>1. F = Flight
    BY <1>3 DEF Flight
  <2>2. \A i \in 1..Len(F) : IsPart(F[i]) => Begun(F[i].msg)'
    BY <1>2, <2>1
  <2>3. FlightOrder'
    BY <1>2, <2>1, <2>2 DEF FlightOrder, Precedes, IsPart, IsStart, Matches
  <2>4. \A u \in Used : u \in Requests /\ Begun(u)'
    BY <1>0, <1>2
  <2>5. UsedFirst'
    BY <1>1, <1>2, <2>1, <2>4 DEF UsedFirst, IsStart, Matches
  <2>6. OutNext'
    <3>. SUFFICES ASSUME pc = "more" PROVE OutNext'
      BY <1>1 DEF OutNext
    <3>1. Begun(out[1].msg)'
      BY <1>0, <1>1 DEF Ordered, OutNext
    <3>. QED  BY <1>1, <2>1, <3>1
              DEF Ordered, OutNext, Precedes, IsPart, IsStart, Matches
  <2>. QED  BY <2>3, <2>5, <2>6
<1>4. CASE \E f \in Inbound :
              /\ wire' = Append(wire, f)
              /\ IsPart(f) => /\ Begun(f.msg)'
                              /\ \A n \in Nat : Begun(n) => n <= f.msg
                              /\ IsStart(f) => \A n \in Nat : Begun(n) => n < f.msg
  <2>1. PICK f \in Inbound :
              /\ wire' = Append(wire, f)
              /\ IsPart(f) => /\ Begun(f.msg)'
                              /\ \A n \in Nat : Begun(n) => n <= f.msg
                              /\ IsStart(f) => \A n \in Nat : Begun(n) => n < f.msg
    BY <1>4
  <2>2. F = Append(Flight, f)
    BY <2>1, FlightAppend
  <2>3. /\ Len(F) = Len(Flight) + 1 /\ F[Len(Flight) + 1] = f
        /\ \A i \in 1..Len(Flight) : F[i] = Flight[i]
    BY <2>2, FlightFacts, AppendFacts
  <2>4. \A i \in 1..Len(F) : i \in 1..Len(Flight) \/ i = Len(Flight) + 1
    BY <1>2, <2>3
  <2>5. ASSUME NEW i \in 1..Len(F), NEW j \in 1..Len(F), i < j PROVE Precedes(F[i], F[j])
    <3>1. i \in 1..Len(Flight)
      BY <1>2, <2>3, <2>5
    <3>2. CASE j \in 1..Len(Flight)
      BY <1>2, <2>3, <2>5, <3>1, <3>2
    <3>3. CASE j = Len(Flight) + 1
      <4>1. IsPart(F[i]) /\ IsPart(f) => F[i].msg <= f.msg /\ (IsStart(f) => F[i].msg < f.msg)
        BY <1>2, <2>1, <2>3, <3>1
      <4>. QED  BY <2>3, <3>3, <4>1 DEF Precedes
    <3>. QED  BY <2>4, <3>2, <3>3
  <2>6. ASSUME NEW i \in 1..Len(F), IsPart(F[i]) PROVE Begun(F[i].msg)'
    <3>1. CASE i \in 1..Len(Flight)
      BY <1>2, <2>3, <2>6, <3>1
    <3>2. CASE i = Len(Flight) + 1
      BY <2>1, <2>3, <2>6, <3>2
    <3>. QED  BY <2>4, <3>1, <3>2
  <2>7. FlightOrder'
    BY <2>5, <2>6 DEF FlightOrder, Precedes, IsPart, IsStart, Matches
  <2>8. ASSUME NEW u \in Used
        PROVE  /\ u \in Requests /\ Begun(u)'
               /\ \A i \in 1..Len(F) : IsStart(F[i]) => u < F[i].msg
    <3>1. u \in Requests /\ Begun(u) /\ u \in Nat
      BY <1>0, <1>2
    <3>2. IsStart(f) => u < f.msg
      BY <2>1, <3>1 DEF IsStart, IsPart
    <3>3. \A i \in 1..Len(F) : IsStart(F[i]) => u < F[i].msg
      BY <1>2, <2>3, <2>4, <3>2
    <3>. QED  BY <3>1, <3>3
  <2>9. UsedFirst'
    BY <1>1, <2>8 DEF UsedFirst, IsStart, Matches
  <2>10. OutNext'
    <3>. SUFFICES ASSUME pc = "more" PROVE OutNext'
      BY <1>1 DEF OutNext
    <3>1. /\ IsPart(out[1]) /\ Begun(out[1].msg) /\ out[1].msg \in Nat
          /\ \A i \in 1..Len(Flight) : Precedes(out[1], Flight[i])
      BY <1>0 DEF Ordered, OutNext
    <3>2. Begun(out[1].msg)'
      BY <1>1, <3>1
    <3>3. Precedes(out[1], f)
      BY <2>1, <3>1 DEF Precedes
    <3>4. \A i \in 1..Len(F) : Precedes(out[1], F[i])
      BY <2>3, <2>4, <3>1, <3>3
    <3>. QED  BY <1>1, <3>2, <3>4
              DEF Ordered, OutNext, Precedes, IsPart, IsStart, Matches
  <2>. QED  BY <2>7, <2>9, <2>10
<1>. QED  BY <1>3, <1>4

LEMMA EcuHearsRequestOrdered ==
  ASSUME IType, Ordered, EcuHearsRequest
  PROVE  Ordered'
<1>. DEFINE f == Head(bus)
<1>1. /\ bus # << >> /\ f.pci \in {"SF", "FF"} /\ f \in Outbound /\ f = bus[1]
      /\ 1 \in 1..Len(bus) /\ UNCHANGED <<tester, rx_buf_>> /\ bus' = Tail(bus)
  <2>1. bus # << >> /\ UNCHANGED <<tester, rx_buf_>> /\ bus' = Tail(bus)
        /\ f.pci \in {"SF", "FF"}
    BY DEF EcuHearsRequest
  <2>. QED  BY <2>1, HeadFacts, BusFacts
<1>2. f.msg \in Requests
  BY <1>1 DEF Outbound
<1>3. ecu'.msg = f.msg
      /\ (UNCHANGED wire \/ \E g \in Inbound : wire' = Append(wire, g) /\ ~IsPart(g))
  <2>. HIDE DEF f
  <2>1. CASE /\ f.pci = "SF"
             /\ ecu' = [pc |-> "answer", msg |-> f.msg, k |-> 0, block |-> 0, credit |-> 0]
             /\ UNCHANGED <<wire, held>>
    <3>1. ecu'.msg = f.msg /\ UNCHANGED wire
      BY <2>1
    <3>. QED  BY <3>1
  <2>2. CASE /\ f.pci = "FF"
           /\ \E fc \in EcuFlows :
               /\ held' = IF fc = LetsAllThrough THEN held ELSE held + 1
               /\ held' <= MaxHeld
               /\ wire' = Append(wire, Flow(f.msg, fc.status, fc.block))
               /\ ecu' = [pc |-> EcuThen[fc.status], msg |-> f.msg, k |-> 1,
                          block |-> fc.block, credit |-> fc.block]
    <3>1. PICK fc \in EcuFlows :
               /\ wire' = Append(wire, Flow(f.msg, fc.status, fc.block))
               /\ ecu' = [pc |-> EcuThen[fc.status], msg |-> f.msg, k |-> 1,
                          block |-> fc.block, credit |-> fc.block]
      BY <2>2
    <3>2. Flow(f.msg, fc.status, fc.block) \in Inbound
          /\ ~IsPart(Flow(f.msg, fc.status, fc.block))
      BY <1>2, FlowFacts, FlowTyped, NoStart
    <3>. QED  BY <3>1, <3>2
  <2>. QED  BY <2>1, <2>2 DEF EcuHearsRequest, f
<1>4. IsStart(f)
  BY <1>1 DEF IsStart, Outbound
<1>5. RequestsLast'
  BY <1>1, <1>3, <1>4, RequestsHeard DEF Ordered, tester
<1>6. ecu.msg < ecu'.msg /\ ecu.msg \in Nat /\ ecu'.msg \in Nat
  BY <1>1, <1>3, <1>4, BusFacts DEF Ordered, RequestsLast
<1>7. \A n \in Nat : Begun(n) => Begun(n)'
  BY <1>6 DEF Begun
<1>. QED  BY <1>1, <1>3, <1>5, <1>7, EcuOrdered DEF Ordered

LEMMA EcuHearsConsecutiveOrdered ==
  ASSUME IType, Ordered, EcuHearsConsecutive
  PROVE  Ordered'
<1>1. /\ bus # << >> /\ bus' = Tail(bus) /\ UNCHANGED <<tester, rx_buf_>>
      /\ IF ecu.pc # "recv" \/ Head(bus).low # ecu.k % SnMod
         THEN UNCHANGED <<ecu, wire>>
         ELSE LET k == ecu.k + 1
                  done == k = Head(bus).n
                  blockEnds == ecu.credit = 1
              IN /\ ecu' = [ecu EXCEPT !.pc = IF done THEN "answer" ELSE "recv",
                                       !.k = k,
                                       !.credit = IF blockEnds THEN ecu.block
                                                  ELSE IF @ > 0 THEN @ - 1 ELSE 0]
                 /\ wire' = IF blockEnds /\ ~done
                            THEN Append(wire, Flow(ecu.msg, Cts, ecu.block)) ELSE wire
  BY DEF EcuHearsConsecutive
<1>2. CASE UNCHANGED <<ecu, wire>>
  BY <1>1, <1>2, EcuOrdered, BegunSame, RequestsHeard DEF Ordered, tester
<1>3. CASE ~UNCHANGED <<ecu, wire>>
  <2>1. /\ ecu.pc = "recv" /\ ecu'.pc \in {"answer", "recv"} /\ ecu'.msg = ecu.msg
        /\ wire' \in {wire, Append(wire, Flow(ecu.msg, Cts, ecu.block))}
    BY <1>1, <1>3 DEF IType, EcuType
  <2>2. Flow(ecu.msg, Cts, ecu.block) \in Inbound /\ ~IsPart(Flow(ecu.msg, Cts, ecu.block))
    <3>1. ecu.msg \in Requests /\ ecu.block \in Nat /\ Cts \in {Cts, Wait, Overflow}
      BY <2>1 DEF IType, EcuType
    <3>. QED  BY <3>1, FlowTyped, NoStart
  <2>3. \A n \in Nat : Begun(n) => Begun(n)'
    BY <2>1 DEF Begun
  <2>4. FlightOrder' /\ UsedFirst' /\ OutNext'
    BY <1>1, <2>1, <2>2, <2>3, EcuOrdered
  <2>. QED  BY <1>1, <2>1, <2>4, RequestsHeard DEF Ordered, tester
<1>. QED  BY <1>2, <1>3

LEMMA EcuHearsFlowOrdered ==
  ASSUME IType, Ordered, EcuHearsFlow
  PROVE  Ordered'
<1>1. /\ bus # << >> /\ bus' = Tail(bus) /\ UNCHANGED <<tester, rx_buf_, wire>>
      /\ ecu'.msg = ecu.msg /\ (ecu'.pc = ecu.pc \/ ecu'.pc = "burst")
  BY DEF EcuHearsFlow, IType, EcuType
<1>2. \A n \in Nat : Begun(n) => Begun(n)'
  BY <1>1 DEF Begun
<1>. QED  BY <1>1, <1>2, EcuOrdered, RequestsHeard DEF Ordered, tester

LEMMA EcuResumesOrdered ==
  ASSUME IType, Ordered, EcuResumes
  PROVE  Ordered'
<1>1. /\ UNCHANGED <<tester, rx_buf_, bus>> /\ ecu.pc = "hold"
      /\ ecu'.msg = ecu.msg /\ ecu'.pc = "recv"
      /\ wire' = Append(wire, Flow(ecu.msg, Cts, ecu.block))
  BY DEF EcuResumes, IType, EcuType
<1>2. Flow(ecu.msg, Cts, ecu.block) \in Inbound /\ ~IsPart(Flow(ecu.msg, Cts, ecu.block))
  <2>1. ecu.msg \in Requests /\ ecu.block \in Nat /\ Cts \in {Cts, Wait, Overflow}
    BY <1>1 DEF IType, EcuType
  <2>. QED  BY <2>1, FlowTyped, NoStart
<1>3. \A n \in Nat : Begun(n) => Begun(n)'
  BY <1>1 DEF Begun
<1>. QED  BY <1>1, <1>2, <1>3, EcuOrdered, RequestsHeard DEF Ordered, tester

\* The ECU writes a frame of the response it is at.
LEMMA EcuWritesOrdered ==
  ASSUME IType, Ordered, UNCHANGED <<tester, rx_buf_, bus>>, ecu'.msg = ecu.msg,
         ecu'.pc \notin {"hold", "recv", "answer"},
         NEW f \in Inbound, f.msg = ecu.msg, wire' = Append(wire, f),
         IsStart(f) => ecu.pc = "answer"
  PROVE  Ordered'
<1>1. ecu.msg \in Nat
  BY BusFacts
<1>2. \A n \in Nat : Begun(n) => Begun(n)'
  BY DEF Begun
<1>3. Begun(f.msg)'
  BY <1>1 DEF Begun
<1>4. \A n \in Nat : Begun(n) => n <= f.msg /\ (IsStart(f) => n < f.msg)
  BY DEF Begun
<1>. QED  BY <1>2, <1>3, <1>4, EcuOrdered, RequestsHeard DEF Ordered, tester

LEMMA EcuAnswersOrdered ==
  ASSUME IType, Ordered, EcuAnswers
  PROVE  Ordered'
<1>1. ecu.pc = "answer" /\ ecu.msg \in Requests
  BY DEF IType, EcuType, EcuAnswers
<1>. PICK n : n = RspFrames(ecu.msg)
  OBVIOUS
<1>. PICK f : f = Part(ecu.msg, 1, n)
  OBVIOUS
<1>2. f \in Inbound /\ f.msg = ecu.msg
  <2>1. 1 \in Nat \ {0} /\ n \in 1..MaxLength
    BY <1>1, RspFramesTyped
  <2>2. f \in Inbound
    BY <1>1, <2>1, PartTyped
  <2>. QED  BY <2>2 DEF Part
<1>3. /\ UNCHANGED <<tester, rx_buf_, bus>> /\ wire' = Append(wire, f)
      /\ ecu' = [ecu EXCEPT !.pc = IF n = 1 THEN "idle" ELSE "wait_fc", !.k = 1]
  BY DEF EcuAnswers
<1>4. ecu'.msg = ecu.msg /\ ecu'.pc \in {"idle", "wait_fc"}
  BY <1>3 DEF IType, EcuType
<1>. QED  BY <1>1, <1>2, <1>3, <1>4, EcuWritesOrdered

LEMMA EcuSendsConsecutiveOrdered ==
  ASSUME IType, Ordered, EcuSendsConsecutive
  PROVE  Ordered'
<1>. PICK k, n : k = ecu.k + 1 /\ n = RspSize[ecu.msg]
  OBVIOUS
<1>. PICK f : f = Part(ecu.msg, k, n)
  OBVIOUS
<1>1. /\ ecu.msg \in Requests /\ n \in 1..MaxLength /\ n > 1 /\ k \in Nat \ {0, 1}
  <2>1. ecu.msg \in Requests /\ RspFrames(ecu.msg) > 1 /\ ecu.k > 0 /\ ecu.k \in Nat
    BY DEF IType, EcuType, EcuSendsConsecutive
  <2>. QED  BY <2>1, Sizes DEF RspFrames
<1>2. f \in Inbound /\ f.msg = ecu.msg /\ ~IsStart(f)
  <2>1. f \in Inbound
    BY <1>1, PartTyped
  <2>2. ~IsStart(f)
    BY <1>1, NoStart
  <2>. QED  BY <2>1, <2>2 DEF Part
<1>3. /\ UNCHANGED <<tester, rx_buf_, bus>> /\ wire' = Append(wire, f)
      /\ ecu' = [ecu EXCEPT !.k = k,
                            !.pc = IF k = n THEN "idle"
                                   ELSE IF ecu.credit = 1 THEN "wait_fc" ELSE "burst",
                            !.credit = IF @ > 0 THEN @ - 1 ELSE 0]
  BY DEF EcuSendsConsecutive
<1>4. ecu'.msg = ecu.msg /\ ecu'.pc \in {"idle", "wait_fc", "burst"}
  BY <1>3 DEF IType, EcuType
<1>. QED  BY <1>2, <1>3, <1>4, EcuWritesOrdered

LEMMA ForeignFrameOrdered ==
  ASSUME IType, Ordered, ForeignFrame
  PROVE  Ordered'
<1>. PICK f : f = [Part(0, 1, 1) EXCEPT !.id = "other"]
  OBVIOUS
<1>1. f \in Inbound /\ ~IsPart(f) /\ wire' = Append(wire, f)
  BY ForeignTyped DEF ForeignFrame, IsPart
<1>2. UNCHANGED <<tester, rx_buf_, bus, ecu>>
  BY DEF ForeignFrame
<1>3. \A n \in Nat : Begun(n) => Begun(n)'
  BY <1>2 DEF Begun
<1>. QED  BY <1>1, <1>2, <1>3, EcuOrdered, RequestsHeard DEF Ordered, tester

LEMMA LoseFrameOrdered ==
  ASSUME IType, IType', Ordered, LoseFrame
  PROVE  Ordered'
<1>1. UNCHANGED <<tester, rx_buf_, ecu>>
  BY DEF LoseFrame
<1>2. CASE bus # << >> /\ bus' = Tail(bus) /\ wire' = wire
  <2>1. \A n \in Nat : Begun(n) => Begun(n)'
    BY <1>1 DEF Begun
  <2>. QED  BY <1>1, <1>2, <2>1, EcuOrdered, RequestsHeard DEF Ordered, tester
<1>3. CASE wire # << >> /\ wire' = Tail(wire) /\ bus' = bus
  <2>1. Thins(Flight', Flight)
    BY <1>1, <1>3, LossThins
  <2>. QED  BY <1>1, <1>3, <2>1, MoveOrdered DEF tester
<1>. QED  BY <1>2, <1>3 DEF LoseFrame

LEMMA TimeoutOrdered ==
  ASSUME IType, IType', Ordered,
         ReadTimesOut \/ AssemblyTimesOut \/ NativeSendFails \/ NativeRecvFails
  PROVE  Ordered' /\ Outcome
<1>1. Thins(Flight', Flight)
  <2>1. CASE ReadTimesOut
    BY <2>1, BufferLost, FlightFacts, DropsThin DEF ReadTimesOut
  <2>2. CASE AssemblyTimesOut \/ NativeSendFails \/ NativeRecvFails
    BY <2>2, FlightSame DEF AssemblyTimesOut, NativeSendFails, NativeRecvFails
  <2>. QED  BY <2>1, <2>2
<1>2. pc # "done" /\ Fail /\ UNCHANGED <<ecu, bus>>
  BY DEF ReadTimesOut, AssemblyTimesOut, NativeSendFails, NativeRecvFails
<1>. QED  BY <1>1, <1>2, FailOrdered DEF Outcome

LEMMA NativeRecvOrdered ==
  ASSUME IType, IType', NativeOnly, Ordered, NativeRecv
  PROVE  Ordered' /\ Outcome
<1>1. PICK f \in Inbound : Got(f) /\ Return(TRUE, <<f>>)
  BY NativeGets
<1>2. IsStart(f)
  <2>1. PICK d \in 1..Len(Flight) : f = Flight[d] /\ Matches(f)
    BY <1>1 DEF Got
  <2>2. Flight = wire
    BY NativeRecvFacts, ConcatEmptySeq DEF Flight, IType, LinkType
  <2>. QED  BY <2>1, <2>2 DEF NativeOnly, NativeRecv, IsStart
<1>3. pc # "done" /\ UNCHANGED <<ecu, bus>>
  BY DEF NativeRecv
<1>. QED  BY <1>1, <1>2, <1>3, SingleOrdered

LEMMA StepOrdered ==
  ASSUME IType, IType', NativeOnly, Ordered, [Next]_vars
  PROVE  Ordered' /\ Outcome
<1>1. CASE Fetch \/ SendGetsFlow \/ SendConsecutive
  BY <1>1, FetchOrdered, SendGetsFlowOrdered, SendConsecutiveOrdered
<1>2. CASE SendFirst \/ NativeSend
  BY <1>2, SendFirstOrdered
<1>3. CASE RecvFirst \/ RecvMore
  BY <1>3, RecvFirstOrdered, RecvMoreOrdered
<1>4. CASE ReadTimesOut \/ AssemblyTimesOut \/ NativeSendFails \/ NativeRecvFails
  BY <1>4, TimeoutOrdered
<1>5. CASE NativeRecv
  BY <1>5, NativeRecvOrdered
<1>6. CASE EcuHearsRequest \/ EcuHearsConsecutive \/ EcuHearsFlow
  <2>1. Ordered'
    BY <1>6, EcuHearsRequestOrdered, EcuHearsConsecutiveOrdered, EcuHearsFlowOrdered
  <2>2. UNCHANGED answers
    BY <1>6 DEF EcuHearsRequest, EcuHearsConsecutive, EcuHearsFlow, tester
  <2>. QED  BY <2>1, <2>2 DEF Outcome
<1>7. CASE EcuResumes \/ EcuAnswers \/ EcuSendsConsecutive
  <2>1. Ordered'
    BY <1>7, EcuResumesOrdered, EcuAnswersOrdered, EcuSendsConsecutiveOrdered
  <2>2. UNCHANGED answers
    BY <1>7 DEF EcuResumes, EcuAnswers, EcuSendsConsecutive, tester
  <2>. QED  BY <2>1, <2>2 DEF Outcome
<1>8. CASE ForeignFrame \/ LoseFrame
  <2>1. Ordered' /\ UNCHANGED answers
    BY <1>8, ForeignFrameOrdered, LoseFrameOrdered DEF ForeignFrame, LoseFrame, tester
  <2>. QED  BY <2>1 DEF Outcome
<1>9. CASE UNCHANGED vars
  <2>1. Thins(Flight', Flight)
    BY <1>9, FlightSame DEF vars
  <2>. QED  BY <1>9, <2>1, MoveOrdered DEF vars, tester, Outcome
<1>. QED  BY <1>1, <1>2, <1>3, <1>4, <1>5, <1>6, <1>7, <1>8, <1>9
         DEF Next, Tester, Ecu, Finished

-----------------------------------------------------------------------------
(* The abstract state of AnswerOrder.                                       *)

\* The requests that have failed.
Failed == Failures(Len(answers) + 1)

LEMMA FailedFinite ==
  ASSUME TesterType
  PROVE  IsFiniteSet(Failed) /\ Cardinality(Failed) \in Nat
<1>1. Failed \subseteq 1..Len(answers) /\ Len(answers) \in Nat
  BY DEF Failed, Failures, TesterType
<1>2. IsFiniteSet(1..Len(answers))
  BY <1>1, FS_Interval
<1>. QED  BY <1>1, <1>2, FS_Subset, FS_CardinalityType

LEMMA FailedAppend ==
  ASSUME TesterType, pc # "done", NEW ok \in BOOLEAN, NEW pdu \in Seq(SessionFrame),
         Return(ok, pdu)
  PROVE  /\ Len(answers') = Len(answers) + 1
         /\ ok => Failed' = Failed
         /\ ~ok => Cardinality(Failed') = Cardinality(Failed) + 1
<1>. DEFINE a == [ok |-> ok, pdu |-> pdu]
<1>1. /\ Len(answers') = Len(answers) + 1 /\ Len(answers) \in Nat
      /\ \A i \in 1..Len(answers) : answers'[i] = answers[i]
      /\ answers'[Len(answers) + 1] = a
  BY ReturnTyped DEF TesterType
<1>2. a.ok = ok
  OBVIOUS
<1>. HIDE DEF a
<1>3. \A q : q \in Failed <=> q \in 1..Len(answers) /\ ~answers[q].ok
  BY <1>1 DEF Failed, Failures
<1>4. \A q : q \in Failed' <=> q \in 1..(Len(answers) + 1) /\ ~answers'[q].ok
  BY <1>1 DEF Failed, Failures
<1>5. \A q : q \in 1..(Len(answers) + 1) <=> q \in 1..Len(answers) \/ q = Len(answers) + 1
  BY <1>1
<1>6. Len(answers) + 1 \notin 1..Len(answers)
  BY <1>1
<1>7. \A q : q \in Failed' <=> q \in Failed \/ (~ok /\ q = Len(answers) + 1)
  <2>. TAKE q
  <2>1. CASE q \in 1..Len(answers)
    BY <1>1, <1>3, <1>4, <1>5, <1>6, <2>1
  <2>2. CASE q = Len(answers) + 1
    BY <1>1, <1>2, <1>3, <1>4, <1>5, <1>6, <2>2
  <2>3. CASE q \notin 1..Len(answers) /\ q # Len(answers) + 1
    BY <1>3, <1>4, <1>5, <2>3
  <2>. QED  BY <2>1, <2>2, <2>3
<1>8. ASSUME ~ok PROVE Cardinality(Failed') = Cardinality(Failed) + 1
  <2>1. Failed' = Failed \cup {Len(answers) + 1} /\ Len(answers) + 1 \notin Failed
    BY <1>3, <1>6, <1>7, <1>8
  <2>. QED  BY <2>1, FailedFinite, FS_AddElement
<1>9. ok => Failed' = Failed
  BY <1>7
<1>. QED  BY <1>1, <1>8, <1>9

\* A request that succeeds uses a response that is later than all that were used.
LEMMA OrderSucceed ==
  ASSUME IType, UsedFirst, NEW l, IsLatest(l), NEW m \in Requests, m <= req,
         Used' = Used \cup {m}, \A u \in Used : u < m
  PROVE  /\ IsLatest(m)' /\ Max(Used \cup {0}) = l /\ Max(Used \cup {0})' = m
         /\ m \in (l + 1)..(Len(answers) + 1)
<1>1. Requests \subseteq Nat \ {0} /\ Used \subseteq Requests
  BY Sizes DEF Requests, UsedFirst
<1>2. l \in Nat /\ l < m /\ m \in Nat
  BY <1>1 DEF IsLatest
<1>3. Used \cup {0} \in SUBSET Nat /\ Used \cup {m} \cup {0} \in SUBSET Nat
  BY <1>1
<1>4. Max(Used \cup {0}) = l
  BY <1>3, MaxIs DEF IsLatest
<1>5. \A u \in Used \cup {m} \cup {0} : u <= m
  BY <1>1, <1>2
<1>6. Max(Used \cup {m} \cup {0}) = m
  BY <1>3, <1>5, MaxIs
<1>7. IsLatest(m)'
  BY <1>5 DEF IsLatest
<1>8. Len(answers) + 1 = req /\ req \in Nat
  BY DEF IType, TesterType
<1>. QED  BY <1>2, <1>4, <1>6, <1>7, <1>8

\* A step with one of these outcomes is a step of AnswerOrder or none.
LEMMA OutcomeInOrder ==
  ASSUME IOrder, IType', NativeOnly', Ordered', Outcome
  PROVE  [order!Next]_(order!vars) /\ IOrder'
<1>1. IType /\ IType' /\ NativeOnly /\ NativeOnly' /\ Ordered /\ Ordered' /\ Outcome
  BY DEF IOrder
<1>2. PICK l \in Used \cup {0} : IsLatest(l)
  BY DEF IOrder
<1>3. CASE UNCHANGED answers
  <2>1. Used' = Used /\ Failed' = Failed
    BY <1>3 DEF Used, Sources, Failed, Failures
  <2>2. UNCHANGED order!vars /\ IsLatest(l)'
    BY <1>2, <1>3, <2>1 DEF order!vars, IsLatest, Failed
  <2>. QED  BY <1>1, <2>2 DEF IOrder, IsLatest
<1>4. CASE pc # "done" /\ Fail /\ Used' = Used
  <2>1. out \in Seq(SessionFrame) /\ TesterType /\ Return(FALSE, out)
    BY <1>1, <1>4 DEF IType, TesterType, Fail
  <2>2. Len(answers') = Len(answers) + 1 /\ Cardinality(Failed') = Cardinality(Failed) + 1
    BY <1>4, <2>1, FailedAppend
  <2>3. order!Fail /\ IsLatest(l)'
    BY <1>2, <1>4, <2>2 DEF order!Fail, IsLatest, Failed
  <2>. QED  BY <1>1, <2>3 DEF IOrder, IsLatest, order!Next
<1>5. CASE \E pdu \in Seq(SessionFrame) :
             /\ pc # "done" /\ Return(TRUE, pdu) /\ Used' = Used \cup {pdu[1].msg}
             /\ pdu[1].msg \in Requests /\ pdu[1].msg <= req
             /\ \A u \in Used : u < pdu[1].msg
  <2>1. PICK pdu \in Seq(SessionFrame) :
             /\ pc # "done" /\ Return(TRUE, pdu) /\ Used' = Used \cup {pdu[1].msg}
             /\ pdu[1].msg \in Requests /\ pdu[1].msg <= req
             /\ \A u \in Used : u < pdu[1].msg
    BY <1>5
  <2>. PICK m : m = pdu[1].msg
    OBVIOUS
  <2>2. /\ IsLatest(m)' /\ Max(Used \cup {0}) = l /\ Max(Used \cup {0})' = m
        /\ m \in (l + 1)..(Len(answers) + 1)
    BY <1>1, <1>2, <2>1, OrderSucceed DEF Ordered
  <2>3. Len(answers') = Len(answers) + 1 /\ Failed' = Failed
    BY <1>1, <2>1, FailedAppend DEF IType
  <2>4. order!Succeed
    BY <2>2, <2>3 DEF order!Succeed, Failed
  <2>. QED  BY <1>1, <2>2, <2>4 DEF IOrder, IsLatest, order!Next
<1>. QED  BY <1>1, <1>3, <1>4, <1>5 DEF Outcome

\* Every step of a session, or of the ECU, has.
LEMMA StepInOrder ==
  ASSUME IOrder, [Next]_vars
  PROVE  [order!Next]_(order!vars) /\ IOrder'
<1>1. IType' /\ NativeOnly' /\ Ordered' /\ Outcome
  BY StepTyped, NativeStep, StepOrdered DEF IOrder
<1>. QED  BY <1>1, OutcomeInOrder

LEMMA InitInOrder == Init => order!Init /\ IOrder
<1>. SUFFICES ASSUME Init PROVE order!Init /\ IOrder
  OBVIOUS
<1>1. Used = {} /\ Failed = {} /\ Len(answers) = 0
  BY DEF Init, Used, Failed, Failures
<1>2. Max(Used \cup {0}) = 0
  <2>1. Used \cup {0} \in SUBSET Nat /\ 0 \in Used \cup {0} /\ \A m \in Used \cup {0} : m <= 0
    BY <1>1
  <2>. QED  BY <2>1, MaxIs
<1>3. Cardinality(Failed) = 0
  BY <1>1, FS_EmptySet
<1>4. order!Init
  BY <1>1, <1>2, <1>3 DEF order!Init, Failed
<1>5. Flight = << >>
  BY DEF Init, Flight
<1>6. FlightOrder /\ UsedFirst /\ OutNext
  BY <1>1, <1>5 DEF Init, FlightOrder, UsedFirst, OutNext
<1>7. RequestsLast /\ NativeOnly
  BY DEF Init, RequestsLast, NativeOnly
<1>8. IOrder
  BY <1>1, <1>6, <1>7, InitTyped DEF IOrder, Ordered, IsLatest
<1>. QED  BY <1>4, <1>8

\* A session implements AnswerOrder: no response is used twice or after a later one,
\* whether it waited in rx_buf_, in the adapter or on the bus, whatever the ECU asks
\* for and the bus loses, and also when recv() puts a PDU together from pieces of two
\* responses, which then counts as the older one (isotp.cpp:65-81, 152-235, 248-255).
THEOREM ImplementsAnswerOrder == Spec => AnsweredInOrder
<1>1. IOrder /\ [Next]_vars => IOrder' /\ [order!Next]_(order!vars)
  BY StepInOrder
<1>. QED  BY <1>1, InitInOrder, PTL DEF Spec, AnsweredInOrder, order!Spec

\* So a result lags behind its request by no more requests than have failed before
\* it: with no failure every answer is made of its own response or none
\* (isotp.cpp:248-255).
COROLLARY AnswerIsTimely == Spec => []order!Lag
<1>1. order!Spec => [](order!TypeOK /\ order!Lag)
  BY order!LagIsBounded
<1>. QED  BY <1>1, ImplementsAnswerOrder, PTL DEF AnsweredInOrder

-----------------------------------------------------------------------------
(* Whole answers: the inductive invariant.                                  *)

\* The frames of our id in s are those of q, in that order.
Places(s, q, pos) ==
  /\ pos \in [1..Len(q) -> 1..Len(s)]
  /\ \A i, j \in 1..Len(q) : i < j => pos[i] < pos[j]
  /\ \A i \in 1..Len(q) : s[pos[i]] = q[i] /\ Matches(q[i])
  /\ \A k \in 1..Len(s) : Matches(s[k]) => \E i \in 1..Len(q) : k = pos[i]

Delivers(s, q) == \E pos : Places(s, q, pos)

\* Frames first to last of message msg.
Parts(msg, first, last, n) ==
  [i \in 1..(last + 1 - first) |-> Part(msg, first + i - 1, n)]

ReqFrames == IF native THEN 1 ELSE ReqSize[req]

\* When nothing goes wrong, an exchange goes through these stages, with the frames q
\* on their way to the tester.
Between(q) ==
  /\ pc \in {"send", "done"} /\ bus = << >> /\ ecu.pc = "idle" /\ q = << >>

Asked(q) ==
  /\ pc = IF ReqFrames = 1 THEN "first" ELSE "fc"
  /\ bus = <<Part(req, 1, ReqFrames)>> /\ ecu.pc = "idle" /\ q = << >>

LetThrough(q) ==
  /\ ~native /\ pc = "fc" /\ bus = << >>
  /\ ecu = [pc |-> "recv", msg |-> req, k |-> 1, block |-> 0, credit |-> 0]
  /\ q = <<Flow(req, Cts, 0)>>

\* The last frame of the request that send() has written.
Written == IF pc = "cf" THEN idx - 1 ELSE ReqSize[req]

Asking(q) ==
  /\ ~native /\ pc \in {"cf", "first"}
  /\ ecu.pc = "recv" /\ ecu.msg = req /\ ecu.credit = 0
  /\ ecu.k \in 1..Written /\ ecu.k < ReqSize[req]
  /\ bus = Parts(req, ecu.k + 1, Written, ReqSize[req]) /\ q = << >>

Heard(q) ==
  /\ pc = "first" /\ bus = << >>
  /\ ecu.pc = "answer" /\ ecu.msg = req /\ q = << >>

Answering(q) ==
  /\ pc = "first" /\ bus = << >>
  /\ ecu.pc = IF RspFrames(req) = 1 THEN "idle" ELSE "wait_fc"
  /\ ecu.msg = req /\ ecu.k = 1
  /\ q = <<Part(req, 1, RspFrames(req))>>

\* What recv() has put together.
Assembled ==
  /\ ~native /\ pc = "more" /\ total = RspSize[req]
  /\ Len(out) \in 1..(total - 1)
  /\ out = Parts(req, 1, Len(out), total) /\ expected_sn = Len(out) % SnMod

FlowSent(q) ==
  /\ Assembled /\ Len(out) = 1
  /\ bus = <<Flow(req, Cts, FcBlockSize)>> /\ q = << >>
  /\ ecu.pc = "wait_fc" /\ ecu.msg = req /\ ecu.k = 1

Bursting(q) ==
  /\ Assembled /\ bus = << >>
  /\ ecu.msg = req /\ ecu.k \in Len(out)..total
  /\ ecu.pc = IF ecu.k = total THEN "idle" ELSE "burst"
  /\ ecu.pc = "burst" =>
       ecu.credit = IF FcBlockSize = 0 THEN 0 ELSE FcBlockSize + 1 - ecu.k
  /\ q = Parts(req, Len(out) + 1, ecu.k, total)

Stage(q) ==
  \/ Between(q) \/ Asked(q) \/ LetThrough(q) \/ Asking(q) \/ Heard(q)
  \/ Answering(q) \/ FlowSent(q) \/ Bursting(q)

InStep == \E q \in Seq(Inbound) : Delivers(Flight, q) /\ Stage(q)

\* recv() sends one flow control only: what it lets through is the whole response.
BlockFits == FcBlockSize = 0 \/ \A m \in Requests : RspSize[m] <= FcBlockSize + 1

NoTrouble == lost + held + early = 0

IInv == IType /\ Answered /\ (NoTrouble => InStep)

-----------------------------------------------------------------------------
(* The frames of one message.                                               *)

LEMMA PartsFacts ==
  ASSUME NEW m \in Requests, NEW n \in 1..MaxLength, NEW a \in Nat \ {0},
         NEW b \in Nat, a <= b + 1
  PROVE  /\ Parts(m, a, b, n) \in Seq(Inbound) /\ Parts(m, a, b, n) \in Seq(Outbound)
         /\ Len(Parts(m, a, b, n)) = b + 1 - a
         /\ \A i \in 1..(b + 1 - a) : Parts(m, a, b, n)[i] = Part(m, a + i - 1, n)
<1>1. \A i \in 1..(b + 1 - a) : a + i - 1 \in Nat \ {0}
  OBVIOUS
<1>2. \A i \in 1..(b + 1 - a) :
        Part(m, a + i - 1, n) \in Inbound /\ Part(m, a + i - 1, n) \in Outbound
  BY <1>1, PartTyped
<1>3. b + 1 - a \in Nat
  OBVIOUS
<1>. QED  BY <1>2, <1>3 DEF Parts

LEMMA PartsAppend ==
  ASSUME NEW m \in Requests, NEW n \in 1..MaxLength, NEW a \in Nat \ {0},
         NEW b \in Nat, a <= b + 1
  PROVE  Append(Parts(m, a, b, n), Part(m, b + 1, n)) = Parts(m, a, b + 1, n)
<1>. DEFINE s == Parts(m, a, b, n)
            t == Parts(m, a, b + 1, n)
            f == Part(m, b + 1, n)
<1>1. /\ s \in Seq(Inbound) /\ Len(s) = b + 1 - a /\ f \in Inbound
      /\ \A i \in 1..(b + 1 - a) : s[i] = Part(m, a + i - 1, n)
  BY PartsFacts, PartTyped
<1>2. /\ t \in Seq(Inbound) /\ Len(t) = (b + 1) + 1 - a
      /\ \A i \in 1..((b + 1) + 1 - a) : t[i] = Part(m, a + i - 1, n)
  BY PartsFacts
<1>. HIDE DEF s, t
<1>3. /\ Append(s, f) \in Seq(Inbound) /\ Len(Append(s, f)) = Len(s) + 1
      /\ \A i \in 1..Len(s) : Append(s, f)[i] = s[i]
      /\ Append(s, f)[Len(s) + 1] = f
  BY <1>1, AppendFacts
<1>4. ASSUME NEW i \in 1..Len(Append(s, f)) PROVE Append(s, f)[i] = t[i]
  <2>1. i \in 1..((b + 1) + 1 - a) /\ (i \in 1..(b + 1 - a) \/ i = b + 1 - a + 1)
    BY <1>1, <1>3
  <2>2. CASE i \in 1..(b + 1 - a)
    BY <1>1, <1>2, <1>3, <2>1, <2>2
  <2>3. CASE i = b + 1 - a + 1
    <3>1. a + i - 1 = b + 1
      BY <2>3
    <3>. QED  BY <1>1, <1>2, <1>3, <2>1, <2>3, <3>1
  <2>. QED  BY <2>1, <2>2, <2>3
<1>5. Len(Append(s, f)) = Len(t)
  BY <1>1, <1>2, <1>3
<1>6. Append(s, f) = t
  BY <1>2, <1>3, <1>4, <1>5, SeqEqual
<1>. QED  BY <1>6 DEF s, t

LEMMA PartsTail ==
  ASSUME NEW m \in Requests, NEW n \in 1..MaxLength, NEW a \in Nat \ {0},
         NEW b \in Nat, a <= b
  PROVE  /\ Parts(m, a, b, n) # << >> /\ Parts(m, a, b, n)[1] = Part(m, a, n)
         /\ Tail(Parts(m, a, b, n)) = Parts(m, a + 1, b, n)
<1>. DEFINE s == Parts(m, a, b, n)
            t == Parts(m, a + 1, b, n)
<1>1. /\ s \in Seq(Inbound) /\ Len(s) = b + 1 - a
      /\ \A i \in 1..(b + 1 - a) : s[i] = Part(m, a + i - 1, n)
  BY PartsFacts
<1>2. /\ t \in Seq(Inbound) /\ Len(t) = b + 1 - (a + 1)
      /\ \A i \in 1..(b + 1 - (a + 1)) : t[i] = Part(m, (a + 1) + i - 1, n)
  <2>1. PICK c \in Nat \ {0} : c = a + 1 /\ c <= b + 1
    OBVIOUS
  <2>2. /\ Parts(m, c, b, n) \in Seq(Inbound) /\ Len(Parts(m, c, b, n)) = b + 1 - c
        /\ \A i \in 1..(b + 1 - c) : Parts(m, c, b, n)[i] = Part(m, c + i - 1, n)
    BY <2>1, PartsFacts
  <2>. QED  BY <2>1, <2>2, Zenon
<1>. HIDE DEF s, t
<1>3. s # << >> /\ 1 \in 1..(b + 1 - a) /\ a + 1 - 1 = a
  BY <1>1
<1>4. /\ Tail(s) \in Seq(Inbound) /\ Len(Tail(s)) = Len(s) - 1
      /\ \A i \in 1..Len(Tail(s)) : Tail(s)[i] = s[i + 1]
  BY <1>1, <1>3, TailFacts
<1>5. ASSUME NEW i \in 1..Len(Tail(s)) PROVE Tail(s)[i] = t[i]
  <2>1. i + 1 \in 1..(b + 1 - a) /\ i \in 1..(b + 1 - (a + 1))
        /\ a + (i + 1) - 1 = (a + 1) + i - 1
    BY <1>1, <1>4
  <2>. QED  BY <1>1, <1>2, <1>4, <2>1
<1>6. Len(Tail(s)) = Len(t)
  BY <1>1, <1>2, <1>4
<1>7. Tail(s) = t
  BY <1>2, <1>4, <1>5, <1>6, SeqEqual
<1>. QED  BY <1>1, <1>3, <1>7 DEF s, t

LEMMA NoParts ==
  ASSUME NEW m \in Requests, NEW n \in 1..MaxLength, NEW b \in Nat
  PROVE  Parts(m, b + 1, b, n) = << >>
<1>1. b + 1 \in Nat \ {0} /\ b + 1 <= b + 1
  OBVIOUS
<1>2. Parts(m, b + 1, b, n) \in Seq(Inbound) /\ Len(Parts(m, b + 1, b, n)) = b + 1 - (b + 1)
  BY <1>1, PartsFacts
<1>. QED  BY <1>2

LEMMA OnePart ==
  ASSUME NEW m \in Requests, NEW n \in 1..MaxLength
  PROVE  Parts(m, 1, 1, n) = <<Part(m, 1, n)>>
<1>1. 1 + 1 - 1 = 1 /\ \A i \in 1..1 : 1 + i - 1 = 1
  OBVIOUS
<1>2. Parts(m, 1, 1, n) = [i \in 1..1 |-> Part(m, 1, n)]
  BY <1>1, Zenon DEF Parts
<1>. QED  BY <1>2

LEMMA WholeIsParts ==
  ASSUME NEW m \in Requests
  PROVE  /\ Whole(m) = Parts(m, 1, RspFrames(m), RspFrames(m))
         /\ Whole(m) \in Seq(SessionFrame)
<1>. DEFINE n == RspFrames(m)
<1>1. n \in 1..MaxLength /\ n \in Nat
  BY RspFramesTyped, LengthIs
<1>. HIDE DEF n
<1>2. n + 1 - 1 = n /\ \A i \in 1..n : 1 + i - 1 = i
  BY <1>1
<1>3. [k \in 1..n |-> Part(m, k, n)] = [i \in 1..(n + 1 - 1) |-> Part(m, 1 + i - 1, n)]
  BY <1>2
<1>4. Whole(m) = Parts(m, 1, n, n)
  BY <1>3 DEF Whole, Parts, n
<1>. PICK one \in Nat : one = 1
  OBVIOUS
<1>5. one \in Nat \ {0} /\ one <= n + 1
  BY <1>1
<1>6. Parts(m, one, n, n) \in Seq(Inbound)
  BY <1>1, <1>5, PartsFacts
<1>. QED  BY <1>4, <1>6, InboundIsFrame DEF n

LEMMA PartMatches == \A m, k, n : Matches(Part(m, k, n))
BY DEF Part, Matches

LEMMA FlowMatches == \A m, s, b : Matches(Flow(m, s, b))
BY DEF Flow, Matches

-----------------------------------------------------------------------------
(* The frames of our id among those on their way.                           *)

LEMMA DeliversGot ==
  ASSUME NEW s \in Seq(Inbound), NEW t \in Seq(Inbound), NEW q \in Seq(Inbound),
         NEW d \in 1..Len(s), Drops(s, d, t), Matches(s[d]),
         \A i \in 1..(d - 1) : ~Matches(s[i]), Delivers(s, q)
  PROVE  q # << >> /\ s[d] = q[1] /\ Delivers(t, Tail(q))
<1>. DEFINE n == Len(q)
<1>1. PICK pos \in [1..n -> 1..Len(s)] :
        /\ \A i, j \in 1..n : i < j => pos[i] < pos[j]
        /\ \A i \in 1..n : s[pos[i]] = q[i] /\ Matches(q[i])
        /\ \A k \in 1..Len(s) : Matches(s[k]) => \E i \in 1..n : k = pos[i]
  BY DEF Delivers, Places
<1>2. PICK e \in 1..n : d = pos[e]
  BY <1>1
<1>3. n \in Nat /\ Len(s) \in Nat /\ 1 \in 1..n /\ pos[1] \in 1..Len(s)
  <2>1. n \in Nat /\ Len(s) \in Nat
    OBVIOUS
  <2>. HIDE DEF n
  <2>2. 1 \in 1..n
    BY <1>2, <2>1
  <2>. QED  BY <1>1, <2>1, <2>2
<1>. HIDE DEF n
<1>4. e = 1
  <2>1. CASE e > 1
    <3>1. pos[1] < pos[e]
      BY <1>1, <1>2, <1>3, <2>1
    <3>2. pos[1] \in 1..(d - 1)
      BY <1>2, <1>3, <3>1
    <3>3. Matches(s[pos[1]])
      BY <1>1, <1>3
    <3>. QED  BY <3>2, <3>3
  <2>. QED  BY <1>2, <1>3, <2>1
<1>5. q # << >> /\ s[d] = q[1]
  BY <1>1, <1>2, <1>3, <1>4 DEF n
<1>6. /\ Len(t) = Len(s) - d /\ \A i \in 1..Len(t) : t[i] = s[i + d]
  BY DEF Drops
<1>7. /\ Len(Tail(q)) = n - 1 /\ \A i \in 1..(n - 1) : Tail(q)[i] = q[i + 1]
  BY <1>5, TailFacts DEF n
<1>. DEFINE new == [i \in 1..(n - 1) |-> pos[i + 1] - d]
<1>8. ASSUME NEW i \in 1..(n - 1)
      PROVE  /\ i + 1 \in 1..n /\ pos[i + 1] \in 1..Len(s) /\ d < pos[i + 1]
             /\ new[i] = pos[i + 1] - d /\ new[i] \in 1..Len(t) /\ new[i] + d = pos[i + 1]
  <2>1. i + 1 \in 1..n /\ 1 < i + 1
    BY <1>3
  <2>2. pos[i + 1] \in 1..Len(s) /\ d < pos[i + 1]
    BY <1>1, <1>2, <1>3, <1>4, <2>1
  <2>. QED  BY <1>6, <2>1, <2>2
<1>9. new \in [1..(n - 1) -> 1..Len(t)]
  BY <1>8
<1>10. ASSUME NEW i \in 1..(n - 1), NEW j \in 1..(n - 1), i < j PROVE new[i] < new[j]
  <2>1. i + 1 < j + 1 /\ i + 1 \in 1..n /\ j + 1 \in 1..n
    BY <1>3, <1>10
  <2>2. pos[i + 1] < pos[j + 1]
    BY <1>1, <2>1
  <2>3. /\ new[i] = pos[i + 1] - d /\ pos[i + 1] \in 1..Len(s)
        /\ new[j] = pos[j + 1] - d /\ pos[j + 1] \in 1..Len(s)
    BY <1>8
  <2>. HIDE DEF new
  <2>. QED  BY <1>3, <2>2, <2>3
<1>. HIDE DEF new
<1>11. \A i \in 1..(n - 1) : t[new[i]] = Tail(q)[i] /\ Matches(Tail(q)[i])
  BY <1>1, <1>6, <1>7, <1>8
<1>12. ASSUME NEW k \in 1..Len(t), Matches(t[k]) PROVE \E i \in 1..(n - 1) : k = new[i]
  <2>1. k + d \in 1..Len(s) /\ t[k] = s[k + d]
    BY <1>3, <1>6
  <2>2. PICK i \in 1..n : k + d = pos[i]
    BY <1>1, <1>12, <2>1
  <2>3. i # 1
    BY <1>2, <1>4, <2>2
  <2>4. i - 1 \in 1..(n - 1) /\ (i - 1) + 1 = i
    BY <1>3, <2>3
  <2>5. new[i - 1] = pos[i] - d
    BY <1>8, <2>4
  <2>6. k = new[i - 1]
    BY <2>2, <2>5
  <2>. QED  BY <2>4, <2>6
<1>13. n - 1 = Len(Tail(q))
  BY <1>7
<1>14. Places(t, Tail(q), new)
  BY <1>9, <1>10, <1>11, <1>12, <1>13 DEF Places
<1>. QED  BY <1>5, <1>14 DEF Delivers

LEMMA DeliversSkip ==
  ASSUME NEW s \in Seq(Inbound), NEW t \in Seq(Inbound), NEW q \in Seq(Inbound),
         NEW d \in 0..Len(s), Drops(s, d, t),
         \A i \in 1..d : ~Matches(s[i]), Delivers(s, q)
  PROVE  Delivers(t, q)
<1>. DEFINE n == Len(q)
<1>1. PICK pos \in [1..n -> 1..Len(s)] :
        /\ \A i, j \in 1..n : i < j => pos[i] < pos[j]
        /\ \A i \in 1..n : s[pos[i]] = q[i] /\ Matches(q[i])
        /\ \A k \in 1..Len(s) : Matches(s[k]) => \E i \in 1..n : k = pos[i]
  BY DEF Delivers, Places
<1>2. n \in Nat /\ Len(s) \in Nat /\ Len(t) = Len(s) - d
      /\ \A i \in 1..Len(t) : t[i] = s[i + d]
  BY DEF Drops
<1>. HIDE DEF n
<1>. DEFINE new == [i \in 1..n |-> pos[i] - d]
<1>3. ASSUME NEW i \in 1..n
      PROVE  /\ pos[i] \in 1..Len(s) /\ d < pos[i]
             /\ new[i] = pos[i] - d /\ new[i] \in 1..Len(t) /\ new[i] + d = pos[i]
  <2>1. pos[i] \in 1..Len(s) /\ Matches(s[pos[i]])
    BY <1>1
  <2>2. d < pos[i]
    BY <1>2, <2>1
  <2>3. new[i] = pos[i] - d
    OBVIOUS
  <2>. HIDE DEF new
  <2>. QED  BY <1>2, <2>1, <2>2, <2>3
<1>4. new \in [1..n -> 1..Len(t)]
  BY <1>3
<1>. HIDE DEF new
<1>5. ASSUME NEW i \in 1..n, NEW j \in 1..n, i < j PROVE new[i] < new[j]
  <2>1. pos[i] < pos[j]
    BY <1>1, <1>5
  <2>2. /\ new[i] = pos[i] - d /\ pos[i] \in 1..Len(s)
        /\ new[j] = pos[j] - d /\ pos[j] \in 1..Len(s)
    BY <1>3
  <2>. QED  BY <1>2, <2>1, <2>2
<1>6. ASSUME NEW i \in 1..n PROVE t[new[i]] = q[i] /\ Matches(q[i])
  <2>1. new[i] \in 1..Len(t) /\ new[i] + d = pos[i] /\ s[pos[i]] = q[i] /\ Matches(q[i])
    BY <1>1, <1>3
  <2>2. t[new[i]] = s[new[i] + d]
    BY <1>2, <2>1
  <2>. QED  BY <2>1, <2>2
<1>7. ASSUME NEW k \in 1..Len(t), Matches(t[k]) PROVE \E i \in 1..n : k = new[i]
  <2>1. k + d \in 1..Len(s) /\ t[k] = s[k + d]
    BY <1>2
  <2>2. PICK i \in 1..n : k + d = pos[i]
    BY <1>1, <1>7, <2>1
  <2>3. k = new[i]
    BY <1>3, <2>2
  <2>. QED  BY <2>3
<1>8. Places(t, q, new)
  BY <1>4, <1>5, <1>6, <1>7 DEF Places, n
<1>. QED  BY <1>8 DEF Delivers

LEMMA DeliversMore ==
  ASSUME NEW s \in Seq(Inbound), NEW q \in Seq(Inbound), NEW f \in Inbound,
         Matches(f), Delivers(s, q)
  PROVE  Delivers(Append(s, f), Append(q, f))
<1>. DEFINE n == Len(q)
            l == Len(s)
            t == Append(s, f)
            r == Append(q, f)
<1>1. PICK pos \in [1..n -> 1..l] :
        /\ \A i, j \in 1..n : i < j => pos[i] < pos[j]
        /\ \A i \in 1..n : s[pos[i]] = q[i] /\ Matches(q[i])
        /\ \A k \in 1..l : Matches(s[k]) => \E i \in 1..n : k = pos[i]
  BY DEF Delivers, Places
<1>2. /\ n \in Nat /\ l \in Nat
      /\ Len(t) = l + 1 /\ t[l + 1] = f /\ \A i \in 1..l : t[i] = s[i]
      /\ Len(r) = n + 1 /\ r[n + 1] = f /\ \A i \in 1..n : r[i] = q[i]
  BY AppendFacts
<1>. HIDE DEF n, l, t, r
<1>. DEFINE new == [i \in 1..(n + 1) |-> IF i = n + 1 THEN l + 1 ELSE pos[i]]
<1>3. \A i \in 1..(n + 1) : i \in 1..n \/ i = n + 1
  BY <1>2
<1>4. /\ \A i \in 1..n : i \in 1..(n + 1) /\ new[i] = pos[i] /\ pos[i] \in 1..l
      /\ n + 1 \in 1..(n + 1) /\ new[n + 1] = l + 1
  BY <1>1, <1>2
<1>5. new \in [1..(n + 1) -> 1..(l + 1)]
  BY <1>2, <1>3, <1>4
<1>. HIDE DEF new
<1>6. ASSUME NEW i \in 1..(n + 1), NEW j \in 1..(n + 1), i < j PROVE new[i] < new[j]
  <2>1. i \in 1..n
    BY <1>2, <1>6
  <2>2. CASE j \in 1..n
    BY <1>1, <1>4, <1>6, <2>1, <2>2
  <2>3. CASE j = n + 1
    BY <1>2, <1>4, <2>1, <2>3
  <2>. QED  BY <1>3, <2>2, <2>3
<1>7. ASSUME NEW i \in 1..(n + 1) PROVE t[new[i]] = r[i] /\ Matches(r[i])
  <2>1. CASE i \in 1..n
    <3>1. new[i] = pos[i] /\ pos[i] \in 1..l
      BY <1>4, <2>1
    <3>2. t[pos[i]] = s[pos[i]] /\ r[i] = q[i]
      BY <1>2, <2>1, <3>1
    <3>. QED  BY <1>1, <2>1, <3>1, <3>2
  <2>2. CASE i = n + 1
    BY <1>2, <1>4, <2>2
  <2>. QED  BY <1>3, <2>1, <2>2
<1>8. ASSUME NEW k \in 1..(l + 1), Matches(t[k]) PROVE \E i \in 1..(n + 1) : k = new[i]
  <2>1. CASE k \in 1..l
    <3>1. Matches(s[k])
      BY <1>2, <1>8, <2>1
    <3>2. PICK i \in 1..n : k = pos[i]
      BY <1>1, <2>1, <3>1
    <3>. QED  BY <1>4, <3>2
  <2>2. CASE k = l + 1
    BY <1>4, <2>2
  <2>. QED  BY <1>2, <2>1, <2>2
<1>9. n + 1 = Len(r) /\ l + 1 = Len(t)
  BY <1>2
<1>10. Places(t, r, new)
  BY <1>5, <1>6, <1>7, <1>8, <1>9 DEF Places
<1>. QED  BY <1>10 DEF t, r, Delivers

LEMMA DeliversOther ==
  ASSUME NEW s \in Seq(Inbound), NEW q \in Seq(Inbound), NEW f \in Inbound,
         ~Matches(f), Delivers(s, q)
  PROVE  Delivers(Append(s, f), q)
<1>. DEFINE n == Len(q)
            l == Len(s)
            t == Append(s, f)
<1>1. PICK pos \in [1..n -> 1..l] :
        /\ \A i, j \in 1..n : i < j => pos[i] < pos[j]
        /\ \A i \in 1..n : s[pos[i]] = q[i] /\ Matches(q[i])
        /\ \A k \in 1..l : Matches(s[k]) => \E i \in 1..n : k = pos[i]
  BY DEF Delivers, Places
<1>2. /\ n \in Nat /\ l \in Nat
      /\ Len(t) = l + 1 /\ t[l + 1] = f /\ \A i \in 1..l : t[i] = s[i]
  BY AppendFacts
<1>. HIDE DEF n, l, t
<1>3. pos \in [1..n -> 1..Len(t)]
  BY <1>1, <1>2
<1>4. \A i \in 1..n : t[pos[i]] = q[i] /\ Matches(q[i])
  BY <1>1, <1>2
<1>5. ASSUME NEW k \in 1..Len(t), Matches(t[k]) PROVE \E i \in 1..n : k = pos[i]
  <2>1. k \in 1..l \/ k = l + 1
    BY <1>2
  <2>. QED  BY <1>1, <1>2, <1>5, <2>1
<1>6. Places(t, q, pos)
  BY <1>1, <1>3, <1>4, <1>5 DEF Places, n
<1>. QED  BY <1>6 DEF t, Delivers

\* Something is on its way if and only if a frame of our id is.
LEMMA DeliversSome ==
  ASSUME NEW s \in Seq(Inbound), NEW q \in Seq(Inbound), Delivers(s, q)
  PROVE  q = << >> <=> \A k \in 1..Len(s) : ~Matches(s[k])
<1>. DEFINE n == Len(q)
<1>1. PICK pos \in [1..n -> 1..Len(s)] :
        /\ \A i \in 1..n : s[pos[i]] = q[i] /\ Matches(q[i])
        /\ \A k \in 1..Len(s) : Matches(s[k]) => \E i \in 1..n : k = pos[i]
  BY DEF Delivers, Places
<1>2. n \in Nat /\ (q = << >> <=> n = 0)
  OBVIOUS
<1>. HIDE DEF n
<1>3. CASE n = 0
  BY <1>1, <1>2, <1>3
<1>4. CASE n > 0
  <2>1. 1 \in 1..n
    BY <1>2, <1>4
  <2>. QED  BY <1>1, <1>2, <1>4, <2>1
<1>. QED  BY <1>2, <1>3, <1>4

LEMMA DeliversNone == Delivers(<< >>, << >>)
<1>. DEFINE pos == [i \in 1..0 |-> i]
<1>1. Len(<< >>) = 0 /\ pos \in [1..0 -> 1..0] /\ \A i \in 1..0 : FALSE
  OBVIOUS
<1>2. Places(<< >>, << >>, pos)
  BY <1>1 DEF Places
<1>. QED  BY <1>2 DEF Delivers

-----------------------------------------------------------------------------
(* The tester's steps.                                                      *)

LEMMA InProgress ==
  ASSUME IType, pc # "done"
  PROVE  /\ req \in Requests /\ req = Len(answers) + 1
         /\ ReqSize[req] \in 1..MaxLength /\ ReqSize[req] \in Nat
         /\ RspSize[req] \in 1..MaxLength /\ RspSize[req] \in Nat
<1>1. req \in 1..(Len(ReqSize) + 1) /\ req # Len(ReqSize) + 1 /\ Len(answers) = req - 1
      /\ answers \in Seq(Result)
  BY DEF IType, TesterType
<1>2. req \in Requests /\ req = Len(answers) + 1
  BY <1>1, Sizes DEF Requests
<1>3. ReqSize[req] \in 1..MaxLength /\ RspSize[req] \in 1..MaxLength
  BY <1>2, Sizes
<1>4. \A n \in 1..MaxLength : n \in Nat
  BY LengthIs
<1>. QED  BY <1>2, <1>3, <1>4

LEMMA GotNext ==
  ASSUME IType, NEW q \in Seq(Inbound), Delivers(Flight, q), NEW f, Got(f)
  PROVE  /\ q # << >> /\ f = q[1] /\ Tail(q) \in Seq(Inbound)
         /\ Delivers(Flight', Tail(q))
<1>1. Flight \in Seq(Inbound)
  BY FlightFacts
<1>. PICK F : F = Flight'
  OBVIOUS
<1>2. PICK d \in 1..Len(Flight) :
        /\ f = Flight[d] /\ Matches(f)
        /\ \A i \in 1..(d - 1) : ~Matches(Flight[i])
        /\ Drops(Flight, d, F)
  BY DEF Got
<1>3. F \in Seq(Inbound)
  BY <1>2 DEF Drops
<1>4. q # << >> /\ f = q[1] /\ Delivers(F, Tail(q))
  BY <1>1, <1>2, <1>3, DeliversGot
<1>. QED  BY <1>4, TailFacts

LEMMA StageSame ==
  ASSUME NEW q, Stage(q), UNCHANGED <<tester, bus, ecu, native>>
  PROVE  Stage(q)'
<1>1. /\ req' = req /\ pc' = pc /\ idx' = idx /\ total' = total /\ out' = out
      /\ expected_sn' = expected_sn /\ bus' = bus /\ ecu' = ecu /\ native' = native
  BY DEF tester
<1>2. CASE Between(q) \/ Asked(q) \/ LetThrough(q) \/ Heard(q)
  BY <1>1, <1>2 DEF Stage, Between, Asked, LetThrough, Heard, ReqFrames
<1>3. CASE Asking(q)
  BY <1>1, <1>3 DEF Stage, Asking, Written
<1>4. CASE Answering(q)
  BY <1>1, <1>4 DEF Stage, Answering, RspFrames
<1>5. CASE FlowSent(q) \/ Bursting(q)
  BY <1>1, <1>5 DEF Stage, FlowSent, Bursting, Assembled
<1>. QED  BY <1>2, <1>3, <1>4, <1>5 DEF Stage

\* A request goes out.
LEMMA SendFirstStage ==
  ASSUME IType, NEW q, Stage(q), SendFirst \/ NativeSend
  PROVE  Stage(q)'
<1>1. pc = "send"
  BY DEF SendFirst, NativeSend
<1>2. Between(q)
  BY <1>1 DEF Stage, Asked, LetThrough, Asking, Heard, Answering, FlowSent, Bursting,
              Assembled
<1>3. /\ bus' = Append(bus, Part(req, 1, ReqFrames))
      /\ pc' = IF ReqFrames = 1 THEN "first" ELSE "fc"
      /\ UNCHANGED <<req, ecu, native>>
  BY DEF SendFirst, NativeSend, ReqFrames, luck
<1>4. Asked(q)'
  BY <1>2, <1>3 DEF Between, Asked, ReqFrames
<1>. QED  BY <1>4 DEF Stage

\* The flow control has come.
LEMMA SendGetsFlowStage ==
  ASSUME IType, IType', NEW q \in Seq(Inbound), Delivers(Flight, q), Stage(q), SendGetsFlow
  PROVE  InStep' /\ UNCHANGED answers
<1>1. PICK f : /\ Take(f)
               /\ IF LetsGo(f)
                  THEN pc' = "cf" /\ UNCHANGED <<req, idx, total, out, expected_sn, answers>>
                  ELSE Fail
  BY DEF SendGetsFlow
<1>2. pc = "fc" /\ UNCHANGED <<wire, bus, ecu, native>>
  BY DEF SendGetsFlow, luck
<1>3. Got(f)
  BY <1>1, <1>2, TakeGets
<1>4. q # << >> /\ f = q[1] /\ Tail(q) \in Seq(Inbound) /\ Delivers(Flight', Tail(q))
  BY <1>3, GotNext
<1>5. LetThrough(q)
  BY <1>2, <1>4 DEF Stage, Between, Asked, Asking, Heard, Answering, FlowSent, Bursting,
                   Assembled
<1>6. f = Flow(req, Cts, 0) /\ Tail(q) = << >>
  BY <1>4, <1>5 DEF LetThrough
<1>7. LetsGo(f)
  BY <1>6 DEF LetsGo, Flow, Cts, Overflow
<1>8. /\ idx = 2 /\ ReqSize[req] > 1 /\ ReqSize[req] \in Nat
      /\ req \in Requests /\ ReqSize[req] \in 1..MaxLength
  BY <1>2, InProgress DEF IType, TesterType
<1>9. Parts(req, 1 + 1, 1, ReqSize[req]) = << >>
  BY <1>8, NoParts
<1>10. Written' = 1
  BY <1>1, <1>7, <1>8 DEF Written
<1>11. /\ ~native' /\ pc' = "cf" /\ req' = req /\ bus' = << >>
       /\ ecu'.pc = "recv" /\ ecu'.msg = req /\ ecu'.credit = 0 /\ ecu'.k = 1
  BY <1>1, <1>2, <1>5, <1>7 DEF LetThrough
<1>12. Asking(Tail(q))'
  BY <1>6, <1>8, <1>9, <1>10, <1>11 DEF Asking
<1>. QED  BY <1>1, <1>4, <1>7, <1>12 DEF InStep, Stage

\* The last frame of the request that was written.
LEMMA WrittenFacts ==
  ASSUME IType, NEW q, Asking(q)
  PROVE  /\ req \in Requests /\ ReqSize[req] \in 1..MaxLength /\ ReqSize[req] \in Nat
         /\ Written \in Nat /\ Written > 0 /\ Written <= ReqSize[req]
         /\ ecu.k \in Nat /\ ecu.k > 0 /\ ecu.k <= Written
         /\ pc = "cf" => idx = Written + 1 /\ idx <= ReqSize[req]
<1>1. pc \in {"cf", "first"}
  BY DEF Asking
<1>2. req \in Requests /\ ReqSize[req] \in 1..MaxLength /\ ReqSize[req] \in Nat
  BY <1>1, InProgress
<1>3. pc = "cf" => idx \in Nat /\ 1 < idx /\ idx <= ReqSize[req]
  BY LengthIs DEF IType, TesterType
<1>4. Written \in Nat /\ Written > 0 /\ Written <= ReqSize[req]
      /\ (pc = "cf" => idx = Written + 1 /\ idx <= ReqSize[req])
  BY <1>1, <1>2, <1>3, LengthIs DEF Written
<1>. HIDE DEF Written
<1>5. ecu.k \in 1..Written
  BY DEF Asking
<1>. QED  BY <1>2, <1>4, <1>5

LEMMA SendConsecutiveStage ==
  ASSUME IType, IType', NEW q, Stage(q), SendConsecutive
  PROVE  Stage(q)'
<1>1. /\ pc = "cf" /\ bus' = Append(bus, Part(req, idx, ReqSize[req]))
      /\ idx' = idx + 1 /\ pc' = IF idx < ReqSize[req] THEN "cf" ELSE "first"
      /\ UNCHANGED <<req, ecu, native>>
  BY DEF SendConsecutive, luck
<1>2. Asking(q)
  BY <1>1 DEF Stage, Between, Asked, LetThrough, Heard, Answering, FlowSent, Bursting,
              Assembled
<1>3. PICK n : n = ReqSize[req]
  OBVIOUS
<1>4. PICK w : w = Written
  OBVIOUS
<1>5. PICK k : k = ecu.k
  OBVIOUS
<1>6. /\ req \in Requests /\ n \in 1..MaxLength /\ n \in Nat /\ w \in Nat /\ w <= n
      /\ k \in Nat /\ k > 0 /\ k <= w /\ idx = w + 1 /\ idx <= n
  BY <1>1, <1>2, <1>3, <1>4, <1>5, WrittenFacts
<1>7. Written' = w + 1
  BY <1>1, <1>3, <1>6 DEF Written
<1>8. bus = Parts(req, k + 1, w, n)
  BY <1>2, <1>3, <1>4, <1>5 DEF Asking
<1>9. k + 1 \in Nat \ {0} /\ k + 1 <= w + 1
  BY <1>6
<1>10. bus' = Parts(req, k + 1, w + 1, n)
  BY <1>1, <1>3, <1>6, <1>8, <1>9, PartsAppend
<1>11. /\ ~native' /\ pc' \in {"cf", "first"} /\ req' = req /\ ecu'.k = k
       /\ ecu'.pc = "recv" /\ ecu'.msg = req /\ ecu'.credit = 0 /\ k < n /\ q = << >>
  BY <1>1, <1>2, <1>3, <1>5 DEF Asking
<1>12. Asking(q)'
  BY <1>3, <1>6, <1>7, <1>10, <1>11 DEF Asking
<1>. QED  BY <1>12 DEF Stage

\* A call of request() returns, and with the whole of its response.
LEMMA AnsweredMore ==
  ASSUME IType, Answered, NoTrouble, pc # "done", Return(TRUE, Whole(req)),
         UNCHANGED native
  PROVE  Answered'
<1>1. req \in Requests /\ Len(answers) + 1 = req
  BY InProgress
<1>2. Whole(req) \in Seq(SessionFrame)
  BY <1>1, WholeIsParts
<1>3. /\ Len(answers') = Len(answers) + 1
      /\ answers'[Len(answers) + 1] = [ok |-> TRUE, pdu |-> Whole(req)]
      /\ \A r \in 1..Len(answers) : answers'[r] = answers[r]
  BY <1>2, ReturnTyped DEF IType
<1>4. \A r \in 1..Len(answers) : answers[r] = [ok |-> TRUE, pdu |-> Whole(r)]
  BY DEF Answered, NoTrouble
<1>5. \A r : Whole(r)' = Whole(r)
  BY DEF Whole, RspFrames
<1>6. Len(answers) \in Nat
  BY DEF IType, TesterType
<1>7. ASSUME NEW r \in 1..Len(answers') PROVE answers'[r] = [ok |-> TRUE, pdu |-> Whole(r)']
  <2>1. CASE r \in 1..Len(answers)
    BY <1>3, <1>4, <1>5, <2>1
  <2>2. CASE r = Len(answers) + 1
    BY <1>1, <1>3, <1>5, <2>2
  <2>. QED  BY <1>3, <1>6, <2>1, <2>2
<1>. QED  BY <1>7 DEF Answered

LEMMA ReturnsBetween ==
  ASSUME NEW ok, NEW pdu, Return(ok, pdu), bus' = << >>, ecu'.pc = "idle"
  PROVE  Between(<< >>)'
BY DEF Return, Between

LEMMA RecvFirstStage ==
  ASSUME IType, IType', Answered, NoTrouble, NEW q \in Seq(Inbound), Delivers(Flight, q),
         Stage(q), RecvFirst \/ NativeRecv
  PROVE  InStep' /\ Answered'
<1>1. /\ pc = "first" /\ UNCHANGED <<ecu, native>>
      /\ \E f : /\ Got(f)
                /\ \/ f.pci = "SF" /\ Return(TRUE, <<f>>) /\ UNCHANGED bus
                   \/ native /\ Return(TRUE, <<f>>) /\ UNCHANGED bus
                   \/ /\ ~native /\ f.pci = "FF"
                      /\ out' = <<f>> /\ total' = f.n /\ expected_sn' = 1 /\ pc' = "more"
                      /\ bus' = Append(bus, Flow(f.msg, Cts, FcBlockSize))
                      /\ UNCHANGED <<req, answers>>
                   \/ f.pci \notin {"SF", "FF"} /\ ~native
  <2>1. CASE RecvFirst
    <3>1. PICK f : /\ Take(f)
                   /\ \/ f.pci = "SF" /\ Return(TRUE, <<f>>) /\ UNCHANGED bus
                      \/ /\ f.pci = "FF"
                         /\ out' = <<f>> /\ total' = f.n /\ expected_sn' = 1 /\ pc' = "more"
                         /\ bus' = Append(bus, Flow(f.msg, Cts, FcBlockSize))
                         /\ UNCHANGED <<req, answers>>
                      \/ f.pci \notin {"SF", "FF"}
      BY <2>1 DEF RecvFirst
    <3>2. pc = "first" /\ UNCHANGED <<wire, ecu, native>>
      BY <2>1 DEF RecvFirst, luck
    <3>3. Got(f) /\ ~native
      BY <3>1, <3>2, TakeGets, TakeFacts
    <3>. QED  BY <3>1, <3>2, <3>3
  <2>2. CASE NativeRecv
    BY <2>2, NativeGets DEF NativeRecv, luck
  <2>. QED  BY <2>1, <2>2
<1>2. PICK f : /\ Got(f)
               /\ \/ f.pci = "SF" /\ Return(TRUE, <<f>>) /\ UNCHANGED bus
                  \/ native /\ Return(TRUE, <<f>>) /\ UNCHANGED bus
                  \/ /\ ~native /\ f.pci = "FF"
                     /\ out' = <<f>> /\ total' = f.n /\ expected_sn' = 1 /\ pc' = "more"
                     /\ bus' = Append(bus, Flow(f.msg, Cts, FcBlockSize))
                     /\ UNCHANGED <<req, answers>>
                  \/ f.pci \notin {"SF", "FF"} /\ ~native
  BY <1>1
<1>3. q # << >> /\ f = q[1] /\ Tail(q) \in Seq(Inbound) /\ Delivers(Flight', Tail(q))
  BY <1>2, GotNext
<1>4. Answering(q)
  BY <1>1, <1>3 DEF Stage, Between, Asked, LetThrough, Asking, Heard, FlowSent, Bursting,
                   Assembled
<1>5. PICK n : n = RspFrames(req)
  OBVIOUS
<1>a. req \in Requests /\ n \in 1..MaxLength
  BY <1>1, <1>5, InProgress, RspFramesTyped
<1>b. (native => n = 1) /\ (~native => n = RspSize[req])
  BY <1>5 DEF RspFrames
<1>6. /\ req \in Requests /\ n \in Nat /\ n > 0 /\ n \in 1..MaxLength
      /\ (native => n = 1) /\ (~native => n = RspSize[req])
  BY <1>a, <1>b, LengthIs
<1>7. /\ f = Part(req, 1, n) /\ Tail(q) = << >> /\ bus = << >>
      /\ ecu.pc = (IF n = 1 THEN "idle" ELSE "wait_fc") /\ ecu.msg = req /\ ecu.k = 1
  BY <1>3, <1>4, <1>5 DEF Answering
<1>8. f.pci = (IF n = 1 THEN "SF" ELSE "FF") /\ f.n = n /\ f.msg = req
  BY <1>7 DEF Part
<1>9. CASE n = 1
  <2>1. Return(TRUE, <<f>>) /\ UNCHANGED bus
    BY <1>2, <1>8, <1>9
  <2>2. Whole(req) = <<f>>
    BY <1>5, <1>6, <1>7, <1>9, WholeIsParts, OnePart
  <2>3. Answered'
    BY <1>1, <2>1, <2>2, AnsweredMore
  <2>4. Between(<< >>)'
    BY <1>1, <1>7, <1>9, <2>1, ReturnsBetween
  <2>. QED  BY <1>3, <1>7, <2>3, <2>4 DEF InStep, Stage
<1>10. CASE n # 1
  <2>1. /\ ~native /\ n = RspSize[req] /\ out' = <<f>> /\ total' = n /\ expected_sn' = 1
        /\ pc' = "more" /\ bus' = <<Flow(req, Cts, FcBlockSize)>>
        /\ UNCHANGED <<req, answers, ecu, native>>
    <3>1. /\ ~native /\ f.pci = "FF"
          /\ out' = <<f>> /\ total' = f.n /\ expected_sn' = 1 /\ pc' = "more"
          /\ bus' = Append(bus, Flow(f.msg, Cts, FcBlockSize))
          /\ UNCHANGED <<req, answers>>
      BY <1>2, <1>6, <1>8, <1>10
    <3>2. Append(bus, Flow(f.msg, Cts, FcBlockSize)) = <<Flow(req, Cts, FcBlockSize)>>
      BY <1>7, <1>8
    <3>. QED  BY <1>1, <1>6, <1>8, <3>1, <3>2
  <2>2. Len(out') = 1 /\ Len(out') \in 1..(total' - 1)
    BY <1>6, <1>10, <2>1
  <2>3. out' = Parts(req, 1, 1, n)
    BY <1>6, <1>7, <2>1, OnePart
  <2>4. expected_sn' = Len(out') % SnMod
    BY <2>1, <2>2 DEF SnMod
  <2>5. Assembled'
    BY <2>1, <2>2, <2>3, <2>4 DEF Assembled
  <2>6. FlowSent(Tail(q))'
    BY <1>7, <1>10, <2>1, <2>2, <2>5 DEF FlowSent
  <2>7. Answered'
    BY <2>1 DEF Answered, NoTrouble, Whole, RspFrames
  <2>. QED  BY <1>3, <2>6, <2>7 DEF InStep, Stage
<1>. QED  BY <1>9, <1>10

\* What recv() expects next is what the ECU sends next.
LEMMA NextFits ==
  ASSUME NEW m \in Requests, NEW n \in 1..MaxLength, NEW l \in Nat \ {0}, l < n
  PROVE  /\ Part(m, l + 1, n).pci = "CF" /\ InSequence(Part(m, l + 1, n), l % SnMod)
         /\ NextSn(l % SnMod) = (l + 1) % SnMod
<1>1. n # 1 /\ l + 1 # 1 /\ (l + 1) - 1 = l
  BY LengthIs
<1>2. (l % 16) % 16 = l % 16 /\ ((l % 16) + 1) % 16 = (l + 1) % 16
  OBVIOUS
<1>. QED  BY <1>1, <1>2 DEF Part, InSequence, NextSn, SnMod

LEMMA RecvMoreStage ==
  ASSUME IType, IType', Answered, NoTrouble, NEW q \in Seq(Inbound), Delivers(Flight, q),
         Stage(q), RecvMore
  PROVE  InStep' /\ Answered'
<1>1. PICK f :
        /\ Take(f)
        /\ \/ f.pci # "CF"
           \/ f.pci = "CF" /\ ~InSequence(f, expected_sn)
           \/ /\ f.pci = "CF" /\ InSequence(f, expected_sn) /\ Len(out) + 1 < total
              /\ out' = Append(out, f) /\ expected_sn' = NextSn(expected_sn)
              /\ UNCHANGED <<req, pc, idx, total, answers>>
           \/ /\ f.pci = "CF" /\ InSequence(f, expected_sn) /\ Len(out) + 1 >= total
              /\ Return(TRUE, Append(out, f))
  BY DEF RecvMore
<1>2. pc = "more" /\ UNCHANGED <<wire, bus, ecu, native>>
  BY DEF RecvMore, luck
<1>3. Got(f)
  BY <1>1, <1>2, TakeGets
<1>4. q # << >> /\ f = q[1] /\ Tail(q) \in Seq(Inbound) /\ Delivers(Flight', Tail(q))
  BY <1>3, GotNext
<1>5. Bursting(q)
  BY <1>2, <1>4 DEF Stage, Between, Asked, LetThrough, Asking, Heard, Answering, FlowSent
<1>6. PICK n : n = total
  OBVIOUS
<1>7. PICK l : l = Len(out)
  OBVIOUS
<1>8. PICK k : k = ecu.k
  OBVIOUS
<1>9. /\ ~native /\ n = RspSize[req] /\ req \in Requests /\ n \in 1..MaxLength /\ n \in Nat
      /\ l \in 1..(n - 1) /\ k \in l..n /\ bus = << >> /\ ecu.msg = req
      /\ out = Parts(req, 1, l, n) /\ expected_sn = l % SnMod
      /\ ecu.pc = (IF k = n THEN "idle" ELSE "burst")
      /\ q = Parts(req, l + 1, k, n)
  BY <1>2, <1>5, <1>6, <1>7, <1>8, InProgress DEF Bursting, Assembled
<1>10. /\ n \in Nat /\ l \in Nat \ {0} /\ l \in Nat /\ l < n /\ k \in Nat /\ l + 1 \in Nat \ {0}
  BY <1>9
<1>11. l + 1 <= k
  <2>1. CASE k = l
    BY <1>4, <1>9, <1>10, <2>1, NoParts
  <2>. QED  BY <1>9, <1>10, <2>1
<1>12. f = Part(req, l + 1, n) /\ Tail(q) = Parts(req, (l + 1) + 1, k, n)
  <2>1. req \in Requests /\ n \in 1..MaxLength
    BY <1>9
  <2>2. /\ Parts(req, l + 1, k, n)[1] = Part(req, l + 1, n)
        /\ Tail(Parts(req, l + 1, k, n)) = Parts(req, (l + 1) + 1, k, n)
    BY <1>10, <1>11, <2>1, PartsTail
  <2>. QED  BY <1>4, <1>9, <2>2
<1>13. f.pci = "CF" /\ InSequence(f, expected_sn)
  BY <1>9, <1>10, <1>12, NextFits
<1>14. Append(out, f) = Parts(req, 1, l + 1, n)
  <2>. PICK one \in Nat : one = 1
    OBVIOUS
  <2>1. one \in Nat \ {0} /\ one <= l + 1
    BY <1>10
  <2>2. req \in Requests /\ n \in 1..MaxLength
    BY <1>9
  <2>3. Append(Parts(req, one, l, n), Part(req, l + 1, n)) = Parts(req, one, l + 1, n)
    BY <1>10, <2>1, <2>2, PartsAppend
  <2>. QED  BY <1>9, <1>12, <2>3
<1>15. CASE l + 1 < n
  <2>1. /\ out' = Append(out, f) /\ expected_sn' = NextSn(expected_sn)
        /\ UNCHANGED <<req, pc, total, answers>>
    <3>1. Len(out) + 1 < total /\ ~(Len(out) + 1 >= total)
      BY <1>6, <1>7, <1>10, <1>15
    <3>. QED  BY <1>1, <1>13, <3>1
  <2>2. Len(out') = l + 1
    <3>1. out \in Seq(SessionFrame) /\ f \in Inbound
      BY <1>3, GotFacts DEF IType, TesterType
    <3>. QED  BY <1>7, <2>1, <3>1, AppendFacts DEF Inbound
  <2>3. /\ Len(out') \in 1..(total' - 1) /\ out' = Parts(req, 1, Len(out'), n)
        /\ expected_sn' = Len(out') % SnMod
    <3>1. l + 1 \in 1..(n - 1) /\ total' = n
      BY <1>6, <1>10, <1>15, <2>1
    <3>2. req \in Requests /\ n \in 1..MaxLength
      BY <1>9
    <3>3. NextSn(l % SnMod) = (l + 1) % SnMod
      BY <1>10, <3>2, NextFits
    <3>. QED  BY <1>9, <1>14, <2>1, <2>2, <3>1, <3>3
  <2>4. Assembled'
    BY <1>2, <1>6, <1>9, <2>1, <2>3 DEF Assembled
  <2>5. /\ bus' = << >> /\ ecu'.msg = req' /\ ecu'.k \in Len(out')..total'
        /\ ecu' = ecu /\ total' = total
        /\ Tail(q) = Parts(req', Len(out') + 1, ecu'.k, total')
    <3>1. k \in (l + 1)..n
      BY <1>9, <1>10, <1>11
    <3>. QED  BY <1>2, <1>6, <1>8, <1>9, <1>12, <2>1, <2>2, <3>1
  <2>6. Bursting(Tail(q))'
    BY <1>5, <2>4, <2>5 DEF Bursting
  <2>7. Answered'
    BY <1>2, <2>1 DEF Answered, NoTrouble, Whole, RspFrames
  <2>. QED  BY <1>4, <2>6, <2>7 DEF InStep, Stage
<1>16. CASE l + 1 = n
  <2>1. Return(TRUE, Append(out, f))
    <3>1. ~(Len(out) + 1 < total)
      BY <1>6, <1>7, <1>10, <1>16
    <3>. QED  BY <1>1, <1>13, <3>1
  <2>2. Whole(req) = Append(out, f)
    BY <1>9, <1>14, <1>16, WholeIsParts DEF RspFrames
  <2>3. Answered'
    BY <1>2, <2>1, <2>2, AnsweredMore
  <2>4. k = n
    BY <1>9, <1>10, <1>11, <1>16
  <2>5. Tail(q) = << >>
    BY <1>9, <1>12, <1>16, <2>4, NoParts
  <2>6. Between(<< >>)'
    BY <1>2, <1>9, <2>1, <2>4, ReturnsBetween
  <2>. QED  BY <1>4, <2>3, <2>5, <2>6 DEF InStep, Stage
<1>. QED  BY <1>9, <1>10, <1>15, <1>16

\* The tester reads the channel, and finds nothing in rx_buf_ that it looks for.
LEMMA FetchStage ==
  ASSUME IType, IType', NEW q \in Seq(Inbound), Delivers(Flight, q), Stage(q), Fetch
  PROVE  InStep' /\ UNCHANGED answers
<1>1. Flight \in Seq(Inbound) /\ rx_buf_ \in Seq(Inbound) /\ wire \in Seq(Inbound)
  BY FlightFacts DEF IType, LinkType
<1>. PICK F : F = Flight'
  OBVIOUS
<1>. PICK d : d = Len(rx_buf_)
  OBVIOUS
<1>2. Drops(Flight, d, F)
  BY FetchDrops
<1>3. \A i \in 1..d : Flight[i] = rx_buf_[i] /\ ~Matches(rx_buf_[i])
  BY <1>1, ConcatFacts DEF Flight, Fetch
<1>4. d \in 0..Len(Flight) /\ F \in Seq(Inbound)
  BY <1>2 DEF Drops
<1>5. Delivers(F, q)
  BY <1>1, <1>2, <1>3, <1>4, DeliversSkip
<1>6. Stage(q)' /\ UNCHANGED answers
  BY StageSame DEF Fetch, luck, tester
<1>. QED  BY <1>5, <1>6 DEF InStep

\* A deadline that passes when nothing comes would be trouble of its own, and there
\* is no stage in which nothing comes.
LEMMA NotQuiet ==
  ASSUME IType, NEW q \in Seq(Inbound), Delivers(Flight, q), Stage(q), Quiet,
         pc \in {"fc", "first", "more"},
         \A j \in 1..Len(rx_buf_) : ~Matches(rx_buf_[j])
  PROVE  FALSE
<1>1. rx_buf_ \in Seq(Inbound) /\ wire \in Seq(Inbound) /\ Flight \in Seq(Inbound)
  BY FlightFacts DEF IType, LinkType
<1>2. \A i \in 1..Len(Flight) : ~Matches(Flight[i])
  <2>. TAKE i \in 1..Len(Flight)
  <2>1. Len(Flight) = Len(rx_buf_) + Len(wire) /\ Len(rx_buf_) \in Nat /\ Len(wire) \in Nat
    BY <1>1, FlightFacts
  <2>2. i \in 1..Len(rx_buf_) \/ \E k \in 1..Len(wire) : i = Len(rx_buf_) + k
    <3>. PICK a \in Nat : a = Len(rx_buf_)
      BY <2>1
    <3>. PICK b \in Nat : b = Len(wire)
      BY <2>1
    <3>1. i \in 1..(a + b)
      BY <2>1
    <3>2. i \in 1..a \/ \E k \in 1..b : i = a + k
      BY <3>1, TwoParts, ZenonT(60)
    <3>. QED  BY <3>2
  <2>3. CASE i \in 1..Len(rx_buf_)
    <3>1. Flight[i] = rx_buf_[i]
      BY <1>1, <2>3, ConcatFacts DEF Flight
    <3>. QED  BY <2>3, <3>1
  <2>4. CASE \E k \in 1..Len(wire) : i = Len(rx_buf_) + k
    <3>1. PICK k \in 1..Len(wire) : i = Len(rx_buf_) + k
      BY <2>4
    <3>2. Flight[i] = wire[k]
      BY <1>1, <3>1, ConcatFacts DEF Flight
    <3>. QED  BY <3>2 DEF Quiet
  <2>. QED  BY <2>2, <2>3, <2>4
<1>3. q = << >> /\ bus = << >> /\ ecu.pc \in {"idle", "wait_fc", "recv"}
  BY <1>1, <1>2, DeliversSome DEF Quiet
<1>4. ~Between(q) /\ ~Asked(q) /\ ~LetThrough(q) /\ ~Heard(q) /\ ~Answering(q) /\ ~FlowSent(q)
  BY <1>3 DEF Between, Asked, LetThrough, Heard, Answering, FlowSent
<1>5. ~Asking(q)
  <2>. SUFFICES ASSUME Asking(q) PROVE FALSE
    OBVIOUS
  <2>1. PICK n : n = ReqSize[req]
    OBVIOUS
  <2>2. PICK k : k = ecu.k
    OBVIOUS
  <2>3. pc = "first" /\ Written = n
    BY <2>1 DEF Asking, Written
  <2>4. /\ req \in Requests /\ n \in 1..MaxLength /\ n \in Nat /\ k \in Nat /\ k > 0
    BY <2>1, <2>2, WrittenFacts
  <2>5. k < n /\ bus = Parts(req, k + 1, n, n)
    BY <2>1, <2>2, <2>3 DEF Asking
  <2>6. k + 1 \in Nat \ {0} /\ k + 1 <= n
    BY <2>4, <2>5
  <2>. QED  BY <1>3, <2>4, <2>5, <2>6, PartsTail
<1>6. ~Bursting(q)
  <2>. SUFFICES ASSUME Bursting(q) PROVE FALSE
    OBVIOUS
  <2>1. PICK n : n = total
    OBVIOUS
  <2>2. PICK k : k = ecu.k
    OBVIOUS
  <2>3. PICK l : l = Len(out)
    OBVIOUS
  <2>4. /\ req \in Requests /\ n \in 1..MaxLength /\ n \in Nat
    BY <2>1, InProgress DEF Bursting, Assembled
  <2>5. /\ l \in 1..(n - 1) /\ k \in l..n /\ q = Parts(req, l + 1, k, n)
        /\ ecu.pc = (IF k = n THEN "idle" ELSE "burst")
    BY <2>1, <2>2, <2>3 DEF Bursting, Assembled
  <2>6. k = n
    BY <1>3, <2>5
  <2>7. l + 1 \in Nat \ {0} /\ l + 1 <= k /\ k \in Nat
    BY <2>4, <2>5, <2>6
  <2>8. Parts(req, l + 1, k, n) # << >>
    BY <2>4, <2>7, PartsTail
  <2>. QED  BY <1>3, <2>5, <2>8
<1>. QED  BY <1>4, <1>5, <1>6 DEF Stage

LEMMA SumIsZero ==
  ASSUME NEW a \in Nat, NEW b \in Nat, NEW c \in Nat, a + b + c = 0
  PROVE  a = 0 /\ b = 0 /\ c = 0
OBVIOUS

\* The deadlines, and an adapter that fails.
LEMMA NoTimeout ==
  ASSUME IType, IType', NEW q \in Seq(Inbound), Delivers(Flight, q), Stage(q), NoTrouble',
         ReadTimesOut \/ AssemblyTimesOut \/ NativeSendFails \/ NativeRecvFails
  PROVE  FALSE
<1>1. /\ lost \in Nat /\ held \in Nat /\ early \in Nat
      /\ lost' \in Nat /\ held' \in Nat /\ early' \in Nat
  BY Sizes DEF IType, LuckType
<1>2. lost' = 0 /\ held' = 0 /\ early' = 0
  <2>1. lost' + held' + early' = 0
    BY DEF NoTrouble
  <2>. QED  BY <1>1, <2>1, SumIsZero
<1>a. ~TooEarly /\ lost' # lost + 1
  BY <1>1, <1>2 DEF TooEarly
<1>3. ~AssemblyTimesOut /\ ~NativeSendFails
  BY <1>a DEF AssemblyTimesOut, NativeSendFails
<1>4. ~ReadTimesOut
  BY <1>a, NotQuiet DEF ReadTimesOut, NothingComes
<1>5. ~NativeRecvFails
  <2>. SUFFICES ASSUME NativeRecvFails PROVE FALSE
    OBVIOUS
  <2>1. native /\ Quiet /\ pc = "first"
    BY <1>a DEF NativeRecvFails, NothingComes
  <2>2. rx_buf_ = << >>
    BY <2>1 DEF IType, LinkType
  <2>. QED  BY <2>1, <2>2, NotQuiet
<1>. QED  BY <1>3, <1>4, <1>5

-----------------------------------------------------------------------------
(* The ECU's steps, and those of other nodes.                               *)

\* Trouble does not go away.
LEMMA TroubleStays ==
  ASSUME IType, IType', [Next]_vars, NoTrouble'
  PROVE  NoTrouble /\ UNCHANGED <<lost, held, early>>
<1>1. /\ lost \in Nat /\ held \in Nat /\ early \in Nat
      /\ lost' \in Nat /\ held' \in Nat /\ early' \in Nat
  BY Sizes DEF IType, LuckType
<1>2. lost' = 0 /\ held' = 0 /\ early' = 0
  <2>1. lost' + held' + early' = 0
    BY DEF NoTrouble
  <2>. QED  BY <1>1, <2>1, SumIsZero
<1>3. /\ lost' = lost \/ lost' = lost + 1
      /\ held' = held \/ held' = held + 1
      /\ early' = early \/ early' = early + 1
  <2>1. CASE Tester
    BY <2>1 DEF Tester, Fetch, SendFirst, SendGetsFlow, SendConsecutive, RecvFirst, RecvMore,
               ReadTimesOut, AssemblyTimesOut, NativeSend, NativeSendFails, NativeRecv,
               NativeRecvFails, NothingComes, TooEarly, luck
  <2>2. CASE Ecu
    BY <2>2 DEF Ecu, EcuHearsRequest, EcuHearsConsecutive, EcuHearsFlow, EcuResumes,
               EcuAnswers, EcuSendsConsecutive, luck
  <2>3. CASE ForeignFrame \/ LoseFrame \/ Finished \/ UNCHANGED vars
    BY <2>3 DEF ForeignFrame, LoseFrame, Finished, vars, luck
  <2>. QED  BY <2>1, <2>2, <2>3 DEF Next
<1>4. lost = 0 /\ held = 0 /\ early = 0
  BY <1>1, <1>2, <1>3
<1>. QED  BY <1>2, <1>4 DEF NoTrouble

\* While a request goes out, the ECU hears its consecutive frames.
LEMMA AskingHead ==
  ASSUME IType, NEW q, Asking(q), bus # << >>
  PROVE  /\ Head(bus) = Part(req, ecu.k + 1, ReqSize[req]) /\ Head(bus).pci = "CF"
         /\ Tail(bus) = Parts(req, (ecu.k + 1) + 1, Written, ReqSize[req])
         /\ ecu.k + 1 <= Written
<1>1. PICK n : n = ReqSize[req]
  OBVIOUS
<1>2. PICK w : w = Written
  OBVIOUS
<1>3. PICK k : k = ecu.k
  OBVIOUS
<1>4. /\ req \in Requests /\ n \in 1..MaxLength /\ n \in Nat /\ k \in Nat /\ k > 0
      /\ k <= w /\ w \in Nat
  BY <1>1, <1>2, <1>3, WrittenFacts
<1>5. k < n /\ bus = Parts(req, k + 1, w, n)
  BY <1>1, <1>2, <1>3 DEF Asking
<1>6. k # w
  BY <1>4, <1>5, NoParts
<1>7. k + 1 \in Nat \ {0} /\ k + 1 <= w
  BY <1>4, <1>6
<1>8. /\ Parts(req, k + 1, w, n)[1] = Part(req, k + 1, n)
      /\ Tail(Parts(req, k + 1, w, n)) = Parts(req, (k + 1) + 1, w, n)
  BY <1>4, <1>7, PartsTail
<1>9. Head(bus) = Part(req, k + 1, n) /\ Tail(bus) = Parts(req, (k + 1) + 1, w, n)
  BY <1>5, <1>8, HeadFacts
<1>10. n # 1 /\ k + 1 # 1
  BY <1>4, <1>5
<1>11. Head(bus).pci = "CF"
  BY <1>9, <1>10 DEF Part
<1>. QED  BY <1>1, <1>2, <1>3, <1>7, <1>9, <1>11

\* The first frame of a request is the only one that the ECU takes for a request.
LEMMA EcuHearsRequestStage ==
  ASSUME IType, IType', NEW q \in Seq(Inbound), Delivers(Flight, q), Stage(q),
         EcuHearsRequest, UNCHANGED held
  PROVE  InStep' /\ UNCHANGED answers
<1>1. /\ bus # << >> /\ bus' = Tail(bus) /\ UNCHANGED <<tester, rx_buf_, native>>
      /\ \/ /\ Head(bus).pci = "SF"
            /\ ecu' = [pc |-> "answer", msg |-> Head(bus).msg, k |-> 0, block |-> 0,
                       credit |-> 0]
            /\ UNCHANGED wire
         \/ /\ Head(bus).pci = "FF"
            /\ \E fc \in EcuFlows :
                 /\ held' = IF fc = LetsAllThrough THEN held ELSE held + 1
                 /\ wire' = Append(wire, Flow(Head(bus).msg, fc.status, fc.block))
                 /\ ecu' = [pc |-> EcuThen[fc.status], msg |-> Head(bus).msg, k |-> 1,
                            block |-> fc.block, credit |-> fc.block]
  BY DEF EcuHearsRequest
<1>2. Head(bus).pci \in {"SF", "FF"}
  BY <1>1
<1>3. ~Between(q) /\ ~LetThrough(q) /\ ~Heard(q) /\ ~Answering(q) /\ ~Bursting(q)
  BY <1>1 DEF Between, LetThrough, Heard, Answering, Bursting
<1>4. ~FlowSent(q)
  BY <1>2 DEF FlowSent, Flow
<1>5. ~Asking(q)
  BY <1>1, <1>2, AskingHead
<1>6. Asked(q)
  BY <1>3, <1>4, <1>5 DEF Stage
<1>7. /\ Head(bus) = Part(req, 1, ReqFrames) /\ bus' = << >> /\ q = << >>
      /\ pc' = (IF ReqFrames = 1 THEN "first" ELSE "fc") /\ req' = req
  BY <1>1, <1>6 DEF Asked, tester
<1>8. Head(bus).msg = req /\ Head(bus).pci = IF ReqFrames = 1 THEN "SF" ELSE "FF"
  BY <1>7 DEF Part
<1>9. CASE ReqFrames = 1
  <2>1. /\ ecu' = [pc |-> "answer", msg |-> req, k |-> 0, block |-> 0, credit |-> 0]
        /\ UNCHANGED wire
    BY <1>1, <1>8, <1>9
  <2>2. Heard(q)'
    BY <1>7, <1>9, <2>1 DEF Heard
  <2>3. Flight' = Flight
    BY <1>1, <2>1 DEF Flight
  <2>4. Delivers(Flight', q)
    BY <2>3
  <2>. QED  BY <1>1, <2>2, <2>4 DEF InStep, Stage, tester
<1>10. CASE ReqFrames # 1
  <2>1. PICK fc \in EcuFlows :
          /\ held' = IF fc = LetsAllThrough THEN held ELSE held + 1
          /\ wire' = Append(wire, Flow(req, fc.status, fc.block))
          /\ ecu' = [pc |-> EcuThen[fc.status], msg |-> req, k |-> 1,
                     block |-> fc.block, credit |-> fc.block]
    BY <1>1, <1>8, <1>10
  <2>2. fc = LetsAllThrough
    <3>1. held \in Nat
      BY Sizes DEF IType, LuckType
    <3>. QED  BY <2>1, <3>1
  <2>3. EcuThen[Cts] = "recv"
    BY DEF EcuThen, Cts, Wait, Overflow
  <2>4. /\ wire' = Append(wire, Flow(req, Cts, 0))
        /\ ecu' = [pc |-> "recv", msg |-> req, k |-> 1, block |-> 0, credit |-> 0]
    BY <2>1, <2>2, <2>3 DEF LetsAllThrough
  <2>5. ~native /\ req \in Requests
    BY <1>6, <1>10, InProgress DEF ReqFrames, Asked
  <2>6. Flow(req, Cts, 0) \in Inbound /\ Matches(Flow(req, Cts, 0))
    <3>1. Cts \in {Cts, Wait, Overflow} /\ 0 \in Nat
      OBVIOUS
    <3>. QED  BY <2>5, <3>1, FlowTyped, FlowMatches
  <2>7. Flight' = Append(Flight, Flow(req, Cts, 0))
    BY <1>1, <2>4, <2>6, FlightAppend
  <2>8. Append(q, Flow(req, Cts, 0)) = <<Flow(req, Cts, 0)>> /\ Append(q, Flow(req, Cts, 0)) \in Seq(Inbound)
    BY <1>7, <2>6
  <2>9. Delivers(Flight', <<Flow(req, Cts, 0)>>)
    BY <2>6, <2>7, <2>8, FlightFacts, DeliversMore
  <2>10. LetThrough(<<Flow(req, Cts, 0)>>)'
    BY <1>1, <1>7, <1>10, <2>4, <2>5 DEF LetThrough
  <2>. QED  BY <1>1, <2>8, <2>9, <2>10 DEF InStep, Stage, tester
<1>. QED  BY <1>9, <1>10

LEMMA EcuHearsConsecutiveStage ==
  ASSUME IType, IType', NEW q \in Seq(Inbound), Delivers(Flight, q), Stage(q),
         EcuHearsConsecutive
  PROVE  InStep' /\ UNCHANGED answers
<1>1. bus # << >> /\ Head(bus).pci = "CF" /\ bus' = Tail(bus)
      /\ UNCHANGED <<tester, rx_buf_, native>>
  BY DEF EcuHearsConsecutive, luck
<1>2. ~Between(q) /\ ~LetThrough(q) /\ ~Heard(q) /\ ~Answering(q) /\ ~Bursting(q)
  BY <1>1 DEF Between, LetThrough, Heard, Answering, Bursting
<1>3. ~FlowSent(q) /\ ~Asked(q)
  <2>1. ASSUME FlowSent(q) PROVE FALSE
    BY <1>1, <2>1 DEF FlowSent, Flow
  <2>2. ASSUME Asked(q) PROVE FALSE
    <3>1. Head(bus) = Part(req, 1, ReqFrames)
      BY <2>2 DEF Asked
    <3>. QED  BY <1>1, <3>1 DEF Part
  <2>. QED  BY <2>1, <2>2
<1>4. Asking(q)
  BY <1>2, <1>3 DEF Stage
<1>5. PICK n : n = ReqSize[req]
  OBVIOUS
<1>6. PICK w : w = Written
  OBVIOUS
<1>7. PICK k : k = ecu.k
  OBVIOUS
<1>8. /\ req \in Requests /\ n \in 1..MaxLength /\ n \in Nat /\ k \in Nat /\ k > 0
      /\ w \in Nat /\ w <= n /\ (pc = "cf" => idx = w + 1 /\ idx <= n)
  BY <1>4, <1>5, <1>6, <1>7, WrittenFacts
<1>9. /\ Head(bus) = Part(req, k + 1, n) /\ bus' = Parts(req, (k + 1) + 1, w, n)
      /\ k + 1 <= w
  BY <1>1, <1>4, <1>5, <1>6, <1>7, AskingHead
<1>10. /\ ~native /\ pc \in {"cf", "first"} /\ ecu.pc = "recv" /\ ecu.msg = req
       /\ ecu.credit = 0 /\ q = << >> /\ k < n
  BY <1>4, <1>5, <1>7 DEF Asking
<1>11. Head(bus).low = ecu.k % SnMod /\ Head(bus).n = n
  <2>1. (k + 1) - 1 = k
    BY <1>8
  <2>. QED  BY <1>7, <1>9, <2>1 DEF Part
<1>12. /\ ecu' = [ecu EXCEPT !.pc = IF k + 1 = n THEN "answer" ELSE "recv",
                             !.k = k + 1, !.credit = 0]
       /\ wire' = wire
  <2>1. /\ ecu' = [ecu EXCEPT !.pc = IF ecu.k + 1 = n THEN "answer" ELSE "recv",
                              !.k = ecu.k + 1,
                              !.credit = IF ecu.credit = 1 THEN ecu.block
                                         ELSE IF ecu.credit > 0 THEN ecu.credit - 1 ELSE 0]
        /\ wire' = IF ecu.credit = 1 /\ ~(ecu.k + 1 = n)
                   THEN Append(wire, Flow(ecu.msg, Cts, ecu.block)) ELSE wire
    BY <1>10, <1>11 DEF EcuHearsConsecutive
  <2>2. ecu.credit # 1 /\ ~(ecu.credit > 0)
    BY <1>10
  <2>3. (IF ecu.credit = 1 THEN ecu.block
         ELSE IF ecu.credit > 0 THEN ecu.credit - 1 ELSE 0) = 0
    BY <2>2
  <2>. QED  BY <1>7, <2>1, <2>2, <2>3
<1>13. /\ ecu'.pc = (IF k + 1 = n THEN "answer" ELSE "recv") /\ ecu'.k = k + 1
       /\ ecu'.credit = 0 /\ ecu'.msg = req
  BY <1>10, <1>12 DEF IType, EcuType
<1>14. Delivers(Flight', q)
  <2>1. Flight' = Flight
    BY <1>1, <1>12 DEF Flight
  <2>. QED  BY <2>1
<1>15. req' = req /\ pc' = pc /\ idx' = idx /\ native' = native /\ UNCHANGED answers
  BY <1>1 DEF tester
<1>16. CASE k + 1 = n
  <2>1. w = n /\ pc = "first"
    BY <1>8, <1>9, <1>10, <1>16
  <2>2. bus' = << >>
    BY <1>8, <1>9, <1>16, <2>1, NoParts
  <2>3. Heard(q)'
    BY <1>10, <1>13, <1>15, <1>16, <2>1, <2>2 DEF Heard
  <2>. QED  BY <1>14, <1>15, <2>3 DEF InStep, Stage
<1>17. CASE k + 1 # n
  <2>1. Written' = w
    BY <1>6, <1>15 DEF Written
  <2>2. ecu'.k \in 1..w /\ ecu'.k < n
    BY <1>8, <1>9, <1>10, <1>13, <1>17
  <2>3. bus' = Parts(req', ecu'.k + 1, Written', ReqSize[req'])
    BY <1>5, <1>9, <1>13, <1>15, <2>1
  <2>4. Asking(q)'
    BY <1>5, <1>10, <1>13, <1>15, <1>17, <2>1, <2>2, <2>3 DEF Asking
  <2>. QED  BY <1>14, <1>15, <2>4 DEF InStep, Stage
<1>. QED  BY <1>16, <1>17

\* The flow control of recv() sets the ECU going.
LEMMA EcuHearsFlowStage ==
  ASSUME IType, IType', NEW q \in Seq(Inbound), Delivers(Flight, q), Stage(q), EcuHearsFlow
  PROVE  InStep' /\ UNCHANGED answers
<1>1. bus # << >> /\ Head(bus).pci = "FC" /\ bus' = Tail(bus)
      /\ UNCHANGED <<tester, rx_buf_, wire, native>>
  BY DEF EcuHearsFlow, luck
<1>2. ~Between(q) /\ ~LetThrough(q) /\ ~Heard(q) /\ ~Answering(q) /\ ~Bursting(q)
  BY <1>1 DEF Between, LetThrough, Heard, Answering, Bursting
<1>3. ~Asking(q)
  BY <1>1, AskingHead
<1>4. ~Asked(q)
  <2>. SUFFICES ASSUME Asked(q) PROVE FALSE
    OBVIOUS
  <2>1. Head(bus) = Part(req, 1, ReqFrames)
    BY DEF Asked
  <2>. QED  BY <1>1, <2>1 DEF Part
<1>5. FlowSent(q)
  BY <1>2, <1>3, <1>4 DEF Stage
<1>6. PICK n : n = total
  OBVIOUS
<1>7. /\ Head(bus).n = FcBlockSize /\ bus' = << >> /\ q = << >> /\ ecu.pc = "wait_fc"
      /\ ecu.msg = req /\ ecu.k = 1 /\ Assembled /\ Len(out) = 1 /\ pc = "more"
      /\ n = RspSize[req] /\ Len(out) \in 1..(n - 1)
  BY <1>1, <1>5, <1>6 DEF FlowSent, Assembled, Flow
<1>8. ecu' = [ecu EXCEPT !.pc = "burst", !.credit = FcBlockSize]
  BY <1>7 DEF EcuHearsFlow
<1>9. ecu'.pc = "burst" /\ ecu'.credit = FcBlockSize /\ ecu'.msg = req /\ ecu'.k = 1
  BY <1>7, <1>8 DEF IType, EcuType
<1>10. req' = req /\ out' = out /\ total' = n /\ UNCHANGED answers /\ Assembled'
  BY <1>1, <1>6, <1>7 DEF tester, Assembled
<1>11. req \in Requests /\ n \in 1..MaxLength /\ n \in Nat /\ n # 1 /\ 1 \in 1..n
  BY <1>7, InProgress
<1>12. Parts(req, 1 + 1, 1, n) = << >>
  BY <1>11, NoParts
<1>13. FcBlockSize \in Nat /\ FcBlockSize + 1 - 1 = FcBlockSize
  BY Sizes
<1>14. Bursting(q)'
  <2>1. /\ Assembled' /\ bus' = << >> /\ ecu'.msg = req' /\ ecu'.k = 1 /\ Len(out') = 1
        /\ total' = n /\ ecu'.pc = "burst"
    BY <1>7, <1>9, <1>10
  <2>2. ecu'.k \in Len(out')..total' /\ ecu'.k # total'
    BY <1>11, <2>1
  <2>3. ecu'.credit = IF FcBlockSize = 0 THEN 0 ELSE FcBlockSize + 1 - ecu'.k
    BY <1>9, <1>13
  <2>4. q = Parts(req', Len(out') + 1, ecu'.k, total')
    BY <1>7, <1>10, <1>12, <2>1
  <2>. QED  BY <2>1, <2>2, <2>3, <2>4 DEF Bursting
<1>15. Delivers(Flight', q)
  <2>1. Flight' = Flight
    BY <1>1 DEF Flight
  <2>. QED  BY <2>1
<1>. QED  BY <1>10, <1>14, <1>15 DEF InStep, Stage

\* The ECU writes a frame of its response.
LEMMA EcuWrites ==
  ASSUME IType, NEW q \in Seq(Inbound), Delivers(Flight, q), NEW f \in Inbound, Matches(f),
         wire' = Append(wire, f), UNCHANGED rx_buf_
  PROVE  Append(q, f) \in Seq(Inbound) /\ Delivers(Flight', Append(q, f))
<1>1. Flight' = Append(Flight, f) /\ Flight \in Seq(Inbound)
  BY FlightAppend, FlightFacts
<1>. QED  BY <1>1, AppendFacts, DeliversMore

LEMMA EcuAnswersStage ==
  ASSUME IType, IType', NEW q \in Seq(Inbound), Delivers(Flight, q), Stage(q), EcuAnswers
  PROVE  InStep' /\ UNCHANGED answers
<1>1. /\ ecu.pc = "answer" /\ UNCHANGED <<tester, rx_buf_, bus, native>>
      /\ wire' = Append(wire, Part(ecu.msg, 1, RspFrames(ecu.msg)))
      /\ ecu' = [ecu EXCEPT !.pc = IF RspFrames(ecu.msg) = 1 THEN "idle" ELSE "wait_fc",
                            !.k = 1]
  BY DEF EcuAnswers, luck
<1>2. Heard(q)
  BY <1>1 DEF Stage, Between, Asked, LetThrough, Asking, Answering, FlowSent, Bursting
<1>3. PICK n : n = RspFrames(req)
  OBVIOUS
<1>4. /\ pc = "first" /\ bus = << >> /\ ecu.msg = req /\ q = << >>
  BY <1>2 DEF Heard
<1>5. req \in Requests /\ n \in 1..MaxLength
  BY <1>3, <1>4, InProgress, RspFramesTyped
<1>6. Part(req, 1, n) \in Inbound /\ Matches(Part(req, 1, n))
  BY <1>5, PartTyped, PartMatches
<1>7. /\ Append(q, Part(req, 1, n)) \in Seq(Inbound)
      /\ Delivers(Flight', Append(q, Part(req, 1, n)))
  BY <1>1, <1>3, <1>4, <1>6, EcuWrites
<1>8. Append(q, Part(req, 1, n)) = <<Part(req, 1, n)>>
  BY <1>4
<1>9. /\ ecu'.pc = (IF n = 1 THEN "idle" ELSE "wait_fc") /\ ecu'.msg = req /\ ecu'.k = 1
  BY <1>1, <1>3, <1>4 DEF IType, EcuType
<1>10. /\ req' = req /\ pc' = "first" /\ bus' = << >> /\ n = RspFrames(req)'
       /\ UNCHANGED answers
  BY <1>1, <1>3, <1>4 DEF tester, RspFrames
<1>11. Answering(<<Part(req, 1, n)>>)'
  BY <1>9, <1>10 DEF Answering, RspFrames
<1>. QED  BY <1>7, <1>8, <1>10, <1>11 DEF InStep, Stage

LEMMA EcuSendsConsecutiveStage ==
  ASSUME BlockFits, IType, IType', NEW q \in Seq(Inbound), Delivers(Flight, q), Stage(q),
         EcuSendsConsecutive
  PROVE  InStep' /\ UNCHANGED answers
<1>1. ecu.pc = "burst" /\ UNCHANGED <<tester, rx_buf_, bus, native>>
  BY DEF EcuSendsConsecutive, luck
<1>2. Bursting(q)
  BY <1>1 DEF Stage, Between, Asked, LetThrough, Asking, Heard, Answering, FlowSent
<1>3. PICK n : n = total
  OBVIOUS
<1>4. PICK k : k = ecu.k
  OBVIOUS
<1>5. PICK l : l = Len(out)
  OBVIOUS
<1>6. PICK c : c = ecu.credit
  OBVIOUS
<1>7. /\ Assembled /\ pc = "more" /\ n = RspSize[req] /\ l \in 1..(n - 1) /\ k \in l..n
      /\ k # n /\ bus = << >> /\ ecu.msg = req /\ q = Parts(req, l + 1, k, n)
      /\ c = IF FcBlockSize = 0 THEN 0 ELSE FcBlockSize + 1 - k
  BY <1>1, <1>2, <1>3, <1>4, <1>5, <1>6 DEF Bursting, Assembled
<1>8. req \in Requests /\ n \in 1..MaxLength /\ n \in Nat
  BY <1>7, InProgress
<1>9. /\ k \in Nat /\ k > 0 /\ k < n /\ l \in Nat /\ l > 0 /\ l <= k
      /\ l + 1 \in Nat \ {0} /\ l + 1 <= k + 1 /\ k + 1 \in Nat \ {0}
  BY <1>7, <1>8
<1>10. FcBlockSize \in Nat /\ (FcBlockSize = 0 \/ n <= FcBlockSize + 1)
  BY <1>7, <1>8, Sizes DEF BlockFits
<1>11. /\ k + 1 # n => c # 1
       /\ k + 1 # n => (IF c > 0 THEN c - 1 ELSE 0)
                       = IF FcBlockSize = 0 THEN 0 ELSE FcBlockSize + 1 - (k + 1)
  BY <1>7, <1>8, <1>9, <1>10
<1>12. /\ wire' = Append(wire, Part(req, k + 1, n))
       /\ ecu' = [ecu EXCEPT !.k = k + 1,
                             !.pc = IF k + 1 = n THEN "idle"
                                    ELSE IF c = 1 THEN "wait_fc" ELSE "burst",
                             !.credit = IF c > 0 THEN c - 1 ELSE 0]
  BY <1>4, <1>6, <1>7 DEF EcuSendsConsecutive
<1>13. /\ ecu'.k = k + 1 /\ ecu'.msg = req
       /\ ecu'.pc = (IF k + 1 = n THEN "idle" ELSE IF c = 1 THEN "wait_fc" ELSE "burst")
       /\ ecu'.credit = IF c > 0 THEN c - 1 ELSE 0
  BY <1>7, <1>12 DEF IType, EcuType
<1>14. Part(req, k + 1, n) \in Inbound /\ Matches(Part(req, k + 1, n))
  BY <1>8, <1>9, PartTyped, PartMatches
<1>15. /\ Append(q, Part(req, k + 1, n)) \in Seq(Inbound)
       /\ Delivers(Flight', Append(q, Part(req, k + 1, n)))
  BY <1>1, <1>12, <1>14, EcuWrites
<1>16. Append(q, Part(req, k + 1, n)) = Parts(req, l + 1, k + 1, n)
  <2>1. /\ req \in Requests /\ n \in 1..MaxLength /\ l + 1 \in Nat \ {0}
        /\ k \in Nat /\ l + 1 <= k + 1
    BY <1>8, <1>9
  <2>2. Append(Parts(req, l + 1, k, n), Part(req, k + 1, n)) = Parts(req, l + 1, k + 1, n)
    BY ONLY <2>1, PartsAppend
  <2>. QED  BY <1>7, <2>2
<1>17. /\ req' = req /\ out' = out /\ total' = n /\ bus' = << >> /\ UNCHANGED answers
       /\ Assembled'
  BY <1>1, <1>3, <1>7 DEF tester, Assembled
<1>18. Bursting(Parts(req, l + 1, k + 1, n))'
  <2>1. ecu'.k \in Len(out')..total'
    BY <1>5, <1>8, <1>9, <1>13, <1>17
  <2>2. ecu'.pc = IF ecu'.k = total' THEN "idle" ELSE "burst"
    BY <1>11, <1>13, <1>17
  <2>3. ecu'.pc = "burst" =>
          ecu'.credit = IF FcBlockSize = 0 THEN 0 ELSE FcBlockSize + 1 - ecu'.k
    BY <1>11, <1>13
  <2>. QED  BY <1>5, <1>13, <1>17, <2>1, <2>2, <2>3 DEF Bursting
<1>. QED  BY <1>15, <1>16, <1>17, <1>18 DEF InStep, Stage

LEMMA ForeignFrameStage ==
  ASSUME IType, IType', NEW q \in Seq(Inbound), Delivers(Flight, q), Stage(q), ForeignFrame
  PROVE  InStep' /\ UNCHANGED answers
<1>1. PICK f : f = [Part(0, 1, 1) EXCEPT !.id = "other"]
  OBVIOUS
<1>2. f \in Inbound /\ ~Matches(f)
  BY <1>1, ForeignTyped
<1>3. wire' = Append(wire, f) /\ UNCHANGED <<tester, rx_buf_, bus, ecu, native>>
  BY <1>1 DEF ForeignFrame
<1>4. Flight' = Append(Flight, f) /\ Flight \in Seq(Inbound)
  BY <1>2, <1>3, FlightAppend, FlightFacts
<1>5. Delivers(Flight', q)
  BY <1>2, <1>4, DeliversOther
<1>6. Stage(q)' /\ UNCHANGED answers
  BY <1>3, StageSame DEF tester
<1>. QED  BY <1>5, <1>6 DEF InStep

-----------------------------------------------------------------------------
(* Every answer is the whole of its own response.                           *)

LEMMA InitInStep == Init => IInv
<1>. SUFFICES ASSUME Init PROVE IInv
  OBVIOUS
<1>1. Flight = << >> /\ << >> \in Seq(Inbound)
  BY DEF Init, Flight
<1>2. Delivers(Flight, << >>)
  BY <1>1, DeliversNone
<1>3. Stage(<< >>)
  BY DEF Init, Stage, Between
<1>4. Answered
  BY DEF Init, Answered
<1>. QED  BY <1>1, <1>2, <1>3, <1>4, InitTyped DEF IInv, InStep

LEMMA StepInStep ==
  ASSUME BlockFits, IInv, [Next]_vars
  PROVE  IInv'
<1>1. IType /\ IType'
  BY StepTyped DEF IInv
<1>2. CASE ~NoTrouble'
  BY <1>1, <1>2 DEF IInv, Answered, NoTrouble
<1>3. CASE NoTrouble'
  <2>1. NoTrouble /\ UNCHANGED <<lost, held, early>>
    BY <1>1, <1>3, TroubleStays
  <2>2. Answered /\ InStep
    BY <2>1 DEF IInv
  <2>3. PICK q \in Seq(Inbound) : Delivers(Flight, q) /\ Stage(q)
    BY <2>2 DEF InStep
  <2>4. ASSUME UNCHANGED <<answers, native>> PROVE Answered'
    BY <2>1, <2>2, <2>4 DEF Answered, NoTrouble, Whole, RspFrames
  <2>5. CASE Fetch
    BY <1>1, <2>3, <2>4, <2>5, FetchStage DEF IInv, Fetch, luck
  <2>6. CASE SendFirst \/ NativeSend
    <3>1. Stage(q)'
      BY <1>1, <2>3, <2>6, SendFirstStage
    <3>2. UNCHANGED <<rx_buf_, wire, answers, native>>
      BY <2>6 DEF SendFirst, NativeSend, luck
    <3>3. Delivers(Flight', q)
      BY <2>3, <3>2 DEF Flight
    <3>. QED  BY <1>1, <2>4, <3>1, <3>2, <3>3 DEF IInv, InStep
  <2>7. CASE SendGetsFlow
    BY <1>1, <2>3, <2>4, <2>7, SendGetsFlowStage DEF IInv, SendGetsFlow, luck
  <2>8. CASE SendConsecutive
    <3>1. Stage(q)'
      BY <1>1, <2>3, <2>8, SendConsecutiveStage
    <3>2. UNCHANGED <<rx_buf_, wire, answers, native>>
      BY <2>8 DEF SendConsecutive, luck
    <3>3. Delivers(Flight', q)
      BY <2>3, <3>2 DEF Flight
    <3>. QED  BY <1>1, <2>4, <3>1, <3>2, <3>3 DEF IInv, InStep
  <2>9. CASE RecvFirst \/ NativeRecv
    BY <1>1, <2>1, <2>2, <2>3, <2>9, RecvFirstStage DEF IInv
  <2>10. CASE RecvMore
    BY <1>1, <2>1, <2>2, <2>3, <2>10, RecvMoreStage DEF IInv
  <2>11. CASE ReadTimesOut \/ AssemblyTimesOut \/ NativeSendFails \/ NativeRecvFails
    BY <1>1, <1>3, <2>3, <2>11, NoTimeout
  <2>12. CASE EcuHearsRequest
    BY <1>1, <2>1, <2>3, <2>4, <2>12, EcuHearsRequestStage DEF IInv, EcuHearsRequest
  <2>13. CASE EcuHearsConsecutive
    BY <1>1, <2>3, <2>4, <2>13, EcuHearsConsecutiveStage DEF IInv, EcuHearsConsecutive, luck
  <2>14. CASE EcuHearsFlow
    BY <1>1, <2>3, <2>4, <2>14, EcuHearsFlowStage DEF IInv, EcuHearsFlow, luck
  <2>15. CASE EcuResumes
    <3>1. ecu.pc = "hold"
      BY <2>15 DEF EcuResumes
    <3>. QED  BY <2>3, <3>1 DEF Stage, Between, Asked, LetThrough, Asking, Heard, Answering,
                               FlowSent, Bursting
  <2>16. CASE EcuAnswers
    BY <1>1, <2>3, <2>4, <2>16, EcuAnswersStage DEF IInv, EcuAnswers, luck
  <2>17. CASE EcuSendsConsecutive
    BY <1>1, <2>3, <2>4, <2>17, EcuSendsConsecutiveStage DEF IInv, EcuSendsConsecutive, luck
  <2>18. CASE ForeignFrame
    BY <1>1, <2>3, <2>4, <2>18, ForeignFrameStage DEF IInv, ForeignFrame
  <2>19. CASE LoseFrame
    <3>1. lost' = lost + 1 /\ lost' = lost /\ lost \in Nat
      BY <1>1, <2>1, <2>19, Sizes DEF LoseFrame, IType, LuckType
    <3>. QED  BY <3>1
  <2>20. CASE UNCHANGED vars
    <3>1. UNCHANGED <<tester, bus, ecu, native, rx_buf_, wire, answers>>
      BY <2>20 DEF vars, tester, luck
    <3>2. Stage(q)'
      BY <2>3, <3>1, StageSame
    <3>3. Delivers(Flight', q)
      BY <2>3, <3>1 DEF Flight
    <3>. QED  BY <1>1, <2>4, <3>1, <3>2, <3>3 DEF IInv, InStep
  <2>21. CASE Tester
    BY <2>5, <2>6, <2>7, <2>8, <2>9, <2>10, <2>11, <2>21 DEF Tester
  <2>22. CASE Ecu
    BY <2>12, <2>13, <2>14, <2>15, <2>16, <2>17, <2>22 DEF Ecu
  <2>. QED  BY <2>18, <2>19, <2>20, <2>21, <2>22 DEF Next, Finished
<1>. QED  BY <1>2, <1>3

\* As long as no frame is lost, no deadline passes too early and the ECU lets every
\* long request through at once, every request is answered with the whole of its own
\* response, for every list of messages and every fc_block_size that a response fits
\* into: recv() sends one flow control and no other, so that a longer response is
\* never completed (isotp.cpp:59-92, 97-148, 172-235).
THEOREM AnswersAreWhole == BlockFits => (Spec => []Answered)
<1>. SUFFICES ASSUME BlockFits PROVE Spec => []Answered
  OBVIOUS
<1>1. IInv /\ [Next]_vars => IInv'
  BY StepInStep
<1>2. IInv => Answered
  BY DEF IInv
<1>. QED  BY <1>1, <1>2, InitInStep, PTL DEF Spec
=============================================================================
