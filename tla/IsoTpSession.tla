---------------------------- MODULE IsoTpSession ----------------------------
(***************************************************************************)
(* IsoTpTransport::request (src/src/isotp.cpp) called again and again by    *)
(* one tester, against an ECU on a bus that also carries frames of other    *)
(* ids.  The frames read from the channel and not yet consumed survive in   *)
(* rx_buf_ from one call to the next, and nothing empties it: what one      *)
(* exchange leaves behind is the first thing the next one reads.            *)
(*                                                                          *)
(* The bytes are IsoTpTransfer's concern.  Here a message is known by its   *)
(* number (0 for the traffic of other nodes) and its length in frames, and  *)
(* a frame by the message it belongs to and its place in it.  low is the    *)
(* lower nibble of data[0], as in IsoTpFrames.                              *)
(*                                                                          *)
(* A channel may have ISO-TP of its own (supportsHwIsoTp): then a PDU is    *)
(* handed over whole, in either direction, and the responses that wait are  *)
(* in the adapter and not in rx_buf_.                                       *)
(*                                                                          *)
(* The ECU, the bus and such an adapter are not part of the SDK: their      *)
(* actions are those an ISO 15765-2 node is allowed.                        *)
(***************************************************************************)
EXTENDS IsoTpFrames, FiniteSetsExt

CONSTANTS ReqSize, RspSize,  \* frames of request r and of its response
          FcBlockSize,       \* IsoTpConfig::fc_block_size
          EcuFlows,          \* the flow controls the ECU may answer with
          HwIsoTp,           \* what supportsHwIsoTp() may say
          MaxForeign,        \* bound on the frames of other ids
          MaxLost,           \* bound on the frames lost
          MaxHeld,           \* bound on the answers that hold the tester up
          MaxEarly           \* bound on the deadlines that pass too early

Requests == 1..Len(ReqSize)

MaxLength == 2 * SnMod   \* bound on the frames of a message

\* The flow control that asks for all the rest at once.
LetsAllThrough == [status |-> Cts, block |-> 0]

ASSUME SessionAssumption ==
  /\ ReqSize \in Seq(1..MaxLength) /\ RspSize \in Seq(1..MaxLength)
  /\ Len(ReqSize) = Len(RspSize) /\ ReqSize # << >>
  /\ FcBlockSize \in Nat
  /\ EcuFlows \subseteq [status: {Cts, Wait, Overflow}, block: Nat]
  /\ LetsAllThrough \in EcuFlows
  /\ HwIsoTp \subseteq BOOLEAN
  /\ MaxForeign \in Nat /\ MaxLost \in Nat /\ MaxHeld \in Nat /\ MaxEarly \in Nat

VARIABLES req,           \* the request in progress
          pc,            \* where send() or recv() stands
          idx, total, out, expected_sn,     \* their locals
          rx_buf_,       \* frames read from the channel but not yet consumed
          answers,       \* what the calls of request() returned
          wire, bus,     \* frames on their way to the tester, and to the ECU
          ecu,           \* the ECU: what it does, for which request, how far
          foreign, lost, \* how many frames came from other nodes, and were lost
          held,          \* how many requests the ECU did not just let through
          early,         \* how many deadlines passed too early
          native         \* supportsHwIsoTp()

tester == <<req, pc, idx, total, out, expected_sn, answers>>
luck   == <<foreign, lost, held, early, native>>
vars   == <<tester, rx_buf_, wire, bus, ecu, luck>>

SessionFrame == [id: {"rx", "other"}, pci: {"SF", "FF", "CF", "FC"},
                 low: Nibble, msg: Requests \cup {0}, n: Nat]

Result == [ok: BOOLEAN, pdu: Seq(SessionFrame)]

TypeOK ==
  /\ req \in 1..(Len(ReqSize) + 1)
  /\ pc \in {"send", "fc", "cf", "first", "more", "done"}
  /\ idx \in 1..(MaxLength + 1) /\ total \in 0..MaxLength
  /\ out \in Seq(SessionFrame) /\ expected_sn \in Nibble
  /\ rx_buf_ \in Seq(SessionFrame)
  /\ answers \in Seq(Result) /\ Len(answers) = req - 1
  /\ wire \in Seq(SessionFrame) /\ bus \in Seq(SessionFrame)
  /\ ecu \in [pc: {"idle", "hold", "recv", "answer", "wait_fc", "burst"},
              msg: Requests \cup {0}, k: Nat, block: Nat, credit: Nat]
  /\ foreign \in 0..MaxForeign /\ lost \in 0..MaxLost
  /\ held \in 0..MaxHeld /\ early \in 0..MaxEarly
  /\ native \in HwIsoTp /\ (native => rx_buf_ = << >>)

Init ==
  /\ req = 1 /\ pc = "send"
  /\ idx = 1 /\ total = 0 /\ out = << >> /\ expected_sn = 1
  /\ rx_buf_ = << >> /\ answers = << >>
  /\ wire = << >> /\ bus = << >>
  /\ ecu = [pc |-> "idle", msg |-> 0, k |-> 0, block |-> 0, credit |-> 0]
  /\ foreign = 0 /\ lost = 0 /\ held = 0 /\ early = 0
  /\ native \in HwIsoTp

\* Frame k of a message of n frames.  To an adapter with ISO-TP of its own a PDU
\* is one unit.
Part(msg, k, n) ==
  [id |-> "rx", msg |-> msg, n |-> n, low |-> (k - 1) % SnMod,
   pci |-> IF n = 1 THEN "SF" ELSE IF k = 1 THEN "FF" ELSE "CF"]

RspFrames(msg) == IF native THEN 1 ELSE RspSize[msg]

Flow(msg, status, blockSize) ==
  [id |-> "rx", msg |-> msg, n |-> blockSize, low |-> status, pci |-> "FC"]

-----------------------------------------------------------------------------
(* read_matching.                                                           *)

MatchesAny(f) == TRUE
Matches(f) == f.id = "rx"

\* What rx_buf_ holds after frame j has been returned from it.
AfterFrontKept(buf, j) == SubSeq(buf, j, Len(buf))
AfterBatchLost(buf, j) == << >>
After(buf, j) == SubSeq(buf, j + 1, Len(buf))

\* The channel is read only when rx_buf_ has nothing for us, and then whatever
\* it returns is queued: one frame, or several at once.
Fetch ==
  /\ ~native
  /\ pc \in {"fc", "first", "more"}
  /\ \A j \in 1..Len(rx_buf_) : ~Matches(rx_buf_[j])
  /\ \E k \in 1..Len(wire) :
       /\ rx_buf_' = SubSeq(wire, 1, k)
       /\ wire' = SubSeq(wire, k + 1, Len(wire))
  /\ UNCHANGED <<tester, bus, ecu, luck>>

\* The first frame of our id is returned; those before it are dropped.
Take(f) ==
  \E j \in 1..Len(rx_buf_) :
    /\ f = rx_buf_[j] /\ Matches(f)
    /\ \A i \in 1..(j - 1) : ~Matches(rx_buf_[i])
    /\ rx_buf_' = After(rx_buf_, j)

Buffered == {rx_buf_[j] : j \in 1..Len(rx_buf_)}

\* request() returns, and the next one begins.
Return(ok, pdu) ==
  /\ answers' = Append(answers, [ok |-> ok, pdu |-> pdu])
  /\ req' = req + 1
  /\ pc' = IF req < Len(ReqSize) THEN "send" ELSE "done"
  /\ idx' = 1 /\ total' = 0 /\ out' = << >> /\ expected_sn' = 1

Fail == Return(FALSE, out)

-----------------------------------------------------------------------------
(* send.                                                                    *)

\* The single frame, or the first frame.
SendFirst ==
  /\ pc = "send" /\ ~native
  /\ bus' = Append(bus, Part(req, 1, ReqSize[req]))
  /\ pc' = IF ReqSize[req] = 1 THEN "first" ELSE "fc"
  /\ idx' = 2
  /\ UNCHANGED <<req, total, out, expected_sn, answers, rx_buf_, wire, ecu, luck>>

SendGetsFlow ==
  /\ pc = "fc"
  /\ \E f \in Buffered :
       /\ Take(f)
       /\ IF LetsGo(f)
          THEN pc' = "cf" /\ UNCHANGED <<req, idx, total, out, expected_sn, answers>>
          ELSE Fail
  /\ UNCHANGED <<wire, bus, ecu, luck>>

\* The block size and the separation time of the flow control are not read.
SendConsecutive ==
  /\ pc = "cf"
  /\ bus' = Append(bus, Part(req, idx, ReqSize[req]))
  /\ idx' = idx + 1
  /\ pc' = IF idx < ReqSize[req] THEN "cf" ELSE "first"
  /\ UNCHANGED <<req, total, out, expected_sn, answers, rx_buf_, wire, ecu, luck>>

-----------------------------------------------------------------------------
(* recv.                                                                    *)

RecvFirst ==
  /\ pc = "first"
  /\ \E f \in Buffered :
       /\ Take(f)
       /\ \/ /\ f.pci = "SF"
             /\ Return(TRUE, <<f>>)
             /\ UNCHANGED bus
          \/ /\ f.pci = "FF"
             /\ out' = <<f>> /\ total' = f.n /\ expected_sn' = 1
             /\ pc' = "more"
             /\ bus' = Append(bus, Flow(f.msg, Cts, FcBlockSize))
             /\ UNCHANGED <<req, idx, answers>>
          \/ /\ f.pci \notin {"SF", "FF"}
             /\ Fail
             /\ UNCHANGED bus
  /\ UNCHANGED <<wire, ecu, luck>>

RecvMore ==
  /\ pc = "more"
  /\ \E f \in Buffered :
       /\ Take(f)
       /\ \/ /\ f.pci # "CF"
             /\ UNCHANGED tester
          \/ /\ f.pci = "CF" /\ ~InSequence(f, expected_sn)
             /\ Fail
          \/ /\ f.pci = "CF" /\ InSequence(f, expected_sn)
             /\ Len(out) + 1 < total
             /\ out' = Append(out, f)
             /\ expected_sn' = NextSn(expected_sn)
             /\ UNCHANGED <<req, pc, idx, total, answers>>
          \/ /\ f.pci = "CF" /\ InSequence(f, expected_sn)
             /\ Len(out) + 1 >= total
             /\ Return(TRUE, Append(out, f))
  /\ UNCHANGED <<wire, bus, ecu, luck>>

-----------------------------------------------------------------------------
(* The deadlines.                                                           *)

\* Nothing that the tester waits for is on its way.
Quiet ==
  /\ bus = << >> /\ \A j \in 1..Len(wire) : ~Matches(wire[j])
  /\ ecu.pc \in {"idle", "wait_fc", "recv"}

\* A deadline passes when nothing else can help, or before that.
NothingComes == Quiet /\ early' = early

TooEarly == early < MaxEarly /\ early' = early + 1

\* read_matching gives up: rx_buf_ is empty then, its loop saw to that.
ReadTimesOutWaitsOn ==
  /\ pc \in {"fc", "first", "more"} /\ Quiet
  /\ UNCHANGED vars
ReadTimesOut ==
  /\ ~native
  /\ pc \in {"fc", "first", "more"}
  /\ \A j \in 1..Len(rx_buf_) : ~Matches(rx_buf_[j])
  /\ NothingComes \/ (~Quiet /\ TooEarly)
  /\ rx_buf_' = << >>
  /\ Fail
  /\ UNCHANGED <<wire, bus, ecu, foreign, lost, held, native>>

\* recv looks at the clock before it looks at rx_buf_ again.
AssemblyTimesOut ==
  /\ pc = "more"
  /\ TooEarly
  /\ Fail
  /\ UNCHANGED <<rx_buf_, wire, bus, ecu, foreign, lost, held, native>>

Finished == pc = "done" /\ UNCHANGED vars

-----------------------------------------------------------------------------
(* send and recv over a channel with native ISO-TP.                         *)

NativeSend ==
  /\ pc = "send" /\ native
  /\ bus' = Append(bus, Part(req, 1, 1))
  /\ pc' = "first"
  /\ UNCHANGED <<req, idx, total, out, expected_sn, answers, rx_buf_, wire, ecu, luck>>

\* sendHwIsoTp() returns an error, and nothing is on the bus.
NativeSendFails ==
  /\ pc = "send" /\ native
  /\ lost < MaxLost /\ lost' = lost + 1
  /\ Fail
  /\ UNCHANGED <<rx_buf_, wire, bus, ecu, foreign, held, early, native>>

\* recvHwIsoTp() returns the next PDU of our id.
NativeRecv ==
  /\ pc = "first" /\ native
  /\ \E j \in 1..Len(wire) :
       /\ Matches(wire[j]) /\ \A i \in 1..(j - 1) : ~Matches(wire[i])
       /\ Return(TRUE, <<wire[j]>>)
       /\ wire' = After(wire, j)
  /\ UNCHANGED <<rx_buf_, bus, ecu, luck>>

\* recvHwIsoTp() returns an error; what comes later stays in the adapter.
NativeRecvFails ==
  /\ pc = "first" /\ native
  /\ NothingComes \/ (~Quiet /\ TooEarly)
  /\ Fail
  /\ UNCHANGED <<rx_buf_, wire, bus, ecu, foreign, lost, held, native>>

-----------------------------------------------------------------------------
(* The ECU and the bus.                                                     *)

EcuThen == [status \in {Cts, Wait, Overflow} |->
              CASE status = Cts -> "recv" [] status = Wait -> "hold"
                [] status = Overflow -> "idle"]

\* A new request ends whatever the ECU was doing; a first frame is answered
\* with a flow control, which may put the tester off or turn it away.
EcuHearsRequest ==
  /\ bus # << >>
  /\ LET f == Head(bus) IN
       \/ /\ f.pci = "SF"
          /\ ecu' = [pc |-> "answer", msg |-> f.msg, k |-> 0, block |-> 0, credit |-> 0]
          /\ UNCHANGED <<wire, held>>
       \/ /\ f.pci = "FF"
          /\ \E fc \in EcuFlows :
               /\ held' = IF fc = LetsAllThrough THEN held ELSE held + 1
               /\ held' <= MaxHeld
               /\ wire' = Append(wire, Flow(f.msg, fc.status, fc.block))
               /\ ecu' = [pc |-> EcuThen[fc.status], msg |-> f.msg, k |-> 1,
                          block |-> fc.block, credit |-> fc.block]
  /\ bus' = Tail(bus)
  /\ UNCHANGED <<tester, rx_buf_, foreign, lost, early, native>>

\* A consecutive frame completes the request, or the block, or neither; one the
\* ECU does not wait for is ignored.
EcuHearsConsecutive ==
  /\ bus # << >> /\ Head(bus).pci = "CF"
  /\ bus' = Tail(bus)
  /\ IF ecu.pc # "recv" \/ Head(bus).low # ecu.k % SnMod
     THEN UNCHANGED <<ecu, wire>>
     ELSE LET k == ecu.k + 1
              done == k = Head(bus).n
              blockEnds == ecu.credit = 1
          IN /\ ecu' = [ecu EXCEPT !.pc = IF done THEN "answer" ELSE "recv",
                                   !.k = k,
                                   !.credit = IF blockEnds THEN ecu.block
                                              ELSE IF @ > 0 THEN @ - 1 ELSE 0]
             /\ wire' = IF blockEnds /\ ~done
                        THEN Append(wire, Flow(ecu.msg, Cts, ecu.block)) ELSE wire
  /\ UNCHANGED <<tester, rx_buf_, luck>>

EcuHearsFlow ==
  /\ bus # << >> /\ Head(bus).pci = "FC"
  /\ bus' = Tail(bus)
  /\ ecu' = IF ecu.pc = "wait_fc"
            THEN [ecu EXCEPT !.pc = "burst", !.credit = Head(bus).n] ELSE ecu
  /\ UNCHANGED <<tester, rx_buf_, wire, luck>>

\* After a wait the ECU lets the tester go on.
EcuResumes ==
  /\ ecu.pc = "hold"
  /\ ecu' = [ecu EXCEPT !.pc = "recv"]
  /\ wire' = Append(wire, Flow(ecu.msg, Cts, ecu.block))
  /\ UNCHANGED <<tester, rx_buf_, bus, luck>>

EcuAnswers ==
  /\ ecu.pc = "answer"
  /\ LET n == RspFrames(ecu.msg) IN
       /\ wire' = Append(wire, Part(ecu.msg, 1, n))
       /\ ecu' = [ecu EXCEPT !.pc = IF n = 1 THEN "idle" ELSE "wait_fc", !.k = 1]
  /\ UNCHANGED <<tester, rx_buf_, bus, luck>>

EcuSendsConsecutive ==
  /\ ecu.pc = "burst"
  /\ LET k == ecu.k + 1
         n == RspSize[ecu.msg]
     IN /\ wire' = Append(wire, Part(ecu.msg, k, n))
        /\ ecu' = [ecu EXCEPT !.k = k,
                              !.pc = IF k = n THEN "idle"
                                     ELSE IF ecu.credit = 1 THEN "wait_fc" ELSE "burst",
                              !.credit = IF @ > 0 THEN @ - 1 ELSE 0]
  /\ UNCHANGED <<tester, rx_buf_, bus, luck>>

ForeignFrame ==
  /\ foreign < MaxForeign
  /\ foreign' = foreign + 1
  /\ wire' = Append(wire, [Part(0, 1, 1) EXCEPT !.id = "other"])
  /\ UNCHANGED <<tester, rx_buf_, bus, ecu, lost, held, early, native>>

LoseFrame ==
  /\ lost < MaxLost
  /\ lost' = lost + 1
  /\ \/ bus # << >> /\ bus' = Tail(bus) /\ wire' = wire
     \/ wire # << >> /\ wire' = Tail(wire) /\ bus' = bus
  /\ UNCHANGED <<tester, rx_buf_, ecu, foreign, held, early, native>>

-----------------------------------------------------------------------------

Tester == \/ Fetch \/ SendFirst \/ SendGetsFlow \/ SendConsecutive
          \/ RecvFirst \/ RecvMore \/ ReadTimesOut \/ AssemblyTimesOut
          \/ NativeSend \/ NativeSendFails \/ NativeRecv \/ NativeRecvFails

Ecu == \/ EcuHearsRequest \/ EcuHearsConsecutive \/ EcuHearsFlow \/ EcuResumes
       \/ EcuAnswers \/ EcuSendsConsecutive

Next == Tester \/ Ecu \/ ForeignFrame \/ LoseFrame \/ Finished

Spec == Init /\ [][Next]_vars

\* The tester's thread runs, and the ECU does not go to sleep over a request.
FairSpec == Spec /\ WF_vars(Tester) /\ WF_vars(Ecu)

-----------------------------------------------------------------------------
(* Properties.                                                              *)

Whole(m) == [k \in 1..RspFrames(m) |-> Part(m, k, RspFrames(m))]

\* As long as no frame was lost, no deadline passed too early and the ECU let
\* every long request through at once, every request is answered, and with the
\* whole of its own response: the frames of other ids, the frames that come
\* several at a time and what is still in rx_buf_ when a call returns
\* (isotp.cpp:59-92) never get into an answer.
Answered ==
  lost + held + early = 0 =>
    \A r \in 1..Len(answers) : answers[r] = [ok |-> TRUE, pdu |-> Whole(r)]

\* As long as no frame was lost and no deadline passed too early, every request
\* is answered with its own response, also by an ECU that takes a long request
\* in blocks or asks the tester to wait, and for every fc_block_size.
AnsweredInBlocks ==
  lost + early = 0 =>
    \A r \in 1..Len(answers) : answers[r] = [ok |-> TRUE, pdu |-> Whole(r)]

\* The messages a result was put together from.
Sources(r) == {answers[r].pdu[k].msg : k \in 1..Len(answers[r].pdu)}

Failures(r) == {q \in 1..(r - 1) : ~answers[q].ok}

Used == {Min(Sources(r)) : r \in {q \in 1..Len(answers) : answers[q].ok}}

order == INSTANCE AnswerOrder
           WITH asked <- Len(answers), failed <- Cardinality(Failures(Len(answers) + 1)),
                last <- Max(Used \cup {0})

\* No response is used twice or after a later one, whether it waited in rx_buf_, in
\* an adapter with ISO-TP of its own, or on the bus (isotp.cpp:65-81, 103-106,
\* 175-178): a session implements AnswerOrder.  So a result lags behind its request
\* by no more requests than have failed before it (AnswerOrder!Lag): a failed call
\* leaves at most one response behind (nothing empties rx_buf_ between calls,
\* isotp.cpp:248-255), and a call that succeeds takes one away.
AnsweredInOrder == order!Spec

\* A PDU that recv() returns is one response, not pieces of two.
IntactPdu == \A r \in 1..Len(answers) : answers[r].ok => Cardinality(Sources(r)) = 1

\* Every call of request() returns, whatever the ECU does and the bus loses.
Completes == <>(pc = "done")
=============================================================================
