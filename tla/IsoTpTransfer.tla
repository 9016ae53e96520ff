---------------------------- MODULE IsoTpTransfer ----------------------------
(***************************************************************************)
(* One PDU from IsoTpTransport::send to IsoTpTransport::recv: two endpoints *)
(* that both run src/src/isotp.cpp, joined by a CAN link that may lose      *)
(* frames and may deliver one twice (the known double reception of CAN),    *)
(* but keeps their order.                                                   *)
(*                                                                          *)
(* Each direction of the link is the log of the frames written and the      *)
(* index of the next one the other side's read_matching() returns, so the   *)
(* unread part stands for the bus, the adapter's queue and rx_buf_ at once. *)
(* Frames of other ids, which read_matching() drops, and what an earlier    *)
(* exchange left in rx_buf_ are the subject of IsoTpSession.                *)
(*                                                                          *)
(* A deadline may pass when nothing else can happen, and, up to MaxEarly    *)
(* times, before that, because a timeout was shorter than a delay.          *)
(***************************************************************************)
EXTENDS IsoTpFrames

CONSTANTS Pdus,          \* the PDUs that may be sent
          MaxLost,       \* bound on the frames the link loses
          MaxDup,        \* bound on the frames the link delivers twice
          MaxEarly       \* bound on the deadlines that pass too early

ASSUME TransferAssumption ==
  /\ Pdus \subseteq Seq(Int)
  /\ MaxLost \in Nat
  /\ MaxDup \in Nat
  /\ MaxEarly \in Nat

VARIABLES pdu,           \* the argument of send()
          spc, idx, sn,  \* where send() stands, and its locals
          rpc, total, out, expected_sn,     \* the same of recv()
          sent, rd,      \* frames written by send(), next one recv() reads
          back, brd,     \* the flow control frames, in the other direction
          lost, dup,     \* how many frames the link lost and doubled
          early          \* how many deadlines passed too early

svars == <<spc, idx, sn>>
rvars == <<rpc, total, out, expected_sn>>
link  == <<lost, dup, early>>
vars  == <<pdu, svars, rvars, sent, rd, back, brd, link>>

Returned == {"ok", "error"}

TypeOK ==
  /\ pdu \in Pdus
  /\ spc \in {"start", "fc", "cf"} \cup Returned
  /\ idx \in 0..MaxPdu
  /\ sn \in 0..(SnMod - 1)
  /\ rpc \in {"first", "cf"} \cup Returned
  /\ total \in 0..MaxPdu
  /\ out \in Seq(Int)
  /\ Len(out) <= MaxPdu
  /\ expected_sn \in 0..(SnMod - 1)
  /\ sent \in Seq(Frame)
  /\ rd \in 1..(Len(sent) + 1)
  /\ back \in Seq(Frame)
  /\ brd \in 1..(Len(back) + 1)
  /\ lost \in 0..MaxLost
  /\ dup \in 0..MaxDup
  /\ early \in 0..MaxEarly

Init ==
  /\ pdu \in Pdus
  /\ spc = "start" /\ idx = 0 /\ sn = 1
  /\ rpc = "first" /\ total = 0 /\ out = << >> /\ expected_sn = 1
  /\ sent = << >> /\ rd = 1
  /\ back = << >> /\ brd = 1
  /\ lost = 0 /\ dup = 0 /\ early = 0

-----------------------------------------------------------------------------
(* IsoTpTransport::send.                                                    *)

WriteFrame(f) == sent' = Append(sent, f)

SendRefused ==
  /\ spc = "start"
  /\ Len(pdu) = 0 \/ Len(pdu) > MaxPdu
  /\ spc' = "error"
  /\ UNCHANGED <<pdu, idx, sn, rvars, sent, rd, back, brd, link>>

SendSingle ==
  /\ spc = "start"
  /\ 0 < Len(pdu) /\ Len(pdu) <= SfMax
  /\ WriteFrame(SingleFrame(pdu))
  /\ spc' = "ok"
  /\ UNCHANGED <<pdu, idx, sn, rvars, rd, back, brd, link>>

SendFirst ==
  /\ spc = "start"
  /\ SfMax < Len(pdu) /\ Len(pdu) <= MaxPdu
  /\ WriteFrame(FirstFrame(pdu))
  /\ idx' = FfData
  /\ spc' = "fc"
  /\ UNCHANGED <<pdu, sn, rvars, rd, back, brd, link>>

\* The answer to the first frame; sn starts at 1.
SendGetsFlow ==
  /\ spc = "fc"
  /\ brd <= Len(back)
  /\ spc' = IF LetsGo(back[brd]) THEN "cf" ELSE "error"
  /\ sn' = 1
  /\ brd' = brd + 1
  /\ UNCHANGED <<pdu, idx, rvars, sent, rd, back, link>>

\* One round of the while loop.
SendConsecutive ==
  /\ spc = "cf"
  /\ idx < Len(pdu)
  /\ WriteFrame(ConsecutiveFrame(pdu, idx, sn))
  /\ idx' = Least(idx + CfData, Len(pdu))
  /\ sn' = NextSn(sn)
  /\ UNCHANGED <<pdu, spc, rvars, rd, back, brd, link>>

SendReturns ==
  /\ spc = "cf"
  /\ idx >= Len(pdu)
  /\ spc' = "ok"
  /\ UNCHANGED <<pdu, idx, sn, rvars, sent, rd, back, brd, link>>

-----------------------------------------------------------------------------
(* IsoTpTransport::recv.                                                    *)

\* The next frame is read; the link may deliver it once more.
ReadFrame ==
  /\ rd <= Len(sent)
  /\ \/ rd' = rd + 1 /\ dup' = dup
     \/ rd' = rd /\ dup < MaxDup /\ dup' = dup + 1
  /\ UNCHANGED <<lost, early>>

RecvFirst ==
  /\ rpc = "first"
  /\ ReadFrame
  /\ LET f == sent[rd] IN
       /\ rpc' = AfterFirst(f)
       /\ out' = FirstBytes(f)
       /\ total' = IF IsFirst(f) THEN FirstTotal(f) ELSE total
       /\ back' = IF IsFirst(f) THEN Append(back, FlowControl(Cts, 0)) ELSE back
  /\ expected_sn' = 1
  /\ UNCHANGED <<pdu, svars, sent, brd>>

RecvSkips ==
  /\ rpc = "cf"
  /\ ReadFrame
  /\ sent[rd].pci # "CF"
  /\ UNCHANGED <<pdu, svars, rvars, sent, back, brd>>

RecvWrongSn ==
  /\ rpc = "cf"
  /\ ReadFrame
  /\ sent[rd].pci = "CF"
  /\ ~InSequence(sent[rd], expected_sn)
  /\ rpc' = "error"
  /\ UNCHANGED <<pdu, svars, total, out, expected_sn, sent, back, brd>>

RecvConsecutive ==
  /\ rpc = "cf"
  /\ ReadFrame
  /\ sent[rd].pci = "CF"
  /\ InSequence(sent[rd], expected_sn)
  /\ out' = TakeBytes(out, sent[rd].data, total)
  /\ expected_sn' = NextSn(expected_sn)
  /\ rpc' = IF Len(out') < total THEN "cf" ELSE "ok"
  /\ UNCHANGED <<pdu, svars, total, sent, back, brd>>

-----------------------------------------------------------------------------
(* The clock and the link.                                                  *)

\* Nobody will write or read another frame: only a deadline can help.
Quiet ==
  /\ rd > Len(sent) \/ rpc \in Returned
  /\ brd > Len(back) \/ spc \in Returned
  /\ spc \notin {"start", "cf"}

DeadlinePasses ==
  /\ \/ Quiet /\ early' = early
     \/ ~Quiet /\ early < MaxEarly /\ early' = early + 1
  /\ UNCHANGED <<lost, dup>>

SendTimesOut ==
  /\ spc = "fc"
  /\ DeadlinePasses
  /\ spc' = "error"
  /\ UNCHANGED <<pdu, idx, sn, rvars, sent, rd, back, brd>>

\* read_matching() gives up on the first frame and on every later one.
RecvTimesOutWaitsOn ==
  /\ rpc \in {"first", "cf"} /\ Quiet
  /\ UNCHANGED vars
RecvTimesOut ==
  /\ rpc \in {"first", "cf"}
  /\ DeadlinePasses
  /\ rpc' = "error"
  /\ UNCHANGED <<pdu, svars, total, out, expected_sn, sent, rd, back, brd>>

LoseFrame ==
  /\ lost < MaxLost
  /\ rd <= Len(sent)
  /\ rd' = rd + 1
  /\ lost' = lost + 1
  /\ UNCHANGED <<pdu, svars, rvars, sent, back, brd, dup, early>>

LoseFlow ==
  /\ lost < MaxLost
  /\ brd <= Len(back)
  /\ brd' = brd + 1
  /\ lost' = lost + 1
  /\ UNCHANGED <<pdu, svars, rvars, sent, rd, back, dup, early>>

\* Both calls have returned.
Finished ==
  /\ spc \in Returned
  /\ rpc \in Returned
  /\ UNCHANGED vars

-----------------------------------------------------------------------------

SendStep == \/ SendRefused \/ SendSingle \/ SendFirst \/ SendGetsFlow
            \/ SendConsecutive \/ SendReturns \/ SendTimesOut

RecvStep == \/ RecvFirst \/ RecvSkips \/ RecvWrongSn \/ RecvConsecutive
            \/ RecvTimesOut

Next == SendStep \/ RecvStep \/ LoseFrame \/ LoseFlow \/ Finished

Spec == Init /\ [][Next]_vars

\* Each endpoint's thread keeps running, and its clock with it.
FairSpec == Spec /\ WF_vars(SendStep) /\ WF_vars(RecvStep)

-----------------------------------------------------------------------------
(* Properties.                                                              *)

\* A PDU that recv() returns is the PDU that was sent, byte for byte, however
\* many frames the link lost or doubled: the loop that stops at total bytes and
\* the sequence numbers (src/src/isotp.cpp:216-241) let nothing else through.
ExactDelivery == rpc = "ok" => out = pdu

\* What recv() has put together is the beginning of the PDU.
Prefix == /\ Len(out) <= Len(pdu)
          /\ \A i \in 1..Len(out) : out[i] = pdu[i]

\* Bytes are appended in place: what recv() has put together is the beginning
\* of the PDU, unless the link lost a whole cycle of sequence numbers, which a
\* 4-bit counter cannot see.
HoleNeedsWholeCycle == lost < SnMod => Prefix

\* Both calls return, whatever the link does.
BothReturn == <>(spc \in Returned /\ rpc \in Returned)

Disturbed == lost + dup + early > 0

Admissible == 0 < Len(pdu) /\ Len(pdu) <= MaxPdu

\* Neither call fails on a PDU of an admissible length, unless the link lost or
\* doubled a frame, or a timeout was shorter than a delay: the two functions agree on
\* the lengths, the formats and the sequence numbers, and never wait for each other
\* (isotp.cpp:112-168, 185-241).  Since both return, such a PDU arrives.
NothingFails == Admissible /\ ~Disturbed => spc # "error" /\ rpc # "error"

-----------------------------------------------------------------------------
(* Why they hold: the inductive invariant.                                  *)

\* The j-th frame that send() writes for PDU p, and where its bytes start.
Start(j) == FfData + CfData * (j - 2)

NthFrame(p, j) == IF Len(p) <= SfMax THEN SingleFrame(p)
                  ELSE IF j = 1 THEN FirstFrame(p)
                  ELSE ConsecutiveFrame(p, Start(j), j - 1)

\* The log is the beginning of the segmentation of the PDU.
Segmented ==
  /\ sent # << >> => 0 < Len(pdu) /\ Len(pdu) <= MaxPdu
  /\ Len(pdu) <= SfMax => Len(sent) <= 1
  /\ \A j \in 1..Len(sent) : /\ sent[j] = NthFrame(pdu, j)
                             /\ j > 1 => Start(j) < Len(pdu)

\* send() has written exactly the frames its locals say, and nothing follows
\* the first frame before recv() has answered it.
SenderAt ==
  /\ spc = "start" => sent = << >>
  /\ spc = "fc" => Len(sent) = 1 /\ idx = FfData /\ Len(pdu) > SfMax
  /\ spc = "cf" => /\ Len(pdu) > SfMax
                   /\ sent # << >>
                   /\ back # << >>
                   /\ sn = Len(sent) % SnMod
                   /\ idx = Least(FfData + CfData * (Len(sent) - 1), Len(pdu))
  /\ spc = "error" => Len(sent) <= 1 /\ (Len(pdu) <= SfMax => sent = << >>)
  /\ Len(sent) > 1 => back # << >>

\* How many consecutive frames recv() has accepted.
Accepted == (Len(out) - FfData) \div CfData

\* While recv() assembles, the link position, the number of frames accepted and
\* the number lost are tied to each other: this is what makes a hole cost a
\* whole cycle, and a PDU with a hole run out of frames before it is complete.
ReceiverAt ==
  /\ rpc = "first" => back = << >> /\ out = << >> /\ rd - 1 <= lost
  /\ rpc = "cf" => /\ Len(pdu) > SfMax
                   /\ total = Len(pdu)
                   /\ Len(out) = FfData + CfData * Accepted
                   /\ Accepted >= 0
                   /\ Len(out) < total
                   /\ expected_sn = (Accepted + 1) % SnMod
                   /\ Accepted + 1 <= rd
                   /\ rd <= Accepted + 2 + lost
                   /\ Prefix \/ rd > Accepted + SnMod
  /\ rpc = "ok" => /\ out = pdu
                   /\ sent # << >>
                   /\ Len(pdu) > SfMax => Len(sent) > 1
  /\ Prefix \/ lost >= SnMod

\* The inductive invariant: the four parts hold initially, every step keeps
\* them, and ExactDelivery, HoleNeedsWholeCycle and TransferSpec follow.
IInv == TypeOK /\ Segmented /\ SenderAt /\ ReceiverAt

-----------------------------------------------------------------------------
(* The abstract transfer this implements.                                   *)

Outcome(pc) == IF pc \in Returned THEN pc ELSE "none"

Transfer == INSTANCE PduTransfer WITH
              sres <- Outcome(spc),
              rres <- Outcome(rpc),
              got  <- IF rpc = "ok" THEN out ELSE << >>

TransferSpec == Transfer!Spec
=============================================================================
