------------------------ MODULE IsoTpTransferProofs ------------------------
(***************************************************************************)
(* Proofs about IsoTpTransfer, for every set of PDUs and every number of    *)
(* lost and doubled frames: the inductive invariant IInv, and from it the   *)
(* safety properties and the refinement of PduTransfer.                     *)
(***************************************************************************)
EXTENDS IsoTpTransfer, SequenceTheorems, TLAPS

(* MaxPdu and the widths of the header fields are used through their bounds: *)
(* expanded, an interval becomes the list of its members.                    *)

LEMMA MaxPduBound == MaxPdu \in Nat /\ 4094 < MaxPdu /\ MaxPdu < 4096
BY DEF MaxPdu

LEMMA Widths ==
  ASSUME NEW n \in Nat
  PROVE  /\ n % 16 \in Nibble
         /\ (n \div 256) % 16 \in Nibble
         /\ n % 256 \in Byte
         /\ 0 \in Nibble /\ 0 \in Byte
BY DEF Nibble, Byte

LEMMA SnRange == ASSUME NEW n \in Nat PROVE n % SnMod \in 0..(SnMod - 1)
<1>1. SnMod \in Nat /\ SnMod > 0
  BY DEF SnMod
<1>2. n % 16 >= 0 /\ n % 16 < 16 /\ n % 16 \in Int
  OBVIOUS
<1>3. n % SnMod >= 0 /\ n % SnMod < SnMod /\ n % SnMod \in Int
  BY <1>2 DEF SnMod
<1> QED
  BY <1>1, <1>3

LEMMA OnlyOne ==
  ASSUME NEW n \in Nat, NEW m \in Int, n <= 1, 1 <= m, m <= n
  PROVE  n = 1 /\ m = 1
OBVIOUS

LEMMA TwelveBits ==
  ASSUME NEW n \in Nat, n < 4096
  PROVE  ((n \div 256) % 16) * 256 + (n % 256) = n
OBVIOUS

\* The 12-bit length of a first frame is what went in.
LEMMA LengthRoundTrip ==
  ASSUME NEW p \in Seq(Int), SfMax < Len(p), Len(p) <= MaxPdu
  PROVE  /\ FirstTotal(FirstFrame(p)) = Len(p)
         /\ IsFirst(FirstFrame(p))
         /\ ~IsSingle(FirstFrame(p))
<1>1. Len(p) \in Nat /\ Len(p) < 4096
  BY MaxPduBound
<1>2. FirstTotal(FirstFrame(p)) = Len(p)
  BY <1>1, TwelveBits DEF FirstTotal, FirstFrame
<1>3. FirstFrame(p).pci = "FF"
  BY DEF FirstFrame
<1> QED
  BY <1>2, <1>3 DEF IsFirst, IsSingle

LEMMA SingleRoundTrip ==
  ASSUME NEW p \in Seq(Int), 0 < Len(p), Len(p) <= SfMax
  PROVE  /\ SingleFrame(p).low = Len(p)
         /\ IsSingle(SingleFrame(p))
         /\ ~IsFirst(SingleFrame(p))
BY DEF IsSingle, IsFirst, SingleFrame, SfMax

LEMMA CutType ==
  ASSUME NEW p \in Seq(Int), NEW i \in Nat, NEW room \in Nat
  PROVE  /\ Cut(p, i, room) \in Seq(Int)
         /\ Len(Cut(p, i, room)) = room
         /\ \A k \in 1..room : i + k <= Len(p) => Cut(p, i, room)[k] = p[i + k]
BY PaddingAssumption DEF Cut

LEMMA CutFromStart ==
  ASSUME NEW p \in Seq(Int), NEW room \in Nat
  PROVE  /\ Cut(p, 0, room) \in Seq(Int)
         /\ Len(Cut(p, 0, room)) = room
         /\ \A k \in 1..room : k <= Len(p) => Cut(p, 0, room)[k] = p[k]
BY PaddingAssumption DEF Cut

\* Every frame written is one, whichever way it is built.
LEMMA FrameType ==
  ASSUME NEW p \in Seq(Int), NEW i \in Nat, NEW n \in Nat
  PROVE  /\ SingleFrame(p) \in Frame
         /\ FirstFrame(p) \in Frame
         /\ ConsecutiveFrame(p, i, n) \in Frame
         /\ FlowControl(Cts, 0) \in Frame
<1>1. /\ Cut(p, 0, SfMax) \in Seq(Int)
      /\ Cut(p, 0, FfData) \in Seq(Int)
      /\ Cut(p, i, CfData) \in Seq(Int)
  BY CutType DEF SfMax, FfData, CfData
<1>2. Len(p) \in Nat
  OBVIOUS
<1>3. SingleFrame(p) \in Frame
  BY <1>1, <1>2, Widths DEF Frame, SingleFrame
<1>4. FirstFrame(p) \in Frame
  BY <1>1, <1>2, Widths DEF Frame, FirstFrame
<1>5. ConsecutiveFrame(p, i, n) \in Frame
  BY <1>1, Widths DEF Frame, ConsecutiveFrame, SnMod
<1>6. FlowControl(Cts, 0) \in Frame
  BY Widths DEF Frame, FlowControl, Cts
<1> QED
  BY <1>3, <1>4, <1>5, <1>6

-----------------------------------------------------------------------------
(* What is written to the log.                                              *)

LEMMA PduType == TypeOK => pdu \in Seq(Int) /\ Len(pdu) \in Nat
BY TransferAssumption DEF TypeOK

\* Appending a frame of the segmentation keeps the log a segmentation.
LEMMA WriteKeepsSegmented ==
  ASSUME TypeOK, Segmented, pdu' = pdu,
         NEW f, sent' = Append(sent, f), f \in Frame,
         f = NthFrame(pdu, Len(sent) + 1),
         0 < Len(pdu), Len(pdu) <= MaxPdu,
         Len(pdu) <= SfMax => sent = << >>,
         sent # << >> => Start(Len(sent) + 1) < Len(pdu)
  PROVE  Segmented' /\ sent' \in Seq(Frame) /\ Len(sent') = Len(sent) + 1
<1>1. sent \in Seq(Frame)
  BY DEF TypeOK
<1>2. /\ sent' \in Seq(Frame)
      /\ Len(sent') = Len(sent) + 1
      /\ \A j \in 1..Len(sent) : sent'[j] = sent[j]
      /\ sent'[Len(sent) + 1] = f
  BY <1>1
<1>3. (Len(pdu) <= SfMax => Len(sent) <= 1)'
  BY <1>2
<1>4. ASSUME NEW j \in 1..Len(sent')
      PROVE  (sent[j] = NthFrame(pdu, j) /\ (j > 1 => Start(j) < Len(pdu)))'
  <2>1. CASE j \in 1..Len(sent)
    BY <1>2, <2>1 DEF Segmented, NthFrame, Start
  <2>2. CASE j = Len(sent) + 1
    BY <1>1, <1>2, <2>2 DEF NthFrame, Start
  <2> QED
    BY <1>1, <1>2, <2>1, <2>2
<1> QED
  BY <1>2, <1>3, <1>4 DEF Segmented

\* recv() is not touched by what send() and the link append.
LEMMA SenderKeepsReceiverAt ==
  ASSUME TypeOK, ReceiverAt, UNCHANGED <<pdu, rvars, rd, back, lost>>,
         sent' \in Seq(Frame), Len(sent) <= Len(sent')
  PROVE  ReceiverAt'
<1>1. sent \in Seq(Frame)
  BY DEF TypeOK
<1>2. sent # << >> => sent' # << >>
  BY <1>1
<1> QED
  BY <1>1, <1>2 DEF ReceiverAt, Prefix, Accepted, rvars

-----------------------------------------------------------------------------
(* The steps of send() keep the invariant.                                  *)

LEMMA InitIInv == Init => IInv
<1> SUFFICES ASSUME Init PROVE IInv
  OBVIOUS
<1>1. TypeOK
  BY TransferAssumption, MaxPduBound DEF Init, TypeOK, SnMod
<1>2. Segmented /\ SenderAt
  BY DEF Init, Segmented, SenderAt
<1>3. ReceiverAt
  BY <1>1, PduType DEF Init, ReceiverAt, Prefix
<1> QED
  BY <1>1, <1>2, <1>3 DEF IInv

LEMMA SendRefusedKeeps == ASSUME IInv, SendRefused PROVE IInv'
<1>1. TypeOK'
  BY DEF IInv, TypeOK, SendRefused, rvars, link, Returned
<1>2. Segmented'
  BY DEF IInv, Segmented, SendRefused
<1>3. SenderAt'
  BY DEF IInv, SenderAt, SendRefused
<1>4. ReceiverAt'
  BY SenderKeepsReceiverAt DEF IInv, TypeOK, SendRefused, link
<1> QED
  BY <1>1, <1>2, <1>3, <1>4 DEF IInv

LEMMA SendSingleKeeps == ASSUME IInv, SendSingle PROVE IInv'
<1> USE DEF IInv
<1>1. sent = << >> /\ Len(sent) = 0
  BY DEF SendSingle, SenderAt
<1>2. SingleFrame(pdu) \in Frame
  BY FrameType, PduType
<1>3. SingleFrame(pdu) = NthFrame(pdu, Len(sent) + 1)
  BY DEF SendSingle, NthFrame
<1>4. /\ Segmented' /\ sent' \in Seq(Frame) /\ Len(sent') = 1
  BY <1>1, <1>2, <1>3, PduType, MaxPduBound, WriteKeepsSegmented
     DEF SendSingle, WriteFrame, SfMax
<1>5. TypeOK'
  BY <1>1, <1>4 DEF TypeOK, SendSingle, rvars, link, Returned
<1>6. SenderAt'
  BY <1>4 DEF SenderAt, SendSingle
<1>7. ReceiverAt'
  BY <1>1, <1>4, SenderKeepsReceiverAt DEF SendSingle, link
<1> QED
  BY <1>4, <1>5, <1>6, <1>7

LEMMA SendFirstKeeps == ASSUME IInv, SendFirst PROVE IInv'
<1> USE DEF IInv
<1>1. sent = << >> /\ Len(sent) = 0
  BY DEF SendFirst, SenderAt
<1>2. FirstFrame(pdu) \in Frame
  BY FrameType, PduType
<1>3. FirstFrame(pdu) = NthFrame(pdu, Len(sent) + 1)
  BY <1>1, PduType DEF SendFirst, NthFrame, SfMax
<1>4. /\ Segmented' /\ sent' \in Seq(Frame) /\ Len(sent') = 1
  BY <1>1, <1>2, <1>3, PduType, WriteKeepsSegmented
     DEF SendFirst, WriteFrame, SfMax
<1>5. TypeOK'
  BY <1>1, <1>4, MaxPduBound DEF TypeOK, SendFirst, rvars, link, FfData
<1>6. SenderAt'
  BY <1>4 DEF SenderAt, SendFirst
<1>7. ReceiverAt'
  BY <1>1, <1>4, SenderKeepsReceiverAt DEF SendFirst, link
<1> QED
  BY <1>4, <1>5, <1>6, <1>7

LEMMA SendGetsFlowKeeps == ASSUME IInv, SendGetsFlow PROVE IInv'
<1> USE DEF IInv
<1>1. TypeOK'
  BY DEF TypeOK, SendGetsFlow, rvars, link, SnMod, Returned
<1>2. Segmented'
  BY DEF Segmented, SendGetsFlow
<1>3. back # << >> /\ Len(sent) = 1 /\ SfMax < Len(pdu) /\ idx = FfData
  BY DEF SendGetsFlow, SenderAt, TypeOK
<1>4. sent # << >> /\ Least(FfData + CfData * (Len(sent) - 1), Len(pdu)) = FfData
  <2>1. sent # << >>
    BY <1>3
  <2>2. FfData + CfData * (Len(sent) - 1) = FfData
    BY <1>3 DEF FfData, CfData
  <2>3. Len(pdu) \in Nat /\ FfData <= Len(pdu)
    BY <1>3, PduType DEF FfData, SfMax
  <2> QED
    BY <2>1, <2>2, <2>3 DEF Least
<1>5. SenderAt'
  BY <1>3, <1>4, PduType DEF SenderAt, SendGetsFlow, SnMod, SfMax
<1>6. ReceiverAt'
  BY SenderKeepsReceiverAt DEF TypeOK, SendGetsFlow, link
<1> QED
  BY <1>1, <1>2, <1>5, <1>6

LEMMA SendConsecutiveKeeps == ASSUME IInv, SendConsecutive PROVE IInv'
<1> USE DEF IInv
<1> DEFINE n == Len(sent)
<1>1. /\ sent \in Seq(Frame) /\ n \in Nat /\ n > 0
      /\ pdu \in Seq(Int) /\ Len(pdu) \in Nat
      /\ SfMax < Len(pdu) /\ Len(pdu) <= MaxPdu
      /\ sn = n % SnMod
      /\ idx = Least(FfData + CfData * (n - 1), Len(pdu)) /\ idx < Len(pdu)
  <2>1. spc = "cf" /\ idx < Len(pdu)
    BY DEF SendConsecutive
  <2>2. sent \in Seq(Frame) /\ pdu \in Seq(Int) /\ Len(pdu) \in Nat
    BY PduType DEF TypeOK
  <2>3. /\ SfMax < Len(pdu) /\ sent # << >> /\ sn = Len(sent) % SnMod
        /\ idx = Least(FfData + CfData * (Len(sent) - 1), Len(pdu))
    BY <2>1, <2>2 DEF SenderAt, SfMax
  <2>4. Len(pdu) <= MaxPdu
    BY <2>3 DEF Segmented
  <2>5. n \in Nat /\ n > 0
    BY <2>2, <2>3
  <2> QED
    BY <2>1, <2>2, <2>3, <2>4, <2>5
<1>2. idx = Start(n + 1) /\ idx \in Nat
  BY <1>1 DEF Least, Start, FfData, CfData
<1> DEFINE f == ConsecutiveFrame(pdu, idx, sn)
<1>3. f \in Frame
  BY <1>1, <1>2, FrameType DEF SnMod
<1>4. f = NthFrame(pdu, n + 1)
  <2>1. (n % 16) % 16 = n % 16
    BY <1>1
  <2> QED
    BY <1>1, <1>2, <2>1 DEF NthFrame, ConsecutiveFrame, SnMod, SfMax
<1>5. Segmented' /\ sent' \in Seq(Frame) /\ Len(sent') = n + 1
  BY <1>1, <1>2, <1>3, <1>4, WriteKeepsSegmented
     DEF SendConsecutive, WriteFrame, SfMax
<1>6. idx' = Least(FfData + CfData * n, Len(pdu))
  BY <1>1, <1>2 DEF SendConsecutive, Least, Start, FfData, CfData
<1>7. sn' = (n + 1) % SnMod
  BY <1>1 DEF SendConsecutive, NextSn, SnMod
<1>8. TypeOK'
  <2>1. idx' \in 0..MaxPdu
    BY <1>1, <1>6, MaxPduBound DEF Least, FfData, CfData
  <2>2. sn' \in 0..(SnMod - 1)
    BY <1>1, <1>7, SnRange
  <2>3. rd' \in 1..(Len(sent') + 1)
    BY <1>1, <1>5 DEF TypeOK, SendConsecutive
  <2> QED
    BY <1>5, <2>1, <2>2, <2>3 DEF TypeOK, SendConsecutive, rvars, link
<1>9. SenderAt'
  BY <1>1, <1>5, <1>6, <1>7 DEF SenderAt, SendConsecutive
<1>10. ReceiverAt'
  BY <1>1, <1>5, SenderKeepsReceiverAt DEF SendConsecutive, link
<1> QED
  BY <1>5, <1>8, <1>9, <1>10

LEMMA SendReturnsKeeps == ASSUME IInv, SendReturns PROVE IInv'
<1> USE DEF IInv
<1>1. TypeOK'
  BY DEF TypeOK, SendReturns, rvars, link, Returned
<1>2. Segmented'
  BY DEF Segmented, SendReturns
<1>3. SenderAt'
  BY DEF SenderAt, SendReturns
<1>4. ReceiverAt'
  BY SenderKeepsReceiverAt DEF TypeOK, SendReturns, link
<1> QED
  BY <1>1, <1>2, <1>3, <1>4

\* The counts of faults, which are bounded.
LEMMA FaultCounts ==
  ASSUME TypeOK
  PROVE  /\ lost \in Nat /\ dup \in 0..MaxDup /\ early \in 0..MaxEarly
         /\ MaxDup \in Nat /\ MaxEarly \in Nat
<1>1. /\ lost \in 0..MaxLost /\ dup \in 0..MaxDup /\ early \in 0..MaxEarly
  BY Zenon DEF TypeOK
<1> QED
  BY <1>1, TransferAssumption

\* A deadline that passes touches only the count of those that passed early.
LEMMA DeadlineType ==
  ASSUME TypeOK, DeadlinePasses
  PROVE  lost' = lost /\ dup' = dup /\ early' \in 0..MaxEarly
BY FaultCounts DEF DeadlinePasses

LEMMA SendTimesOutKeeps == ASSUME IInv, SendTimesOut PROVE IInv'
<1> USE DEF IInv
<1>1. TypeOK'
  BY DeadlineType DEF TypeOK, SendTimesOut, rvars, Returned
<1>2. Segmented'
  BY DEF Segmented, SendTimesOut
<1>3. Len(sent) = 1 /\ SfMax < Len(pdu) /\ Len(pdu) \in Nat
  BY PduType DEF SenderAt, SendTimesOut
<1>4. SenderAt'
  BY <1>3 DEF SenderAt, SendTimesOut, SfMax
<1>5. ReceiverAt'
  BY DeadlineType, SenderKeepsReceiverAt DEF TypeOK, SendTimesOut
<1> QED
  BY <1>1, <1>2, <1>4, <1>5

-----------------------------------------------------------------------------
(* The steps of recv() keep the invariant.                                  *)

\* The log and the sender are not touched by recv(), except that the flow
\* control frame lets the sender go on.
LEMMA ReceiverKeepsSender ==
  ASSUME Segmented, SenderAt, UNCHANGED <<pdu, svars, sent>>,
         back # << >> => back' # << >>
  PROVE  Segmented' /\ SenderAt'
BY DEF Segmented, SenderAt, svars, NthFrame, Start

\* Reading moves the read index by at most one.
LEMMA ReadFrameType ==
  ASSUME TypeOK, ReadFrame, UNCHANGED sent
  PROVE  /\ rd \in 1..Len(sent)
         /\ rd' \in 1..(Len(sent') + 1)
         /\ rd' = rd \/ rd' = rd + 1
         /\ lost' = lost /\ lost \in Nat
         /\ dup' \in 0..MaxDup /\ early' \in 0..MaxEarly
<1>1. dup' \in 0..MaxDup
  BY FaultCounts DEF ReadFrame
<1>2. lost' = lost /\ early' = early
  BY DEF ReadFrame
<1>3. /\ rd \in 1..Len(sent)
      /\ rd' = rd \/ rd' = rd + 1
      /\ rd' \in 1..(Len(sent') + 1)
  <2>1. sent \in Seq(Frame) /\ rd \in 1..(Len(sent) + 1)
    BY Zenon DEF TypeOK
  <2>2. PICK l \in Nat : l = Len(sent) /\ l = Len(sent')
    BY <2>1
  <2> QED
    BY <2>1, <2>2 DEF ReadFrame
<1>. QED  BY <1>1, <1>2, <1>3, FaultCounts

\* The payload of a single frame and of a first frame.
LEMMA FirstBytesRight ==
  ASSUME NEW p \in Seq(Int), 0 < Len(p), Len(p) <= MaxPdu
  PROVE  /\ Len(p) <= SfMax => FirstBytes(SingleFrame(p)) = p
         /\ SfMax < Len(p) =>
              LET b == FirstBytes(FirstFrame(p)) IN
                /\ b \in Seq(Int) /\ Len(b) = FfData
                /\ \A i \in 1..Len(b) : b[i] = p[i]
<1>1. CASE Len(p) <= SfMax
  <2> DEFINE d == Cut(p, 0, SfMax)
  <2>0. SfMax \in Nat
    BY DEF SfMax
  <2>1. /\ d \in Seq(Int) /\ Len(d) = SfMax
        /\ \A k \in 1..SfMax : k <= Len(p) => d[k] = p[k]
    BY <2>0, CutFromStart
  <2>2. FirstBytes(SingleFrame(p)) = SubSeq(d, 1, Len(p))
    BY <1>1, SingleRoundTrip DEF FirstBytes, SingleFrame
  <2>3. /\ SubSeq(d, 1, Len(p)) \in Seq(Int)
        /\ Len(SubSeq(d, 1, Len(p))) = Len(p)
        /\ \A k \in 1..Len(p) : SubSeq(d, 1, Len(p))[k] = p[k]
    BY <1>1, <2>0, <2>1, SubSeqProperties
  <2>4. SubSeq(d, 1, Len(p)) = p
    BY <2>3
  <2> QED
    BY <1>1, <2>2, <2>4 DEF SfMax
<1>2. CASE SfMax < Len(p)
  <2> DEFINE d == Cut(p, 0, FfData)
  <2>0. FfData \in Nat
    BY DEF FfData
  <2>1. /\ d \in Seq(Int) /\ Len(d) = FfData
        /\ \A k \in 1..FfData : k <= Len(p) => d[k] = p[k]
    BY <2>0, CutFromStart
  <2>2. FirstBytes(FirstFrame(p)) = d
    BY <1>2, LengthRoundTrip DEF FirstBytes, FirstFrame
  <2>3. \A k \in 1..FfData : k <= Len(p)
    BY <1>2 DEF FfData, SfMax
  <2> QED
    BY <1>2, <2>1, <2>2, <2>3 DEF SfMax
<1> QED
  BY <1>1, <1>2 DEF SfMax

LEMMA RecvFirstKeeps == ASSUME IInv, RecvFirst PROVE IInv'
<1> USE DEF IInv
<1> DEFINE f == sent[rd]
<1>1. /\ back = << >> /\ out = << >> /\ rd - 1 <= lost
      /\ pdu \in Seq(Int) /\ Len(pdu) \in Nat
  BY PduType DEF RecvFirst, ReceiverAt
<1>2. /\ rd \in 1..Len(sent)
      /\ rd' \in 1..(Len(sent') + 1)
      /\ rd' = rd \/ rd' = rd + 1
      /\ lost' = lost /\ lost \in Nat
      /\ dup' \in 0..MaxDup /\ early' \in 0..MaxEarly
      /\ sent \in Seq(Frame)
  BY ReadFrameType DEF RecvFirst, TypeOK
<1>3. Len(sent) = 1 /\ rd = 1
  <2>1. Len(sent) <= 1
    BY <1>1, <1>2 DEF SenderAt
  <2>2. Len(sent) \in Nat /\ 1 <= rd /\ rd <= Len(sent) /\ rd \in Int
    BY <1>2
  <2> QED
    BY <2>1, <2>2, OnlyOne
<1>4. f = NthFrame(pdu, 1) /\ 0 < Len(pdu) /\ Len(pdu) <= MaxPdu
  <2>1. sent # << >>
    BY <1>3
  <2> QED
    BY <1>3, <2>1 DEF Segmented
<1>5. back # << >> => back' # << >>
  BY <1>1
<1>6. Segmented' /\ SenderAt'
  BY <1>5, ReceiverKeepsSender DEF RecvFirst
<1>7. CASE Len(pdu) <= SfMax
  <2>1. f = SingleFrame(pdu)
    BY <1>4, <1>7 DEF NthFrame
  <2>2. rpc' = "ok" /\ out' = pdu /\ total' = total /\ back' = back
    BY <1>1, <1>4, <1>7, <2>1, SingleRoundTrip, FirstBytesRight
       DEF RecvFirst, AfterFirst
  <2>3. TypeOK'
    BY <1>1, <1>2, <1>4, <2>2, MaxPduBound
       DEF TypeOK, RecvFirst, svars, SnMod, Returned
  <2>4. ReceiverAt'
    <3>1. sent # << >>
      BY <1>3
    <3>2. sent' = sent /\ pdu' = pdu
      BY DEF RecvFirst
    <3>3. Prefix'
      BY <1>1, <2>2, <3>2 DEF Prefix
    <3> QED
      BY <1>1, <1>7, <2>2, <3>1, <3>2, <3>3 DEF ReceiverAt, SfMax
  <2> QED
    BY <1>6, <2>3, <2>4
<1>8. CASE SfMax < Len(pdu)
  <2>1. f = FirstFrame(pdu)
    BY <1>1, <1>4, <1>8 DEF NthFrame, SfMax
  <2>2. /\ rpc' = "cf" /\ total' = Len(pdu)
        /\ back' = Append(back, FlowControl(Cts, 0))
    BY <1>1, <1>4, <1>8, <2>1, LengthRoundTrip DEF RecvFirst, AfterFirst
  <2>3. /\ out' \in Seq(Int) /\ Len(out') = FfData
        /\ \A i \in 1..Len(out') : out'[i] = pdu[i]
    BY <1>1, <1>4, <1>8, <2>1, FirstBytesRight DEF RecvFirst
  <2>4. TypeOK'
    <3>1. back' \in Seq(Frame) /\ brd' \in 1..(Len(back') + 1)
      <4>1. FlowControl(Cts, 0) \in Frame
        BY FrameType, PduType DEF TypeOK
      <4>2. back \in Seq(Frame) /\ brd \in 1..(Len(back) + 1) /\ brd' = brd
        BY DEF TypeOK, RecvFirst
      <4>3. PICK g \in Frame : g = FlowControl(Cts, 0)
        BY <4>1
      <4> QED
        BY ONLY <2>2, <4>2, <4>3
    <3>2. total' \in 0..MaxPdu /\ Len(out') <= MaxPdu
      BY <1>1, <1>4, <2>2, <2>3, MaxPduBound DEF FfData
    <3> QED
      BY <1>2, <2>2, <2>3, <3>1, <3>2 DEF TypeOK, RecvFirst, svars, SnMod
  <2>5. Accepted' = 0
    BY <2>3 DEF Accepted, FfData, CfData
  <2>6. Prefix'
    BY <1>1, <1>8, <2>3 DEF Prefix, RecvFirst, FfData, SfMax
  <2>7. ReceiverAt'
    <3>1. /\ Len(out') = FfData + CfData * Accepted' /\ Accepted' >= 0
          /\ Len(out') < total'
          /\ expected_sn' = (Accepted' + 1) % SnMod
          /\ Accepted' + 1 <= rd'
          /\ rd' <= Accepted' + 2 + lost'
      <4>1. FfData = FfData + CfData * 0 /\ FfData < Len(pdu) /\ 1 = (0 + 1) % SnMod
        BY <1>1, <1>8 DEF FfData, CfData, SfMax, SnMod
      <4>2. 0 + 1 <= rd' /\ rd' <= 0 + 2 + lost'
        BY <1>2, <1>3
      <4>3. expected_sn' = 1
        BY DEF RecvFirst
      <4> QED
        BY <2>2, <2>3, <2>5, <4>1, <4>2, <4>3
    <3>2. pdu' = pdu
      BY DEF RecvFirst
    <3> QED
      BY <1>8, <2>2, <2>6, <3>1, <3>2 DEF ReceiverAt
  <2> QED
    BY <1>6, <2>4, <2>7
<1> QED
  BY <1>1, <1>7, <1>8 DEF SfMax

\* A sequence number that matches is the next one, or a whole cycle later.
LEMMA SnGap ==
  ASSUME NEW k \in Nat, NEW r \in Nat, k + 1 <= r,
         (r - 1) % 16 = ((k + 1) % 16) % 16
  PROVE  r = k + 2 \/ k + 18 <= r
OBVIOUS

LEMMA AcceptedIs ==
  ASSUME NEW k \in Nat
  PROVE  ((FfData + CfData * k) - FfData) \div CfData = k
BY DEF FfData, CfData

\* What taking the payload of a consecutive frame does to the bytes.
LEMMA TakeBytesRight ==
  ASSUME NEW o \in Seq(Int), NEW data \in Seq(Int), Len(data) = CfData,
         NEW t \in Nat, Len(o) < t
  PROVE  /\ TakeBytes(o, data, t) \in Seq(Int)
         /\ Len(TakeBytes(o, data, t)) = Least(Len(o) + CfData, t)
         /\ \A i \in 1..Len(o) : TakeBytes(o, data, t)[i] = o[i]
         /\ \A i \in (Len(o) + 1)..Least(Len(o) + CfData, t) :
               TakeBytes(o, data, t)[i] = data[i - Len(o)]
<1> DEFINE m == Least(CfData, t - Len(o))
           d == SubSeq(data, 1, m)
<1>1. /\ m \in Nat /\ m <= Len(data) /\ 0 < m
      /\ Len(o) + m = Least(Len(o) + CfData, t) /\ Len(o) \in Nat
  BY DEF Least, CfData
<1>2. d \in Seq(Int) /\ Len(d) = m /\ \A i \in 1..m : d[i] = data[i]
  <2>1. \A i \in 1..m : data[i] \in Int
    BY <1>1
  <2> QED
    BY <1>1, <2>1, SubSeqProperties
<1>3. /\ o \o d \in Seq(Int)
      /\ Len(o \o d) = Len(o) + m
      /\ \A i \in 1..(Len(o) + m) :
           (o \o d)[i] = IF i <= Len(o) THEN o[i] ELSE d[i - Len(o)]
  <2>1. o \in Seq(Int) /\ d \in Seq(Int)
    BY <1>2
  <2>2. /\ o \o d \in Seq(Int) /\ Len(o \o d) = Len(o) + Len(d)
        /\ \A i \in 1..(Len(o) + Len(d)) :
             (o \o d)[i] = IF i <= Len(o) THEN o[i] ELSE d[i - Len(o)]
    <3> HIDE DEF d
    <3> QED
      BY ONLY <2>1, ConcatProperties, Zenon
  <2> QED
    BY <1>2, <2>2, Zenon
<1>4. ASSUME NEW i \in (Len(o) + 1)..(Len(o) + m)
      PROVE  (o \o d)[i] = data[i - Len(o)]
  <2>1. i \in 1..(Len(o) + m) /\ i > Len(o) /\ i - Len(o) \in 1..m
    BY <1>1
  <2>2. (o \o d)[i] = d[i - Len(o)]
    <3> HIDE DEF d, m
    <3> QED
      BY <1>1, <1>3, <2>1
  <2> QED
    BY <1>2, <2>1, <2>2, Zenon
<1>5. ASSUME NEW i \in 1..Len(o)
      PROVE  (o \o d)[i] = o[i]
  <2> HIDE DEF d, m
  <2> QED
    BY <1>1, <1>3
<1> QED
  BY <1>1, <1>3, <1>4, <1>5 DEF TakeBytes

\* How long that makes them.
LEMMA TakenLength ==
  ASSUME NEW k \in Nat, NEW n \in Nat, n = FfData + CfData * k,
         NEW t \in Nat, n < t, NEW m, m = Least(n + CfData, t)
  PROVE  /\ m \in Nat /\ n <= m /\ m <= n + CfData /\ m <= t
         /\ m < t => m = FfData + CfData * (k + 1)
BY DEF Least, FfData, CfData

\* The consecutive frame at position r of the log.
LEMMA LoggedConsecutive ==
  ASSUME IInv, NEW r \in 1..Len(sent), sent[r].pci = "CF", SfMax < Len(pdu)
  PROVE  /\ 2 <= r /\ r \in Nat
         /\ sent[r].low = (r - 1) % 16
         /\ sent[r].data \in Seq(Int) /\ Len(sent[r].data) = CfData
         /\ Start(r) < Len(pdu)
         /\ \A j \in 1..CfData :
              Start(r) + j <= Len(pdu) => sent[r].data[j] = pdu[Start(r) + j]
<1>1. /\ pdu \in Seq(Int) /\ Len(pdu) \in Nat /\ sent \in Seq(Frame)
      /\ sent[r] = NthFrame(pdu, r) /\ (r > 1 => Start(r) < Len(pdu))
  BY PduType DEF IInv, Segmented, TypeOK
<1>2. r # 1
  <2>1. FirstFrame(pdu).pci # "CF"
    BY DEF FirstFrame
  <2> QED
    BY <1>1, <2>1 DEF NthFrame, SfMax
<1>3. r \in Nat /\ 2 <= r
  BY <1>1, <1>2
<1>4. sent[r] = ConsecutiveFrame(pdu, Start(r), r - 1)
  BY <1>1, <1>2 DEF NthFrame, SfMax
<1>5. Start(r) \in Nat /\ CfData \in Nat
  BY <1>3 DEF Start, FfData, CfData
<1>6. sent[r].low = (r - 1) % 16 /\ sent[r].data = Cut(pdu, Start(r), CfData)
  BY <1>4 DEF ConsecutiveFrame, SnMod
<1> DEFINE d == Cut(pdu, Start(r), CfData)
<1>7. /\ d \in Seq(Int) /\ Len(d) = CfData
      /\ \A j \in 1..CfData : Start(r) + j <= Len(pdu) => d[j] = pdu[Start(r) + j]
  BY <1>1, <1>5, CutType
<1> QED
  BY <1>1, <1>3, <1>6, <1>7

LEMMA RecvConsecutiveKeeps == ASSUME IInv, RecvConsecutive PROVE IInv'
<1> USE DEF IInv
<1> DEFINE k == Accepted
           data == sent[rd].data
<1>1. /\ pdu \in Seq(Int) /\ Len(pdu) \in Nat
      /\ out \in Seq(Int) /\ Len(out) \in Nat
      /\ total = Len(pdu) /\ total \in Nat /\ total <= MaxPdu
      /\ Len(out) < total
  BY PduType DEF RecvConsecutive, ReceiverAt, TypeOK
<1>2. Len(out) = FfData + CfData * k /\ k \in Nat /\ SfMax < Len(pdu)
  <2>1. Accepted \in Int
    BY <1>1 DEF Accepted, FfData, CfData
  <2> QED
    BY <2>1 DEF RecvConsecutive, ReceiverAt
<1>3. /\ expected_sn = (k + 1) % SnMod
      /\ k + 1 <= rd /\ rd <= k + 2 + lost
      /\ Prefix \/ rd > k + SnMod
      /\ Prefix \/ lost >= SnMod
  BY DEF RecvConsecutive, ReceiverAt
<1>4. /\ rd \in 1..Len(sent) /\ rd \in Nat
      /\ rd' \in 1..(Len(sent') + 1) /\ rd' \in Int
      /\ rd' = rd \/ rd' = rd + 1
      /\ lost' = lost /\ lost \in Nat
      /\ dup' \in 0..MaxDup /\ early' \in 0..MaxEarly
  BY ReadFrameType, SMTT(30) DEF RecvConsecutive, TypeOK
<1>5. sent' = sent /\ pdu' = pdu /\ total' = total
  BY DEF RecvConsecutive
<1>6. 2 <= rd /\ sent[rd].low = (rd - 1) % 16 /\ Start(rd) < Len(pdu)
  BY <1>2, <1>4, LoggedConsecutive DEF RecvConsecutive
<1>7. data \in Seq(Int) /\ Len(data) = CfData
  BY <1>2, <1>4, LoggedConsecutive DEF RecvConsecutive
<1>8. \A j \in 1..CfData :
         Start(rd) + j <= Len(pdu) => data[j] = pdu[Start(rd) + j]
  BY <1>2, <1>4, LoggedConsecutive DEF RecvConsecutive
<1>9. out' = TakeBytes(out, data, total)
  BY DEF RecvConsecutive
<1>10. Segmented' /\ SenderAt'
  BY ReceiverKeepsSender DEF RecvConsecutive
<1> HIDE DEF k, data
<1>11. rd = k + 2 \/ k + 18 <= rd
  <2>1. (rd - 1) % 16 = ((k + 1) % 16) % 16
    BY <1>3, <1>6 DEF RecvConsecutive, InSequence, SnMod
  <2> QED
    BY <1>2, <1>3, <1>4, <2>1, SnGap
<1>12. /\ out' \in Seq(Int)
       /\ Len(out') = Least(Len(out) + CfData, total)
       /\ \A i \in 1..Len(out) : out'[i] = out[i]
       /\ \A i \in (Len(out) + 1)..Len(out') : out'[i] = data[i - Len(out)]
  <2> DEFINE b == TakeBytes(out, data, total)
  <2>1. /\ b \in Seq(Int)
        /\ Len(b) = Least(Len(out) + CfData, total)
        /\ \A i \in 1..Len(out) : b[i] = out[i]
        /\ \A i \in (Len(out) + 1)..Least(Len(out) + CfData, total) :
              b[i] = data[i - Len(out)]
    BY <1>1, <1>7, TakeBytesRight
  <2> QED
    BY <1>9, <2>1
<1>13. /\ Len(out') \in Nat /\ Len(out) <= Len(out')
       /\ Len(out') <= Len(out) + CfData /\ Len(out') <= total
       /\ Len(out') < total => Len(out') = FfData + CfData * (k + 1)
  BY <1>1, <1>2, <1>12, TakenLength
<1>14. expected_sn' = (k + 2) % SnMod /\ expected_sn' \in 0..(SnMod - 1)
  <2>1. expected_sn' = (k + 2) % SnMod
    BY <1>2, <1>3 DEF RecvConsecutive, NextSn, SnMod
  <2> QED
    BY <1>2, <2>1, SnRange
<1>15. TypeOK'
  <2>1. Len(out') <= MaxPdu
    BY <1>1, <1>13, MaxPduBound
  <2>2. rpc' \in {"cf", "ok"}
    BY DEF RecvConsecutive
  <2> QED
    BY <1>4, <1>5, <1>12, <1>14, <2>1, <2>2 DEF TypeOK, RecvConsecutive, svars, Returned
\* What is left to show when the PDU is not complete.
<1>16. ASSUME Len(out') < total, k + 2 <= rd,
              Prefix' \/ (lost >= SnMod /\ k + 18 <= rd)
       PROVE  ReceiverAt'
  <2>1. Accepted' = k + 1
    BY <1>2, <1>13, <1>16, AcceptedIs DEF Accepted
  <2>2. rpc' = "cf"
    BY <1>16 DEF RecvConsecutive
  <2>3. /\ k + 1 >= 0 /\ k + 1 + 1 <= rd' /\ rd' <= k + 1 + 2 + lost'
        /\ (k + 18 <= rd) => rd' > k + 1 + SnMod
    BY <1>2, <1>3, <1>4, <1>16 DEF SnMod
  <2>4. expected_sn' = (k + 1 + 1) % SnMod
    BY <1>2, <1>14
  <2> QED
    BY <1>2, <1>4, <1>5, <1>13, <1>16, <1>1, <2>1, <2>2, <2>3, <2>4 DEF ReceiverAt
\* In the place of the frame accepted, the bytes of the PDU.
<1>17. CASE rd = k + 2 /\ Prefix
  <2>1. Start(rd) = Len(out)
    BY <1>2, <1>17 DEF Start, FfData, CfData
  <2>2. ASSUME NEW i \in 1..Len(out') PROVE out'[i] = pdu[i]
    <3>1. CASE i <= Len(out)
      BY <1>1, <1>12, <1>17, <3>1 DEF Prefix
    <3>2. CASE i > Len(out)
      <4>1. i \in Nat /\ i <= Len(out') /\ CfData \in Nat
        BY <1>13 DEF CfData
      <4>2. i \in (Len(out) + 1)..Len(out') /\ i - Len(out) \in 1..CfData
        BY <1>1, <1>13, <3>2, <4>1
      <4>3. Len(out) + (i - Len(out)) = i /\ i <= Len(pdu)
        BY <1>1, <1>13, <4>1
      <4> QED
        BY <1>8, <1>12, <2>1, <4>2, <4>3
    <3> QED
      BY <1>1, <3>1, <3>2
  <2>3. Prefix'
    BY <1>1, <1>5, <1>13, <2>2 DEF Prefix
  <2>4. CASE Len(out') < total
    BY <1>10, <1>15, <1>16, <1>17, <2>3, <2>4, <1>2
  <2>5. CASE Len(out') = total
    <3>1. out' = pdu
      BY <1>1, <1>12, <2>2, <2>5, SeqEqual
    <3>2. rpc' = "ok"
      BY <1>1, <2>5 DEF RecvConsecutive
    <3>3. Len(sent) > 1 /\ sent # << >>
      BY <1>4, <1>6
    <3>4. ReceiverAt'
      BY <1>5, <2>3, <3>1, <3>2, <3>3 DEF ReceiverAt
    <3> QED
      BY <1>10, <1>15, <3>4
  <2> QED
    BY <1>1, <1>13, <2>4, <2>5
\* A frame from a later cycle: the PDU is too long to be complete with it.
<1>18. CASE k + 18 <= rd
  <2>1. FfData + CfData * (k + 16) < total
    <3>1. FfData + CfData * (rd - 2) < total
      BY <1>1, <1>6 DEF Start
    <3>2. rd \in Nat /\ k \in Nat /\ total \in Nat
      BY <1>1, <1>2, <1>4
    <3> QED
      BY <1>18, <3>1, <3>2 DEF FfData, CfData
  <2>2. Len(out') < total
    BY <1>1, <1>2, <1>13, <2>1 DEF FfData, CfData
  <2>3. lost >= SnMod
    BY <1>2, <1>3, <1>4, <1>18 DEF SnMod
  <2>4. k + 2 <= rd
    BY <1>2, <1>4, <1>18
  <2> QED
    BY <1>10, <1>15, <1>16, <1>18, <2>2, <2>3, <2>4
<1>19. rd = k + 2 => Prefix
  BY <1>2, <1>3, <1>4 DEF SnMod
<1> QED
  BY <1>11, <1>17, <1>18, <1>19

LEMMA RecvSkipsKeeps == ASSUME IInv, RecvSkips PROVE IInv'
<1> USE DEF IInv
<1>1. /\ rd \in 1..Len(sent) /\ rd \in Nat
      /\ rd' \in 1..(Len(sent') + 1) /\ rd' \in Int
      /\ rd' = rd \/ rd' = rd + 1
      /\ lost' = lost /\ lost \in Nat
      /\ dup' \in 0..MaxDup /\ early' \in 0..MaxEarly
  BY ReadFrameType DEF RecvSkips, TypeOK
<1>2. TypeOK'
  BY <1>1 DEF TypeOK, RecvSkips, svars, rvars
<1>3. Segmented' /\ SenderAt'
  BY ReceiverKeepsSender DEF RecvSkips
\* Only the first frame is not a consecutive one: it came twice.
<1>4. rd = 1
  <2>1. sent[rd] = NthFrame(pdu, rd) /\ SfMax < Len(pdu) /\ Len(pdu) \in Nat
    BY <1>1, PduType DEF Segmented, RecvSkips, ReceiverAt
  <2>2. CASE rd # 1
    <3>1. sent[rd] = ConsecutiveFrame(pdu, Start(rd), rd - 1)
      BY <2>1, <2>2 DEF NthFrame, SfMax
    <3> QED
      BY <3>1 DEF ConsecutiveFrame, RecvSkips
  <2> QED
    BY <2>2
<1>5. Accepted \in Int
  BY DEF TypeOK, Accepted, FfData, CfData
<1>6. ReceiverAt'
  <2>1. Accepted + 1 <= rd' /\ rd' <= Accepted + 2 + lost'
    BY <1>1, <1>4, <1>5 DEF RecvSkips, ReceiverAt
  <2>2. rd > Accepted + SnMod => rd' > Accepted + SnMod
    BY <1>1, <1>5 DEF SnMod
  <2> QED
    BY <1>1, <2>1, <2>2 DEF ReceiverAt, RecvSkips, rvars, Prefix, Accepted
<1> QED
  BY <1>2, <1>3, <1>6

LEMMA RecvWrongSnKeeps == ASSUME IInv, RecvWrongSn PROVE IInv'
<1> USE DEF IInv
<1>1. /\ rd' \in 1..(Len(sent') + 1)
      /\ lost' = lost /\ dup' \in 0..MaxDup /\ early' \in 0..MaxEarly
  BY ReadFrameType DEF RecvWrongSn
<1>2. TypeOK'
  BY <1>1 DEF TypeOK, RecvWrongSn, svars, Returned
<1>3. Segmented' /\ SenderAt'
  BY ReceiverKeepsSender DEF RecvWrongSn
<1>4. ReceiverAt'
  BY <1>1 DEF ReceiverAt, RecvWrongSn, Prefix
<1> QED
  BY <1>2, <1>3, <1>4

LEMMA RecvTimesOutKeeps == ASSUME IInv, RecvTimesOut PROVE IInv'
<1> USE DEF IInv
<1>1. TypeOK'
  BY DeadlineType DEF TypeOK, RecvTimesOut, svars, Returned
<1>2. Segmented' /\ SenderAt'
  BY ReceiverKeepsSender DEF RecvTimesOut
<1>3. ReceiverAt'
  BY DeadlineType DEF ReceiverAt, RecvTimesOut, Prefix
<1> QED
  BY <1>1, <1>2, <1>3

-----------------------------------------------------------------------------
(* The steps of the link keep the invariant.                                *)

LEMMA LoseFrameKeeps == ASSUME IInv, LoseFrame PROVE IInv'
<1> USE DEF IInv
<1>1. /\ rd \in Nat /\ lost \in Nat /\ MaxLost \in Nat
      /\ rd' = rd + 1 /\ lost' = lost + 1 /\ lost < MaxLost
      /\ Len(sent) \in Nat /\ rd <= Len(sent)
      /\ out \in Seq(Int) /\ Len(out) \in Nat
  BY TransferAssumption DEF TypeOK, LoseFrame
<1>2. TypeOK'
  <2>1. rd' \in 1..(Len(sent') + 1) /\ lost' \in 0..MaxLost
    BY <1>1 DEF LoseFrame
  <2> QED
    BY <2>1 DEF TypeOK, LoseFrame, svars, rvars
<1>3. Segmented' /\ SenderAt'
  BY ReceiverKeepsSender DEF LoseFrame
<1>4. Accepted \in Int
  BY <1>1 DEF Accepted, FfData, CfData
<1>5. /\ lost >= SnMod => lost' >= SnMod
      /\ rd - 1 <= lost => rd' - 1 <= lost'
      /\ Accepted + 1 <= rd => Accepted + 1 <= rd'
      /\ rd <= Accepted + 2 + lost => rd' <= Accepted + 2 + lost'
      /\ rd > Accepted + SnMod => rd' > Accepted + SnMod
  BY <1>1, <1>4 DEF SnMod
<1>6. Accepted' = Accepted /\ (Prefix' <=> Prefix)
  BY DEF LoseFrame, rvars, Accepted, Prefix
<1>7. ReceiverAt'
  BY <1>5, <1>6 DEF ReceiverAt, LoseFrame, rvars
<1> QED
  BY <1>2, <1>3, <1>7

LEMMA LoseFlowKeeps == ASSUME IInv, LoseFlow PROVE IInv'
<1> USE DEF IInv
<1>1. /\ brd \in Nat /\ lost \in Nat /\ MaxLost \in Nat
      /\ brd' = brd + 1 /\ lost' = lost + 1 /\ lost < MaxLost
      /\ Len(back) \in Nat /\ brd <= Len(back)
      /\ rd \in Nat /\ out \in Seq(Int) /\ Len(out) \in Nat
  BY TransferAssumption DEF TypeOK, LoseFlow
<1>2. TypeOK'
  <2>1. brd' \in 1..(Len(back') + 1) /\ lost' \in 0..MaxLost
    BY <1>1 DEF LoseFlow
  <2> QED
    BY <2>1 DEF TypeOK, LoseFlow, svars, rvars
<1>3. Segmented' /\ SenderAt'
  BY ReceiverKeepsSender DEF LoseFlow
<1>4. Accepted \in Int
  BY <1>1 DEF Accepted, FfData, CfData
<1>5. /\ lost >= SnMod => lost' >= SnMod
      /\ rd - 1 <= lost => rd - 1 <= lost'
      /\ rd <= Accepted + 2 + lost => rd <= Accepted + 2 + lost'
  BY <1>1, <1>4 DEF SnMod
<1>6. Accepted' = Accepted /\ (Prefix' <=> Prefix)
  BY DEF LoseFlow, rvars, Accepted, Prefix
<1>7. ReceiverAt'
  BY <1>5, <1>6 DEF ReceiverAt, LoseFlow, rvars
<1> QED
  BY <1>2, <1>3, <1>7

LEMMA NextIInv == IInv /\ [Next]_vars => IInv'
<1> SUFFICES ASSUME IInv, [Next]_vars PROVE IInv'
  OBVIOUS
<1>1. CASE SendStep
  BY <1>1, SendRefusedKeeps, SendSingleKeeps, SendFirstKeeps, SendGetsFlowKeeps,
     SendConsecutiveKeeps, SendReturnsKeeps, SendTimesOutKeeps DEF SendStep
<1>2. CASE RecvStep
  BY <1>2, RecvFirstKeeps, RecvSkipsKeeps, RecvWrongSnKeeps,
     RecvConsecutiveKeeps, RecvTimesOutKeeps DEF RecvStep
<1>3. CASE LoseFrame
  BY <1>3, LoseFrameKeeps
<1>4. CASE LoseFlow
  BY <1>4, LoseFlowKeeps
<1>5. CASE UNCHANGED vars
  BY <1>5 DEF vars, svars, rvars, link, IInv, TypeOK, Segmented, SenderAt,
     ReceiverAt, Prefix, Accepted
<1> QED
  BY <1>1, <1>2, <1>3, <1>4, <1>5 DEF Next, Finished

-----------------------------------------------------------------------------
(* The theorems.                                                            *)

\* In every behaviour the log, the two calls and the link stay tied together
\* as IInv says.
THEOREM Invariance == Spec => []IInv
<1>1. Init => IInv
  BY InitIInv
<1>2. IInv /\ [Next]_vars => IInv'
  BY NextIInv
<1> QED
  BY <1>1, <1>2, PTL DEF Spec

\* The state stays in its types: no counter of the two calls, and no length
\* recv() assembles, leaves the range the code's integers give it.
THEOREM TypeCorrect == Spec => []TypeOK
<1>1. IInv => TypeOK
  BY DEF IInv
<1> QED
  BY <1>1, Invariance, PTL

\* A PDU that recv() returns is the one given to send(), whatever frames are
\* lost or doubled, for every PDU and every number of faults.
THEOREM DeliveryIsExact == Spec => []ExactDelivery
<1>1. IInv => ExactDelivery
  BY DEF IInv, ReceiverAt, ExactDelivery
<1> QED
  BY <1>1, Invariance, PTL

\* Fewer than sixteen lost frames leave no hole in what recv() has assembled.
THEOREM HolesCostACycle == Spec => []HoleNeedsWholeCycle
<1>1. IInv => HoleNeedsWholeCycle
  <2> SUFFICES ASSUME IInv, lost < SnMod PROVE Prefix
    BY DEF HoleNeedsWholeCycle
  <2>1. lost \in Nat
    BY TransferAssumption DEF IInv, TypeOK
  <2> QED
    BY <2>1 DEF IInv, ReceiverAt, SnMod
<1> QED
  BY <1>1, Invariance, PTL

-----------------------------------------------------------------------------
(* Without a fault neither call fails.                                      *)

\* As long as nothing is lost, doubled or late, the receiver is exactly one frame
\* behind what it has accepted, every flow control is a clear-to-send that waits for
\* send(), and a send() that has returned has written all of the PDU.
Flawless ==
  /\ spc # "error" /\ rpc # "error"
  /\ \A j \in 1..Len(back) : back[j] = FlowControl(Cts, 0)
  /\ spc \in {"start", "fc"} => brd = 1
  /\ rpc # "first" /\ SfMax < Len(pdu) => back # << >>
  /\ rpc = "cf" => rd = Accepted + 2
  /\ spc = "ok" => sent # << >> /\ (SfMax < Len(pdu) => Len(pdu) <= Start(Len(sent) + 1))

Calm == Admissible /\ ~Disturbed

LEMMA SumOfNone ==
  ASSUME NEW a \in Nat, NEW b \in Nat, NEW c \in Nat, ~(a + b + c > 0)
  PROVE  a = 0 /\ b = 0 /\ c = 0
OBVIOUS

LEMMA AppendedTo ==
  ASSUME NEW s \in Seq(Frame), NEW f \in Frame
  PROVE  Append(s, f) # << >>
<1>1. Len(Append(s, f)) = Len(s) + 1 /\ Len(s) \in Nat
  OBVIOUS
<1>. QED  BY <1>1

\* Faults are counted and never forgotten, and the link's count as soon as they happen.
LEMMA CalmStays ==
  ASSUME IInv, IInv', [Next]_vars, Calm'
  PROVE  /\ Calm /\ lost = 0 /\ dup = 0 /\ early = 0
         /\ lost' = 0 /\ dup' = 0 /\ early' = 0 /\ pdu' = pdu
         /\ ~LoseFrame /\ ~LoseFlow
<1>1. /\ lost \in Nat /\ dup \in Nat /\ early \in Nat
      /\ lost' \in Nat /\ dup' \in Nat /\ early' \in Nat
  <2>1. TransferAssumption
    BY TransferAssumption
  <2>. QED  BY <2>1, FaultCounts DEF IInv, TypeOK, TransferAssumption
<1>2. lost' = 0 /\ dup' = 0 /\ early' = 0
  <2>1. ~(lost' + dup' + early' > 0)
    BY DEF Calm, Disturbed
  <2>. QED  BY <1>1, <2>1, SumOfNone, Zenon
<1>3. pdu' = pdu /\ lost <= lost' /\ dup <= dup' /\ early <= early'
  <2>1. CASE SendRefused \/ SendSingle \/ SendFirst \/ SendGetsFlow \/ SendConsecutive \/ SendReturns
    <3>1. pdu' = pdu /\ lost' = lost /\ dup' = dup /\ early' = early
      BY <2>1 DEF SendRefused, SendSingle, SendFirst, SendGetsFlow, SendConsecutive, SendReturns, link
    <3>. QED  BY <1>1, <3>1
  <2>2. CASE SendTimesOut \/ RecvTimesOut
    <3>1. pdu' = pdu /\ lost' = lost /\ dup' = dup /\ early' \in {early, early + 1}
      BY <2>2 DEF SendTimesOut, RecvTimesOut, DeadlinePasses
    <3>. QED  BY <1>1, <3>1
  <2>3. CASE RecvFirst \/ RecvSkips \/ RecvWrongSn \/ RecvConsecutive
    <3>1. pdu' = pdu /\ ReadFrame
      BY <2>3 DEF RecvFirst, RecvSkips, RecvWrongSn, RecvConsecutive
    <3>2. lost' = lost /\ early' = early /\ dup' \in {dup, dup + 1}
      BY <3>1 DEF ReadFrame
    <3>. QED  BY <1>1, <3>1, <3>2
  <2>4. CASE LoseFrame \/ LoseFlow
    <3>1. pdu' = pdu /\ lost' = lost + 1 /\ dup' = dup /\ early' = early
      BY <2>4 DEF LoseFrame, LoseFlow
    <3>. QED  BY <1>1, <3>1
  <2>5. CASE UNCHANGED vars
    <3>1. pdu' = pdu /\ lost' = lost /\ dup' = dup /\ early' = early
      BY <2>5 DEF vars, link
    <3>. QED  BY <1>1, <3>1
  <2>. QED
    BY <2>1, <2>2, <2>3, <2>4, <2>5 DEF Next, SendStep, RecvStep, Finished
<1>4. ~LoseFrame /\ ~LoseFlow
  BY <1>1, <1>2 DEF LoseFrame, LoseFlow
<1>. QED  BY <1>1, <1>2, <1>3, <1>4 DEF Calm, Admissible, Disturbed

\* The deadline that passes passes because nothing else can happen.
LEMMA NotTooEarly ==
  ASSUME DeadlinePasses, early = 0, early' = 0
  PROVE  Quiet
BY DEF DeadlinePasses

LEMMA LinkFacts ==
  ASSUME IInv, lost = 0
  PROVE  /\ pdu \in Seq(Int) /\ Len(pdu) \in Nat
         /\ sent \in Seq(Frame) /\ Len(sent) \in Nat /\ rd \in 1..(Len(sent) + 1) /\ rd \in Nat
         /\ back \in Seq(Frame) /\ Len(back) \in Nat /\ brd \in 1..(Len(back) + 1) /\ brd \in Nat
         /\ rpc = "first" => rd = 1 /\ back = << >>
<1>1. /\ sent \in Seq(Frame) /\ rd \in 1..(Len(sent) + 1)
      /\ back \in Seq(Frame) /\ brd \in 1..(Len(back) + 1)
  BY DEF IInv, TypeOK
<1>2. rpc = "first" => rd - 1 <= 0 /\ back = << >>
  BY DEF IInv, ReceiverAt
<1>. QED  BY <1>1, <1>2, PduType DEF IInv

LEMMA SendFlawless ==
  ASSUME IInv, IInv', Calm, Calm', pdu' = pdu, lost = 0, early = 0, early' = 0, Flawless, SendStep
  PROVE  Flawless'
<1>1. /\ pdu \in Seq(Int) /\ Len(pdu) \in Nat /\ 0 < Len(pdu) /\ Len(pdu) <= MaxPdu
      /\ sent \in Seq(Frame) /\ Len(sent) \in Nat /\ rd \in 1..(Len(sent) + 1)
      /\ back \in Seq(Frame) /\ Len(back) \in Nat /\ brd \in 1..(Len(back) + 1)
      /\ rpc = "first" => rd = 1 /\ back = << >>
  BY LinkFacts DEF Calm, Admissible
<1>2. /\ spc # "error" /\ rpc # "error"
      /\ \A j \in 1..Len(back) : back[j] = FlowControl(Cts, 0)
      /\ spc \in {"start", "fc"} => brd = 1
      /\ rpc # "first" /\ SfMax < Len(pdu) => back # << >>
      /\ rpc = "cf" => rd = Accepted + 2
  BY DEF Flawless
<1>3. /\ rpc' = rpc /\ out' = out /\ rd' = rd /\ back' = back /\ Accepted' = Accepted
      /\ \A j \in 1..Len(back') : back'[j] = FlowControl(Cts, 0)
      /\ rpc' # "error"
      /\ rpc' # "first" /\ SfMax < Len(pdu') => back' # << >>
      /\ rpc' = "cf" => rd' = Accepted' + 2
  <2>1. rpc' = rpc /\ out' = out /\ rd' = rd /\ back' = back
    BY DEF SendStep, SendRefused, SendSingle, SendFirst, SendGetsFlow, SendConsecutive,
           SendReturns, SendTimesOut, rvars
  <2>2. Accepted' = Accepted
    BY <2>1 DEF Accepted
  <2>. QED  BY <1>2, <2>1, <2>2
<1>4. CASE SendRefused
  BY <1>1, <1>4, MaxPduBound DEF SendRefused
<1>5. CASE SendSingle
  <2>1. spc' = "ok" /\ brd' = brd /\ sent' = Append(sent, SingleFrame(pdu))
    BY <1>5 DEF SendSingle, WriteFrame
  <2>2. sent' # << >>
    <3>1. SingleFrame(pdu) \in Frame
      BY <1>1, FrameType
    <3>. QED  BY <1>1, <2>1, <3>1, AppendedTo, Zenon
  <2>3. Len(pdu) <= SfMax
    BY <1>5 DEF SendSingle
  <2>4. ~(SfMax < Len(pdu'))
    BY <1>1, <2>3 DEF SfMax
  <2>. QED  BY <1>3, <2>1, <2>2, <2>4 DEF Flawless
<1>6. CASE SendFirst
  BY <1>2, <1>3, <1>6 DEF Flawless, SendFirst
<1>7. CASE SendGetsFlow
  <2>1. back[brd] = FlowControl(Cts, 0)
    BY <1>1, <1>2, <1>7 DEF SendGetsFlow
  <2>2. LetsGo(back[brd])
    BY <2>1 DEF LetsGo, FlowControl, Cts, Overflow
  <2>3. spc' = "cf"
    BY <1>7, <2>2 DEF SendGetsFlow
  <2>. QED  BY <1>3, <2>3 DEF Flawless
<1>8. CASE SendConsecutive
  BY <1>3, <1>8 DEF Flawless, SendConsecutive
<1>9. CASE SendReturns
  <2>1. /\ spc = "cf" /\ spc' = "ok" /\ sent' = sent /\ Len(pdu) <= idx
        /\ sent # << >> /\ SfMax < Len(pdu)
        /\ idx = Least(FfData + CfData * (Len(sent) - 1), Len(pdu))
    BY <1>1, <1>9 DEF SendReturns, IInv, SenderAt, TypeOK
  <2>2. Len(pdu) <= Start(Len(sent) + 1)
    BY <1>1, <2>1 DEF Least, Start, FfData, CfData
  <2>3. Len(pdu') <= Start(Len(sent') + 1)
    BY <2>1, <2>2 DEF Start
  <2>. QED  BY <1>3, <2>1, <2>3 DEF Flawless
<1>10. CASE SendTimesOut
  <2>1. spc = "fc" /\ Quiet
    BY <1>10, NotTooEarly DEF SendTimesOut
  <2>2. Len(sent) = 1 /\ SfMax < Len(pdu) /\ brd = 1
    BY <1>1, <1>2, <2>1 DEF IInv, SenderAt, SfMax
  <2>3. Len(back) = 0 /\ (rd > 1 \/ rpc \in Returned)
    BY <1>1, <2>1, <2>2 DEF Quiet, Returned
  <2>4. rpc = "first"
    BY <1>1, <1>2, <2>2, <2>3
  <2>. QED  BY <1>1, <2>3, <2>4 DEF Returned
<1>. QED  BY <1>4, <1>5, <1>6, <1>7, <1>8, <1>9, <1>10 DEF SendStep

\* The first frame is read as the single frame or the first frame that it is.
LEMMA RecvFirstReads ==
  ASSUME IInv, RecvFirst, lost = 0
  PROVE  /\ rd = 1 /\ back = << >> /\ pdu \in Seq(Int) /\ 0 < Len(pdu) /\ Len(pdu) <= MaxPdu
         /\ Len(pdu) <= SfMax => rpc' = "ok" /\ back' = back
         /\ SfMax < Len(pdu) => /\ rpc' = "cf" /\ back' = Append(back, FlowControl(Cts, 0))
                                /\ Len(out') = FfData
<1>1. /\ rd = 1 /\ back = << >> /\ sent \in Seq(Frame) /\ Len(sent) \in Nat
      /\ pdu \in Seq(Int) /\ Len(pdu) \in Nat
  BY LinkFacts DEF RecvFirst
<1>2. 1 \in 1..Len(sent) /\ sent # << >>
  BY <1>1, ReadFrameType DEF RecvFirst, IInv
<1>3. 0 < Len(pdu) /\ Len(pdu) <= MaxPdu /\ sent[1] = NthFrame(pdu, 1)
  BY <1>2 DEF IInv, Segmented
<1>4. CASE Len(pdu) <= SfMax
  <2>1. sent[1] = SingleFrame(pdu)
    BY <1>3, <1>4 DEF NthFrame
  <2>2. rpc' = "ok" /\ back' = back
    BY <1>1, <1>3, <1>4, <2>1, SingleRoundTrip DEF RecvFirst, AfterFirst
  <2>3. ~(SfMax < Len(pdu))
    BY <1>1, <1>4 DEF SfMax
  <2>. QED  BY <1>1, <1>3, <1>4, <2>2, <2>3
<1>5. CASE SfMax < Len(pdu)
  <2>1. sent[1] = FirstFrame(pdu) /\ ~(Len(pdu) <= SfMax)
    BY <1>1, <1>3, <1>5 DEF NthFrame, SfMax
  <2>2. rpc' = "cf" /\ back' = Append(back, FlowControl(Cts, 0))
    BY <1>1, <1>3, <1>5, <2>1, LengthRoundTrip DEF RecvFirst, AfterFirst
  <2>3. Len(out') = FfData
    BY <1>1, <1>3, <1>5, <2>1, FirstBytesRight DEF RecvFirst
  <2>. QED  BY <1>1, <1>3, <2>1, <2>2, <2>3
<1>. QED  BY <1>1, <1>4, <1>5 DEF SfMax

\* The next frame is the consecutive one that is expected.
LEMMA NextInSequence ==
  ASSUME IInv, Flawless, rpc = "cf", rd \in 1..Len(sent)
  PROVE  sent[rd].pci = "CF" /\ InSequence(sent[rd], expected_sn)
<1>1. /\ SfMax < Len(pdu) /\ rd = Accepted + 2 /\ Accepted >= 0
      /\ expected_sn = (Accepted + 1) % SnMod
      /\ sent[rd] = NthFrame(pdu, rd) /\ pdu \in Seq(Int) /\ Len(pdu) \in Nat
  BY PduType DEF IInv, ReceiverAt, Flawless, Segmented
<1>2. Accepted \in Nat
  BY <1>1 DEF IInv, TypeOK, Accepted, FfData, CfData
<1>3. sent[rd] = ConsecutiveFrame(pdu, Start(rd), rd - 1)
  BY <1>1, <1>2 DEF NthFrame, SfMax
<1>4. (rd - 1) % SnMod = expected_sn % SnMod
  BY <1>1, <1>2 DEF SnMod
<1>. QED  BY <1>3, <1>4 DEF ConsecutiveFrame, InSequence

LEMMA RecvFlawless ==
  ASSUME IInv, IInv', Calm, Calm', pdu' = pdu, lost = 0, dup' = 0, early = 0, early' = 0, dup = 0,
         Flawless, RecvStep
  PROVE  Flawless'
<1>1. /\ pdu \in Seq(Int) /\ Len(pdu) \in Nat
      /\ sent \in Seq(Frame) /\ Len(sent) \in Nat /\ rd \in 1..(Len(sent) + 1) /\ rd \in Nat
      /\ back \in Seq(Frame) /\ Len(back) \in Nat /\ brd \in 1..(Len(back) + 1) /\ brd \in Nat
      /\ rpc = "first" => rd = 1 /\ back = << >>
  BY LinkFacts
<1>2. /\ spc # "error"
      /\ \A j \in 1..Len(back) : back[j] = FlowControl(Cts, 0)
      /\ spc \in {"start", "fc"} => brd = 1
      /\ rpc # "first" /\ SfMax < Len(pdu) => back # << >>
      /\ rpc = "cf" => rd = Accepted + 2
      /\ spc = "ok" => sent # << >> /\ (SfMax < Len(pdu) => Len(pdu) <= Start(Len(sent) + 1))
  BY DEF Flawless
<1>3. /\ spc' = spc /\ brd' = brd /\ sent' = sent
      /\ spc' \in {"start", "fc"} => brd' = 1
      /\ spc' = "ok" =>
           sent' # << >> /\ (SfMax < Len(pdu') => Len(pdu') <= Start(Len(sent') + 1))
  <2>1. spc' = spc /\ brd' = brd /\ sent' = sent
    BY DEF RecvStep, RecvFirst, RecvSkips, RecvWrongSn, RecvConsecutive, RecvTimesOut, svars
  <2>. QED  BY <1>2, <2>1 DEF Start
<1>4. CASE RecvFirst
  <2>1. rd = 1 /\ back = << >> /\ rd' = rd + 1
    BY <1>4, RecvFirstReads DEF RecvFirst, ReadFrame
  <2>2. CASE Len(pdu) <= SfMax
    <3>1. rpc' = "ok" /\ back' = back /\ ~(SfMax < Len(pdu'))
      BY <1>1, <1>4, <2>2, RecvFirstReads DEF SfMax
    <3>. QED  BY <1>2, <1>3, <3>1 DEF Flawless
  <2>3. CASE SfMax < Len(pdu)
    <3>1. rpc' = "cf" /\ back' = <<FlowControl(Cts, 0)>> /\ Len(out') = FfData
      BY <1>4, <2>1, <2>3, RecvFirstReads
    <3>2. Accepted' = 0
      BY <3>1 DEF Accepted, FfData, CfData
    <3>3. back' # << >> /\ \A j \in 1..Len(back') : back'[j] = FlowControl(Cts, 0)
      BY <3>1
    <3>. QED  BY <1>2, <1>3, <2>1, <3>1, <3>2, <3>3 DEF Flawless
  <2>. QED  BY <1>1, <2>2, <2>3 DEF SfMax
<1>5. CASE RecvSkips \/ RecvWrongSn
  <2>1. rpc = "cf" /\ rd \in 1..Len(sent)
    BY <1>1, <1>5 DEF RecvSkips, RecvWrongSn, ReadFrame
  <2>. QED  BY <1>5, <2>1, NextInSequence DEF RecvSkips, RecvWrongSn
<1>6. CASE RecvConsecutive
  <2>1. rpc = "cf" /\ rd' = rd + 1 /\ back' = back
    BY <1>6 DEF RecvConsecutive, ReadFrame
  <2>2. rpc' \in {"cf", "ok"}
    BY <1>6 DEF RecvConsecutive
  <2>3. CASE rpc' = "cf"
    <3>1. /\ Len(out) = FfData + CfData * Accepted /\ Accepted >= 0 /\ Len(out) < total
          /\ total \in Nat /\ out \in Seq(Int) /\ Len(out) \in Nat
      BY <2>1, MaxPduBound DEF IInv, ReceiverAt, TypeOK
    <3>2. Accepted \in Nat
      BY <3>1 DEF Accepted, FfData, CfData
    <3>3. sent[rd].data \in Seq(Int) /\ Len(sent[rd].data) = CfData
      <4>1. rd \in 1..Len(sent) /\ sent[rd].pci = "CF" /\ SfMax < Len(pdu)
        BY <1>1, <1>6 DEF RecvConsecutive, ReadFrame, IInv, ReceiverAt
      <4>. QED  BY <4>1, LoggedConsecutive
    <3>4. Len(out') = Least(Len(out) + CfData, total)
      BY <1>6, <3>1, <3>3, TakeBytesRight DEF RecvConsecutive
    <3>5. Len(out') < total
      BY <1>6, <2>3 DEF RecvConsecutive
    <3>6. Len(out') = FfData + CfData * (Accepted + 1)
      BY <3>1, <3>2, <3>4, <3>5, TakenLength
    <3>7. Accepted' = Accepted + 1
      <4>1. PICK k \in Nat : k = Accepted + 1
        BY <3>2
      <4>2. Len(out') = FfData + CfData * k
        BY <3>6, <4>1
      <4>. QED  BY <4>1, <4>2, AcceptedIs DEF Accepted
    <3>8. rd' = Accepted' + 2
      BY <1>1, <1>2, <2>1, <3>2, <3>7
    <3>. QED  BY <1>2, <1>3, <2>1, <2>3, <3>8 DEF Flawless
  <2>4. CASE rpc' = "ok"
    BY <1>2, <1>3, <2>1, <2>4 DEF Flawless
  <2>. QED  BY <2>2, <2>3, <2>4
<1>7. CASE RecvTimesOut
  <2>1. rpc \in {"first", "cf"} /\ Quiet
    BY <1>7, NotTooEarly DEF RecvTimesOut
  <2>2. rd > Len(sent) /\ (brd > Len(back) \/ spc \in Returned) /\ spc \notin {"start", "cf"}
    BY <2>1 DEF Quiet, Returned
  <2>3. spc \in {"fc", "ok"}
    BY <1>2, <2>2 DEF IInv, TypeOK, Returned
  <2>4. CASE spc = "fc"
    <3>1. Len(sent) = 1 /\ SfMax < Len(pdu) /\ brd = 1
      BY <1>2, <2>4 DEF IInv, SenderAt
    <3>2. Len(back) = 0
      BY <1>1, <2>2, <2>4, <3>1 DEF Returned
    <3>3. rpc = "first"
      BY <1>1, <1>2, <3>1, <3>2
    <3>. QED  BY <1>1, <2>2, <3>1, <3>3
  <2>5. CASE spc = "ok"
    <3>1. Len(sent) >= 1
      BY <1>1, <1>2, <2>5
    <3>2. rpc = "cf"
      BY <1>1, <2>1, <2>2, <3>1
    <3>3. /\ Len(out) = FfData + CfData * Accepted /\ Len(out) < Len(pdu)
          /\ rd = Accepted + 2 /\ Len(pdu) <= Start(Len(sent) + 1)
          /\ Accepted >= 0
      BY <1>2, <2>5, <3>2 DEF IInv, ReceiverAt
    <3>4. Accepted \in Nat
      BY <3>3 DEF IInv, TypeOK, Accepted, FfData, CfData
    <3>5. Len(sent) = Accepted + 1
      BY <1>1, <2>2, <3>3, <3>4
    <3>. QED  BY <1>1, <3>3, <3>4, <3>5 DEF Start, FfData, CfData
  <2>. QED  BY <2>3, <2>4, <2>5
<1>. QED  BY <1>4, <1>5, <1>6, <1>7 DEF RecvStep

\* Without a fault neither call fails, for every PDU of 1 to 4095 bytes, whatever the
\* interleaving of the two ends (isotp.cpp:112-168, 185-241).
THEOREM NoFaultNoFailure == Spec => []NothingFails
<1>. DEFINE Smooth == Calm => Flawless
<1>1. Init => Smooth
  <2>. SUFFICES ASSUME Init PROVE Flawless
    OBVIOUS
  <2>. QED  BY DEF Init, Flawless
<1>2. IInv /\ IInv' /\ Smooth /\ [Next]_vars => Smooth'
  <2>. SUFFICES ASSUME IInv, IInv', Smooth, [Next]_vars, Calm' PROVE Flawless'
    OBVIOUS
  <2>1. /\ Calm /\ lost = 0 /\ dup = 0 /\ early = 0 /\ pdu' = pdu
        /\ lost' = 0 /\ dup' = 0 /\ early' = 0 /\ ~LoseFrame /\ ~LoseFlow
    BY CalmStays
  <2>2. Flawless
    BY <2>1
  <2>3. CASE SendStep
    BY <2>1, <2>2, <2>3, SendFlawless
  <2>4. CASE RecvStep
    BY <2>1, <2>2, <2>4, RecvFlawless
  <2>5. CASE UNCHANGED vars
    BY <2>2, <2>5 DEF vars, svars, rvars, Flawless, Accepted, Start
  <2>. QED  BY <2>1, <2>3, <2>4, <2>5 DEF Next, Finished
<1>3. Smooth => NothingFails
  BY DEF Calm, Flawless, NothingFails
<1>. QED  BY <1>1, <1>2, <1>3, Invariance, PTL DEF Spec

-----------------------------------------------------------------------------
(* The refinement of PduTransfer.                                           *)

LEMMA InitRefines == Init => Transfer!Init
BY DEF Init, Transfer!Init, Outcome, Returned

\* Every step of send(), recv() or the link is a step of the abstract transfer
\* or changes nothing it can see.
LEMMA StepRefines == IInv /\ IInv' /\ [Next]_vars => [Transfer!Next]_(Transfer!vars)
<1> SUFFICES ASSUME IInv, IInv', [Next]_vars
             PROVE  Transfer!Next \/ UNCHANGED Transfer!vars
  OBVIOUS
<1> USE DEF Outcome, Returned
<1>1. ASSUME UNCHANGED <<pdu, spc, rpc, out>>
      PROVE  UNCHANGED Transfer!vars
  BY <1>1 DEF Transfer!vars
\* A send() that fails has sent too little for recv() to succeed.
<1>2. ASSUME spc \in {"start", "fc"}, spc' = "error", UNCHANGED <<pdu, rvars>>
      PROVE  Transfer!SendFails
  <2>1. rpc # "ok"
    <3>1. sent = << >> \/ (Len(sent) = 1 /\ SfMax < Len(pdu))
      BY <1>2 DEF IInv, SenderAt
    <3>2. rpc = "ok" => sent # << >> /\ (SfMax < Len(pdu) => Len(sent) > 1)
      BY DEF IInv, ReceiverAt
    <3>3. CASE sent = << >>
      BY <3>2, <3>3
    <3>4. CASE Len(sent) = 1 /\ SfMax < Len(pdu)
      <4>1. rpc = "ok" => 1 > 1
        BY <3>2, <3>4
      <4> QED
        BY <4>1
    <3> QED
      BY <3>1, <3>3, <3>4
  <2> QED
    BY <1>2, <2>1 DEF Transfer!SendFails, rvars
<1>3. ASSUME spc \in {"start", "cf"}, spc' = "ok", UNCHANGED <<pdu, rvars>>
      PROVE  Transfer!SendSucceeds
  BY <1>3 DEF Transfer!SendSucceeds, rvars
\* And nothing is complete in a log whose sender has failed.
<1>4. ASSUME rpc \in {"first", "cf"}, rpc' = "ok", UNCHANGED <<pdu, svars, sent>>
      PROVE  Transfer!Deliver
  <2>1. out' = pdu
    BY <1>4 DEF IInv, ReceiverAt
  <2>2. spc # "error"
    <3>1. Len(sent) \in Nat /\ Len(pdu) \in Nat
      BY PduType DEF IInv, TypeOK
    <3>2. sent # << >> /\ (SfMax < Len(pdu) => Len(sent) > 1)
      BY <1>4 DEF IInv, ReceiverAt
    <3> QED
      BY <3>1, <3>2 DEF IInv, SenderAt, SfMax
  <2> QED
    BY <1>4, <2>1, <2>2 DEF Transfer!Deliver, svars
<1>5. ASSUME rpc \in {"first", "cf"}, rpc' = "error", UNCHANGED <<pdu, svars>>
      PROVE  Transfer!ReceiveFails
  BY <1>5 DEF Transfer!ReceiveFails, svars
<1>6. CASE SendStep
  <2>1. CASE SendRefused \/ SendTimesOut
    BY <1>2, <2>1 DEF SendRefused, SendTimesOut, Transfer!Next
  <2>2. CASE SendSingle \/ SendReturns
    BY <1>3, <2>2 DEF SendSingle, SendReturns, Transfer!Next
  <2>3. CASE SendFirst \/ SendConsecutive
    BY <2>3 DEF SendFirst, SendConsecutive, rvars, Transfer!vars
  <2>4. CASE SendGetsFlow
    <3>1. CASE LetsGo(back[brd])
      BY <2>4, <3>1 DEF SendGetsFlow, rvars, Transfer!vars
    <3>2. CASE ~LetsGo(back[brd])
      BY <1>2, <2>4, <3>2 DEF SendGetsFlow, Transfer!Next
    <3> QED
      BY <3>1, <3>2
  <2> QED
    BY <1>6, <2>1, <2>2, <2>3, <2>4 DEF SendStep
<1>7. CASE RecvStep
  <2>1. CASE RecvFirst
    <3>1. rpc' \in {"ok", "cf", "error"}
      BY <2>1 DEF RecvFirst, AfterFirst
    <3>2. rpc' = "cf" => UNCHANGED Transfer!vars
      BY <2>1 DEF RecvFirst, svars, Transfer!vars
    <3> QED
      BY <1>4, <1>5, <2>1, <3>1, <3>2 DEF RecvFirst, Transfer!Next
  <2>2. CASE RecvConsecutive
    <3>1. rpc' \in {"ok", "cf"}
      BY <2>2 DEF RecvConsecutive
    <3>2. rpc' = "cf" => UNCHANGED Transfer!vars
      BY <2>2 DEF RecvConsecutive, svars, Transfer!vars
    <3> QED
      BY <1>4, <2>2, <3>1, <3>2 DEF RecvConsecutive, Transfer!Next
  <2>3. CASE RecvSkips
    BY <1>1, <2>3 DEF RecvSkips, svars, rvars
  <2>4. CASE RecvWrongSn \/ RecvTimesOut
    BY <1>5, <2>4 DEF RecvWrongSn, RecvTimesOut, Transfer!Next
  <2> QED
    BY <1>7, <2>1, <2>2, <2>3, <2>4 DEF RecvStep
<1>8. CASE LoseFrame \/ LoseFlow \/ UNCHANGED vars
  BY <1>1, <1>8 DEF LoseFrame, LoseFlow, vars, svars, rvars
<1> QED
  BY <1>6, <1>7, <1>8 DEF Next, Finished

\* The two endpoints implement the transfer that PduTransfer promises.
THEOREM Refinement == Spec => TransferSpec
<1>1. Init => Transfer!Init
  BY InitRefines
<1>2. IInv /\ IInv' /\ [Next]_vars => [Transfer!Next]_(Transfer!vars)
  BY StepRefines
<1> QED
  BY <1>1, <1>2, Invariance, PTL DEF Spec, TransferSpec, Transfer!Spec
=============================================================================
