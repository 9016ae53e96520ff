----------------------------- MODULE IsoTpFrames -----------------------------
(***************************************************************************)
(* The ISO-TP frames that IsoTpTransport (src/src/isotp.cpp) writes and     *)
(* reads, and the decisions it takes on one frame.                          *)
(*                                                                          *)
(* A frame is the record of what the code reads of CanFrame::data:          *)
(*   pci   the upper nibble of data[0]: SF 0x00, FF 0x10, CF 0x20, FC 0x30  *)
(*   low   the lower nibble of data[0]                                      *)
(*   ext   data[1], where it is part of the header (FF length, FC block     *)
(*         size); 0 in the other frames                                     *)
(*   data  the payload bytes, padded to the frame's capacity: the data      *)
(*         array is zero-initialised and write_frame pads it, and recv()    *)
(*         never looks at dlc                                               *)
(* The arbitration id is kept apart, by the modules where frames of         *)
(* several ids meet.  A PDU is a sequence of bytes, a byte an integer.      *)
(*                                                                          *)
(* An operator followed by a defective variant of itself (NextSnNoWrap,     *)
(* InSequenceAlways, ...) is how the properties were tried: each variant is *)
(* a bug the code could have had, and some property refutes it.  Only the   *)
(* last of a group is used.                                                 *)
(***************************************************************************)
EXTENDS Integers, Sequences

CONSTANT Padding        \* IsoTpConfig::padding, the byte that fills a frame

ASSUME PaddingAssumption == Padding \in Int

SfMax  == 7             \* payload bytes of a single frame
FfData == 6             \* payload bytes of a first frame
CfData == 7             \* payload bytes of a consecutive frame
SnMod  == 16            \* sequence numbers are one nibble
MaxPdu == 4095          \* what the 12-bit length of a first frame can say

Nibble == 0..15
Byte == 0..255

Frame == [pci: {"SF", "FF", "CF", "FC"}, low: Nibble, ext: Byte, data: Seq(Int)]

\* FlowStatus, the lower nibble of a flow control frame.
Cts == 0
Wait == 1
Overflow == 2

-----------------------------------------------------------------------------
(* The frames written.                                                      *)

\* The bytes of pdu after the first idx, cut or padded to room bytes.
Cut(pdu, idx, room) ==
  [k \in 1..room |-> IF idx + k <= Len(pdu) THEN pdu[idx + k] ELSE Padding]

SingleFrame(pdu) ==
  [pci |-> "SF", low |-> Len(pdu) % 16, ext |-> 0, data |-> Cut(pdu, 0, SfMax)]

\* The length goes out as a nibble and a byte.
FirstFrame(pdu) ==
  [pci |-> "FF", low |-> (Len(pdu) \div 256) % 16, ext |-> Len(pdu) % 256,
   data |-> Cut(pdu, 0, FfData)]

ConsecutiveFrame(pdu, idx, sn) ==
  [pci |-> "CF", low |-> sn % SnMod, ext |-> 0, data |-> Cut(pdu, idx, CfData)]

FlowControl(status, blockSize) ==
  [pci |-> "FC", low |-> status, ext |-> blockSize, data |-> << >>]

-----------------------------------------------------------------------------
(* What the code makes of a frame read.                                     *)

Least(a, b) == IF a <= b THEN a ELSE b

\* The sequence number after n, and whether consecutive frame f carries n.
NextSnNoWrap(n) == n + 1
NextSn(n) == (n + 1) % SnMod

InSequenceAlways(f, n) == TRUE
InSequenceOrLater(f, n) == f.low >= n % SnMod
InSequenceThreeBits(f, n) == f.low % 8 = n % 8
InSequence(f, n) == f.low = n % SnMod

\* send(): the frame after the first frame lets the consecutive ones go.  Any
\* flow control but overflow does, "wait" included.
LetsGo(f) == f.pci = "FC" /\ f.low # Overflow

FirstTotal(f) == f.low * 256 + f.ext

IsSingle(f) == f.pci = "SF" /\ 0 < f.low /\ f.low <= SfMax
\* recv() takes a first frame that announces no less than 8 bytes.
IsFirstAboveEight(f) ==
  f.pci = "FF" /\ SfMax + 1 < FirstTotal(f) /\ FirstTotal(f) <= MaxPdu
IsFirst(f) == f.pci = "FF" /\ SfMax < FirstTotal(f) /\ FirstTotal(f) <= MaxPdu

\* recv(): what the first frame read makes of the call.
AfterFirst(f) == IF IsSingle(f) THEN "ok" ELSE IF IsFirst(f) THEN "cf" ELSE "error"

FirstBytes(f) == IF IsSingle(f) THEN SubSeq(f.data, 1, f.low)
                 ELSE IF IsFirst(f) THEN f.data ELSE << >>

\* recv(): the payload of a consecutive frame, up to the announced total.
TakeAllBytes(out, data, total) == out \o data
TakeBytes(out, data, total) ==
  out \o SubSeq(data, 1, Least(CfData, total - Len(out)))
=============================================================================
