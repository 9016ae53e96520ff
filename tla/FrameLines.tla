----------------------------- MODULE FrameLines -----------------------------
(***************************************************************************)
(* CAN frames as text and as values: the digits of hex_id and hex_byte      *)
(* (src/src/elm327_channel.cpp), which are also those of a line of          *)
(* TextFrameLog (src/src/frame_trace.cpp) and of an adapter's report, what  *)
(* parse_frame_line reads in such a line, and what validate_frame and       *)
(* is_valid_id (src/src/can_frame.cpp) say of a frame.                      *)
(*                                                                          *)
(* A line is a sequence of words, a word a sequence of hexadecimal digits:  *)
(* the white space between words and the status lines, in which a word has  *)
(* other letters, are left out.  Words of the adapter are those of its      *)
(* setting with spaces; SplitIds says whether it puts spaces into a 29-bit  *)
(* id as well.                                                              *)
(***************************************************************************)
EXTENDS Positional, SequencesExt

CONSTANTS CanFrames,     \* the frames put into lines
          SplitIds       \* whether an id of 29 bits is printed as four words

MaxStandardId == 2047              \* kMaxStandardId
MaxExtendedId == 536870911         \* kMaxExtendedId
MaxJ1850Id    == 16777215          \* kMaxJ1850Id
MaxDlc(type) == IF type = "FD" THEN 64 ELSE 8

FrameTypes == {"Standard", "Extended", "FD", "Error", "Remote", "J1850"}

\* data is the whole array without the zeros at its end.
CanFrame == [id: Nat, type: FrameTypes, dlc: 0..255, data: Seq(0..255)]

VARIABLES frame,         \* the frame in hand, or NoFrame
          text,          \* its line, or what is left of it
          parsed         \* what parse_frame_line() made of that: a frame, or NoFrame

vars == <<frame, text, parsed>>

NoFrame == [id |-> 0, type |-> "Error", dlc |-> 0, data |-> << >>]

\* The frames are such frames, and none stands for its absence.
LinesAssumption ==
  /\ CanFrames \subseteq CanFrame \ {NoFrame} /\ SplitIds \in BOOLEAN
  /\ \A f \in CanFrames : f.data # << >> => f.data[Len(f.data)] # 0

-----------------------------------------------------------------------------
(* Printing.                                                                *)

Digits(v, n) == Spelled(v, n, 16)

\* %03X and %08X print more digits if they are needed.
IdDigits(id, ext) ==
  LET room == IF ext THEN 8 ELSE 3
  IN Digits(id, Max({room} \cup {n \in 1..8 : n = 1 \/ Shifted(id, n - 1, 16) > 0}))

\* The bytes that are sent, and logged: no more than eight, whatever dlc says, and
\* zeros where the data ends.
Bytes(f) ==
  [i \in 1..Min({f.dlc, 8}) |-> IF i <= Len(f.data) THEN f.data[i] ELSE 0]

Words(bytes) == [i \in 1..Len(bytes) |-> Digits(bytes[i], 2)]

IdWords(f) ==
  LET d == IdDigits(f.id, f.type = "Extended")
  IN IF SplitIds /\ f.type = "Extended"
     THEN [i \in 1..4 |-> SubSeq(d, (2 * i) - 1, 2 * i)] ELSE <<d>>

Line(f) == IdWords(f) \o Words(Bytes(f))

-----------------------------------------------------------------------------
(* parse_frame_line().                                                      *)

Number(digits) == ValueOf(digits, 16)

TypeByValue(word) == IF Number(word) > MaxStandardId THEN "Extended" ELSE "Standard"
TypeOf(word) ==
  IF Len(word) > 3 \/ Number(word) > MaxStandardId THEN "Extended" ELSE "Standard"

\* The words after the id that are read, and what is wrong with one of them.
Read(words) == SubSeq(words, 2, Min({Len(words), 9}))
NotAByteIgnored(word) == word = << >>
NotAByte(word) == Len(word) # 2

\* data holds no zeros at its end.
Trimmed(bytes) ==
  SubSeq(bytes, 1, Max({0} \cup {i \in 1..Len(bytes) : bytes[i] # 0}))

Parse(words) ==
  IF \/ Len(words) < 2 \/ Len(words[1]) \notin 1..8
     \/ \E i \in 1..Len(Read(words)) : NotAByte(Read(words)[i])
  THEN NoFrame
  ELSE [id |-> Number(words[1]), type |-> TypeOf(words[1]), dlc |-> Len(Read(words)),
        data |-> Trimmed([i \in 1..Len(Read(words)) |-> Number(Read(words)[i])])]

-----------------------------------------------------------------------------
(* validate_frame() and is_valid_id().                                      *)

MaxIdOf(type) ==
  CASE type = "Standard" -> MaxStandardId
    [] type = "J1850"    -> MaxJ1850Id
    [] OTHER             -> MaxExtendedId

IsValidId(id, type) == id <= MaxIdOf(type)

\* Only three of the types have their ids looked at.
IdPasses(f) ==
  /\ f.type = "Standard" => f.id <= MaxStandardId
  /\ f.type = "Extended" => f.id <= MaxExtendedId
  /\ f.type = "J1850"    => f.id <= MaxJ1850Id

Validates(f) == IdPasses(f) /\ f.dlc <= MaxDlc(f.type) /\ Len(f.data) <= f.dlc

-----------------------------------------------------------------------------

TypeOK ==
  /\ frame \in CanFrames \cup {NoFrame}
  /\ text \in Seq(Seq(0..15))
  /\ parsed \in CanFrame

Init == frame = NoFrame /\ text = << >> /\ parsed = NoFrame

\* A frame becomes a line, of the log or of the adapter's report.
PrintLine ==
  /\ frame = NoFrame
  /\ frame' \in CanFrames
  /\ text' = Line(frame')
  /\ UNCHANGED parsed

\* The last character of the line is lost on its way.
LoseDigit ==
  /\ text # << >> /\ parsed = NoFrame
  /\ text' = IF Len(Last(text)) = 1 THEN Front(text)
             ELSE [text EXCEPT ![Len(text)] = Front(@)]
  /\ UNCHANGED <<frame, parsed>>

ParseLine ==
  /\ text # << >> /\ parsed = NoFrame
  /\ parsed' = Parse(text)
  /\ UNCHANGED <<frame, text>>

Forget == frame # NoFrame /\ frame' = NoFrame /\ text' = << >> /\ parsed' = NoFrame

Next == PrintLine \/ LoseDigit \/ ParseLine \/ Forget

Spec == Init /\ [][Next]_vars

-----------------------------------------------------------------------------
(* Properties.                                                              *)

\* Frames that a classic CAN controller sends.
Classic(f) == f.type \in {"Standard", "Extended"} /\ Validates(f)

\* A frame with data comes back from its line as it was, 11-bit or 29-bit, whatever
\* its id and its bytes (elm327_channel.cpp:111-116, 162-202, frame_trace.cpp:36-52).
ReadsBack ==
  Classic(frame) /\ frame.dlc > 0 => Parse(Line(frame)) = frame

\* A line that has lost its end is refused or read as a frame with fewer bytes, and
\* never with another id or with bytes that were not sent (elm327_channel.cpp:186-199);
\* the frame is one that validate_frame() and is_valid_id() accept
\* (can_frame.cpp:25-76).
CutLosesOnly ==
  Classic(frame) /\ parsed # NoFrame =>
    /\ parsed.id = frame.id /\ parsed.type = frame.type /\ parsed.dlc <= frame.dlc
    /\ parsed.data = Trimmed(SubSeq(Bytes(frame), 1, parsed.dlc))
    /\ Validates(parsed) /\ IsValidId(parsed.id, parsed.type)
=============================================================================
