----------------------------- MODULE Conversions -----------------------------
(***************************************************************************)
(* The parts of the SDK that compute, without the keys: extend_timestamp,   *)
(* the requests, the lines.  They share no state, so that they are used one *)
(* at a time: what one does is no different for what another did before.    *)
(***************************************************************************)
EXTENDS Timestamp, Sequences

CONSTANTS Args, Dids, Data, Addresses, Sizes, Widths,      \* UdsRequests
          CanFrames, SplitIds                              \* FrameLines

VARIABLES call, pdu, result, frame, text, parsed

Requests == INSTANCE UdsRequests
Lines    == INSTANCE FrameLines

ASSUME ConversionsAssumption == Requests!RequestsAssumption /\ Lines!LinesAssumption

clock    == vars
request  == <<call, pdu, result>>
line     == <<frame, text, parsed>>

ConvInit == Init /\ Requests!Init /\ Lines!Init

\* The clock has not been started, or a conversion has been left again.
NoClock    == true_us = 0 /\ UNCHANGED clock
NoRequest  == call = Requests!None /\ UNCHANGED request
NoLine     == frame = Lines!NoFrame /\ UNCHANGED line

ConvNext ==
  \/ NoRequest /\ NoLine /\ Next
  \/ NoClock /\ NoLine /\ Requests!Next
  \/ NoClock /\ NoRequest /\ Lines!Next

ConvSpec == ConvInit /\ [][ConvNext]_<<clock, request, line>>

\* Every module's variables keep their types.
ConvTypes == TypeOK /\ Requests!TypeOK /\ Lines!TypeOK

\* The properties of the modules, stated and explained there: what the ECU reads in
\* a request (uds_client.cpp:121-315),
Understood == Requests!Understood

\* what read_vin() returns (uds_client.cpp:163-165),
VinWhole == Requests!VinWhole

\* what parse_frame_line() reads in a line (elm327_channel.cpp:162-202),
ReadsBack == Lines!ReadsBack

\* and in a line that has lost its end (elm327_channel.cpp:186-199, can_frame.cpp:25-76).
CutLosesOnly == Lines!CutLosesOnly
=============================================================================
