----------------------------- MODULE DiagStack -----------------------------
(***************************************************************************)
(* The stack as an application puts it together: IsoTpTransport over a      *)
(* TracingChannel (src/src/frame_trace.cpp) over an Elm327Channel, whose    *)
(* adapter is on the CAN bus of IsoTpSession's ECU.  Everything above the   *)
(* adapter is one thread: a frame that the transport writes has gone        *)
(* through the adapter's whole dialogue before the transport goes on.       *)
(*                                                                          *)
(* The bus runs freely and the adapter does not: it reports what it         *)
(* collects after a payload and until it thinks the ECU has finished, and   *)
(* what is on the bus at other times is gone.  write() collects, the next   *)
(* read() hands over (elm327_channel.h:28-35), and the trace is written     *)
(* above that, when the transport writes and when read() returns.  The      *)
(* frames of other nodes are left to IsoTpSession.                          *)
(*                                                                          *)
(* Transport == IsoTpSession with outbox and inbox in the place of the bus, *)
(* Ecu == IsoTpSession with the CAN bus, Elm == Elm327Channel.              *)
(***************************************************************************)
EXTENDS Integers, Sequences, FiniteSets

CONSTANTS Padding,
          ReqSize, RspSize, FcBlockSize, EcuFlows, MaxHeld, MaxEarly,   \* IsoTpSession
          Rejects, MaxOps, MaxFrames, MaxFailures                       \* Elm327Channel

VARIABLES req, pc, idx, total, out, expected_sn, rx_buf_, answers,    \* the transport
          outbox,        \* the frame it is writing
          inbox,         \* the frames that read() has just returned
          silent,        \* the last read() has waited in vain
          log,           \* the trace
          op, todo, waiting, open_, header_set_, tx_header_, rx_accum_, rx_queue_,
          last_error_, given, fragment, to_adapter, stream, adapter, sent, emitted,
          taken, ops,    \* the channel and its adapter
          content,       \* the frames of the payloads in to_adapter
          collecting, collected,    \* the adapter listens, and what it has heard
          reported,      \* the frames that the tokens in emitted stand for
          canbus, canwire,          \* frames on the CAN bus, to the ECU and from it
          crossed,       \* all that ever were
          ecu, foreign, held, early, failures,
          native         \* supportsHwIsoTp() of a TracingChannel: never

transport == <<req, pc, idx, total, out, expected_sn, rx_buf_, answers, outbox, inbox>>
channel   == <<op, todo, waiting, open_, header_set_, tx_header_, rx_accum_, rx_queue_,
               last_error_, given, fragment, to_adapter, stream, adapter, sent, emitted,
               taken, ops>>
listening == <<content, collecting, collected, reported>>
can       == <<canbus, canwire, crossed, ecu, foreign, held, native>>
vars      == <<transport, silent, log, channel, listening, can, early, failures>>

Transport == INSTANCE IsoTpSession
  WITH bus <- outbox, wire <- inbox, lost <- failures,
       ecu <- [pc |-> "idle", msg |-> 0, k |-> 0, block |-> 0, credit |-> 0],
       HwIsoTp <- {FALSE}, MaxForeign <- 0, MaxLost <- MaxFailures

Ecu == INSTANCE IsoTpSession
  WITH bus <- canbus, wire <- canwire, lost <- failures,
       HwIsoTp <- {FALSE}, MaxForeign <- 0, MaxLost <- MaxFailures

TheId == [num |-> 1, ext |-> FALSE]

Elm == INSTANCE Elm327Channel
  WITH Ids <- {TheId}, UserCommands <- {}, Ops <- {"open", "write", "read"},
       HeadersOn <- TRUE, AdaptiveTiming <- TRUE, AutoFormat <- FALSE

ASSUME StackAssumption ==
  Ecu!PaddingAssumption /\ Ecu!SessionAssumption /\ Elm!ElmAssumption

Directions == {"TX", "RX"}
Traced(dir, frames) == [i \in 1..Len(frames) |-> [dir |-> dir, frame |-> frames[i]]]

\* The payloads on their way to the adapter.
Payloads == {i \in 1..Len(to_adapter) : to_adapter[i].step.cmd = "payload"}

TypeOK ==
  /\ Transport!TypeOK /\ Ecu!TypeOK /\ Elm!TypeOK
  /\ Len(outbox) <= 1 /\ silent \in BOOLEAN /\ collecting \in BOOLEAN
  /\ collected \in Seq(Ecu!SessionFrame) /\ reported \in Seq(Ecu!SessionFrame)
  /\ Len(content) = Cardinality(Payloads)
  /\ log \in Seq([dir: Directions, frame: Ecu!SessionFrame])
  /\ crossed \in Seq([dir: Directions, frame: Ecu!SessionFrame])

Init ==
  /\ Transport!Init /\ Ecu!Init /\ Elm!Init
  /\ silent = FALSE /\ log = << >>
  /\ content = << >> /\ collecting = FALSE /\ collected = << >> /\ reported = << >>
  /\ crossed = << >>

-----------------------------------------------------------------------------
(* The tester's thread.                                                     *)

Idle == op = "idle" /\ ops > 0

Connect ==
  /\ ops = 0 /\ Elm!Initialise
  /\ UNCHANGED <<transport, silent, log, listening, can, early>>

\* The transport's own steps, up to the next call of the channel.
Thinks ==
  /\ Idle /\ outbox = << >>
  /\ \/ Transport!Fetch /\ inbox' = << >>
     \/ inbox = << >> /\ (\/ Transport!SendFirst \/ Transport!SendGetsFlow
                          \/ Transport!SendConsecutive \/ Transport!RecvFirst
                          \/ Transport!RecvMore \/ Transport!AssemblyTimesOut)
  /\ UNCHANGED <<silent, log, channel, listening, canbus, canwire, crossed, ecu>>

\* TracingChannel::write and Elm327Channel::write: the frame is in the trace before
\* anything has happened to it.
WriteTracedIfGood(f) == IF last_error_ THEN log ELSE log \o Traced("TX", <<f>>)
WriteTraced(f) == log \o Traced("TX", <<f>>)

WriteFrame ==
  /\ Idle /\ outbox # << >>
  /\ log' = WriteTraced(outbox[1])
  /\ Elm!Write \/ Elm!WriteClosed
  /\ outbox' = IF op' = "idle" THEN << >> ELSE outbox
  /\ UNCHANGED <<req, pc, idx, total, out, expected_sn, rx_buf_, answers, inbox, silent,
                 listening, can, early>>

\* The frames that leave the channel in this step.
FrameOf(token) == reported[CHOOSE i \in 1..Len(emitted) : emitted[i] = token]
Returned == [i \in 1..(Len(taken') - Len(taken)) |-> FrameOf(taken'[Len(taken) + i])]

\* TracingChannel::read: what has been read is in the trace when it is returned.
ReadTracedFirst ==
  log \o Traced("RX", IF Returned = << >> THEN << >> ELSE <<Returned[1]>>)
ReadTraced == log \o Traced("RX", Returned)

\* A closed channel returns at once, again and again until the deadline.
ReadFrames ==
  /\ Idle /\ outbox = << >> /\ inbox = << >> /\ ~silent
  /\ pc \in {"fc", "first", "more"}
  /\ \A j \in 1..Len(rx_buf_) : ~Transport!Matches(rx_buf_[j])
  /\ Elm!ReadQueued \/ Elm!ReadWaits
  /\ inbox' = Returned /\ log' = ReadTraced
  /\ silent' = ~open_
  /\ UNCHANGED <<req, pc, idx, total, out, expected_sn, rx_buf_, answers, outbox, listening,
                 can, early>>

Gives == todo # << >> /\ Len(to_adapter') > Len(to_adapter) /\ Head(todo).cmd = "payload"

\* The channel's dialogue with its adapter, up to the return of write() or read().
Talks ==
  /\ op # "idle"
  /\ \/ Elm!SendRaw \/ Elm!SendRawFails \/ Elm!SendRawFailsUnseen \/ Elm!Fetch
     \/ Elm!GetAnswer
  /\ content' = IF Gives THEN content \o outbox ELSE content
  /\ IF op = "read" THEN inbox' = Returned /\ log' = ReadTraced ELSE UNCHANGED <<inbox, log>>
  /\ outbox' = IF op' = "idle" THEN << >> ELSE outbox
  /\ UNCHANGED <<req, pc, idx, total, out, expected_sn, rx_buf_, answers, silent, collecting,
                 collected, reported, can, early>>

\* A wait ends; a read() that has waited to its end is the last before the deadline.
GivesUp ==
  /\ Elm!GiveUp
  /\ silent' \in IF op # "read" THEN {silent}
                 ELSE IF failures' = failures THEN {TRUE} ELSE BOOLEAN
  /\ outbox' = IF op' = "idle" THEN << >> ELSE outbox
  /\ UNCHANGED <<req, pc, idx, total, out, expected_sn, rx_buf_, answers, inbox, log,
                 listening, can, early>>

ReadTimesOut ==
  /\ Idle /\ outbox = << >> /\ silent
  /\ Transport!ReadTimesOut
  /\ silent' = FALSE
  /\ UNCHANGED <<log, channel, listening, canbus, canwire, crossed, ecu>>

Finished == pc = "done" /\ Idle /\ outbox = << >> /\ UNCHANGED vars

-----------------------------------------------------------------------------
(* The adapter.                                                             *)

\* A command other than a payload, or what is left of one.
AdapterAnswers ==
  /\ Elm!AdapterResets \/ Elm!AdapterObeys \/ Elm!AdapterRejects
  /\ content' = IF Head(to_adapter).step.cmd = "payload" THEN Tail(content) ELSE content
  /\ UNCHANGED <<transport, silent, log, collecting, collected, reported, can, early>>

\* A payload goes onto the bus, and the adapter listens.
AdapterSends ==
  /\ ~collecting /\ to_adapter # << >>
  /\ Head(to_adapter).step.cmd = "payload" /\ Head(to_adapter).text = "whole"
  /\ collecting' = TRUE /\ collected' = << >>
  /\ canbus' = Append(canbus, Head(content))
  /\ crossed' = crossed \o Traced("TX", <<Head(content)>>)
  /\ UNCHANGED <<transport, silent, log, channel, content, reported, canwire, ecu, foreign,
                 held, early, failures, native>>

\* A frame on the bus is collected, if the adapter listens and has room, or missed.
AdapterHears ==
  /\ canwire # << >> /\ canwire' = Tail(canwire)
  /\ collected' = IF collecting /\ Len(collected) < MaxFrames
                  THEN Append(collected, Head(canwire)) ELSE collected
  /\ UNCHANGED <<transport, silent, log, channel, content, collecting, reported, canbus,
                 crossed, ecu, foreign, held, early, failures, native>>

\* It stops when the ECU has no more to say, or another command comes, or too soon.
AdapterReports ==
  /\ collecting /\ collecting' = FALSE
  /\ \/ (Ecu!Quiet \/ Len(to_adapter) > 1) /\ early' = early
     \/ ~Ecu!Quiet /\ Ecu!TooEarly
  /\ Elm!Transmits(Len(collected))
  /\ reported' = reported \o collected
  /\ content' = Tail(content) /\ collected' = << >>
  /\ UNCHANGED <<transport, silent, log, can>>

LoseToken ==
  /\ Elm!LoseToken
  /\ UNCHANGED <<transport, silent, log, listening, can, early>>

-----------------------------------------------------------------------------
(* The ECU.                                                                 *)

EcuActs ==
  /\ Ecu!Ecu
  /\ crossed' = crossed \o Traced("RX", SubSeq(canwire', Len(canwire) + 1, Len(canwire')))
  /\ UNCHANGED <<outbox, inbox, silent, log, channel, listening>>

-----------------------------------------------------------------------------

Tester == \/ Connect \/ Thinks \/ WriteFrame \/ ReadFrames \/ Talks \/ GivesUp
          \/ ReadTimesOut

Adapter == AdapterAnswers \/ AdapterSends \/ AdapterHears \/ AdapterReports

Next == Tester \/ Adapter \/ EcuActs \/ LoseToken \/ Finished

Spec == Init /\ [][Next]_vars

\* The tester's thread runs, the adapter carries out what it is given and hears what
\* is on the bus, and the ECU does not go to sleep over a request.
FairSpec == Spec /\ WF_vars(Tester) /\ WF_vars(Adapter) /\ WF_vars(EcuActs)

-----------------------------------------------------------------------------
(* Properties.                                                              *)

\* As long as nothing fails, neither the stream nor a wait, and the adapter hears the
\* ECU out, every request is answered with the whole of its own response, through
\* the write() that collects the frames and the read() that hands them over, with
\* flow controls that are writes like any other (elm327_channel.h:17-35).
Answered == Transport!Answered

\* Also when the stream fails, waits are given up, late answers come for the next
\* command (elm327_channel.cpp:225-252) and IChannel::write() cannot say that a
\* frame was not sent (isotp.cpp:55), no response is used twice or after a later one,
\* and none is older than the failures before it allow: the stack implements
\* AnswerOrder.
AnsweredInOrder == Transport!AnsweredInOrder

\* Between operations, with nothing left in the queue, the trace is what crossed the
\* bus, frame by frame and in order, as frame_trace.h:15-20 says, as long as nothing
\* fails and the ECU lets long requests through at once: a flow control that comes
\* in the middle of one is collected by one write() and traced after the next.
TraceExact ==
  failures + held + early = 0 /\ Idle /\ outbox = << >> /\ rx_queue_ = << >>
    => log = crossed

Only(dir, trace) ==
  LET among[n \in 0..Len(trace)] ==
        IF n = 0 THEN << >>
        ELSE IF trace[n].dir = dir THEN Append(among[n - 1], trace[n]) ELSE among[n - 1]
  IN  among[Len(trace)]

\* part is whole without some of its elements: each is found in turn.
Within(part, whole) ==
  LET found[n \in 0..Len(whole)] ==
        IF n = 0 THEN 0
        ELSE LET k == found[n - 1]
             IN  IF k < Len(part) /\ part[k + 1] = whole[n] THEN k + 1 ELSE k
  IN  found[Len(whole)] = Len(part)

\* Whatever fails, the trace holds every frame that the tester has put on the bus, in
\* order, and no frame from the bus that was not there, or twice, or out of order
\* (frame_trace.cpp:16-30): the log of a failed exchange may show a frame that the
\* adapter never sent, but does not lack one.
TraceComplete ==
  /\ Within(Only("TX", crossed), Only("TX", log))
  /\ Within(Only("RX", log), Only("RX", crossed))

\* Every call of request() returns.
Completes == <>(pc = "done")
=============================================================================
