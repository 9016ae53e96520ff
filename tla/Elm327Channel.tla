--------------------------- MODULE Elm327Channel ---------------------------
(***************************************************************************)
(* Elm327Channel (src/src/elm327_channel.cpp): a CAN channel on top of an   *)
(* ELM327 adapter, which is driven through a byte stream by commands, each  *)
(* answered with lines of text and a prompt.  The only thing that ties an   *)
(* answer to its command is that it comes next.                             *)
(*                                                                          *)
(* The stream carries tokens, a line or a prompt, and a read of the stream  *)
(* may return any number of them, so that an answer may arrive in pieces.   *)
(* A line is "ok", a status word that is not, or a received frame; cmd and  *)
(* k say which command it answers and its place there, which the channel    *)
(* does not know.  The echo of commands, which command() removes, is left   *)
(* out, as no echo looks like a frame or holds the word OK.                 *)
(*                                                                          *)
(* The adapter is external: it carries out its commands in order, may       *)
(* reject an AT command, and answers each one.                              *)
(***************************************************************************)
EXTENDS Integers, Sequences, FiniteSets

CONSTANTS Ids,           \* the CAN ids that frames are written with
          UserCommands,  \* the commands the caller gives with command()
          Ops,           \* the operations the caller may use
          MaxOps,        \* bound on how many it performs
          MaxFrames,     \* bound on the frames that answer one payload
          HeadersOn, AdaptiveTiming, AutoFormat,   \* Elm327Config
          Rejects,       \* AT commands the adapter may turn down
          MaxFailures    \* bound on reads and writes of the stream that fail,
                         \* and on waits that end before the answer is there

OpNames == {"open", "initialise", "write", "read", "filter", "mask", "clear", "close",
            "command"}

AtCommands == {"ATZ", "ATE0", "ATL0", "ATS1", "ATH1", "ATAT1", "ATSP", "ATCAF0",
               "ATSH", "ATCRA", "ATCM", "ATCF", "ATPC", "ATI"}

\* An arbitration id: its number, and whether it has 29 bits.
Id == [num: Nat \ {0}, ext: BOOLEAN]
NoId == [num |-> 0, ext |-> FALSE]

ASSUME ElmAssumption ==
  /\ Ops \subseteq OpNames /\ Ids \subseteq Id
  /\ Rejects \subseteq AtCommands /\ UserCommands \subseteq AtCommands
  /\ MaxOps \in Nat /\ MaxFrames \in Nat /\ MaxFailures \in Nat
  /\ {HeadersOn, AdaptiveTiming, AutoFormat} \subseteq BOOLEAN

VARIABLES op,            \* the operation in progress, or "idle"
          todo,          \* the commands it has still to give
          waiting,       \* read_until_prompt is running
          open_, header_set_, tx_header_, rx_accum_, rx_queue_, last_error_,
          given,         \* how many commands have been given
          fragment,      \* the piece of a command that the stream has taken without
                         \* its end: of an AT command, of a payload, or "none"
          to_adapter, stream,   \* commands and answers on their way
          adapter,       \* the header it uses, the settings it has accepted
          sent,          \* frames on the bus: the id meant, the id used
          emitted, taken,       \* frames the adapter reported, and those that have
                         \* left the channel again
          ops, failures

caller  == <<op, todo, waiting, given, fragment, ops>>
channel == <<open_, header_set_, tx_header_, rx_accum_, rx_queue_, last_error_>>
device  == <<to_adapter, stream, adapter, sent, emitted>>
vars    == <<caller, channel, device, taken, failures>>

\* What a command is followed by if its answer is not as it should be: "ok" needs
\* an OK, "reply" any answer, "ignored" nothing.
Needs == {"ok", "reply", "ignored"}

Step(cmd, need) == [cmd |-> cmd, need |-> need, id |-> NoId]

Prompt == [line |-> "prompt", cmd |-> 0, k |-> 0]
Line(text, cmd, k) == [line |-> text, cmd |-> cmd, k |-> k]

\* What reaches the adapter of a command: all of it, or something else because a
\* fragment came before; two payloads run together are still hexadecimal digits.
Texts == {"whole", "garbled", "glued"}

Steps  == [cmd: AtCommands \cup {"payload"}, need: Needs, id: Ids \cup {NoId}]
Tokens == [line: {"prompt", "ok", "status", "frame"}, cmd: Nat, k: Nat]
Frames == [line: {"frame"}, cmd: 1..(9 * MaxOps), k: 1..MaxFrames]

TypeOK ==
  /\ op \in Ops \cup {"idle"}
  /\ todo \in Seq(Steps) /\ (op = "idle" => todo = << >>)
  /\ waiting \in BOOLEAN /\ (waiting => (op = "read" \/ todo # << >>))
  /\ open_ \in BOOLEAN /\ header_set_ \in BOOLEAN
  /\ tx_header_ \in {i.num : i \in Ids \cup {NoId}} /\ (header_set_ => tx_header_ # 0)
  /\ rx_accum_ \in Seq(Tokens) /\ rx_queue_ \in Seq(Frames)
  /\ last_error_ \in BOOLEAN
  /\ given \in 0..(9 * MaxOps) /\ fragment \in {"none", "AT", "payload"}
  /\ to_adapter \in Seq([step: Steps, cmd: Nat, text: Texts]) /\ stream \in Seq(Tokens)
  /\ adapter \in [header: Ids \cup {NoId}, accepted: SUBSET AtCommands]
  /\ sent \subseteq Ids \X (Ids \cup {NoId})
  /\ emitted \in Seq(Frames) /\ taken \in Seq(Frames)
  /\ ops \in 0..MaxOps /\ failures \in 0..MaxFailures

Init ==
  /\ op = "idle" /\ todo = << >> /\ waiting = FALSE /\ given = 0 /\ fragment = "none" /\ ops = 0
  /\ open_ = FALSE /\ header_set_ = FALSE /\ tx_header_ = 0
  /\ rx_accum_ = << >> /\ rx_queue_ = << >> /\ last_error_ = FALSE
  /\ to_adapter = << >> /\ stream = << >>
  /\ adapter = [header |-> NoId, accepted |-> {}]
  /\ sent = {} /\ emitted = << >> /\ taken = << >> /\ failures = 0

-----------------------------------------------------------------------------
(* The operations, up to their first command.                               *)

Starts(name) ==
  /\ op = "idle" /\ name \in Ops /\ ops < MaxOps
  /\ ops' = ops + 1

If(condition, steps) == IF condition THEN steps ELSE << >>

InitScript ==
  <<Step("ATZ", "reply"), Step("ATE0", "ok"), Step("ATL0", "ignored"), Step("ATS1", "reply")>>
    \o If(HeadersOn, <<Step("ATH1", "ok")>>)
    \o If(AdaptiveTiming, <<Step("ATAT1", "ignored")>>)
    \o <<Step("ATSP", "ok")>>
    \o If(~AutoFormat, <<Step("ATCAF0", "ok")>>)

\* open(), or initialise() called directly: the stream is flushed, the buffers are
\* emptied, the header is forgotten.
Initialise ==
  /\ \E name \in {"open", "initialise"} : Starts(name) /\ op' = name
  /\ stream' = << >> /\ rx_accum_' = << >> /\ rx_queue_' = << >>
  /\ taken' = taken \o rx_queue_
  /\ header_set_' = FALSE
  /\ todo' = InitScript
  /\ UNCHANGED <<waiting, given, fragment, open_, tx_header_, last_error_, to_adapter, adapter,
                 sent, emitted, failures>>

\* open() with a protocol other than CAN, or a bit rate that has no ELM protocol
\* number; initialise() with such a bit rate leaves everything as it is.
OpenRefused ==
  /\ Starts("open")
  /\ open_' = FALSE /\ last_error_' = TRUE
  /\ UNCHANGED <<op, todo, waiting, given, fragment, header_set_, tx_header_, rx_accum_,
                 rx_queue_, device, taken, failures>>

InitialiseRefused ==
  /\ Starts("initialise")
  /\ UNCHANGED <<op, todo, waiting, given, fragment, channel, device, taken, failures>>

NeedsHeaderOnce(id) == ~header_set_
NeedsHeader(id) == ~header_set_ \/ tx_header_ # id.num

Write ==
  /\ Starts("write") /\ open_
  /\ op' = "write"
  /\ \E id \in Ids :
       todo' = If(NeedsHeader(id), <<[Step("ATSH", "ok") EXCEPT !.id = id]>>)
                 \o <<[Step("payload", "reply") EXCEPT !.id = id]>>
  /\ UNCHANGED <<waiting, given, fragment, channel, device, taken, failures>>

\* A frame without bytes is refused, but not before its header has been set.
WriteEmpty ==
  /\ Starts("write") /\ open_
  /\ last_error_' = TRUE
  /\ \E id \in Ids :
       /\ todo' = If(NeedsHeader(id), <<[Step("ATSH", "ok") EXCEPT !.id = id]>>)
       /\ op' = IF NeedsHeader(id) THEN "write" ELSE "idle"
  /\ UNCHANGED <<waiting, given, fragment, open_, header_set_, tx_header_, rx_accum_,
                 rx_queue_, device, taken, failures>>

WriteClosed ==
  /\ Starts("write") /\ ~open_
  /\ last_error_' = TRUE
  /\ UNCHANGED <<op, todo, waiting, given, fragment, open_, header_set_, tx_header_, rx_accum_,
                 rx_queue_, device, taken, failures>>

\* read() hands over what write() has queued; only when that is nothing does it
\* wait for a prompt, on an open channel.
AfterReadKept == rx_queue_
AfterRead == << >>

ReadQueued ==
  /\ Starts("read") /\ (rx_queue_ # << >> \/ ~open_)
  /\ taken' = taken \o rx_queue_
  /\ rx_queue_' = AfterRead
  /\ UNCHANGED <<op, todo, waiting, given, fragment, open_, header_set_, tx_header_, rx_accum_,
                 last_error_, device, failures>>

ReadWaits ==
  /\ Starts("read") /\ rx_queue_ = << >> /\ open_
  /\ op' = "read" /\ waiting' = TRUE
  /\ UNCHANGED <<todo, given, fragment, channel, device, taken, failures>>

\* setFilter for one id, setFilter for a mask, clearFilters.
SetFilter ==
  /\ open_
  /\ \/ Starts("filter") /\ op' = "filter" /\ todo' = <<Step("ATCRA", "ignored")>>
     \/ Starts("mask") /\ op' = "mask"
        /\ todo' = <<Step("ATCM", "ignored"), Step("ATCF", "ignored")>>
     \/ Starts("clear") /\ op' = "clear" /\ todo' = <<Step("ATCRA", "ignored")>>
  /\ UNCHANGED <<waiting, given, fragment, channel, device, taken, failures>>

Close ==
  /\ Starts("close") /\ open_
  /\ op' = "close" /\ todo' = <<Step("ATPC", "ignored")>>
  /\ UNCHANGED <<waiting, given, fragment, channel, device, taken, failures>>

\* command(), whether the channel is open or not.
Command ==
  /\ Starts("command")
  /\ op' = "command"
  /\ \E c \in UserCommands : todo' = <<Step(c, "reply")>>
  /\ UNCHANGED <<waiting, given, fragment, channel, device, taken, failures>>

CloseClosed ==
  /\ Starts("close") /\ ~open_
  /\ rx_accum_' = << >> /\ rx_queue_' = << >> /\ header_set_' = FALSE
  /\ taken' = taken \o rx_queue_
  /\ UNCHANGED <<op, todo, waiting, given, fragment, open_, tx_header_, last_error_, device, failures>>

-----------------------------------------------------------------------------
(* command(), expect_ok() and read_until_prompt().                          *)

\* The command that is due is write()'s ATSH; one that the caller gives with command()
\* changes nothing in the channel.
SetsHeader == op = "write" /\ Head(todo).cmd = "ATSH"

\* The header in tx_header_ when the command that is due has succeeded.
ProgrammedForgotten == tx_header_
Programmed == IF SetsHeader THEN Head(todo).id.num ELSE tx_header_

\* The command that is due has done what it should: on to the next one, or the
\* operation is complete.
StepDone ==
  /\ todo' = Tail(todo) /\ waiting' = FALSE
  /\ op' = IF Tail(todo) = << >> THEN "idle" ELSE op
  /\ tx_header_' = Programmed
  /\ header_set_' = (SetsHeader \/ (header_set_ /\ op # "close"))
  /\ IF op \in {"open", "initialise"} /\ Tail(todo) = << >>
     THEN open_' = TRUE /\ last_error_' = FALSE
     ELSE open_' = (open_ /\ op # "close") /\ last_error_' = last_error_

\* It has not, and the operation is given up.  initialise() only reports it.
StepFails ==
  /\ todo' = << >> /\ waiting' = FALSE /\ op' = "idle"
  /\ open_' = (open_ /\ op # "open")
  /\ last_error_' = (last_error_ \/ op \in {"open", "write"})
  /\ UNCHANGED <<header_set_, tx_header_>>

\* No answer could be had.
NoAnswer == IF Head(todo).need = "ignored" THEN StepDone ELSE StepFails

Text(cmd) ==
  CASE fragment = "none" -> "whole"
    [] fragment = "payload" /\ cmd = "payload" -> "glued"
    [] OTHER -> "garbled"

SendRaw ==
  /\ todo # << >> /\ ~waiting
  /\ given' = given + 1 /\ waiting' = TRUE /\ fragment' = "none"
  /\ to_adapter' = Append(to_adapter, [step |-> Head(todo), cmd |-> given + 1,
                                       text |-> Text(Head(todo).cmd)])
  /\ UNCHANGED <<op, todo, ops, channel, stream, adapter, sent, emitted, taken, failures>>

\* close() empties both buffers when its command is over, answered or not.
Closing == op = "close" /\ op' = "idle"

Queues(q) == IF Closing THEN rx_queue_' = << >> /\ taken' = taken \o q
             ELSE rx_queue_' = q /\ taken' = taken
Accumulates(a) == rx_accum_' = IF Closing THEN << >> ELSE a

\* The stream fails before it has taken all of the command.
WriteBreaks ==
  /\ todo # << >> /\ ~waiting
  /\ failures < MaxFailures /\ failures' = failures + 1
  /\ fragment' \in {fragment, IF Head(todo).cmd = "payload" THEN "payload" ELSE "AT"}

SendRawFails ==
  /\ WriteBreaks
  /\ NoAnswer
  /\ Queues(rx_queue_) /\ Accumulates(rx_accum_)
  /\ UNCHANGED <<given, ops, device>>

\* send_raw() returns the error of the stream as a Result<void>, which is a success
\* when its text is empty.
SendRawFailsUnseen ==
  /\ WriteBreaks
  /\ waiting' = TRUE
  /\ UNCHANGED <<op, todo, given, ops, channel, device, taken>>

PromptAt(j) == /\ rx_accum_[j].line = "prompt"
               /\ \A i \in 1..(j - 1) : rx_accum_[i].line # "prompt"

NoPrompt == \A j \in 1..Len(rx_accum_) : rx_accum_[j].line # "prompt"

Fetch ==
  /\ waiting /\ NoPrompt
  /\ \E k \in 1..Len(stream) :
       /\ rx_accum_' = rx_accum_ \o SubSeq(stream, 1, k)
       /\ stream' = SubSeq(stream, k + 1, Len(stream))
  /\ UNCHANGED <<caller, open_, header_set_, tx_header_, rx_queue_, last_error_,
                 to_adapter, adapter, sent, emitted, taken, failures>>

\* What is kept of rx_accum_ when the prompt is at j.
AfterPromptKept(j) == SubSeq(rx_accum_, j, Len(rx_accum_))
AfterPrompt(j) == SubSeq(rx_accum_, j + 1, Len(rx_accum_))

IsFrame(t) == t.line = "frame"
FramesOfFirst(lines) == IF lines # << >> /\ IsFrame(lines[1]) THEN <<lines[1]>> ELSE << >>
FramesOf(lines) ==
  LET among[n \in 0..Len(lines)] ==
        IF n = 0 THEN << >>
        ELSE IF IsFrame(lines[n]) THEN Append(among[n - 1], lines[n]) ELSE among[n - 1]
  IN  among[Len(lines)]

HasOk(lines) == \E j \in 1..Len(lines) : lines[j].line = "ok"

AnsweredLenient(need, lines) == TRUE
Answered(need, lines) == need = "ok" => HasOk(lines)

\* The lines before the prompt are the answer: of a payload, and for read(), the
\* frames are what counts.
GetAnswer ==
  /\ waiting
  /\ \E j \in 1..Len(rx_accum_) :
       LET lines == SubSeq(rx_accum_, 1, j - 1) IN
         /\ PromptAt(j)
         /\ \/ /\ op = "read"
               /\ op' = "idle" /\ waiting' = FALSE
               /\ taken' = taken \o FramesOf(lines)
               /\ UNCHANGED <<todo, rx_queue_, open_, header_set_, tx_header_, last_error_>>
            \/ /\ op # "read" /\ Head(todo).cmd = "payload"
               /\ StepDone
               /\ Queues(rx_queue_ \o FramesOf(lines))
            \/ /\ op # "read" /\ Head(todo).cmd # "payload"
               /\ IF Answered(Head(todo).need, lines) THEN StepDone ELSE StepFails
               /\ Queues(rx_queue_)
         /\ Accumulates(AfterPrompt(j))
  /\ UNCHANGED <<given, fragment, ops, device, failures>>

\* Nothing that the channel waits for is on its way.
Quiet == to_adapter = << >> /\ stream = << >>

\* The wait for the prompt ends, or the stream reports an error; what has come so
\* far stays in rx_accum_.
GiveUpWaitsOn ==
  /\ waiting /\ NoPrompt
  /\ Quiet
  /\ UNCHANGED vars
GiveUp ==
  /\ waiting /\ NoPrompt
  /\ \/ Quiet /\ failures' = failures
     \/ failures < MaxFailures /\ failures' = failures + 1
  /\ IF op = "read"
     THEN op' = "idle" /\ waiting' = FALSE
          /\ UNCHANGED <<todo, open_, header_set_, tx_header_, last_error_>>
     ELSE NoAnswer
  /\ Queues(rx_queue_) /\ Accumulates(rx_accum_)
  /\ UNCHANGED <<given, fragment, ops, device>>

Finished == op = "idle" /\ ops = MaxOps /\ UNCHANGED vars

-----------------------------------------------------------------------------
(* The adapter.                                                             *)

Takes(cmd, text) ==
  /\ to_adapter # << >> /\ to_adapter' = Tail(to_adapter)
  /\ Head(to_adapter).step.cmd \in cmd /\ Head(to_adapter).text \in text

Carries(cmd) == Takes(cmd, {"whole"})

AdapterAnswers(text) ==
  stream' = stream \o <<Line(text, Head(to_adapter).cmd, 1), Prompt>>

AdapterResets ==
  /\ Carries({"ATZ"})
  /\ adapter' = [header |-> NoId, accepted |-> {}]
  /\ AdapterAnswers("status")
  /\ UNCHANGED <<caller, channel, sent, emitted, taken, failures>>

AdapterObeys ==
  /\ Carries(AtCommands \ {"ATZ", "ATI"})
  /\ LET step == Head(to_adapter).step IN
       adapter' = [adapter EXCEPT !.header = IF step.cmd = "ATSH" THEN step.id ELSE @,
                                  !.accepted = @ \cup {step.cmd}]
  /\ AdapterAnswers("ok")
  /\ UNCHANGED <<caller, channel, sent, emitted, taken, failures>>

\* It also says no to what it does not understand, and the answer to ATI is neither.
AdapterRejects ==
  /\ \/ Carries(Rejects \cup {"ATI"})
     \/ Takes(AtCommands \cup {"payload"}, {"garbled", "glued"})
  /\ AdapterAnswers("status")
  /\ UNCHANGED <<caller, channel, adapter, sent, emitted, taken, failures>>

\* A payload goes to the bus with the header that is set, and the n frames that come
\* back, or NO DATA, are the answer.
Transmits(n) ==
  /\ Takes({"payload"}, {"whole", "glued"})
  /\ sent' = sent \cup {<<Head(to_adapter).step.id, adapter.header>>}
  /\ LET frames == [k \in 1..n |-> Line("frame", Head(to_adapter).cmd, k)] IN
       /\ emitted' = emitted \o frames
       /\ stream' = stream \o (IF n = 0 THEN <<Line("status", Head(to_adapter).cmd, 1)>>
                               ELSE frames) \o <<Prompt>>
  /\ UNCHANGED <<caller, channel, adapter, taken, failures>>

AdapterTransmits == \E n \in 0..MaxFrames : Transmits(n)

LoseToken ==
  /\ failures < MaxFailures /\ failures' = failures + 1
  /\ stream # << >> /\ stream' = Tail(stream)
  /\ UNCHANGED <<caller, channel, to_adapter, adapter, sent, emitted, taken>>

-----------------------------------------------------------------------------

Caller == \/ Initialise \/ OpenRefused \/ InitialiseRefused \/ Write \/ WriteEmpty
          \/ WriteClosed \/ ReadQueued \/ ReadWaits \/ SetFilter \/ Command
          \/ Close \/ CloseClosed \/ SendRaw \/ SendRawFails \/ SendRawFailsUnseen
          \/ Fetch \/ GetAnswer \/ GiveUp

Device == AdapterResets \/ AdapterObeys \/ AdapterRejects \/ AdapterTransmits

Next == Caller \/ Device \/ LoseToken \/ Finished

Spec == Init /\ [][Next]_vars

\* The caller's thread runs, and the adapter carries out what it is given.
FairSpec == Spec /\ WF_vars(Caller) /\ WF_vars(Device)

-----------------------------------------------------------------------------
(* Properties.                                                              *)

\* As long as the stream has not failed and no wait was given up too early, a
\* frame goes out with the number of the id it was written with: tx_header_ is what
\* the adapter's header is.  So is its length of 11 or 29 bits, unless frames are
\* written with the same number in both, which tx_header_ takes for one id
\* (elm327_channel.cpp:439-449).
Ambiguous(num) == \E i, j \in Ids : i # j /\ i.num = num /\ j.num = num

HeaderRight ==
  failures = 0 => \A w \in sent :
    w[1].num = w[2].num /\ (w[1].ext = w[2].ext \/ Ambiguous(w[1].num))

\* The same without the exception.
IdRight == failures = 0 => \A w \in sent : w[1] = w[2]

\* As long as nothing has failed, no answer is outstanding between operations:
\* every command's answer was read, up to and including its prompt, so that the
\* next command gets its own.
InStep == failures = 0 /\ op = "idle" => Quiet /\ rx_accum_ = << >>

Received == taken \o rx_queue_

\* As long as nothing has failed, every frame that answered a write is in
\* rx_queue_ or has left the channel, once and in order: none is lost between
\* write(), which collects the frames, and read(), which hands them over
\* (elm327_channel.cpp:462-510).
AllReceived == failures = 0 /\ op = "idle" => Received = emitted

\* No frame is handed over twice, or before one that the adapter reported earlier,
\* or without having been reported, also when waits are given up, answers come
\* late and text is lost.
InOrder ==
  /\ \A j \in 1..Len(Received) : \E i \in 1..Len(emitted) : Received[j] = emitted[i]
  /\ \A i, j \in 1..Len(Received) : i < j =>
       \/ Received[i].cmd < Received[j].cmd
       \/ Received[i].cmd = Received[j].cmd /\ Received[i].k < Received[j].k

\* The settings that the channel cannot work without.
Required == {"ATE0", "ATSP"} \cup (IF HeadersOn THEN {"ATH1"} ELSE {})
                             \cup (IF AutoFormat THEN {} ELSE {"ATCAF0"})

\* A channel that is open has an adapter that has accepted them since its last reset
\* (elm327_channel.cpp:344-395).  It is looked at when the adapter has dealt with all
\* it was given, so that a setting it lacks is one that it has turned down.
OpenMeansConfigured ==
  op = "idle" /\ open_ /\ to_adapter = << >> => Required \subseteq adapter.accepted

\* When open() has just succeeded it is so, as long as nothing has failed: each
\* command of initialise() is then judged by its own answer.
OpenConfigures ==
  [][failures' = 0 /\ op = "open" /\ op' = "idle" /\ open_'
       => Required \subseteq adapter'.accepted]_vars

\* Every operation returns, whatever the adapter rejects or fails to answer.
Completes == <>(op = "idle" /\ ops = MaxOps)
=============================================================================
