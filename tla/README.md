# cansdk in TLA+

A verification project for [cansdk](../src/README.md), a C++20 SDK for CAN
diagnostics: ISO-TP transport, a UDS/KWP client on top of it, and a CAN channel
that drives an ELM327 adapter. The TLA+ modules model the code under `src/`,
TLC checks them on small instances, and TLAPS proves some of the results for
all values of the constants. `PROJECT.json` ties every definition to the lines
it models, and lists the runs, mutants, findings, hazards and theorems.

Paths below are relative to the repository (`src/src/isotp.cpp`, ...); line
numbers are those of that file.

## 1. Inventory

### The parts and how they interact

```
   caller
     |  request / unlock / read_memory_region ...
  UdsClient ------------------- SeedKeyProvider (compute)
     |  send(pdu), recv(timeout)
  IsoTpTransport          rx_buf_ lives between calls
     |  write(frame), read(timeout), supportsHwIsoTp / sendHwIsoTp / recvHwIsoTp
  IChannel  <-- TracingChannel (decorator, IFrameSink)
     |
  Elm327Channel           rx_accum_, rx_queue_, tx_header_ live between calls
     |  write(bytes), read(bytes), flush_input
  IByteStream             (platform code, not in the repository)
     |
  ELM327 adapter, CAN bus, ECU
```

Everything is synchronous and single-threaded on the tester's side: calls, no
callbacks into the caller but `SeedKeyProvider::compute` and
`IFrameSink::on_frame`. The concurrency is that of the tester with the ECU, the
bus and the adapter, which go on while a call waits, and after it has given up.
That is where the hard behaviours come from: what one call leaves behind is
what the next call reads.

| Component | Source | State it keeps | Operations | Makes it correct |
|---|---|---|---|---|
| ISO-TP transport | `isotp.cpp`, `isotp.h` | `rx_buf_`; locals `idx`, `sn`, `out`, `expected_sn` | `send`, `recv`, `request`, over frames or over an adapter with native ISO-TP | a PDU arrives whole or not at all; it is the answer to this request, and no answer is used twice; calls return |
| ISO-TP clock | `isotp.cpp:59-92, 216-227` | `start`, what is left of the timeout | `read_matching`, `recv` | a call ends by its timeout |
| UDS/KWP client | `uds_client.cpp`, `.h` | none of its own; `attempt`, `done`, `out` | `request`, `unlock`, `read_memory_region` | 0x78 is waited out and every reply read; no reply of another request is taken; a region is the region, an unlock is an unlock |
| Request PDUs | `uds_client.cpp:121-315` | none | the service wrappers | the ECU reads in the bytes what the call meant |
| ELM327 channel | `elm327_channel.cpp`, `.h` | `open_`, `header_set_`, `tx_header_`, `rx_accum_`, `rx_queue_`, `last_error_` | `open`, `initialise`, `write`, `read`, `setFilter`, `clearFilters`, `close`, `command` | each answer goes to its command; the header cache agrees with the adapter; no frame lost or doubled; open means configured |
| Timestamp extension | `timestamp.h` | previous raw value, rollover counter (the caller's) | `extend_timestamp` | exact and monotonic |
| SecurityAccess providers | `security_access.cpp`, `.h` | the key table | `compute`, `lookup`, `rc4` | the key of a seed, or an error |
| CAN frames | `can_frame.cpp`, `.h` | none | `validate_frame`, `is_valid_id` | agree with each other |
| Frame tracing | `frame_trace.cpp`, `.h` | a file | `TracingChannel`, `TextFrameLog` | the log is what crossed the bus |
| Lines | `elm327_channel.cpp:44-202`, `frame_trace.cpp:36-52` | none | `hex_id`, `hex_byte`, `parse_frame_line` | a frame comes back from its line; a damaged line is refused or loses its end only |
| Result, IChannel, IByteStream, device provider, units | headers, `units.cpp` | none | interfaces, plain data, arithmetic on doubles | |

### Hard behaviours

All of them are listed with their lines under `hazards` in `PROJECT.json`.

* **Answers out of step.** Nothing ties an answer to its request: ISO-TP only
  looks at the CAN id, `UdsClient::request` only at the service id, the ELM327
  dialogue only at the order. A late answer is a stale entry in `rx_buf_`, in
  `rx_accum_`, or on its way.
* **Caches.** `tx_header_`/`header_set_` mirror the adapter's header, `open_`
  its configuration.
* **Failures nobody hears of.** `IChannel::write` returns nothing, `Result<void>`
  takes an error without text for success, a write of the stream may break off in
  the middle of a command.
* **A bus behind a dialogue.** The adapter listens only after a payload; `write`
  collects what it heard, `read` hands it over, and the trace is written above both.
* **Loss and duplication** of CAN frames against a 4-bit sequence number.
* **Time.** Waits are given what is left of a timeout; loops look at the clock
  only sometimes.
* **Flow control.** Block size, Wait, Overflow.
* **Widths.** Addresses and lengths are cut to the bytes of their fields.

## 2. Modules

| Module | Models | Composes |
|---|---|---|
| `AnswerOrder` | abstract: whose response each of a row of requests gets; what follows from the order alone is proved here | |
| `PduTransfer` | abstract: what the transfer of one PDU promises | |
| `IsoTpFrames` | the frames that are written, and the decision about one that is read | |
| `IsoTpTransfer` | `send` and `recv` at the two ends of a CAN link that loses and doubles frames; all bytes | `IsoTpFrames`; implements `PduTransfer` |
| `IsoTpTransferProofs` | proofs about it | |
| `IsoTpSession` | `request` again and again, over frames with `rx_buf_` between the calls or over native ISO-TP; ECU, foreign traffic | `IsoTpFrames`; implements `AnswerOrder` |
| `IsoTpSessionProofs` | proofs about it: types and order; whole answers | |
| `ReadDeadline` | the clock of `recv` and `read_matching` | |
| `ReadDeadlineProofs` | proofs about it | |
| `UdsClient` | `request`, `unlock`, `read_memory_region` against an ECU | stands on what `IsoTpSession` shows; implements `AnswerOrder` |
| `UdsClientProofs` | proofs about it | |
| `Elm327Channel` | the channel and its AT dialogue with an adapter | |
| `Elm327ChannelProofs` | proofs about it | |
| `DiagStack` | transport over trace over channel over adapter, bus and ECU | the tester's half of `IsoTpSession`, its ECU's half on another bus, `Elm327Channel`; implements `AnswerOrder` |
| `DiagStackProofs` | proofs about it | |
| `Positional` | numbers taken apart into digits and put together | |
| `UdsRequests` | the bytes of each request, read by a reference ECU | `Positional` |
| `FrameLines` | frames printed, cut, parsed and validated | `Positional` |
| `Timestamp` | `extend_timestamp` | |
| `Conversions` | the three above, one at a time | `Timestamp`, `UdsRequests`, `FrameLines` |
| `ConversionsProofs` | proofs about it | |
| `SeedKey` | `rc4` and the table of keys | |
| `MCConversions` | the conversions and the keys, one at a time; values of constants | `Conversions`, `SeedKey` |
| `MCIsoTpTransfer`, `MCIsoTpSession`, `MCUdsClient`, `MCElm327Channel`, `MCDiagStack` | values of constants for TLC | |

An operator that is followed by defective variants of itself under other names
(`InSequenceAlways`, `AfterPromptKept`, `PatienceWhole`, ...) is how the
properties are tried: putting the variant in the operator's place is a bug the
code could have had, and the property named under `mutants` refutes it. The
specifications use the operator only.

### How state and actions correspond to the code

* A variable with a C++ name is that variable (`rx_buf_`, `expected_sn`,
  `tx_header_`, ...). `pc`, `spc`, `rpc`, `op`, `waiting` say where in a function
  the call stands. Variables that the program does not have record what a
  property needs to know: which request a message answers (`msg`, `of`), which
  command a line answers (`cmd`, `k`), the true time (`true_us`), what has been
  sent, returned, granted, lost.
* An action is what a function does from one wait to the next: nobody else can
  see the states in between. So `RecvFirst` reads the first frame, checks its
  length, copies its bytes and writes the flow control; `Initialise` flushes,
  clears and starts the script; `GetAnswer` takes the answer, decides on it and
  moves to the next command.
* Early returns are disjuncts or actions of their own: `SendRefused`,
  `RecvWrongSn`, `RecvFails`, `OpenRefused`, `WriteClosed`, `StepFails`.
* The environment (bus, ECU, adapter, stream) is external and marked as such in
  the map. It does what an ISO 15765-2 node, a UDS server or an ELM327 may do.

`IsoTpTransfer`: `spc`/`rpc` and the locals of `send` and `recv`; `sent`, `back`
are the logs of frames in each direction, `rd`, `brd` the next frame that
`read_matching` will return, so that bus, adapter queue and `rx_buf_` are one
queue. `IsoTpSession` separates them again: `wire` is the bus, `Fetch` moves any
number of frames to `rx_buf_`, `Take` is the inner loop of `read_matching`.
`NativeSend`, `NativeRecv` and their failures are the branches at
`isotp.cpp:103-106` and `175-178`: a PDU is one unit on the bus, and the responses
that wait are in the adapter.

`ReadDeadline`: `start`, `limit` are `start` and `timeout_ms` of
`read_matching`; `Patience` is the argument of `channel_.read`, `KeepsGoing` the
loop condition, `TakeFrame` the part of `recv` between two waits.

`UdsClient`: `Send`, `RecvPending`, `RecvFails`, `RecvPositive`, `RecvTimesOut`
are the paths through `request`; `NextRequest` and `Proceed` are the code of
`unlock` and `read_memory_region` before and after a request. Addresses and
lengths are cut to `AddrSpace`, `LenSpace` as `push_be` cuts them.

`UdsRequests`: one call at a time; `Params` is the list a wrapper builds,
`PushBe` includes the two outcomes a shift by 64 and more has in practice.

`Elm327Channel`: an operation is a list of commands (`todo`), each with what its
answer must be (`need`: an OK, any answer, or nothing). `SendRaw`, `Fetch`,
`GetAnswer`, `GiveUp` are `command()`; `StepDone` and `StepFails` what the
operation does next. Text is reduced to the kind of line it makes. `fragment` is
the beginning of a command that the stream has taken without its end
(`SendRawFails` breaks off in the middle); the next command is glued to it, and
the adapter answers the two as one. `SendRawFailsUnseen` is a failure that has no
text. An id has a number and a length, and the cache looks at the number only; it is
set by the `ATSH` of `write` (`SetsHeader`), not by one that the caller gives with
`command`.

`DiagStack`: three instances share their variables. The transport's frame goes to
`outbox`, and `WriteFrame` to `Talks` take it through `TracingChannel::write` and
the whole dialogue of `Elm327Channel::write` before the transport moves again
(there is one thread); `ReadFrames` does the same for `read`, and puts what is
returned into `log` and `inbox`. The adapter puts a payload on the bus
(`AdapterSends`), collects (`AdapterHears`) and reports (`AdapterReports`). While it
does not listen, frames on the bus are gone.

`AnswerOrder`: three counters. `asked` requests have returned, `failed` of them
without a response, and `last` is the newest request whose response was used. The
detailed modules map to it by counting their results.

`FrameLines`: a line is a sequence of words, a word a sequence of hexadecimal
digits. `SeedKey`: letters are ASCII codes; the table is made from the keys by
encrypting them with the known key stream, so that the model of `rc4` is not
checked against itself.

## 3. Runs

### What holds

One passing run for each module that goes on in time, under the specification
with fairness, and one for those that compute.

| Run | Shows |
|---|---|
| `transfer` | `ExactDelivery`: whatever is lost, doubled or late, a PDU that `recv` returns is the PDU that was sent. `HoleNeedsWholeCycle`: fewer than 16 losses leave no hole in what has been assembled. `NothingFails`: without a fault neither call fails, so that with `BothReturn` the PDU arrives, at each of the lengths of the run (`NothingFails` is proved for every length from 1 to 4095). `TransferSpec`: the two functions implement `PduTransfer`. `BothReturn`. `IInv`: the inductive invariant of the proofs, the types included. |
| `session` | `Answered`: as long as nothing is lost or late and the ECU lets every long request through, each request gets its own answer. `AnsweredInOrder`: always, the session implements `AnswerOrder`: no answer is used twice or late by more requests than have failed. `Completes`: every `request` returns. Both with software framing and with native ISO-TP. |
| `deadline_quiet` | `Punctual`: `recv` overruns its timeout by at most 1 ms for each late batch of foreign frames. `Returns`. `IInv`. |
| `uds` | As long as the client does not give up too early, `InStep`: between calls nothing is on its way, `RegionRight`, `UnlockGrantedInTime`. Always: `AnsweredInOrder` for positive replies, and `Completes`, also when the ECU says 0x78 for ever. |
| `elm` | As long as the stream does not fail and no wait is given up, `HeaderRight`, `InStep`, `AllReceived`, `OpenConfigures`. Always: `InOrder`, `Completes`. `AllReceived` counts a frame that `open` or `close` drops with `rx_queue_` as having left the channel. |
| `stack` | The same of the whole: as long as nothing fails, `Answered`, and `TraceExact`, the trace is the traffic of the bus. Always: `AnsweredInOrder`, `Completes`, and `TraceComplete`: no frame that was sent is missing in the trace, and no frame is in it that was not received. |
| `conversions` | `Exact` for timestamps, which are then monotonic. `Understood`: the ECU reads what the call meant; `VinWhole`. `ReadsBack`: a frame comes back from its line; `CutLosesOnly`: of a line without its end only data is lost, and `validate_frame` and `is_valid_id` accept what is parsed. `KeyRight`: the key of a seed, or an error; `CipherRight`: `rc4` undoes itself and gives the published ciphertexts. |

Faults are counted by a variable (`lost`, `early`, `faults`, `failures`), so that one
run has both halves: what holds as long as the counter is 0, and what holds
whatever it says. A deadline passes when nothing else can happen; a deadline that
passes before that (a timeout shorter than a delay) adds to `early`, which a
constant bounds.

### Where code and documentation part

Each of these runs checks one property and TLC finds it violated; the finding in
`PROJECT.json` quotes the sentence.

| Run | Property | What happens |
|---|---|---|
| `session_mixed` | `IntactPdu` | a late response is completed with the consecutive frames of the next one (`isotp.cpp:228` skips the new first frame) |
| `session_blocks` | `AnsweredInBlocks` | an ECU with a block size: the flow controls between blocks are taken for the response |
| `deadline_busy` | `Returns` | while foreign frames keep coming the deadline is never looked at (`isotp.cpp:83`) |
| `uds_unlock` | `UnlockGranted` | a late seed reply makes `unlock` succeed without a granted key |
| `elm_stale` | `OpenMeansConfigured` | `command` does not flush, so an answer that is late counts for the next command; `open` succeeds, and when the adapter has dealt with all it was given it has rejected `ATCAF0` |

The same modules show these with other constants; they have no run of their own:

| Property | Constants | What happens |
|---|---|---|
| `AnsweredInBlocks` | `EcuFlows <- Waits` | Wait is taken for clear-to-send (`isotp.cpp:149`), and the clear-to-send that follows for the response |
| `AnsweredInBlocks` | `FcBlockSize = 1`, a response of three frames | the block size is announced, but only one flow control is sent (`isotp.cpp:210`), and the ECU waits for the next |
| `RegionRight` | `Calls <- AcrossTop` | a region across `AddrSpace`: the address wraps to 0 (`uds_client.cpp:330`) |
| `RegionRight` | `Calls <- LongChunk` | a chunk longer than `len_bytes` can say is cut by `push_be`; nothing compares the length of the reply, and the read succeeds with fewer bytes (`uds_client.cpp:342`) |
| `HeaderRight` without `failures = 0` | five operations, one failure | an ATSH whose answer is late leaves `tx_header_` stale (`elm327_channel.cpp:442`) |
| `HeaderRight` | `ATZ` among `UserCommands` | a reset by the caller goes past `tx_header_` |
| `IdRight` | two ids with one number | an 11-bit and a 29-bit id share an `ATSH` (`elm327_channel.cpp:439`) |
| `TraceExact` without `held = 0` | a request of three frames, taken in blocks | the flow control is traced after the frame that follows it |
| `ReadsBack` | `SplitIds = TRUE` | the first byte of a 29-bit id is taken for the id (`elm327_channel.cpp:177`) |
| `OpenMeansConfigured` | `initialise` on an open channel, `ATCAF0` rejected | a failing `initialise` leaves an open channel open (`elm327_channel.cpp:344`); `OpenConfigures` is about `open` for that reason |

### Bounds, and why they are enough

* `transfer`: lengths at each edge of the formats (0, 1, 7, 8, 14, 4096; 125 for a
  sequence number that wraps, 270 for a length above a byte). Seventeen losses
  are one more than a whole cycle. 4095 itself is not run, since its 586 frames are beyond
  TLC with the faults: it is covered by the proofs. One frame doubled and one deadline
  too early: what is small here is arbitrary in the proofs.
* `session`: three requests, since an answer that is out of step shows in the next
  one and the one after, and the middle one long; up to 17 frames to wrap; one
  frame lost, one foreign, one deadline too early, one request held up.
* `deadline_*`: five milliseconds and three frames, so that each wait can begin
  with all, some or one millisecond left; the clock stops at `Horizon`, past any
  time the bound on foreign batches allows. The proof has no such values.
* `uds`: three calls out of six, one of them a SecurityAccess request without its
  parameters, which only the ECU can refuse; `AddrSpace` 16 and `LenSpace` 8 stand for
  256^addr_bytes and 256^len_bytes, and the regions fit them; one 0x78 is
  tolerated, the ECU sends up to two, and more without end for a request that the client
  has given up or will; one reply malformed or lost, one deadline too early. Level 1 is the
  only one that is run; the proofs are about every level.
* `elm`: an `open` gives up to eight commands, so four operations cover a second
  `open`, a `close` and two writes with different headers; three ids, two of them
  with one number; two frames per answer; one failure of stream or patience.
* `stack`: a response of three frames and after it a request of three, so that both
  directions need a flow control, one comes in the middle of a request, and the
  frames of a long response may come late for a long request. An ECU that takes all
  at once, in blocks of one, or refuses. Two failures of the stream or waits given up,
  in any order, and one deadline, or one adapter that stops listening, too early.
  `MaxOps` and `MaxFrames` are larger than anything three requests need. The adapter
  rejects no command here: `elm` has that.
* `conversions`: sixteen turns of a counter of width 8; addresses and sizes on both
  sides of each byte boundary that TLC's 32-bit integers reach, field widths 0, 1,
  2, 3, 4, 8, 9 and 15; ids on both sides of 11 and 29 bits and of a digit, data of
  zero to nine bytes with zeros inside and at the end; a table of 260 keys, seeds
  around its end, of no, one, two and three bytes. The four share no state, and only
  one is in use at a time, since what one does cannot depend on another.

### Fairness

Safety properties use none. The liveness properties assume weak fairness of the
caller's thread (a call in progress goes on, its clock with it) and, in sessions,
of the ECU and the adapter (it serves what it has received, defers it, or is silent: a lost PDU
is the bus's doing). Each is one disjunction: no single action is promised to
happen, so the environment may always choose the worse one. `deadline_busy` is
refuted under the same fairness, on a bus on which time passes between frames.

## 4. Proofs

| Module | Theorems | Argument |
|---|---|---|
| `IsoTpTransferProofs` | `Invariance`, `TypeCorrect`, `DeliveryIsExact`, `HolesCostACycle`, `NoFaultNoFailure`, `Refinement` | see below |
| `ReadDeadlineProofs` | `Invariance`, `TypeCorrect`, `RecvIsPunctual` | see below |
| `AnswerOrder` | `LagIsBounded` | see below |
| `UdsClientProofs` | `TypeCorrect`, `ImplementsAnswerOrder`, `ReplyIsTimely`, `Invariance`, `LinkIsSilent`, `UnlockIsGranted`, `RegionIsRight` | see below |
| `IsoTpSessionProofs` | `TypeCorrect`, `ImplementsAnswerOrder`, `AnswerIsTimely`, `AnswersAreWhole` | see below |
| `Elm327ChannelProofs` | `TypeCorrect`, `LockstepKept`, `NothingIsLost`, `OpenIsConfigured`, `HeaderIsRight`, `FramesStayInOrder` | see below |
| `DiagStackProofs` | `ImplementsChannel`, `TypeCorrect`, `ImplementsAnswerOrder`, `TraceIsComplete` | see below |
| `ConversionsProofs` | `ExtendedIsExact`, `ExtendedIsMonotonic`, `RequestsAreUnderstood`, `VinIsWhole`, `LinesReadBack`, `CutLinesLoseOnly` | see below |

**Transfer.** `ExactDelivery` is not inductive: it says nothing before `recv`
returns. `IInv` adds that the log is a prefix of the segmentation of the PDU
(`Segmented`), that `idx` and `sn` are functions of the log's length
(`SenderAt`), and, for the receiver, that the number of frames accepted, the
position in the log and the number of losses are tied together (`ReceiverAt`).
The core is: accepted frames are a prefix of the PDU, or the position has run a
whole cycle of sixteen ahead of them. In the second case the log ends before
`total` bytes are reached, because the log holds exactly the frames the PDU
needs; so no PDU with a hole is ever returned. Assumptions: those on the
constants (`TransferAssumption`, `PaddingAssumption`); PDUs, faults and lengths
are arbitrary. `NoFaultNoFailure` needs more: as long as nothing has gone wrong (`Flawless`)
the receiver is one frame behind what it has accepted, every flow control is a
clear-to-send that waits for `send`, and a `send` that has returned has written the whole
PDU. So the next frame is always the one expected, and neither end can be waiting when
nothing is on its way. With `BothReturn`, which only TLC checks, a PDU of any length from
1 to 4095 arrives. `Refinement` shows that initial states and steps map to those of
`PduTransfer` or stutter.

**Deadline.** `Punctual` is strengthened by: a wait begins only with time left
or on the account of a late foreign batch, and a buffer filled at the last
moment with no addition to `late` holds a frame of ours, which ends the wait.
Assumption: the foreign traffic is finite (`~Endless`), which `deadline_busy`
shows to be needed, and the assumptions on the constants.

**Timestamp.** The invariant is `true_us = rollover * Wrap + prev_ts`. Assumptions: gaps
shorter than a turn of the counter, a session shorter than the rollover counter can say.
With a whole turn between two frames nothing could be exact.

**Requests.** `push_be` spells a number with the radix 256 and the ECU reads it digit by
digit (`Positional`). A minimal counterexample over the digits shows that what is spelled
is read again whenever the number fits its field (`ReadAsSpelled`); the rest is to cut
the PDU where the format identifier says, once for each shape of a call (`HeardAsMeant`).
`Understood` itself has the condition that address and size fit (`Sayable`). The
arguments have the types of the C++ signatures and are otherwise arbitrary
(`RequestsAssumption`).

**Lines.** The same with the radix 16. An 11-bit id has three digits and a 29-bit id
eight (`IdSpelled`), which is how `parse_frame_line` tells them apart; each byte has two.
The invariant `LInv` says that the text is what is left of the line: whole words, and of
the last a beginning that is not empty (`IsCut`). If that beginning is read, it has two
digits, so the whole word is there and what was read is the id and the first bytes
(`BeginningRead`). Both theorems assume an adapter that prints an id in one piece
(`~SplitIds`; section 3 shows what happens otherwise, and `initialise` does set `ATS1`,
spaces on: whether an adapter then splits a 29-bit id is not said in the repository, and
`parse_frame_line` reads it as one word), and `LinesAssumption`: `data`
without the zeros at its end.

**Order.** `LagIsBounded` is proved of the abstract `AnswerOrder`, for any number of
requests: uses are ordered and each takes one response away, so that `last` is no
further behind `asked` than `failed`. That the client and the session implement
`AnswerOrder` is proved step by step (`ImplementsAnswerOrder` of either), so the bound
holds of both (`ReplyIsTimely`, `AnswerIsTimely`), and so it is of the stack (below).

**Client.** Whatever is lost, late or malformed: the replies used, those on their way,
the request that the ECU serves and those on their way to it come in this order, and
only the 0x78 replies to a request may be followed by another reply to it (`Ordered`). A
reply that is taken is therefore newer than all that were used, and what stays behind it
is newer still. As long as no wait ends too early (`early = 0`) more is true
(`OneRequest`): what is on its way is one request, its 0x78 replies and one final reply,
and the ECU never has more 0x78 replies left than the client still waits out, so that the
loop ends with nothing on its way. A final reply then says what the ECU has done
(`Honest`), the bytes read so far are the beginning of the region, and the results follow.
`RegionIsRight` assumes `RegionsFit`: address and length of a region fit their fields, and
the chunk (or the region, if it is shorter) the length of one request. Section 3 shows
what happens without that. The other theorems assume the assumptions on the constants
only.

**Session.** `TypeCorrect` and `ImplementsAnswerOrder` need no hypothesis on bus or ECU.
What the tester has yet to look at is one sequence, `rx_buf_` and then `wire`: parts of
responses come in the order of the responses and begin with the first frame
(`FlightOrder`), every response used is older than any that can still begin
(`UsedFirst`), the one that is being put together lies between (`OutNext`), and the
requests on the bus are newer than what the ECU has begun (`RequestsLast`). A PDU mixed
from two responses counts as the older one. With native ISO-TP there are only whole PDUs
(`NativeOnly`). `AnswersAreWhole` follows an exchange through its stages (`Between`,
`Asked`, `LetThrough`, ..., `Bursting`): for each it says which frames of ours are on
their way, among any number of foreign ones (`Delivers`). Its hypothesis `BlockFits` says
that the block size `recv` announces is 0 or covers a whole response, since `recv` sends
no second flow control (section 3).

**ELM327.** `EType` adds to `TypeOK` what an operation has still to do: the number of
commands is bounded by nine for each operation (`Due`), so that the frames have their
types. As long as nothing has failed the dialogue is in step (`Lockstep`): nothing is
outstanding, or the adapter has the command that is due, or its answer is on the way,
with its one prompt at the end, and what has been received together with the frames in
that answer is what the adapter has reported. Between operations only the first is
possible: `LockstepKept`, `NothingIsLost`. Two invariants stand on it. `Configuring`: a
setting that `open` needs and the adapter has not accepted since its reset is still to be
asked for, with an OK as the only answer to go on with. `HeaderKnown`: `tx_header_` is
the adapter's header, or the `ATSH` that makes it so has been accepted and its OK is on
the way, and a payload is given when `tx_header_` is its id. `HeaderIsRight` assumes that
the caller gives no `ATSH` and no `ATZ` with `command` (`HeaderIsOurs`), which go past
the cache (section 3). `FramesStayInOrder` holds whatever fails: `taken`, `rx_queue_`,
`rx_accum_` and `stream`, one after the other, have the frames in the order of their
commands and places, all of them reported by the adapter and older than every command on
its way (`FramesOrdered`, `CommandsOrdered`); a step takes frames away, moves them on, or
appends the answer to a command that is newer than all of them. It also needs that `read`
waits only with an empty `rx_queue_`.

**Stack.** `ImplementsChannel`: the steps of the stack that use the channel are steps of
`Elm327Channel`, and the others leave its variables alone; hence its `FramesOrdered` holds
in the stack whatever fails. For the order of the answers a second view is taken. What is
between the transport and the ECU in either direction is one sequence (`ToEcu`,
`ToTester`): `outbox`, the channel, the adapter and the bus, in the order in which frames
pass through them. A step of a layer leaves such a sequence as it is, moves nothing past
anything, or loses some of it (`Thins`: one sequence is another with elements left out),
and the invariants of the session's proof survive every loss. With `ToEcu` and
`ToTester` in place of its bus (`Path`) the session's argument then holds of the stack. The
trace: what has gone to the ECU and what the channel still has for it are, in order, among
the `TX` lines and the frame that comes next (`TxTraced`), and the `RX` lines together with
what is on its way to the transport are among what crossed the bus (`RxTraced`); so no line
can be missing, and none can be made up. `StackAssumption` is the assumptions of the
three parts; the types need that an answer of the adapter has at most `MaxFrames` frames,
which the guard of `AdapterHears` keeps (`RoomLeft`).

**Recursive functions.** `FramesOf`, `Only`, `Shifted` and `ValueOf` are recursive
functions. The induction theorems of the library take an operator and cannot be used, but
a minimal counterexample can: a set of numbers has a smallest one (`SmallestOf`, from the
well-foundedness of the naturals), and if that were the first length at which the function
does not exist or does not give what it should, the length before it would refute that.

The inductive invariants that TLC can evaluate were checked on the instances of the runs
before they were proved; `Lockstep`, `Delivers` and what stands on them speak of all
sequences and are beyond it.

Only model-checked: `Answered` and `TraceExact` of `DiagStack`, the types of the
conversions, all of `SeedKey` (whose `Bitwise` the prover cannot read), and for good all
liveness properties (fairness and `ENABLED` are beyond the prover). No module uses a
RECURSIVE operator.

## 5. Not modelled

* A native channel under `TracingChannel`: the decorator does not forward
  the native calls, and what such an adapter does with raw frames is not in the
  repository.
* `Rc4TableSeedKey::from_file` (a file and a comparison of sizes) and `FixedSeedKey`
  (a constant).
* White space and letters that are not hexadecimal in the lines of the adapter:
  `trim`, `split_ws`, `to_upper`. A line is a status line or a sequence of words.
* Timestamps of the trace, `on_note`, `flushTxBuffer`.
* The result of `stream_.is_open()`, a stream that closes by itself.
* Units (floating point), device enumeration (interfaces only), error texts,
  `nrc_to_string`, `frame_type_to_string`.
* In the ISO-TP modules: the CAN id of a transmitted frame, `extended_id`, `use_padding = false`
  and `dlc`: `recv` never reads `dlc`, and `data` is zero-initialised.

## 6. Plan

Done: sections 2 to 4. Every part of the code with behaviour has a module, and every
safety property that the passing runs check of `IsoTpTransfer`, `IsoTpSession`,
`ReadDeadline`, `UdsClient`, `Elm327Channel` and `Conversions` is proved; of `DiagStack`
those that hold whatever fails. What is left are the two that hold of the stack as long as
nothing fails: `Answered`, by following an exchange through the layers as
`AnswersAreWhole` does on the bus, and `TraceExact`, on the lockstep of the dialogue.

## 7. Running

```
tlc -workers 2 -config Transfer.cfg MCIsoTpTransfer.tla
tlapm IsoTpTransferProofs.tla
```

`PROJECT.json` names the module and configuration of each run.
