---------------------------- MODULE ReadDeadline ----------------------------
(***************************************************************************)
(* The clock of IsoTpTransport::recv and read_matching (src/src/isotp.cpp): *)
(* how long a call may take, on a bus that carries frames of other ids.     *)
(* Time is in the milliseconds of elapsed_ms; only reading the channel      *)
(* takes time.  A frame is "mine" if it has rx_id, "other" if not; which    *)
(* frames of ours come in what order is the subject of IsoTpTransfer.       *)
(***************************************************************************)
EXTENDS Integers, Sequences

CONSTANTS Timeout,       \* the argument of recv()
          Frames,        \* frames of the message that is awaited
          MaxBatch,      \* bound on the frames one read of the channel returns
          MaxOther,      \* bound on the batches of frames of other ids
          Endless,       \* there is no such bound: the bus never falls silent
          Horizon        \* bound on the clock

ASSUME DeadlineAssumption ==
  /\ Timeout \in Nat \ {0} /\ Frames \in Nat \ {0} /\ MaxBatch \in Nat \ {0}
  /\ MaxOther \in Nat /\ Horizon \in Nat /\ Horizon > Timeout + MaxOther
  /\ Endless \in BOOLEAN

VARIABLES pc,            \* "drain" or "read" in read_matching, or "returned"
          now,           \* since recv() began
          start, limit,  \* when this read_matching began, and its timeout
          rx_buf_,
          need,          \* frames of the message still to be read
          others,        \* batches of frames of other ids read so far
          late           \* those of them that came when the limit was over

vars == <<pc, now, start, limit, rx_buf_, need, others, late>>

Ids == {"mine", "other"}

Batches == UNION {[1..k -> Ids] : k \in 1..MaxBatch}

TypeOK ==
  /\ pc \in {"drain", "read", "returned"}
  /\ now \in 0..Horizon /\ start \in 0..now /\ limit \in 1..Timeout
  /\ start + limit = Timeout
  /\ rx_buf_ \in Seq(Ids) /\ Len(rx_buf_) <= MaxBatch
  /\ need \in 0..Frames
  /\ others \in 0..MaxOther /\ late \in 0..others

\* What an earlier call left in rx_buf_ may be there already.
Init ==
  /\ pc = "drain" /\ now = 0 /\ start = 0 /\ limit = Timeout
  /\ rx_buf_ \in Batches \cup {<< >>}
  /\ need = Frames /\ others = 0 /\ late = 0

Spent == now - start

Drop ==
  /\ pc = "drain" /\ rx_buf_ # << >> /\ Head(rx_buf_) = "other"
  /\ rx_buf_' = Tail(rx_buf_)
  /\ UNCHANGED <<pc, now, start, limit, need, others, late>>

\* recv() takes the frame, and if the message is not complete looks at the clock
\* before it waits for the next one.
LimitWhole(spent) == Timeout
LimitLeft(spent) == Timeout - spent

TakeFrame ==
  /\ pc = "drain" /\ rx_buf_ # << >> /\ Head(rx_buf_) = "mine"
  /\ rx_buf_' = Tail(rx_buf_)
  /\ need' = need - 1
  /\ IF need = 1 \/ now >= Timeout
     THEN pc' = "returned" /\ UNCHANGED <<start, limit>>
     ELSE pc' = pc /\ start' = now /\ limit' = LimitLeft(now)
  /\ UNCHANGED <<now, others, late>>

Drained ==
  /\ pc = "drain" /\ rx_buf_ = << >>
  /\ pc' = "read"
  /\ UNCHANGED <<now, start, limit, rx_buf_, need, others, late>>

\* What channel_.read() is given.
PatienceWhole == limit
Patience == IF Spent >= limit THEN 1 ELSE limit - Spent

\* The loop condition, after a read.
KeepsGoingAlways(buf) == TRUE
KeepsGoing(buf) == now' - start < limit \/ buf # << >>

Clock(t) == now' = IF t < Horizon THEN t ELSE Horizon

\* The channel has nothing for as long as it is asked to wait.
ReadNothing ==
  /\ pc = "read"
  /\ Clock(now + Patience)
  /\ pc' = IF KeepsGoing(<< >>) THEN "drain" ELSE "returned"
  /\ UNCHANGED <<start, limit, rx_buf_, need, others, late>>

\* On a bus that never falls silent there is still time between two reads.
ReadFrames ==
  /\ pc = "read"
  /\ \E d \in 0..Patience, batch \in Batches :
       /\ Endless => d > 0
       /\ Clock(now + d)
       /\ rx_buf_' = batch
       /\ \/ /\ \E i \in DOMAIN batch : batch[i] = "mine"
             /\ UNCHANGED <<others, late>>
          \/ /\ \A i \in DOMAIN batch : batch[i] = "other"
             /\ Endless \/ others < MaxOther
             /\ others' = IF Endless THEN others ELSE others + 1
             /\ late' = IF ~Endless /\ now + d >= start + limit THEN late + 1 ELSE late
       /\ pc' = IF KeepsGoing(batch) THEN "drain" ELSE "returned"
  /\ UNCHANGED <<start, limit, need>>

Returned == pc = "returned" /\ UNCHANGED vars

Step == Drop \/ TakeFrame \/ Drained \/ ReadNothing \/ ReadFrames

Next == Step \/ Returned

Spec == Init /\ [][Next]_vars

\* The thread that called recv() runs.
FairSpec == Spec /\ WF_vars(Step)

-----------------------------------------------------------------------------

\* recv() overruns its timeout by at most a millisecond for each batch of frames of
\* other ids that it reads when the time is over (isotp.cpp:73-83): on a bus
\* without them it returns in time, however many frames the message has.
Punctual == now <= Timeout + late

\* The inductive invariant behind Punctual.  A wait is begun only with time to
\* spare, or at the expense of a batch that came late; and a buffer that was filled
\* at the last moment without adding to late holds a frame that ends the wait.
IInv ==
  /\ TypeOK
  /\ Punctual
  /\ pc # "returned" => need > 0
  /\ pc = "read" => now < Timeout + late
  /\ pc = "drain" /\ (\A i \in 1..Len(rx_buf_) : rx_buf_[i] = "other")
       => now < Timeout + late

\* recv() returns: its timeout is "Whole-message assembly timeout" (isotp.h:40).
Returns == <>(pc = "returned")
=============================================================================
