------------------------- MODULE ReadDeadlineProofs -------------------------
(* The proof that recv() is punctual, for every timeout, length of message and *)
(* size of the batches that the channel returns.                               *)
EXTENDS ReadDeadline, SequenceTheorems, TLAPS

USE DeadlineAssumption

\* A batch that the channel returns is a sequence of frames, and not an empty one.
LEMMA BatchIsSeq ==
  ASSUME NEW batch \in Batches
  PROVE  /\ batch \in Seq(Ids) /\ batch # << >>
         /\ Len(batch) \in 1..MaxBatch /\ DOMAIN batch = 1..Len(batch)
<1>1. PICK k \in 1..MaxBatch : batch \in [1..k -> Ids]
  BY DEF Batches
<1>2. batch \in Seq(Ids) /\ Len(batch) = k
  BY <1>1
<1>. QED  BY <1>1, <1>2

\* What taking the first frame off rx_buf_ does.
LEMMA TailFacts ==
  ASSUME NEW s \in Seq(Ids), s # << >>
  PROVE  /\ Tail(s) \in Seq(Ids) /\ Len(Tail(s)) = Len(s) - 1 /\ Len(s) > 0
         /\ Head(s) = s[1]
         /\ \A i \in 1..Len(Tail(s)) : Tail(s)[i] = s[i + 1]
OBVIOUS

\* What a read of the channel adds to the clock: it does not pass the limit, or it
\* is a millisecond.
LEMMA WaitIsShort ==
  ASSUME TypeOK, NEW d \in 0..Patience, Clock(now + d)
  PROVE  /\ now' \in now..Horizon /\ now' <= now + d
         /\ now' <= Timeout \/ now' <= now + 1
BY DEF TypeOK, Patience, Spent, Clock

\* The clock after a wait begun in time, or on credit.
LEMMA OnCredit ==
  ASSUME NEW t \in Nat, NEW t1 \in Nat, NEW c \in Nat, NEW c1 \in Nat,
         t < Timeout + c, c <= c1, t1 <= Timeout \/ t1 <= t + 1
  PROVE  t1 <= Timeout + c1
OBVIOUS

\* Dropping a frame of another id keeps the invariant.
LEMMA DropStep ==
  ASSUME IInv, Drop
  PROVE  IInv'
<1>1. rx_buf_ \in Seq(Ids) /\ rx_buf_ # << >>
  BY DEF IInv, TypeOK, Drop
<1>2. TypeOK'
  BY <1>1, TailFacts DEF IInv, TypeOK, Drop
<1>3. (\A i \in 1..Len(rx_buf_') : rx_buf_'[i] = "other")
        => \A i \in 1..Len(rx_buf_) : rx_buf_[i] = "other"
  <2>. SUFFICES ASSUME \A i \in 1..Len(rx_buf_') : rx_buf_'[i] = "other",
                       NEW j \in 1..Len(rx_buf_)
                PROVE  rx_buf_[j] = "other"
    OBVIOUS
  <2>1. CASE j = 1
    BY <2>1, <1>1, TailFacts DEF Drop
  <2>2. CASE j > 1
    <3>1. j - 1 \in 1..Len(Tail(rx_buf_)) /\ (j - 1) + 1 = j
      BY <2>2, <1>1, TailFacts
    <3>2. Tail(rx_buf_)[j - 1] = rx_buf_[j]
      BY <3>1, <1>1, TailFacts
    <3>. QED  BY <3>1, <3>2 DEF Drop
  <2>. QED  BY <2>1, <2>2
<1>. QED  BY <1>2, <1>3 DEF IInv, Drop, Punctual

\* Taking a frame keeps it: recv() waits on only with time to spare.
LEMMA TakeFrameStep ==
  ASSUME IInv, TakeFrame
  PROVE  IInv'
<1>1. rx_buf_ \in Seq(Ids) /\ rx_buf_ # << >>
  BY DEF IInv, TypeOK, TakeFrame
<1>2. rx_buf_' \in Seq(Ids) /\ Len(rx_buf_') <= MaxBatch
  BY <1>1, TailFacts DEF IInv, TypeOK, TakeFrame
<1>3. CASE need = 1 \/ now >= Timeout
  BY <1>2, <1>3 DEF IInv, TypeOK, Punctual, TakeFrame
<1>4. CASE need # 1 /\ now < Timeout
  BY <1>2, <1>4 DEF IInv, TypeOK, Punctual, TakeFrame, LimitLeft
<1>. QED  BY <1>3, <1>4 DEF IInv, TypeOK

\* So does a read that brings nothing, after which the loop goes on only in time.
LEMMA ReadNothingStep ==
  ASSUME IInv, ReadNothing
  PROVE  IInv'
<1>1. Patience \in 0..Patience /\ Patience >= 1
  BY DEF IInv, TypeOK, Patience, Spent
<1>2. now' \in now..Horizon /\ (now' <= Timeout \/ now' <= now + 1)
  BY <1>1, WaitIsShort DEF IInv, ReadNothing
<1>3. start + limit = Timeout /\ start \in Nat /\ limit \in Nat /\ now' \in Nat
  BY <1>2 DEF IInv, TypeOK
<1>4. pc' \in {"drain", "returned"} /\ (pc' = "drain" => now' - start < limit)
  <2>1. KeepsGoing(<< >>) <=> now' - start < limit
    <3>1. ~(<< >> # << >>)
      OBVIOUS
    <3>. QED  BY <3>1, Zenon DEF KeepsGoing
  <2>2. pc' = IF KeepsGoing(<< >>) THEN "drain" ELSE "returned"
    BY DEF ReadNothing
  <2>3. CASE KeepsGoing(<< >>)
    <3>1. pc' = "drain"
      BY <2>2, <2>3, Zenon
    <3>2. now' - start < limit
      BY <2>1, <2>3, Zenon
    <3>. QED  BY <3>1, <3>2
  <2>4. CASE ~KeepsGoing(<< >>)
    <3>1. pc' = "returned"
      BY <2>2, <2>4, Zenon
    <3>. QED  BY <3>1
  <2>. QED  BY <2>3, <2>4, Zenon
<1>5. now' - start < limit => now' < Timeout
  <2>1. /\ now' \in Int /\ start \in Int /\ limit \in Int
        /\ start + limit = Timeout
    BY <1>3
  <2>2. ASSUME NEW t \in Int, NEW s \in Int, NEW l \in Int, t - s < l
        PROVE  t < s + l
    BY <2>2
  <2>. QED  BY <2>1, <2>2
<1>6. pc' \in {"drain", "returned"} /\ (pc' = "drain" => now' < Timeout)
  BY <1>4, <1>5, Zenon
<1>. QED  BY <1>2, <1>6 DEF IInv, TypeOK, Punctual, ReadNothing

\* So does a read that brings frames: a late one that holds none of ours adds to late.
LEMMA ReadFramesStep ==
  ASSUME IInv, ~Endless, ReadFrames
  PROVE  IInv'
<1>1. PICK d \in 0..Patience, batch \in Batches :
        /\ Clock(now + d)
        /\ rx_buf_' = batch
        /\ \/ /\ \E i \in DOMAIN batch : batch[i] = "mine"
              /\ UNCHANGED <<others, late>>
           \/ /\ \A i \in DOMAIN batch : batch[i] = "other"
              /\ others < MaxOther /\ others' = others + 1
              /\ late' = IF now + d >= start + limit THEN late + 1 ELSE late
        /\ pc' = IF KeepsGoing(batch) THEN "drain" ELSE "returned"
  BY DEF ReadFrames
<1>2. /\ batch \in Seq(Ids) /\ Len(batch) \in 1..MaxBatch /\ DOMAIN batch = 1..Len(batch)
      /\ pc' = "drain"
  BY <1>1, BatchIsSeq DEF KeepsGoing
<1>3. now' \in now..Horizon /\ now' <= now + d /\ (now' <= Timeout \/ now' <= now + 1)
  BY <1>1, WaitIsShort DEF IInv
<1>4. now < Timeout + late /\ start + limit = Timeout /\ late \in 0..others /\ others \in Nat
  BY DEF IInv, TypeOK, ReadFrames
<1>5. late' \in 0..others' /\ others' \in 0..MaxOther /\ late <= late'
  BY <1>1, <1>4 DEF IInv, TypeOK
<1>6. now' <= Timeout + late'
  <2>1. now \in Nat /\ now' \in Nat /\ late \in Nat /\ late' \in Nat
    BY <1>3, <1>4, <1>5 DEF IInv, TypeOK
  <2>2. now' <= Timeout \/ now' <= now + 1
    BY <1>3
  <2>3. now < Timeout + late /\ late <= late'
    BY <1>4, <1>5
  <2>. QED  BY <2>1, <2>2, <2>3, OnCredit
<1>7. (\A i \in 1..Len(rx_buf_') : rx_buf_'[i] = "other") => now' < Timeout + late'
  <2>. SUFFICES ASSUME \A i \in 1..Len(batch) : batch[i] = "other"
                PROVE  now' < Timeout + late'
    BY <1>1
  <2>1. late' = IF now + d >= Timeout THEN late + 1 ELSE late
    BY <1>1, <1>2, <1>4
  <2>. QED  BY <2>1, <1>3, <1>4 DEF IInv, TypeOK
<1>8. TypeOK'
  BY <1>1, <1>2, <1>3, <1>5 DEF IInv, TypeOK, ReadFrames
<1>. QED  BY <1>2, <1>6, <1>7, <1>8 DEF IInv, Punctual, ReadFrames

\* In every behaviour in which the foreign traffic is finite the clock, the limit of
\* the wait and what is buffered are related as IInv says (isotp.cpp:59-92, 216-223).
THEOREM Invariance == ~Endless => (Spec => []IInv)
<1>. SUFFICES ASSUME ~Endless PROVE Spec => []IInv
  OBVIOUS
<1>1. Init => IInv
  <2>. SUFFICES ASSUME Init PROVE IInv
    OBVIOUS
  <2>1. rx_buf_ \in Seq(Ids) /\ Len(rx_buf_) <= MaxBatch
    <3>1. CASE rx_buf_ = << >>
      BY <3>1
    <3>2. CASE rx_buf_ \in Batches
      BY <3>2, BatchIsSeq
    <3>. QED  BY <3>1, <3>2 DEF Init
  <2>. QED  BY <2>1 DEF Init, IInv, TypeOK, Punctual
<1>2. IInv /\ [Next]_vars => IInv'
  <2>. SUFFICES ASSUME IInv, [Next]_vars PROVE IInv'
    OBVIOUS
  <2>1. CASE Drained
    BY <2>1 DEF IInv, TypeOK, Punctual, Drained
  <2>2. CASE UNCHANGED vars
    BY <2>2 DEF vars, IInv, TypeOK, Punctual
  <2>. QED  BY <2>1, <2>2, DropStep, TakeFrameStep, ReadNothingStep, ReadFramesStep
            DEF Next, Step, Returned
<1>. QED  BY <1>1, <1>2, PTL DEF Spec

\* The variables of recv() and read_matching() keep their types, and the timeouts of
\* the waits always end where recv()'s own does (isotp.cpp:216-223).
THEOREM TypeCorrect == ~Endless => (Spec => []TypeOK)
BY Invariance, PTL DEF IInv

\* recv() overruns its timeout by at most a millisecond for each batch of frames of
\* other ids that comes when the time is over (isotp.cpp:59-92).
THEOREM RecvIsPunctual == ~Endless => (Spec => []Punctual)
BY Invariance, PTL DEF IInv
=============================================================================
