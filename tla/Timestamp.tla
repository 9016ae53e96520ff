----------------------------- MODULE Timestamp -----------------------------
(***************************************************************************)
(* extend_timestamp (src/include/cansdk/timestamp.h): the microseconds of a *)
(* 32-bit adapter counter, extended to 64 bits by counting its rollovers.   *)
(* The caller keeps the previous raw value and the rollover counter between *)
(* the frames of one session.                                               *)
(*                                                                          *)
(* true_us is the time that the adapter's counter would show if it were     *)
(* wide enough; the program does not know it.                               *)
(***************************************************************************)
EXTENDS Integers

CONSTANTS Wrap,          \* 2^32: the width of the adapter's counter
          RolloverWrap,  \* 2^32: the width of the rollover counter
          MaxGap,        \* the longest time between two frames
          MaxTime        \* bound on the length of the session

ASSUME TimestampAssumption ==
  /\ Wrap \in Nat \ {0} /\ RolloverWrap \in Nat \ {0}
  /\ MaxGap \in Nat /\ MaxTime \in Nat
  /\ MaxGap < Wrap
  /\ MaxTime < RolloverWrap * Wrap

VARIABLES true_us, prev_ts, rollover, extended

vars == <<true_us, prev_ts, rollover, extended>>

TypeOK ==
  /\ true_us \in 0..MaxTime
  /\ prev_ts \in 0..(Wrap - 1)
  /\ rollover \in 0..(RolloverWrap - 1)
  /\ extended \in Nat

\* The first frame has nothing before it.
Init ==
  /\ true_us \in 0..(Wrap - 1) /\ true_us <= MaxTime
  /\ prev_ts = true_us /\ rollover = 0 /\ extended = true_us

\* The adapter's counter, gap microseconds after it showed prev_ts.
Raw(gap) == IF prev_ts + gap < Wrap THEN prev_ts + gap ELSE prev_ts + gap - Wrap

RolledOverOrSame(raw) == IF raw <= prev_ts THEN rollover + 1 ELSE rollover
RolledOver(raw) == IF raw < prev_ts THEN (rollover + 1) % RolloverWrap ELSE rollover

Frame(gap) ==
  /\ true_us + gap <= MaxTime
  /\ true_us' = true_us + gap
  /\ prev_ts' = Raw(gap)
  /\ rollover' = RolledOver(Raw(gap))
  /\ extended' = rollover' * Wrap + Raw(gap)

SessionEnds == true_us = MaxTime /\ UNCHANGED vars

Next == (\E gap \in 0..MaxGap : Frame(gap)) \/ SessionEnds

Spec == Init /\ [][Next]_vars

-----------------------------------------------------------------------------

\* As long as no two frames are a whole turn of the counter apart, the extended
\* value is the time, also when frames share a microsecond or the counter turns
\* (timestamp.h:28-36).
Exact == extended = true_us

\* It never goes back, as timestamp.h:22 promises.
Monotonic == [][extended' >= extended]_vars
=============================================================================
