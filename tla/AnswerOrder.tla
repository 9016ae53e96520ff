----------------------------- MODULE AnswerOrder -----------------------------
(***************************************************************************)
(* What a layer that makes one request after the other promises about whose *)
(* response each of them gets, when nothing but the order ties a response   *)
(* to its request: a response is used once, responses are used in the order *)
(* of their requests, and never before them.  IsoTpTransport::request       *)
(* (src/src/isotp.cpp:248-255) and UdsClient::request                       *)
(* (src/src/uds_client.cpp:61-117) both implement it.  How far out of step  *)
(* a tester can get follows from nothing else.                              *)
(***************************************************************************)
EXTENDS Integers, TLAPS

VARIABLES asked,         \* how many requests have returned
          failed,        \* how many of them without a response
          last           \* the latest request whose response was used, or 0

vars == <<asked, failed, last>>

Init == asked = 0 /\ failed = 0 /\ last = 0

\* A request that fails may leave its response behind.
Fail ==
  /\ asked' = asked + 1 /\ failed' = failed + 1
  /\ UNCHANGED last

\* One that succeeds uses a response that no other has used, its own or an older one.
Succeed ==
  /\ asked' = asked + 1
  /\ last' \in (last + 1)..(asked + 1)
  /\ UNCHANGED failed

Next == Fail \/ Succeed

Spec == Init /\ [][Next]_vars

TypeOK == asked \in Nat /\ failed \in Nat /\ last \in Nat

\* The response used last is no older than the number of failures allows.
Lag == last <= asked /\ asked <= last + failed

-----------------------------------------------------------------------------

LEMMA InitStep == Init => TypeOK /\ Lag
  BY SMT DEF Init, TypeOK, Lag

LEMMA UsedIsNewer ==
  ASSUME NEW a \in Nat, NEW f \in Nat, NEW l \in Nat, NEW m \in (l + 1)..(a + 1),
         a <= l + f
  PROVE  m \in Nat /\ m <= a + 1 /\ a + 1 <= m + f
  BY SMT

LEMMA NextStep == TypeOK /\ Lag /\ [Next]_vars => TypeOK' /\ Lag'
<1> SUFFICES ASSUME TypeOK, Lag, [Next]_vars
             PROVE  TypeOK' /\ Lag'
  OBVIOUS
<1>1. CASE Fail
  BY <1>1, SMT DEF TypeOK, Lag, Fail
<1>2. CASE Succeed
  <2>1. last' \in Nat /\ last' <= asked + 1 /\ asked + 1 <= last' + failed
    BY <1>2, UsedIsNewer DEF TypeOK, Lag, Succeed
  <2>2. asked' = asked + 1 /\ failed' = failed
    BY <1>2 DEF Succeed
  <2>3. asked + 1 \in Nat
    BY SMT DEF TypeOK
  <2> QED
    BY <2>1, <2>2, <2>3 DEF TypeOK, Lag
<1>3. CASE UNCHANGED vars
  BY <1>3, SMT DEF TypeOK, Lag, vars
<1> QED
  BY <1>1, <1>2, <1>3 DEF Next

\* A response is out of date by no more requests than have failed before it, for
\* every layer that implements this specification and for any number of requests:
\* no failure, no lag (isotp.cpp:248-255, uds_client.cpp:61-117).
THEOREM LagIsBounded == Spec => [](TypeOK /\ Lag)
<1>1. Init => TypeOK /\ Lag
  BY InitStep
<1>2. (TypeOK /\ Lag) /\ [Next]_vars => (TypeOK /\ Lag)'
  BY NextStep
<1> QED
  BY <1>1, <1>2, PTL DEF Spec
=============================================================================
