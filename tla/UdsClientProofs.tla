-------------------------- MODULE UdsClientProofs --------------------------
(***************************************************************************)
(* Proofs about UdsClient, for every set of calls, width of the address and *)
(* length fields, limit on 0x78 replies, and number of faults: the types,   *)
(* the refinement of AnswerOrder, and what holds of a client that does not  *)
(* give up too early - the link is silent between calls, a region is read   *)
(* right, an unlock that succeeds was granted.                              *)
(***************************************************************************)
EXTENDS UdsClient, SequenceTheorems, FiniteSetTheorems, TLAPS

-----------------------------------------------------------------------------
(* The inductive invariants.                                                *)

\* A call in progress has its place in results, and its region is not yet read.
InCall ==
  /\ pc = "idle" => out = << >> /\ done = 0
  /\ pc # "idle" =>
       /\ Len(results) < MaxCalls
       /\ call.op = "region" => call.chunk > 0 /\ call.total > 0 /\ done < call.total

IType == TypeOK /\ InCall

\* Requests and replies that are on their way keep the order of the requests they
\* belong to: only the 0x78 replies to a request may be followed by another reply to
\* it, and whatever was used is older than all that is on its way.
Behind(n) ==
  /\ \A i \in 1..Len(to_tester) : n < to_tester[i].of
  /\ ecu.serving # NoRequest => n < ecu.serving.of
  /\ \A i \in 1..Len(to_ecu) : n < to_ecu[i].of

Follows(r, n) == r.of <= n /\ (IsPending(r.bytes) \/ r.of < n)

UsedFirst == \A n \in Used \cup {0} : n <= asked /\ Behind(n)

RepliesSorted ==
  \A i, j \in 1..Len(to_tester) : i < j => Follows(to_tester[i], to_tester[j].of)

RepliesNext ==
  \A i \in 1..Len(to_tester) :
    /\ to_tester[i].of <= asked
    /\ ecu.serving # NoRequest => Follows(to_tester[i], ecu.serving.of)
    /\ \A j \in 1..Len(to_ecu) : to_tester[i].of < to_ecu[j].of

ServingNext ==
  ecu.serving # NoRequest =>
    /\ ecu.serving.of <= asked
    /\ \A j \in 1..Len(to_ecu) : ecu.serving.of < to_ecu[j].of

RequestsLast ==
  /\ \A j \in 1..Len(to_ecu) : to_ecu[j].of <= asked
  /\ \A i, j \in 1..Len(to_ecu) : i < j => to_ecu[i].of < to_ecu[j].of

Ordered == UsedFirst /\ RepliesSorted /\ RepliesNext /\ ServingNext /\ RequestsLast

\* The latest request whose reply was used.
IsLatest(n) == n \in Used \cup {0} /\ \A m \in Used \cup {0} : m <= n

IOrder == IType /\ Ordered /\ \E n \in Used \cup {0} : IsLatest(n)

\* The request that the call in progress has sent, or is about to send.
Pending(n) == [of |-> n, svc |-> NextRequest.svc, params |-> NextRequest.params]

\* What is on its way is one request, its 0x78 replies, and one final reply, and
\* there are never more of the former than the client still waits out.
Asking ==
  to_ecu # << >> =>
    /\ to_ecu = <<Pending(asked)>> /\ to_tester = << >>
    /\ ecu.serving = NoRequest /\ attempt = 0

Serving ==
  ecu.serving # NoRequest =>
    /\ ecu.serving = Pending(asked)
    /\ attempt + Len(to_tester) <= ecu.pend /\ ecu.pend <= PendingLimit

Answering ==
  \A i \in 1..Len(to_tester) :
    /\ IsPending(to_tester[i].bytes) => attempt + i <= PendingLimit
    /\ ~IsPending(to_tester[i].bytes) => i = Len(to_tester) /\ ecu.serving = NoRequest

OneRequest == (pc # "recv" => Quiet) /\ Asking /\ Serving /\ Answering

\* The regions that the fields of a request can describe.
RegionsFit ==
  \A c \in Calls : c.op = "region" =>
    c.addr + c.total <= AddrSpace /\ (c.chunk < LenSpace \/ c.total < LenSpace)

\* A final reply that request() takes for a positive one says what the ECU has done:
\* it is the memory asked for, or the acknowledgement of a key that was accepted.
Honest(bytes) ==
  IsPositive(NextRequest.svc, bytes) =>
    /\ call.op = "unlock" => IF out = << >> THEN call.level % 2 = 1 ELSE asked \in granted
    /\ call.op = "region" /\ RegionsFit =>
         Tail(bytes) = Memory(call.addr + done, Want(call.total, done, call.chunk))

Content ==
  /\ pc = "recv" => \A i \in 1..Len(to_tester) : Honest(to_tester[i].bytes)
  /\ pc # "idle" /\ call.op = "unlock" /\ out # << >> => call.level % 2 = 1
  /\ pc # "idle" /\ call.op = "region" /\ RegionsFit => out = Memory(call.addr, done)

\* What a call that succeeds has returned.
GoodResult(r) ==
  r.ok =>
    /\ r.call.op = "unlock" => r.last \in granted
    /\ r.call.op = "region" /\ RegionsFit => r.out = Memory(r.call.addr, r.call.total)

Results == \A i \in 1..Len(results) : GoodResult(results[i])

InTime == OneRequest /\ Content /\ Results

IInv == IType /\ (early = 0 => InTime)

\* A final reply to the request that the ECU serves, and what a positive one means.
Final(bytes) ==
  /\ ecu.serving # NoRequest /\ bytes \in Seq(Nat) /\ ~IsPending(bytes)
  /\ Answer(bytes)
  /\ ecu' \in [serving: {NoRequest}, pend: {ecu.pend}, seed: Nat]
  /\ granted \subseteq granted' /\ granted' \subseteq Nat
  /\ faults' \in 0..MaxFaults
  /\ UNCHANGED <<client, to_ecu, early>>

Meant(bytes) ==
  IsPositive(ecu.serving.svc, bytes) =>
    LET params == ecu.serving.params IN
    /\ ecu.serving.svc = SecurityAccess =>
         /\ params # << >>
         /\ \/ params[1] % 2 = 1
            \/ params[1] % 2 = 0 /\ Len(params) = 2 /\ ecu.serving.of \in granted'
    /\ ecu.serving.svc = ReadMemoryByAddress => Tail(bytes) = Memory(params[1], params[2])

-----------------------------------------------------------------------------
(* Operators.                                                               *)

USE UdsAssumption

LEMMA Limit == PendingLimit \in Nat /\ PendingLimit > 0
BY DEF PendingLimit

LEMMA AppendFacts ==
  ASSUME NEW S, NEW s \in Seq(S), NEW e \in S
  PROVE  /\ Append(s, e) \in Seq(S) /\ Len(Append(s, e)) = Len(s) + 1
         /\ \A i \in 1..Len(s) : Append(s, e)[i] = s[i]
         /\ Append(s, e)[Len(s) + 1] = e
OBVIOUS

LEMMA TailFacts ==
  ASSUME NEW S, NEW s \in Seq(S), s # << >>
  PROVE  /\ Tail(s) \in Seq(S) /\ Len(Tail(s)) = Len(s) - 1 /\ Len(s) > 0
         /\ Head(s) = s[1] /\ Head(s) \in S
         /\ \A i \in 1..Len(Tail(s)) : Tail(s)[i] = s[i + 1]
OBVIOUS

LEMMA ByteIsNat == ASSUME NEW b \in Byte PROVE b \in Nat /\ b <= 255
BY DEF Byte

LEMMA CallFacts ==
  ASSUME NEW c \in Calls
  PROVE  /\ c # None /\ c.op \in {"plain", "unlock", "region"}
         /\ c.op = "plain" => c.svc \in Byte
         /\ c.op = "unlock" => c.level \in Byte
         /\ c.op = "region" => c.addr \in Nat /\ c.total \in Nat /\ c.chunk \in Nat
BY DEF Call, None

LEMMA ModType ==
  ASSUME NEW a \in Nat, NEW m \in Nat \ {0}
  PROVE  a % m \in Nat /\ a % m < m
OBVIOUS

LEMMA ModFits ==
  ASSUME NEW a \in Nat, NEW m \in Nat \ {0}, a < m
  PROVE  a % m = a
OBVIOUS

\* The key of an odd level goes to an even one.
LEMMA KeyIsEven ==
  ASSUME NEW l \in Nat, l <= 255, l % 2 = 1
  PROVE  KeyLevel(l) % 2 = 0 /\ KeyLevel(l) \in Nat
<1>1. (l + 1) % 2 = 0
  OBVIOUS
<1>2. CASE l = 255
  BY <1>2 DEF KeyLevel
<1>3. CASE l < 255
  <2>1. (l + 1) % 256 = l + 1
    BY <1>3
  <2>. QED  BY <1>1, <2>1 DEF KeyLevel
<1>. QED  BY <1>2, <1>3

LEMMA WantType ==
  ASSUME NEW t \in Nat, NEW d \in Nat, NEW c \in Nat, d < t, c > 0
  PROVE  /\ Want(t, d, c) \in Nat /\ Want(t, d, c) > 0
         /\ Want(t, d, c) <= t - d /\ Want(t, d, c) <= c
BY DEF Want

LEMMA NextRequestType ==
  ASSUME IType, pc # "idle"
  PROVE  /\ call \in Calls
         /\ NextRequest.svc \in Byte /\ NextRequest.params \in Seq(Nat)
         /\ \A n \in Nat : Pending(n) \in Request
<1>1. call \in Calls /\ out \in Seq(Nat) /\ done \in Nat
  BY DEF IType, TypeOK
<1>2. CASE call.op = "plain"
  <2>1. NextRequest = [svc |-> call.svc, params |-> << >>]
    BY <1>2 DEF NextRequest
  <2>. QED  BY <1>1, <1>2, <2>1, CallFacts DEF Pending, Request
<1>3. CASE call.op = "unlock"
  <2>1. call.level \in Nat /\ KeyLevel(call.level) \in Nat
    <3>1. call.level \in Nat
      BY <1>1, <1>3, CallFacts, ByteIsNat
    <3>. QED  BY <3>1 DEF KeyLevel
  <2>2. <<call.level>> \in Seq(Nat) /\ <<KeyLevel(call.level)>> \o out \in Seq(Nat)
    BY <1>1, <2>1
  <2>3. NextRequest = [svc |-> SecurityAccess,
                       params |-> IF out = << >> THEN <<call.level>>
                                  ELSE <<KeyLevel(call.level)>> \o out]
    BY <1>3 DEF NextRequest
  <2>. QED  BY <1>1, <2>2, <2>3 DEF Pending, Request, SecurityAccess, Byte
<1>4. CASE call.op = "region"
  <2>1. /\ call.addr + done \in Nat
        /\ Want(call.total, done, call.chunk) \in Nat
    <3>1. /\ call.addr \in Nat /\ call.total \in Nat /\ call.chunk \in Nat
          /\ done < call.total /\ call.chunk > 0
      BY <1>1, <1>4, CallFacts DEF IType, InCall
    <3>. QED  BY <1>1, <3>1 DEF Want
  <2>2. ReadParams(call.addr + done, Want(call.total, done, call.chunk)) \in Seq(Nat)
    BY <2>1, ModType DEF ReadParams
  <2>3. NextRequest = [svc |-> ReadMemoryByAddress,
                       params |-> ReadParams(call.addr + done,
                                    Want(call.total, done, call.chunk))]
    BY <1>4 DEF NextRequest
  <2>. QED  BY <1>1, <2>2, <2>3 DEF Pending, Request, ReadMemoryByAddress, Byte
<1>. QED  BY <1>1, <1>2, <1>3, <1>4, CallFacts

-----------------------------------------------------------------------------
(* Types.                                                                   *)

LEMMA BeginTyped == ASSUME IType, Begin PROVE IType'
BY CallFacts DEF IType, TypeOK, InCall, Begin, bus, luck

LEMMA BeginEmptyRegionTyped == ASSUME IType, BeginEmptyRegion PROVE IType'
<1>1. PICK c \in Calls :
        results' = Append(results, [call |-> c, ok |-> c.chunk > 0,
                                    out |-> << >>, last |-> asked])
  BY DEF BeginEmptyRegion
<1>2. pc = "idle" /\ Len(results) < MaxCalls
      /\ UNCHANGED <<pc, call, attempt, out, done, asked, replies, bus, ecu, granted, luck>>
  BY DEF BeginEmptyRegion
<1>3. /\ results' \in Seq([call: Calls, ok: BOOLEAN, out: Seq(Nat), last: Nat])
      /\ Len(results') = Len(results) + 1
  <2>1. (c.chunk > 0) \in BOOLEAN /\ << >> \in Seq(Nat)
    OBVIOUS
  <2>2. [call |-> c, ok |-> c.chunk > 0, out |-> << >>, last |-> asked]
          \in [call: Calls, ok: BOOLEAN, out: Seq(Nat), last: Nat]
    BY <2>1 DEF IType, TypeOK
  <2>. QED  BY <1>1, <2>2 DEF IType, TypeOK
<1>. QED  BY <1>2, <1>3 DEF IType, TypeOK, InCall, bus, luck

LEMMA SendTyped == ASSUME IType, Send PROVE IType'
<1>1. Pending(asked + 1) \in Request
  BY NextRequestType DEF Send, IType, TypeOK
<1>2. to_ecu' \in Seq(Request)
  BY <1>1 DEF Send, Pending, IType, TypeOK
<1>. QED  BY <1>2, Limit DEF IType, TypeOK, InCall, Send, luck

\* How a request ends a call: what Return does to the types.
LEMMA ReturnTyped ==
  ASSUME IType, pc # "idle", NEW ok \in BOOLEAN, NEW bytes \in Seq(Nat), Return(ok, bytes)
  PROVE  /\ pc' = "idle" /\ call' = None /\ out' = << >> /\ done' = 0
         /\ results' \in Seq([call: Calls, ok: BOOLEAN, out: Seq(Nat), last: Nat])
         /\ Len(results') <= MaxCalls
<1>1. [call |-> call, ok |-> ok, out |-> bytes, last |-> asked]
        \in [call: Calls, ok: BOOLEAN, out: Seq(Nat), last: Nat]
  BY NextRequestType DEF IType, TypeOK
<1>. QED  BY <1>1 DEF Return, IType, TypeOK, InCall

LEMMA RepliesTyped ==
  ASSUME IType, NEW ok \in BOOLEAN, NEW of \in Nat,
         replies' = Append(replies, [ok |-> ok, of |-> of])
  PROVE  /\ replies' \in Seq([ok: BOOLEAN, of: Nat])
         /\ Len(replies') = Len(replies) + 1
<1>1. [ok |-> ok, of |-> of] \in [ok: BOOLEAN, of: Nat]
  OBVIOUS
<1>2. replies \in Seq([ok: BOOLEAN, of: Nat])
  BY DEF IType, TypeOK
<1>. DEFINE R == [ok: BOOLEAN, of: Nat]
            r == [ok |-> ok, of |-> of]
<1>3. r \in R /\ replies \in Seq(R) /\ replies' = Append(replies, r)
  BY <1>1, <1>2
<1>. HIDE DEF R, r
<1>4. replies' \in Seq(R) /\ Len(replies') = Len(replies) + 1
  BY <1>3, AppendFacts
<1>. QED  BY <1>4 DEF R

LEMMA RequestFailsTyped ==
  ASSUME IType, pc # "idle", NEW of \in Nat, RequestFails(of)
  PROVE  /\ pc' = "idle" /\ call' = None /\ out' = << >> /\ done' = 0
         /\ results' \in Seq([call: Calls, ok: BOOLEAN, out: Seq(Nat), last: Nat])
         /\ Len(results') <= MaxCalls
         /\ replies' \in Seq([ok: BOOLEAN, of: Nat]) /\ Len(replies') = Len(replies) + 1
BY ReturnTyped, RepliesTyped DEF RequestFails, IType, TypeOK

\* The steps that end a call with a request that failed.
LEMMA FailureTyped ==
  ASSUME IType, NEW of \in Nat, RequestFails(of),
         \/ pc = "send" /\ asked' = asked + 1
         \/ pc = "recv" /\ asked' = asked,
         to_tester' \in Seq(Reply), faults' \in 0..MaxFaults, early' \in 0..MaxEarly,
         UNCHANGED <<attempt, to_ecu, ecu, granted>>
  PROVE  IType'
<1>1. /\ pc' = "idle" /\ call' = None /\ out' = << >> /\ done' = 0
      /\ results' \in Seq([call: Calls, ok: BOOLEAN, out: Seq(Nat), last: Nat])
      /\ Len(results') <= MaxCalls
      /\ replies' \in Seq([ok: BOOLEAN, of: Nat]) /\ Len(replies') = Len(replies) + 1
  BY RequestFailsTyped
<1>2. asked' \in Nat /\ Len(replies') = asked'
  <2>1. asked \in Nat /\ Len(replies) = IF pc = "recv" THEN asked - 1 ELSE asked
    BY DEF IType, TypeOK
  <2>2. CASE pc = "send" /\ asked' = asked + 1
    BY <1>1, <2>1, <2>2
  <2>3. CASE pc = "recv" /\ asked' = asked
    BY <1>1, <2>1, <2>3
  <2>. QED  BY <2>2, <2>3
<1>3. TypeOK'
  BY <1>1, <1>2, SMTT(30) DEF IType, TypeOK
<1>. QED  BY <1>1, <1>3 DEF IType, InCall

LEMMA SendFailsTyped == ASSUME IType, SendFails PROVE IType'
<1>1. RequestFails(0) /\ pc = "send" /\ asked' = asked + 1
  BY DEF SendFails
<1>2. /\ to_tester' \in Seq(Reply) /\ faults' \in 0..MaxFaults /\ early' \in 0..MaxEarly
      /\ UNCHANGED <<attempt, to_ecu, ecu, granted>>
  BY DEF SendFails, IType, TypeOK, bus
<1>. QED  BY <1>1, <1>2, FailureTyped

LEMMA RecvTimesOutTyped == ASSUME IType, RecvTimesOut PROVE IType'
<1>1. RequestFails(0) /\ pc = "recv" /\ asked' = asked
  BY DEF RecvTimesOut
<1>2. /\ to_tester' \in Seq(Reply) /\ faults' \in 0..MaxFaults /\ early' \in 0..MaxEarly
      /\ UNCHANGED <<attempt, to_ecu, ecu, granted>>
  BY SMTT(30) DEF RecvTimesOut, IType, TypeOK, bus
<1>. QED  BY <1>1, <1>2, FailureTyped

LEMMA ReceiveFacts ==
  ASSUME IType, Receive
  PROVE  /\ pc = "recv" /\ Len(to_tester) > 0 /\ reply = to_tester[1]
         /\ reply \in Reply /\ to_tester' \in Seq(Reply)
         /\ Len(to_tester') = Len(to_tester) - 1
         /\ \A i \in 1..Len(to_tester') : to_tester'[i] = to_tester[i + 1]
BY DEF IType, TypeOK, Receive, reply

LEMMA RecvPendingTyped == ASSUME IType, RecvPending PROVE IType'
BY ReceiveFacts, Limit DEF RecvPending, MorePending, IType, TypeOK, InCall, luck

LEMMA RecvFailsTyped == ASSUME IType, RecvFails PROVE IType'
<1>1. reply.of \in Nat /\ pc = "recv"
  BY ReceiveFacts DEF RecvFails, Reply
<1>2. to_tester' \in Seq(Reply)
  BY ReceiveFacts DEF RecvFails
<1>. QED  BY <1>1, <1>2, FailureTyped DEF RecvFails, IType, TypeOK, luck

LEMMA ProceedTyped ==
  ASSUME IType, pc = "recv", NEW payload \in Seq(Nat), Proceed(payload)
  PROVE  /\ pc' \in {"idle", "send"}
         /\ call' \in Calls \cup {None} /\ (call' = None) = (pc' = "idle")
         /\ out' \in Seq(Nat) /\ done' \in Nat
         /\ results' \in Seq([call: Calls, ok: BOOLEAN, out: Seq(Nat), last: Nat])
         /\ Len(results') <= MaxCalls
         /\ InCall'
<1>1. call \in Calls /\ call # None /\ out \in Seq(Nat) /\ << >> \in Seq(Nat)
  BY NextRequestType, CallFacts, SMTT(30) DEF IType, TypeOK
<1>2. CASE \E ok \in BOOLEAN, bytes \in Seq(Nat) : Return(ok, bytes)
  <2>1. PICK ok \in BOOLEAN, bytes \in Seq(Nat) : Return(ok, bytes)
    BY <1>2
  <2>2. /\ pc' = "idle" /\ call' = None /\ out' = << >> /\ done' = 0
        /\ results' \in Seq([call: Calls, ok: BOOLEAN, out: Seq(Nat), last: Nat])
        /\ Len(results') <= MaxCalls
    BY <2>1, ReturnTyped
  <2>. QED  BY <2>2 DEF InCall
<1>3. CASE /\ call.op = "unlock" /\ out' = Tail(payload) /\ Len(payload) > 1 /\ pc' = "send"
           /\ UNCHANGED <<call, done, results>>
  <2>1. Tail(payload) \in Seq(Nat)
    BY ONLY <1>3, payload \in Seq(Nat)
  <2>2. /\ done \in Nat /\ Len(results) <= MaxCalls
        /\ results \in Seq([call: Calls, ok: BOOLEAN, out: Seq(Nat), last: Nat])
    BY DEF IType, TypeOK
  <2>3. Len(results) < MaxCalls
    BY DEF IType, InCall
  <2>. QED  BY <1>1, <1>3, <2>1, <2>2, <2>3 DEF InCall
<1>4. CASE /\ call.op = "region"
           /\ done + Want(call.total, done, call.chunk) < call.total
           /\ out' = out \o payload
           /\ done' = done + Want(call.total, done, call.chunk) /\ pc' = "send"
           /\ UNCHANGED <<call, results>>
  <2>1. Want(call.total, done, call.chunk) \in Nat
    BY <1>1, <1>4, CallFacts, WantType DEF IType, TypeOK, InCall
  <2>. QED  BY <1>1, <1>4, <2>1, SMTT(30) DEF IType, TypeOK, InCall
<1>. QED
  <2>1. out \o payload \in Seq(Nat)
    BY <1>1
  <2>2. CASE call.op = "plain" /\ Return(TRUE, payload)
    BY <2>2, <1>2
  <2>3. CASE call.op = "unlock"
    BY <2>3, <1>1, <1>2, <1>3 DEF Proceed
  <2>4. CASE call.op = "region"
    BY <2>4, <2>1, <1>2, <1>4 DEF Proceed
  <2>. QED  BY <2>2, <2>3, <2>4 DEF Proceed

LEMMA RecvPositiveTyped == ASSUME IType, RecvPositive PROVE IType'
<1>1. /\ reply.of \in Nat /\ reply.bytes \in Seq(Nat) /\ Len(reply.bytes) > 0
      /\ pc = "recv"
  BY ReceiveFacts DEF RecvPositive, Reply, IsPositive
<1>2. Tail(reply.bytes) \in Seq(Nat)
  BY <1>1
<1>3. Proceed(Tail(reply.bytes))
  BY DEF RecvPositive
<1>4. /\ pc' \in {"idle", "send"}
      /\ call' \in Calls \cup {None} /\ (call' = None) = (pc' = "idle")
      /\ out' \in Seq(Nat) /\ done' \in Nat
      /\ results' \in Seq([call: Calls, ok: BOOLEAN, out: Seq(Nat), last: Nat])
      /\ Len(results') <= MaxCalls /\ InCall'
  BY <1>1, <1>2, <1>3, ProceedTyped
<1>5. /\ replies' \in Seq([ok: BOOLEAN, of: Nat]) /\ Len(replies') = Len(replies) + 1
  BY <1>1, RepliesTyped DEF RecvPositive
<1>6. to_tester' \in Seq(Reply)
  BY ReceiveFacts DEF RecvPositive
<1>7. UNCHANGED <<attempt, asked, to_ecu, ecu, granted, faults, early>>
  BY DEF RecvPositive, luck
<1>8. Len(replies') = asked'
  BY <1>1, <1>5, <1>7 DEF IType, TypeOK
<1>9. TypeOK'
  BY <1>4, <1>5, <1>6, <1>7, <1>8 DEF IType, TypeOK
<1>. QED  BY <1>4, <1>9 DEF IType

-----------------------------------------------------------------------------
(* The ECU.                                                                 *)

LEMMA ServingTyped ==
  ASSUME IType
  PROVE  /\ ecu.serving \in Request /\ ecu.pend \in 0..EcuPending /\ ecu.seed \in Nat
         /\ ecu.serving.of \in Nat /\ ecu.serving.svc \in Nat
         /\ ecu.serving.params \in Seq(Nat)
         /\ ecu = [serving |-> ecu.serving, pend |-> ecu.pend, seed |-> ecu.seed]
<1>1. ecu \in [serving: Request, pend: 0..EcuPending, seed: Nat]
  BY DEF IType, TypeOK
<1>2. ecu.serving \in Request
  BY <1>1
<1>. QED  BY <1>1, <1>2, ByteIsNat DEF Request

\* Refusals are replies, and only the one with code 0x78 is pending.
LEMMA RefusalFacts ==
  ASSUME IType, NEW nrc \in Nat
  PROVE  /\ Refusal(nrc) \in Seq(Nat)
         /\ ~IsPositive(ecu.serving.svc, Refusal(nrc))
         /\ IsPending(Refusal(nrc)) <=> nrc = ResponsePending
BY ServingTyped DEF Refusal, NegativeResponse, IsPositive, IsPending, IsNegative

\* The parameters of a request that is complete.
LEMMA ParamsTyped ==
  ASSUME IType, ~Incomplete
  PROVE  /\ ecu.serving.svc = SecurityAccess =>
              ecu.serving.params # << >> /\ ecu.serving.params[1] \in Nat
         /\ ecu.serving.svc = ReadMemoryByAddress =>
              ecu.serving.params[1] \in Nat /\ ecu.serving.params[2] \in Nat
<1>. DEFINE params == ecu.serving.params
<1>1. params \in Seq(Nat) /\ Len(params) \in Nat
  BY ServingTyped
<1>2. params # << >> => params[1] \in Nat
  BY <1>1
<1>3. Len(params) = 2 => params[1] \in Nat /\ params[2] \in Nat
  BY <1>1
<1>. QED  BY <1>2, <1>3 DEF Incomplete

LEMMA PositiveType == ASSUME NEW svc \in Nat PROVE Positive(svc) \in Nat
BY DEF Positive

LEMMA Declined ==
  ASSUME IType, EcuDeclines
  PROVE  \E bytes \in Seq(Nat) : Final(bytes) /\ Meant(bytes)
<1>1. /\ Refusal(ConditionsNotCorrect) \in Seq(Nat)
      /\ ~IsPending(Refusal(ConditionsNotCorrect))
      /\ Meant(Refusal(ConditionsNotCorrect))
  BY RefusalFacts DEF ConditionsNotCorrect, ResponsePending, Meant
<1>2. Final(Refusal(ConditionsNotCorrect))
  BY <1>1, ServingTyped DEF EcuDeclines, Final, luck, IType, TypeOK
<1>. QED  BY <1>1, <1>2

LEMMA PlainServed ==
  ASSUME IType, EcuServesPlain
  PROVE  \E bytes \in Seq(Nat) : Final(bytes) /\ Meant(bytes)
<1>. DEFINE bytes == <<Positive(ecu.serving.svc), 0>>
<1>1. bytes \in Seq(Nat) /\ ~IsPending(bytes)
  BY ServingTyped, PositiveType DEF IsPending, IsNegative
<1>2. Meant(bytes)
  BY DEF Meant, EcuServesPlain
<1>3. ecu.serving # NoRequest
  BY DEF EcuServesPlain, NoRequest
<1>4. Final(bytes)
  BY <1>1, <1>3, ServingTyped DEF EcuServesPlain, Final, luck, IType, TypeOK
<1>. QED  BY <1>1, <1>2, <1>4

LEMMA SeedGiven ==
  ASSUME IType, EcuGivesSeed
  PROVE  \E bytes \in Seq(Nat) : Final(bytes) /\ Meant(bytes)
<1>. DEFINE level == ecu.serving.params[1]
            bytes == <<Positive(SecurityAccess), level, ecu.serving.of>>
<1>1. ecu.serving.params # << >> /\ level \in Nat
  BY ParamsTyped DEF EcuGivesSeed
<1>2. bytes \in Seq(Nat) /\ ~IsPending(bytes)
  BY <1>1, ServingTyped DEF IsPending, IsNegative, Positive, SecurityAccess, NegativeResponse
<1>3. Meant(bytes)
  BY <1>1 DEF Meant, EcuGivesSeed, SecurityAccess, ReadMemoryByAddress
<1>4. ecu.serving # NoRequest
  BY DEF EcuGivesSeed, NoRequest, SecurityAccess
<1>5. Final(bytes)
  BY <1>2, <1>4, ServingTyped DEF EcuGivesSeed, Final, luck, IType, TypeOK
<1>. QED  BY <1>2, <1>3, <1>5

LEMMA KeyChecked ==
  ASSUME IType, EcuChecksKey
  PROVE  \E bytes \in Seq(Nat) : Final(bytes) /\ Meant(bytes)
<1>. DEFINE params == ecu.serving.params
            good == ecu.seed # 0 /\ Tail(params) = <<ecu.seed>>
            bytes == IF good THEN <<Positive(SecurityAccess), params[1]>>
                     ELSE Refusal(InvalidKey)
<1>1. params \in Seq(Nat) /\ params # << >> /\ params[1] \in Nat /\ params[1] % 2 = 0
  BY ServingTyped, ParamsTyped DEF EcuChecksKey
<1>2. granted' = IF good THEN granted \cup {ecu.serving.of} ELSE granted
  BY DEF EcuChecksKey
<1>3. bytes \in Seq(Nat) /\ ~IsPending(bytes)
  <2>1. CASE good
    BY <1>1, <2>1 DEF IsPending, IsNegative, Positive, SecurityAccess, NegativeResponse
  <2>2. CASE ~good
    BY <2>2, RefusalFacts, SMTT(30) DEF InvalidKey, ResponsePending
  <2>. QED  BY <2>1, <2>2
<1>4. Meant(bytes)
  <2>1. CASE good
    <3>1. Len(params) = 2
      <4>1. Len(Tail(params)) = Len(params) - 1 /\ Len(params) \in Nat
        BY <1>1
      <4>2. Tail(params) = <<ecu.seed>>
        BY <2>1, Zenon
      <4>3. Len(<<ecu.seed>>) = 1
        OBVIOUS
      <4>4. Len(Tail(params)) = 1
        BY <4>2, <4>3, Zenon
      <4>. QED  BY <4>1, <4>4
    <3>. QED  BY <1>1, <1>2, <2>1, <3>1
              DEF Meant, EcuChecksKey, SecurityAccess, ReadMemoryByAddress
  <2>2. CASE ~good
    BY <2>2, RefusalFacts DEF Meant, InvalidKey
  <2>. QED  BY <2>1, <2>2
<1>5. ecu.serving # NoRequest
  BY DEF EcuChecksKey, NoRequest, SecurityAccess
<1>6. /\ granted \subseteq granted' /\ granted' \subseteq Nat
  BY <1>2, ServingTyped DEF IType, TypeOK
<1>7. Answer(bytes)
  BY DEF EcuChecksKey
<1>. HIDE DEF bytes, good
<1>8. Final(bytes)
  BY <1>3, <1>5, <1>6, <1>7, ServingTyped DEF EcuChecksKey, Final, luck, IType, TypeOK
<1>. QED  BY <1>3, <1>4, <1>8

LEMMA MemoryRead ==
  ASSUME IType, EcuReadsMemory
  PROVE  \E bytes \in Seq(Nat) : Final(bytes) /\ Meant(bytes)
<1>. DEFINE addr == ecu.serving.params[1]
            len  == ecu.serving.params[2]
            beyond == len = 0 \/ addr + len > AddrSpace
            data == [i \in 1..len |-> addr + i - 1]
            bytes == IF beyond THEN Refusal(RequestOutOfRange)
                     ELSE <<Positive(ReadMemoryByAddress)>> \o data
<1>1. addr \in Nat /\ len \in Nat
  BY ParamsTyped DEF EcuReadsMemory
<1>2. data \in Seq(Nat) /\ data = Memory(addr, len)
  BY <1>1 DEF Memory
<1>3. /\ <<Positive(ReadMemoryByAddress)>> \o data \in Seq(Nat)
      /\ (<<Positive(ReadMemoryByAddress)>> \o data)[1] = Positive(ReadMemoryByAddress)
      /\ Tail(<<Positive(ReadMemoryByAddress)>> \o data) = data
  <2>1. <<Positive(ReadMemoryByAddress)>> \in Seq(Nat)
    BY PositiveType DEF ReadMemoryByAddress
  <2>2. PICK b \in Nat : b = Positive(ReadMemoryByAddress)
    BY PositiveType DEF ReadMemoryByAddress
  <2>3. ASSUME NEW d \in Seq(Nat)
        PROVE  /\ <<b>> \o d \in Seq(Nat) /\ (<<b>> \o d)[1] = b
               /\ Tail(<<b>> \o d) = d
    BY ONLY <2>2, <2>3
  <2>. HIDE DEF data
  <2>. QED  BY <1>2, <2>2, <2>3
<1>4. bytes \in Seq(Nat) /\ ~IsPending(bytes)
  <2>1. CASE beyond
    BY <2>1, RefusalFacts, SMTT(30) DEF RequestOutOfRange, ResponsePending
  <2>2. CASE ~beyond
    BY <1>3, <2>2 DEF IsPending, IsNegative, Positive, ReadMemoryByAddress, NegativeResponse
  <2>. QED  BY <2>1, <2>2
<1>5. Meant(bytes)
  <2>1. CASE beyond
    BY <2>1, RefusalFacts DEF Meant, RequestOutOfRange
  <2>2. CASE ~beyond
    <3>1. Tail(bytes) = Memory(addr, len)
      BY <1>2, <1>3, <2>2
    <3>2. ecu.serving.svc = ReadMemoryByAddress /\ ReadMemoryByAddress # SecurityAccess
      BY DEF EcuReadsMemory, SecurityAccess, ReadMemoryByAddress
    <3>. HIDE DEF bytes
    <3>. QED  BY <3>1, <3>2 DEF Meant
  <2>. QED  BY <2>1, <2>2
<1>6. ecu.serving # NoRequest
  BY DEF EcuReadsMemory, NoRequest, ReadMemoryByAddress
<1>7. Answer(bytes)
  BY DEF EcuReadsMemory
<1>. HIDE DEF bytes
<1>8. Final(bytes)
  BY <1>4, <1>6, <1>7, ServingTyped DEF EcuReadsMemory, Final, luck, IType, TypeOK
<1>. QED  BY <1>4, <1>5, <1>8

LEMMA Misbehaved ==
  ASSUME IType, EcuMisbehaves
  PROVE  \E bytes \in Seq(Nat) : Final(bytes) /\ Meant(bytes)
<1>1. PICK bytes \in {<< >>, <<NegativeResponse>>, <<Positive(0)>>} : Answer(bytes)
  BY DEF EcuMisbehaves
<1>2. bytes \in Seq(Nat) /\ ~IsPending(bytes)
  <2>1. NegativeResponse \in Nat /\ Positive(0) \in Nat
    BY PositiveType DEF NegativeResponse
  <2>2. bytes \in Seq(Nat) /\ Len(bytes) < 3
    <3>1. CASE bytes = << >>
      BY <3>1
    <3>2. CASE bytes = <<NegativeResponse>>
      BY <2>1, <3>2
    <3>3. CASE bytes = <<Positive(0)>>
      BY <2>1, <3>3
    <3>. QED  BY <3>1, <3>2, <3>3
  <2>. QED  BY <2>2 DEF IsPending
<1>3. Meant(bytes)
  BY DEF Meant, IsPositive, IsNegative, NegativeResponse, Positive, SecurityAccess,
         ReadMemoryByAddress
<1>4. Final(bytes)
  <2>1. ecu.serving # NoRequest /\ faults' \in 0..MaxFaults
    <3>1. ecu.serving # NoRequest /\ faults < MaxFaults /\ faults' = faults + 1
      BY Zenon DEF EcuMisbehaves
    <3>. QED  BY <3>1 DEF IType, TypeOK
  <2>2. ecu' \in [serving: {NoRequest}, pend: {ecu.pend}, seed: Nat]
    BY ServingTyped DEF EcuMisbehaves
  <2>3. /\ granted' = granted /\ granted \subseteq Nat
        /\ UNCHANGED <<client, to_ecu, early>>
    BY DEF EcuMisbehaves, IType, TypeOK
  <2>. QED  BY <1>1, <1>2, <2>1, <2>2, <2>3 DEF Final
<1>. QED  BY <1>2, <1>3, <1>4

Answers == \/ EcuDeclines \/ EcuServesPlain \/ EcuGivesSeed \/ EcuChecksKey
           \/ EcuReadsMemory \/ EcuMisbehaves

LEMMA AnswersAreFinal ==
  ASSUME IType, Answers
  PROVE  \E bytes \in Seq(Nat) : Final(bytes) /\ Meant(bytes)
BY Declined, PlainServed, SeedGiven, KeyChecked, MemoryRead, Misbehaved DEF Answers

LEMMA FinalTyped ==
  ASSUME IType, NEW bytes \in Seq(Nat), Final(bytes)
  PROVE  IType'
<1>1. to_tester' \in Seq(Reply)
  <2>1. [of |-> ecu.serving.of, bytes |-> bytes] \in Reply
    BY ServingTyped DEF Reply
  <2>. QED  BY <2>1, AppendFacts DEF Final, Answer, IType, TypeOK
<1>2. ecu' \in [serving: Request, pend: 0..EcuPending, seed: Nat]
  <2>1. NoRequest \in Request
    BY DEF NoRequest, Request, Byte
  <2>. QED  BY <2>1, ServingTyped DEF Final
<1>3. TypeOK'
  BY <1>1, <1>2 DEF IType, TypeOK, Final, client
<1>. QED  BY <1>3 DEF IType, InCall, Final, client

LEMMA EcuTakesTyped == ASSUME IType, EcuTakes PROVE IType'
<1>1. /\ Head(to_ecu) \in Request /\ to_ecu' \in Seq(Request)
      /\ Len(to_ecu) > 0 /\ Len(to_ecu') = Len(to_ecu) - 1 /\ Head(to_ecu) = to_ecu[1]
      /\ \A i \in 1..Len(to_ecu') : to_ecu'[i] = to_ecu[i + 1]
  <2>1. to_ecu \in Seq(Request) /\ to_ecu # << >> /\ to_ecu' = Tail(to_ecu)
    BY DEF IType, TypeOK, EcuTakes
  <2>. QED  BY <2>1, TailFacts
<1>2. ecu' \in [serving: Request, pend: 0..EcuPending, seed: Nat]
  <2>1. ecu' = [serving |-> Head(to_ecu), pend |-> 0, seed |-> ecu.seed]
    BY ServingTyped DEF EcuTakes
  <2>. QED  BY <1>1, <2>1, ServingTyped
<1>3. TypeOK'
  BY <1>1, <1>2 DEF IType, TypeOK, EcuTakes, client, luck
<1>. QED  BY <1>3 DEF IType, InCall, EcuTakes, client

LEMMA EcuDefersFacts ==
  ASSUME IType, EcuDefers
  PROVE  \E bytes \in Seq(Nat) :
           /\ IsPending(bytes) /\ [of |-> ecu.serving.of, bytes |-> bytes] \in Reply
           /\ to_tester' = Append(to_tester, [of |-> ecu.serving.of, bytes |-> bytes])
           /\ ecu' = [serving |-> ecu.serving, pend |-> ecu.pend + 1, seed |-> ecu.seed]
           /\ early' \in 0..MaxEarly /\ early <= early'
           /\ early' = 0 => ecu.pend < PendingLimit
<1>1. Refusal(ResponsePending) \in Seq(Nat) /\ IsPending(Refusal(ResponsePending))
  BY RefusalFacts DEF ResponsePending
<1>2. [of |-> ecu.serving.of, bytes |-> Refusal(ResponsePending)] \in Reply
  BY <1>1, ServingTyped DEF Reply
<1>3. ecu' = [serving |-> ecu.serving, pend |-> ecu.pend + 1, seed |-> ecu.seed]
  BY ServingTyped DEF EcuDefers
<1>4. /\ early' \in 0..MaxEarly /\ early <= early'
      /\ early' = 0 => ecu.pend < PendingLimit
  <2>1. early \in 0..MaxEarly
    BY DEF IType, TypeOK
  <2>2. \/ ecu.pend < PendingLimit /\ early' = early
        \/ early < MaxEarly /\ early' = early + 1
    BY DEF EcuDefers
  <2>. QED  BY <2>1, <2>2
<1>. QED  BY <1>1, <1>2, <1>3, <1>4 DEF EcuDefers, Answer

LEMMA EcuDefersTyped == ASSUME IType, EcuDefers PROVE IType'
<1>1. PICK bytes \in Seq(Nat) :
           /\ [of |-> ecu.serving.of, bytes |-> bytes] \in Reply
           /\ to_tester' = Append(to_tester, [of |-> ecu.serving.of, bytes |-> bytes])
           /\ ecu' = [serving |-> ecu.serving, pend |-> ecu.pend + 1, seed |-> ecu.seed]
           /\ early' \in 0..MaxEarly
  BY EcuDefersFacts
<1>2. to_tester' \in Seq(Reply)
  BY <1>1, AppendFacts DEF IType, TypeOK
<1>3. ecu' \in [serving: Request, pend: 0..EcuPending, seed: Nat]
  <2>1. ecu.pend + 1 \in 0..EcuPending
    BY ServingTyped, SMTT(30) DEF EcuDefers
  <2>. QED  BY <1>1, <2>1, ServingTyped
<1>4. TypeOK'
  BY <1>1, <1>2, <1>3 DEF IType, TypeOK, EcuDefers, client
<1>. QED  BY <1>4 DEF IType, InCall, EcuDefers, client

LEMMA EcuKeepsDeferringFacts ==
  ASSUME IType, EcuKeepsDeferring
  PROVE  \E bytes \in Seq(Nat) :
           /\ IsPending(bytes) /\ [of |-> ecu.serving.of, bytes |-> bytes] \in Reply
           /\ to_tester' = Append(to_tester, [of |-> ecu.serving.of, bytes |-> bytes])
<1>1. Refusal(ResponsePending) \in Seq(Nat) /\ IsPending(Refusal(ResponsePending))
  BY RefusalFacts DEF ResponsePending, EcuKeepsDeferring
<1>2. [of |-> ecu.serving.of, bytes |-> Refusal(ResponsePending)] \in Reply
  BY <1>1, ServingTyped DEF Reply
<1>. QED  BY <1>1, <1>2 DEF EcuKeepsDeferring, Answer

LEMMA EcuKeepsDeferringTyped == ASSUME IType, EcuKeepsDeferring PROVE IType'
<1>1. PICK bytes \in Seq(Nat) :
           /\ [of |-> ecu.serving.of, bytes |-> bytes] \in Reply
           /\ to_tester' = Append(to_tester, [of |-> ecu.serving.of, bytes |-> bytes])
  BY EcuKeepsDeferringFacts
<1>2. to_tester' \in Seq(Reply)
  BY <1>1, AppendFacts DEF IType, TypeOK
<1>3. TypeOK'
  BY <1>2 DEF IType, TypeOK, EcuKeepsDeferring, client, luck
<1>. QED  BY <1>3 DEF IType, InCall, EcuKeepsDeferring, client

LEMMA LosePduTyped == ASSUME IType, LosePdu PROVE IType'
<1>1. to_ecu' \in Seq(Request) /\ to_tester' \in Seq(Reply)
  <2>1. to_ecu \in Seq(Request) /\ to_tester \in Seq(Reply)
    BY DEF IType, TypeOK
  <2>2. CASE to_ecu # << >> /\ to_ecu' = Tail(to_ecu) /\ to_tester' = to_tester
    BY <2>1, <2>2, TailFacts
  <2>3. CASE to_tester # << >> /\ to_tester' = Tail(to_tester) /\ to_ecu' = to_ecu
    BY <2>1, <2>3, TailFacts
  <2>. QED  BY <2>2, <2>3 DEF LosePdu
<1>2. faults' \in 0..MaxFaults
  BY DEF IType, TypeOK, LosePdu
<1>3. TypeOK'
  BY <1>1, <1>2 DEF IType, TypeOK, LosePdu, client
<1>. QED  BY <1>3 DEF IType, InCall, LosePdu, client

LEMMA StutterTyped == ASSUME IType, UNCHANGED vars PROVE IType'
BY DEF IType, TypeOK, InCall, vars, client, bus, luck

LEMMA InitTyped == Init => IType
<1>. SUFFICES ASSUME Init PROVE IType
  OBVIOUS
<1>1. NoRequest \in Request
  BY DEF NoRequest, Request, Byte
<1>. QED  BY <1>1, Limit DEF Init, IType, TypeOK, InCall

LEMMA StepTyped == IType /\ [Next]_vars => IType'
<1>. SUFFICES ASSUME IType, [Next]_vars PROVE IType'
  OBVIOUS
<1>1. CASE Answers
  BY <1>1, AnswersAreFinal, FinalTyped
<1>2. CASE Tester
  BY <1>2, BeginTyped, BeginEmptyRegionTyped, SendTyped, SendFailsTyped, RecvPendingTyped,
     RecvFailsTyped, RecvPositiveTyped, RecvTimesOutTyped DEF Tester
<1>3. CASE UNCHANGED vars
  BY <1>3, StutterTyped
<1>. QED  BY <1>1, <1>2, <1>3, EcuTakesTyped, EcuDefersTyped, EcuKeepsDeferringTyped,
             LosePduTyped
          DEF Next, Ecu, Answers, Finished

\* The variables of request() and of the calls keep their types, and every request
\* that has ended has its entry in replies (uds_client.cpp:61-117, 206-346).
THEOREM TypeCorrect == Spec => []TypeOK
<1>1. IType => TypeOK
  BY DEF IType
<1>. QED  BY <1>1, InitTyped, StepTyped, PTL DEF Spec

-----------------------------------------------------------------------------
(* The order of the replies.                                                *)

LEMMA UsedTyped == ASSUME IType PROVE Used \subseteq Nat
<1>. SUFFICES ASSUME NEW r \in 1..Len(replies) PROVE replies[r].of \in Nat
  BY DEF Used
<1>1. replies[r] \in [ok: BOOLEAN, of: Nat]
  BY ElementOfSeq DEF IType, TypeOK
<1>. QED  BY <1>1

LEMMA LinkTyped ==
  ASSUME IType
  PROVE  /\ to_tester \in Seq(Reply) /\ Len(to_tester) \in Nat
         /\ \A i \in 1..Len(to_tester) : to_tester[i] \in Reply /\ to_tester[i].of \in Nat
         /\ to_ecu \in Seq(Request) /\ Len(to_ecu) \in Nat
         /\ \A i \in 1..Len(to_ecu) : to_ecu[i] \in Request /\ to_ecu[i].of \in Nat
         /\ asked \in Nat
<1>1. to_tester \in Seq(Reply) /\ to_ecu \in Seq(Request) /\ asked \in Nat
  BY DEF IType, TypeOK
<1>2. ASSUME NEW i \in 1..Len(to_tester)
      PROVE  to_tester[i] \in Reply /\ to_tester[i].of \in Nat
  <2>1. to_tester[i] \in Reply
    BY <1>1, ElementOfSeq
  <2>. QED  BY <2>1 DEF Reply
<1>3. ASSUME NEW i \in 1..Len(to_ecu)
      PROVE  to_ecu[i] \in Request /\ to_ecu[i].of \in Nat
  <2>1. to_ecu[i] \in Request
    BY <1>1, ElementOfSeq
  <2>. QED  BY <2>1 DEF Request
<1>. QED  BY <1>1, <1>2, <1>3

\* What the end of a request adds to the replies that were used and to the failures.
LEMMA UsedAppend ==
  ASSUME IType, NEW b \in BOOLEAN, NEW n \in Nat,
         replies' = Append(replies, [ok |-> b, of |-> n])
  PROVE  /\ b => Used' = Used \cup {n}
         /\ ~b => Used' = Used
<1>. DEFINE R == [ok: BOOLEAN, of: Nat]
            r == [ok |-> b, of |-> n]
<1>1. r \in R /\ replies \in Seq(R) /\ replies' = Append(replies, r)
  BY DEF IType, TypeOK
<1>2. r.ok = b /\ r.of = n
  OBVIOUS
<1>. HIDE DEF R, r
<1>3. /\ Len(replies') = Len(replies) + 1 /\ Len(replies) \in Nat
      /\ \A i \in 1..Len(replies) : replies'[i] = replies[i]
      /\ replies'[Len(replies) + 1] = r
  BY <1>1, AppendFacts
<1>4. \A x : x \in Used <=> \E i \in 1..Len(replies) : replies[i].ok /\ x = replies[i].of
  BY DEF Used
<1>5. \A x : x \in Used' <=> \E i \in 1..Len(replies') : replies'[i].ok /\ x = replies'[i].of
  BY DEF Used
<1>6. \A x : x \in Used' <=> x \in Used \/ (b /\ x = n)
  <2>. TAKE x
  <2>1. ASSUME x \in Used PROVE x \in Used'
    BY <1>3, <1>4, <1>5, <2>1
  <2>2. ASSUME b, x = n PROVE x \in Used'
    BY <1>2, <1>3, <1>5, <2>2
  <2>3. ASSUME x \in Used' PROVE x \in Used \/ (b /\ x = n)
    <3>1. PICK i \in 1..Len(replies') : replies'[i].ok /\ x = replies'[i].of
      BY <1>5, <2>3
    <3>2. CASE i \in 1..Len(replies)
      BY <1>3, <1>4, <3>1, <3>2
    <3>3. CASE i = Len(replies) + 1
      BY <1>2, <1>3, <3>1, <3>3
    <3>. QED  BY <1>3, <3>2, <3>3
  <2>. QED  BY <2>1, <2>2, <2>3
<1>. QED  BY <1>6

LEMMA UsedSame == ASSUME UNCHANGED replies PROVE Used' = Used
BY DEF Used

\* Steps that put nothing on the link and use nothing of it.
LEMMA OrderedSame ==
  ASSUME IType, Ordered, UNCHANGED <<to_ecu, to_tester, ecu>>, Used' = Used,
         asked' \in {asked, asked + 1}
  PROVE  Ordered'
<1>1. Used \subseteq Nat
  BY UsedTyped
<1>2. UsedFirst'
  BY <1>1, LinkTyped DEF Ordered, UsedFirst, Behind
<1>3. RepliesNext'
  BY LinkTyped DEF Ordered, RepliesNext, Follows
<1>4. ServingNext'
  <2>1. ecu.serving.of \in Nat /\ asked \in Nat
    BY LinkTyped, ServingTyped
  <2>. QED  BY <2>1 DEF Ordered, ServingNext
<1>5. RequestsLast'
  BY LinkTyped DEF Ordered, RequestsLast
<1>. QED  BY <1>2, <1>3, <1>4, <1>5 DEF Ordered, RepliesSorted

\* A reply is taken off the link, or lost.
LEMMA OrderedReceive ==
  ASSUME IType, Ordered, to_tester # << >>, to_tester' = Tail(to_tester),
         UNCHANGED <<to_ecu, ecu, asked>>, Used' = Used
  PROVE  Ordered'
<1>1. /\ Len(to_tester) > 0 /\ Len(to_tester') = Len(to_tester) - 1
      /\ \A i \in 1..Len(to_tester') : to_tester'[i] = to_tester[i + 1]
  BY LinkTyped, TailFacts
<1>2. \A i \in 1..Len(to_tester') : i + 1 \in 1..Len(to_tester)
  BY <1>1, LinkTyped
<1>3. UsedFirst'
  BY <1>1, <1>2 DEF Ordered, UsedFirst, Behind
<1>4. RepliesSorted'
  BY <1>1, <1>2 DEF Ordered, RepliesSorted
<1>5. RepliesNext'
  BY <1>1, <1>2 DEF Ordered, RepliesNext
<1>. QED  BY <1>3, <1>4, <1>5 DEF Ordered, ServingNext, RequestsLast

\* One that is used and is not a 0x78 reply is older than all that follow it.
LEMMA OrderedUse ==
  ASSUME IType, Ordered, to_tester # << >>, to_tester' = Tail(to_tester),
         ~IsPending(to_tester[1].bytes),
         UNCHANGED <<to_ecu, ecu, asked>>, Used' = Used \cup {to_tester[1].of}
  PROVE  Ordered'
<1>1. /\ Len(to_tester) > 0 /\ Len(to_tester') = Len(to_tester) - 1
      /\ \A i \in 1..Len(to_tester') : to_tester'[i] = to_tester[i + 1]
  BY LinkTyped, TailFacts
<1>2. \A i \in 1..Len(to_tester') : i + 1 \in 1..Len(to_tester) /\ 1 < i + 1
  BY <1>1, LinkTyped
<1>3. 1 \in 1..Len(to_tester)
  BY <1>1, LinkTyped
<1>4. PICK n : n = to_tester[1].of
  OBVIOUS
<1>5. UsedFirst'
  <2>1. \A i \in 1..Len(to_tester') : n < to_tester'[i].of
    BY <1>1, <1>2, <1>3, <1>4 DEF Ordered, RepliesSorted, Follows
  <2>2. /\ ecu.serving # NoRequest => n < ecu.serving.of
        /\ \A j \in 1..Len(to_ecu) : n < to_ecu[j].of
        /\ n <= asked
    BY <1>3, <1>4 DEF Ordered, RepliesNext, Follows
  <2>3. n <= asked' /\ Behind(n)'
    BY <2>1, <2>2 DEF Behind
  <2>4. ASSUME NEW m \in Used \cup {0} PROVE m <= asked' /\ Behind(m)'
    BY <1>1, <1>2 DEF Ordered, UsedFirst, Behind
  <2>. QED  BY <1>4, <2>3, <2>4 DEF UsedFirst
<1>6. RepliesSorted'
  BY <1>1, <1>2 DEF Ordered, RepliesSorted
<1>7. RepliesNext'
  BY <1>1, <1>2 DEF Ordered, RepliesNext
<1>. QED  BY <1>5, <1>6, <1>7 DEF Ordered, ServingNext, RequestsLast

LEMMA OrderedSend ==
  ASSUME IType, Ordered, Send
  PROVE  Ordered'
<1>. DEFINE r == Pending(asked + 1)
<1>1. r \in Request /\ r.of = asked + 1
  BY NextRequestType, LinkTyped, SMTT(30) DEF Send, Pending
<1>2. to_ecu' = Append(to_ecu, r)
  BY DEF Send, Pending
<1>. HIDE DEF r
<1>3. /\ Len(to_ecu') = Len(to_ecu) + 1
      /\ \A i \in 1..Len(to_ecu) : to_ecu'[i] = to_ecu[i]
      /\ to_ecu'[Len(to_ecu) + 1].of = asked + 1
  BY <1>1, <1>2, AppendFacts, LinkTyped
<1>4. \A j \in 1..Len(to_ecu') : j \in 1..Len(to_ecu) \/ j = Len(to_ecu) + 1
  BY <1>3, LinkTyped
<1>5. asked' = asked + 1 /\ UNCHANGED <<to_tester, ecu>> /\ Used' = Used
  BY UsedSame DEF Send
<1>6. \A i \in 1..Len(to_tester) : to_tester[i].of <= asked /\ to_tester[i].of \in Nat
  BY LinkTyped DEF Ordered, RepliesNext
<1>7. \A i \in 1..Len(to_ecu) : to_ecu[i].of <= asked /\ to_ecu[i].of \in Nat
  BY LinkTyped DEF Ordered, RequestsLast
<1>8. ASSUME NEW n \in Nat, n <= asked
      PROVE  n <= asked' /\ n < to_ecu'[Len(to_ecu) + 1].of
  BY <1>3, <1>5, <1>8, LinkTyped
<1>9. UsedFirst'
  <2>. SUFFICES ASSUME NEW n \in Used \cup {0} PROVE n <= asked' /\ Behind(n)'
    BY <1>5 DEF UsedFirst
  <2>1. n \in Nat /\ n <= asked /\ Behind(n)
    BY UsedTyped DEF Ordered, UsedFirst
  <2>. QED  BY <1>3, <1>4, <1>5, <1>8, <2>1 DEF Behind
<1>10. RepliesNext'
  BY <1>3, <1>4, <1>5, <1>6, <1>8 DEF Ordered, RepliesNext, Follows
<1>11. ServingNext'
  <2>1. ecu.serving.of \in Nat
    BY ServingTyped
  <2>. QED  BY <1>3, <1>4, <1>5, <1>8, <2>1 DEF Ordered, ServingNext
<1>12. RequestsLast'
  <2>1. ASSUME NEW j \in 1..Len(to_ecu') PROVE to_ecu'[j].of <= asked'
    <3>1. CASE j \in 1..Len(to_ecu)
      <4>1. to_ecu'[j] = to_ecu[j] /\ to_ecu[j].of <= asked /\ to_ecu[j].of \in Nat
        BY <1>3, <1>7, <3>1
      <4>. QED  BY <1>5, <4>1, LinkTyped
    <3>2. CASE j = Len(to_ecu) + 1
      BY <1>3, <1>5, <3>2, LinkTyped
    <3>. QED  BY <1>4, <2>1, <3>1, <3>2
  <2>2. ASSUME NEW i \in 1..Len(to_ecu'), NEW j \in 1..Len(to_ecu'), i < j
        PROVE  to_ecu'[i].of < to_ecu'[j].of
    <3>1. i \in 1..Len(to_ecu)
      BY <1>3, <2>2, LinkTyped
    <3>2. CASE j \in 1..Len(to_ecu)
      BY <1>3, <2>2, <3>1, <3>2 DEF Ordered, RequestsLast
    <3>3. CASE j = Len(to_ecu) + 1
      BY <1>3, <1>7, <1>8, <3>1, <3>3
    <3>. QED  BY <1>4, <3>2, <3>3
  <2>. QED  BY <2>1, <2>2 DEF RequestsLast
<1>. QED  BY <1>5, <1>9, <1>10, <1>11, <1>12 DEF Ordered, RepliesSorted

\* The ECU takes the first request, or that is lost.
LEMMA OrderedTake ==
  ASSUME IType, Ordered, to_ecu # << >>, to_ecu' = Tail(to_ecu),
         \/ ecu.serving = NoRequest /\ ecu'.serving = to_ecu[1]
         \/ ecu' = ecu,
         UNCHANGED <<to_tester, replies, asked>>
  PROVE  Ordered'
<1>1. /\ Len(to_ecu) > 0 /\ Len(to_ecu') = Len(to_ecu) - 1
      /\ \A i \in 1..Len(to_ecu') : to_ecu'[i] = to_ecu[i + 1]
  BY LinkTyped, TailFacts
<1>2. \A i \in 1..Len(to_ecu') : i + 1 \in 1..Len(to_ecu) /\ 1 < i + 1
  BY <1>1, LinkTyped
<1>3. 1 \in 1..Len(to_ecu) /\ Used' = Used
  BY <1>1, LinkTyped, UsedSame
<1>4. UsedFirst'
  BY <1>1, <1>2, <1>3 DEF Ordered, UsedFirst, Behind
<1>5. RepliesNext'
  <2>1. ASSUME NEW i \in 1..Len(to_tester)
        PROVE  ecu'.serving # NoRequest => Follows(to_tester[i], ecu'.serving.of)
    <3>1. CASE ecu'.serving = to_ecu[1]
      BY <1>3, <3>1, LinkTyped DEF Ordered, RepliesNext, RequestsLast, Follows
    <3>2. CASE ecu' = ecu
      BY <3>2 DEF Ordered, RepliesNext
    <3>. QED  BY <3>1, <3>2
  <2>. QED  BY <1>1, <1>2, <2>1 DEF Ordered, RepliesNext, Follows
<1>6. ServingNext'
  BY <1>1, <1>2, <1>3 DEF Ordered, ServingNext, RequestsLast
<1>7. RequestsLast'
  BY <1>1, <1>2 DEF Ordered, RequestsLast
<1>. QED  BY <1>4, <1>5, <1>6, <1>7 DEF Ordered, RepliesSorted

\* The ECU answers: with a 0x78 reply, or with a final one and goes idle.
LEMMA OrderedAnswer ==
  ASSUME IType, Ordered, ecu.serving # NoRequest, NEW r \in Reply, r.of = ecu.serving.of,
         to_tester' = Append(to_tester, r),
         \/ ecu'.serving = NoRequest
         \/ IsPending(r.bytes) /\ ecu'.serving = ecu.serving,
         UNCHANGED <<to_ecu, replies, asked>>
  PROVE  Ordered'
<1>1. /\ Len(to_tester') = Len(to_tester) + 1
      /\ \A i \in 1..Len(to_tester) : to_tester'[i] = to_tester[i]
      /\ to_tester'[Len(to_tester) + 1] = r
  BY AppendFacts, LinkTyped
<1>2. \A i \in 1..Len(to_tester') : i \in 1..Len(to_tester) \/ i = Len(to_tester) + 1
  BY <1>1, LinkTyped
<1>3. Used' = Used /\ r.of \in Nat
  BY UsedSame, ServingTyped
<1>4. UsedFirst'
  BY <1>1, <1>2, <1>3 DEF Ordered, UsedFirst, Behind
<1>5. RepliesSorted'
  <2>. SUFFICES ASSUME NEW i \in 1..Len(to_tester'), NEW j \in 1..Len(to_tester'), i < j
                PROVE  Follows(to_tester'[i], to_tester'[j].of)
    BY DEF RepliesSorted, Follows
  <2>1. i \in 1..Len(to_tester) /\ to_tester'[i] = to_tester[i]
    BY <1>1, LinkTyped
  <2>2. CASE j \in 1..Len(to_tester)
    BY <1>1, <2>1, <2>2 DEF Ordered, RepliesSorted
  <2>3. CASE j = Len(to_tester) + 1
    BY <1>1, <2>1, <2>3 DEF Ordered, RepliesNext
  <2>. QED  BY <1>2, <2>2, <2>3
<1>6. RepliesNext'
  <2>1. ASSUME NEW i \in 1..Len(to_tester')
        PROVE  /\ to_tester'[i].of <= asked
               /\ ecu'.serving # NoRequest => Follows(to_tester'[i], ecu'.serving.of)
               /\ \A j \in 1..Len(to_ecu) : to_tester'[i].of < to_ecu[j].of
    <3>1. CASE i \in 1..Len(to_tester)
      BY <1>1, <3>1 DEF Ordered, RepliesNext
    <3>2. CASE i = Len(to_tester) + 1
      BY <1>1, <1>3, <3>2 DEF Ordered, ServingNext, Follows
    <3>. QED  BY <1>2, <3>1, <3>2
  <2>. QED  BY <2>1 DEF RepliesNext, Follows
<1>7. ServingNext'
  BY DEF Ordered, ServingNext
<1>. QED  BY <1>4, <1>5, <1>6, <1>7 DEF Ordered, RequestsLast

\* A reply that request() takes for a positive one is the only one to its request
\* that is not a 0x78 reply.
LEMMA PositiveIsFinal ==
  ASSUME NEW svc, NEW bytes, IsPositive(svc, bytes)
  PROVE  ~IsPending(bytes)
BY DEF IsPositive, IsPending

LEMMA StepOrdered ==
  ASSUME IType, Ordered, [Next]_vars
  PROVE  Ordered'
<1>1. CASE Begin \/ BeginEmptyRegion \/ UNCHANGED vars
  <2>1. UNCHANGED <<to_ecu, to_tester, ecu, replies, asked>>
    BY <1>1 DEF Begin, BeginEmptyRegion, vars, client, bus
  <2>. QED  BY <2>1, OrderedSame, UsedSame
<1>2. CASE Send
  BY <1>2, OrderedSend
<1>3. CASE SendFails \/ RecvTimesOut
  <2>1. /\ UNCHANGED <<to_ecu, to_tester, ecu>> /\ asked' \in {asked, asked + 1}
        /\ replies' = Append(replies, [ok |-> FALSE, of |-> 0])
    BY <1>3 DEF SendFails, RecvTimesOut, RequestFails, bus
  <2>2. Used' = Used
    BY <2>1, UsedAppend
  <2>. QED  BY <2>1, <2>2, OrderedSame
<1>4. CASE RecvPending
  <2>1. Used' = Used
    BY <1>4, UsedSame DEF RecvPending
  <2>. QED  BY <1>4, <2>1, OrderedReceive DEF RecvPending, Receive
<1>5. CASE RecvFails
  <2>1. reply.of \in Nat /\ replies' = Append(replies, [ok |-> FALSE, of |-> reply.of])
    BY <1>5, ReceiveFacts DEF RecvFails, RequestFails, Reply
  <2>2. Used' = Used
    BY <2>1, UsedAppend
  <2>. QED  BY <1>5, <2>2, OrderedReceive DEF RecvFails, Receive
<1>6. CASE RecvPositive
  <2>1. /\ reply = to_tester[1] /\ reply.of \in Nat
        /\ replies' = Append(replies, [ok |-> TRUE, of |-> reply.of])
    BY <1>6, ReceiveFacts DEF RecvPositive, Reply
  <2>2. Used' = Used \cup {to_tester[1].of}
    BY <2>1, UsedAppend
  <2>3. ~IsPending(to_tester[1].bytes)
    BY <1>6, <2>1, PositiveIsFinal DEF RecvPositive
  <2>. QED  BY <1>6, <2>2, <2>3, OrderedUse DEF RecvPositive, Receive
<1>7. CASE EcuTakes
  <2>1. to_ecu \in Seq(Request) /\ to_ecu # << >> /\ Head(to_ecu) = to_ecu[1]
    BY <1>7, LinkTyped, TailFacts DEF EcuTakes
  <2>2. ecu'.serving = to_ecu[1]
    BY <1>7, <2>1, ServingTyped DEF EcuTakes
  <2>. QED  BY <1>7, <2>1, <2>2, OrderedTake DEF EcuTakes, client
<1>8. CASE EcuDefers
  <2>1. PICK bytes \in Seq(Nat) :
           /\ IsPending(bytes) /\ [of |-> ecu.serving.of, bytes |-> bytes] \in Reply
           /\ to_tester' = Append(to_tester, [of |-> ecu.serving.of, bytes |-> bytes])
           /\ ecu' = [serving |-> ecu.serving, pend |-> ecu.pend + 1, seed |-> ecu.seed]
    BY <1>8, EcuDefersFacts
  <2>2. PICK r \in Reply : r = [of |-> ecu.serving.of, bytes |-> bytes]
    BY <2>1
  <2>3. /\ r.of = ecu.serving.of /\ IsPending(r.bytes) /\ to_tester' = Append(to_tester, r)
        /\ ecu'.serving = ecu.serving
    BY <2>1, <2>2
  <2>4. ecu.serving # NoRequest /\ UNCHANGED <<to_ecu, replies, asked>>
    BY <1>8 DEF EcuDefers, client
  <2>. QED  BY <2>3, <2>4, OrderedAnswer
<1>11. CASE EcuKeepsDeferring
  <2>1. PICK bytes \in Seq(Nat) :
           /\ IsPending(bytes) /\ [of |-> ecu.serving.of, bytes |-> bytes] \in Reply
           /\ to_tester' = Append(to_tester, [of |-> ecu.serving.of, bytes |-> bytes])
    BY <1>11, EcuKeepsDeferringFacts
  <2>2. PICK r \in Reply : r = [of |-> ecu.serving.of, bytes |-> bytes]
    BY <2>1
  <2>3. r.of = ecu.serving.of /\ IsPending(r.bytes) /\ to_tester' = Append(to_tester, r)
    BY <2>1, <2>2
  <2>4. ecu.serving # NoRequest /\ UNCHANGED <<to_ecu, ecu, replies, asked>>
    BY <1>11 DEF EcuKeepsDeferring, client
  <2>. QED  BY <2>3, <2>4, OrderedAnswer
<1>9. CASE Answers
  <2>1. PICK bytes \in Seq(Nat) : Final(bytes)
    BY <1>9, AnswersAreFinal
  <2>2. [of |-> ecu.serving.of, bytes |-> bytes] \in Reply
    BY ServingTyped DEF Reply
  <2>3. PICK r \in Reply : r = [of |-> ecu.serving.of, bytes |-> bytes]
    BY <2>2
  <2>4. r.of = ecu.serving.of /\ to_tester' = Append(to_tester, r)
    BY <2>1, <2>3 DEF Final, Answer
  <2>5. ecu.serving # NoRequest /\ ecu'.serving = NoRequest
        /\ UNCHANGED <<to_ecu, replies, asked>>
    BY <2>1 DEF Final, client
  <2>. QED  BY <2>4, <2>5, OrderedAnswer
<1>10. CASE LosePdu
  <2>1. UNCHANGED <<replies, asked, ecu>>
    BY <1>10 DEF LosePdu, client
  <2>2. CASE to_ecu # << >> /\ to_ecu' = Tail(to_ecu) /\ to_tester' = to_tester
    BY <2>1, <2>2, OrderedTake
  <2>3. CASE to_tester # << >> /\ to_tester' = Tail(to_tester) /\ to_ecu' = to_ecu
    BY <2>1, <2>3, OrderedReceive, UsedSame
  <2>. QED  BY <1>10, <2>2, <2>3 DEF LosePdu
<1>. QED  BY <1>1, <1>2, <1>3, <1>4, <1>5, <1>6, <1>7, <1>8, <1>9, <1>10, <1>11
          DEF Next, Tester, Ecu, Answers, Finished

LEMMA InitOrdered == Init => Ordered /\ IsLatest(0)
<1>. SUFFICES ASSUME Init PROVE Ordered /\ IsLatest(0)
  OBVIOUS
<1>1. Used = {}
  BY DEF Init, Used
<1>. QED  BY <1>1 DEF Init, Ordered, UsedFirst, Behind, RepliesSorted, RepliesNext,
                      ServingNext, RequestsLast, IsLatest

-----------------------------------------------------------------------------
(* The abstract state of AnswerOrder.                                       *)

LEMMA MaxIs ==
  ASSUME NEW S \in SUBSET Nat, NEW n \in S, \A m \in S : m <= n
  PROVE  Max(S) = n
<1>1. n \in S /\ \A m \in S : n >= m
  OBVIOUS
<1>2. \A x \in S : (\A m \in S : x >= m) => x = n
  BY <1>1
<1>. QED  BY <1>1, <1>2 DEF Max

\* The requests that have failed.
Failed == Failures(Len(replies) + 1)

LEMMA FailedFinite ==
  ASSUME IType
  PROVE  IsFiniteSet(Failed) /\ Cardinality(Failed) \in Nat
<1>1. Failed \subseteq 1..Len(replies) /\ Len(replies) \in Nat
  BY DEF Failed, Failures, IType, TypeOK
<1>2. IsFiniteSet(1..Len(replies))
  BY <1>1, FS_Interval
<1>. QED  BY <1>1, <1>2, FS_Subset, FS_CardinalityType

LEMMA FailedAppend ==
  ASSUME IType, NEW b \in BOOLEAN, NEW n \in Nat,
         replies' = Append(replies, [ok |-> b, of |-> n])
  PROVE  /\ Len(replies') = Len(replies) + 1
         /\ b => Failed' = Failed
         /\ ~b => Cardinality(Failed') = Cardinality(Failed) + 1
<1>. DEFINE R == [ok: BOOLEAN, of: Nat]
            r == [ok |-> b, of |-> n]
<1>1. r \in R /\ replies \in Seq(R) /\ replies' = Append(replies, r)
  BY DEF IType, TypeOK
<1>2. r.ok = b
  OBVIOUS
<1>. HIDE DEF R, r
<1>3. /\ Len(replies') = Len(replies) + 1 /\ Len(replies) \in Nat
      /\ \A i \in 1..Len(replies) : replies'[i] = replies[i]
      /\ replies'[Len(replies) + 1] = r
  BY <1>1, AppendFacts
<1>4. \A q : q \in Failed <=> q \in 1..Len(replies) /\ ~replies[q].ok
  BY <1>3 DEF Failed, Failures
<1>5. \A q : q \in Failed' <=> q \in 1..(Len(replies) + 1) /\ ~replies'[q].ok
  BY <1>3 DEF Failed, Failures
<1>6. \A q : q \in 1..(Len(replies) + 1) <=> q \in 1..Len(replies) \/ q = Len(replies) + 1
  BY <1>3
<1>7. \A q : q \in Failed' <=> q \in Failed \/ (~b /\ q = Len(replies) + 1)
  <2>. TAKE q
  <2>1. CASE q \in 1..Len(replies)
    <3>1. q # Len(replies) + 1
      BY <1>3, <2>1
    <3>. QED  BY <1>3, <1>4, <1>5, <1>6, <2>1, <3>1
  <2>2. CASE q = Len(replies) + 1
    <3>1. q \notin 1..Len(replies)
      BY <1>3, <2>2
    <3>. QED  BY <1>2, <1>3, <1>4, <1>5, <1>6, <2>2, <3>1
  <2>3. CASE q \notin 1..Len(replies) /\ q # Len(replies) + 1
    BY <1>4, <1>5, <1>6, <2>3
  <2>. QED  BY <2>1, <2>2, <2>3
<1>8. b => Failed' = Failed
  BY <1>7
<1>9. ~b => Cardinality(Failed') = Cardinality(Failed) + 1
  <2>. SUFFICES ASSUME ~b PROVE Cardinality(Failed') = Cardinality(Failed) + 1
    OBVIOUS
  <2>1. Failed' = Failed \cup {Len(replies) + 1}
    BY <1>7
  <2>2. Len(replies) + 1 \notin Failed
    BY <1>3, <1>4
  <2>. QED  BY <2>1, <2>2, FailedFinite, FS_AddElement
<1>. QED  BY <1>3, <1>8, <1>9

\* Between the ends of two requests nothing changes.
LEMMA OrderStutter ==
  ASSUME IType, UNCHANGED replies
  PROVE  UNCHANGED order!vars /\ (\A n : IsLatest(n) => IsLatest(n)')
<1>1. Used' = Used /\ Failed' = Failed
  BY UsedSame DEF Failed, Failures
<1>. QED  BY <1>1 DEF order!vars, IsLatest, Failed

\* A request that fails uses no reply.
LEMMA OrderFail ==
  ASSUME IType, NEW of \in Nat, replies' = Append(replies, [ok |-> FALSE, of |-> of])
  PROVE  order!Fail /\ (\A n : IsLatest(n) => IsLatest(n)')
<1>1. Used' = Used
  BY UsedAppend
<1>2. /\ Len(replies') = Len(replies) + 1
      /\ Cardinality(Failed') = Cardinality(Failed) + 1
  BY FailedAppend
<1>. QED  BY <1>1, <1>2 DEF order!Fail, IsLatest, Failed

\* One that succeeds uses a reply that is later than all that were used.
LEMMA OrderSucceed ==
  ASSUME IType, IType', Ordered, NEW l, IsLatest(l), pc = "recv",
         to_tester # << >>, NEW of \in Nat, of = to_tester[1].of,
         replies' = Append(replies, [ok |-> TRUE, of |-> of])
  PROVE  order!Succeed /\ IsLatest(of)'
<1>1. Used' = Used \cup {of} /\ Used \subseteq Nat
  BY UsedAppend, UsedTyped
<1>2. \A n \in Used \cup {0} : n < of
  BY LinkTyped DEF Ordered, UsedFirst, Behind
<1>3. of <= Len(replies) + 1
  <2>1. of <= asked
    BY LinkTyped DEF Ordered, RepliesNext
  <2>. QED  BY <2>1 DEF IType, TypeOK
<1>4. IsLatest(of)'
  BY <1>1, <1>2 DEF IsLatest
<1>5. Max(Used \cup {0}) = l /\ l \in Nat /\ l < of
  BY <1>1, <1>2, MaxIs DEF IsLatest
<1>6. Max(Used \cup {0})' = of
  <2>1. 0 \in Nat /\ of \in Nat /\ Used \subseteq Nat
    BY <1>1
  <2>2. Used' \cup {0} \in SUBSET Nat /\ of \in Used' \cup {0}
    BY <1>1, <2>1, Zenon
  <2>. QED  BY <1>4, <2>2, MaxIs DEF IsLatest
<1>7. /\ Len(replies') = Len(replies) + 1 /\ Failed' = Failed
  BY FailedAppend
<1>8. of \in (l + 1)..(Len(replies) + 1)
  <2>1. Len(replies) \in Nat
    BY DEF IType, TypeOK
  <2>. QED  BY <1>3, <1>5, <2>1
<1>. QED  BY <1>4, <1>5, <1>6, <1>7, <1>8 DEF order!Succeed, Failed

\* Every step of a request, or of the ECU, is a step of AnswerOrder or none.
LEMMA StepInOrder ==
  ASSUME IOrder, [Next]_vars
  PROVE  [order!Next]_(order!vars) /\ IOrder'
<1>1. IType /\ IType' /\ Ordered /\ Ordered'
  BY StepTyped, StepOrdered DEF IOrder
<1>2. PICK l \in Used \cup {0} : IsLatest(l)
  BY DEF IOrder
<1>3. CASE UNCHANGED replies
  <2>1. UNCHANGED order!vars /\ IsLatest(l)'
    BY <1>1, <1>2, <1>3, OrderStutter
  <2>. QED  BY <1>1, <2>1 DEF IOrder, IsLatest
<1>4. CASE \E of \in Nat : replies' = Append(replies, [ok |-> FALSE, of |-> of])
  <2>1. order!Fail /\ IsLatest(l)'
    BY <1>1, <1>2, <1>4, OrderFail
  <2>. QED  BY <1>1, <2>1 DEF IOrder, IsLatest, order!Next
<1>5. CASE RecvPositive
  <2>1. PICK of \in Nat : of = reply.of
    BY <1>1, <1>5, ReceiveFacts DEF RecvPositive, Reply
  <2>2. /\ pc = "recv" /\ to_tester # << >> /\ of = to_tester[1].of
        /\ replies' = Append(replies, [ok |-> TRUE, of |-> of])
    BY <1>1, <1>5, <2>1, ReceiveFacts DEF RecvPositive, Receive
  <2>3. order!Succeed /\ IsLatest(of)'
    BY <1>1, <1>2, <2>2, OrderSucceed
  <2>. QED  BY <1>1, <2>3 DEF IOrder, IsLatest, order!Next
<1>6. CASE SendFails \/ RecvTimesOut \/ RecvFails
  <2>1. CASE SendFails \/ RecvTimesOut
    BY <1>4, <2>1 DEF SendFails, RecvTimesOut, RequestFails
  <2>2. CASE RecvFails
    <3>1. reply.of \in Nat
      BY <1>1, <2>2, ReceiveFacts DEF RecvFails, Reply
    <3>. QED  BY <1>4, <2>2, <3>1 DEF RecvFails, RequestFails
  <2>. QED  BY <1>6, <2>1, <2>2
<1>7. CASE Begin \/ BeginEmptyRegion \/ Send \/ RecvPending \/ UNCHANGED vars
  BY <1>3, <1>7 DEF Begin, BeginEmptyRegion, Send, RecvPending, vars, client
<1>8. CASE EcuTakes \/ EcuDefers \/ EcuKeepsDeferring \/ LosePdu
  BY <1>3, <1>8 DEF EcuTakes, EcuDefers, EcuKeepsDeferring, LosePdu, client
<1>9. CASE Answers
  <2>1. PICK bytes \in Seq(Nat) : Final(bytes)
    BY <1>1, <1>9, AnswersAreFinal
  <2>. QED  BY <1>3, <2>1 DEF Final, client
<1>. QED  BY <1>5, <1>6, <1>7, <1>8, <1>9 DEF Next, Tester, Ecu, Answers, Finished

LEMMA InitInOrder == Init => order!Init /\ IOrder
<1>. SUFFICES ASSUME Init PROVE order!Init /\ IOrder
  OBVIOUS
<1>1. Used = {} /\ Failed = {} /\ Len(replies) = 0
  BY DEF Init, Used, Failed, Failures
<1>2. Max(Used \cup {0}) = 0
  <2>1. Used \cup {0} \in SUBSET Nat /\ 0 \in Used \cup {0} /\ \A m \in Used \cup {0} : m <= 0
    BY <1>1
  <2>. QED  BY <2>1, MaxIs
<1>3. Cardinality(Failed) = 0
  BY <1>1, FS_EmptySet
<1>4. order!Init
  BY <1>1, <1>2, <1>3 DEF order!Init, Failed
<1>5. IOrder
  BY InitTyped, InitOrdered DEF IOrder, IsLatest
<1>. QED  BY <1>4, <1>5

\* The requests of a client implement AnswerOrder: no reply is the result of two of
\* them, or is used after a later one, however many 0x78 replies, losses and
\* timeouts there are (uds_client.cpp:61-117).
THEOREM ImplementsAnswerOrder == Spec => AnsweredInOrder
<1>1. IOrder /\ [Next]_vars => IOrder' /\ [order!Next]_(order!vars)
  BY StepInOrder
<1>. QED  BY <1>1, InitInOrder, PTL DEF Spec, AnsweredInOrder, order!Spec

\* So a reply is out of date by no more requests than have failed before it.
COROLLARY ReplyIsTimely == Spec => []order!Lag
<1>1. order!Spec => [](order!TypeOK /\ order!Lag)
  BY order!LagIsBounded
<1>. QED  BY <1>1, ImplementsAnswerOrder, PTL DEF AnsweredInOrder

-----------------------------------------------------------------------------
(* A client that does not give up too early.                                *)

LEMMA MemoryFacts ==
  ASSUME NEW a \in Nat, NEW n \in Nat
  PROVE  /\ Memory(a, n) \in Seq(Nat) /\ Len(Memory(a, n)) = n
         /\ \A i \in 1..n : Memory(a, n)[i] = a + i - 1
         /\ Memory(a, 0) = << >>
BY DEF Memory

\* A region is its first bytes and the chunk that follows them.
LEMMA MemoryConcat ==
  ASSUME NEW a \in Nat, NEW n \in Nat, NEW k \in Nat
  PROVE  Memory(a, n) \o Memory(a + n, k) = Memory(a, n + k)
<1>. DEFINE s == Memory(a, n)
            t == Memory(a + n, k)
<1>1. /\ s \in Seq(Nat) /\ Len(s) = n /\ \A i \in 1..n : s[i] = a + i - 1
      /\ t \in Seq(Nat) /\ Len(t) = k /\ \A i \in 1..k : t[i] = (a + n) + i - 1
  <2>1. a + n \in Nat
    OBVIOUS
  <2>. QED  BY <2>1, MemoryFacts
<1>2. /\ Memory(a, n + k) \in Seq(Nat) /\ Len(Memory(a, n + k)) = n + k
      /\ \A i \in 1..(n + k) : Memory(a, n + k)[i] = a + i - 1
  <2>1. n + k \in Nat
    OBVIOUS
  <2>. QED  BY <2>1, MemoryFacts
<1>. HIDE DEF s, t
<1>3. /\ s \o t \in Seq(Nat) /\ Len(s \o t) = n + k
      /\ \A i \in 1..(n + k) : (s \o t)[i] = IF i <= n THEN s[i] ELSE t[i - n]
  <2>1. s \in Seq(Nat) /\ t \in Seq(Nat)
    BY <1>1
  <2>2. /\ s \o t \in Seq(Nat) /\ Len(s \o t) = Len(s) + Len(t)
        /\ \A i \in 1..(Len(s) + Len(t)) :
             (s \o t)[i] = IF i <= Len(s) THEN s[i] ELSE t[i - Len(s)]
    BY ONLY <2>1, ConcatProperties, Zenon
  <2>. QED  BY <1>1, <2>2, Zenon
<1>4. ASSUME NEW i \in 1..(n + k) PROVE (s \o t)[i] = Memory(a, n + k)[i]
  <2>1. CASE i <= n
    BY <1>1, <1>2, <1>3, <2>1
  <2>2. CASE i > n
    <3>1. i - n \in 1..k /\ (a + n) + (i - n) - 1 = a + i - 1 /\ ~(i <= n)
      BY <2>2
    <3>2. t[i - n] = a + i - 1
      BY <1>1, <3>1
    <3>3. (s \o t)[i] = t[i - n]
      BY <1>3, <3>1
    <3>. QED  BY <1>2, <3>2, <3>3
  <2>3. i <= n \/ i > n
    OBVIOUS
  <2>. QED  BY <2>1, <2>2, <2>3, Zenon
<1>5. s \o t = Memory(a, n + k)
  BY <1>2, <1>3, <1>4, SeqEqual
<1>. QED  BY <1>5 DEF s, t

\* A step that changes no local of the call leaves its request as it was, and what
\* was honest stays so.
LEMMA HonestStays ==
  ASSUME UNCHANGED <<call, out, done, asked>>, granted \subseteq granted'
  PROVE  /\ \A n : Pending(n)' = Pending(n)
         /\ NextRequest' = NextRequest
         /\ \A bytes : Honest(bytes) => Honest(bytes)'
<1>1. NextRequest' = NextRequest
  BY DEF NextRequest
<1>. QED  BY <1>1 DEF Pending, Honest

LEMMA ResultsStay ==
  ASSUME UNCHANGED results, granted \subseteq granted', Results
  PROVE  Results'
BY DEF Results, GoodResult

LEMMA ResultsAppend ==
  ASSUME IType, UNCHANGED granted, Results, pc # "idle", NEW ok \in BOOLEAN,
         NEW bytes \in Seq(Nat), Return(ok, bytes),
         ok /\ call.op = "unlock" => asked \in granted,
         ok /\ call.op = "region" /\ RegionsFit => bytes = Memory(call.addr, call.total)
  PROVE  Results' /\ pc' = "idle"
<1>. DEFINE R == [call: Calls, ok: BOOLEAN, out: Seq(Nat), last: Nat]
            r == [call |-> call, ok |-> ok, out |-> bytes, last |-> asked]
<1>1. r \in R /\ results \in Seq(R) /\ results' = Append(results, r)
  BY NextRequestType DEF Return, IType, TypeOK
<1>2. GoodResult(r)
  BY DEF GoodResult
<1>. HIDE DEF R, r
<1>3. /\ Len(results') = Len(results) + 1 /\ Len(results) \in Nat
      /\ \A i \in 1..Len(results) : results'[i] = results[i]
      /\ results'[Len(results) + 1] = r
  BY <1>1, AppendFacts
<1>4. ASSUME NEW i \in 1..Len(results') PROVE GoodResult(results'[i])
  <2>1. CASE i \in 1..Len(results)
    BY <1>3, <2>1 DEF Results
  <2>2. CASE i = Len(results) + 1
    BY <1>2, <1>3, <2>2
  <2>. QED  BY <1>3, <2>1, <2>2
<1>5. \A x : GoodResult(x) => GoodResult(x)'
  BY DEF GoodResult
<1>. QED  BY <1>4, <1>5 DEF Results, Return

\* What a final reply to the pending request means to the client.
LEMMA MeantIsHonest ==
  ASSUME IType, pc # "idle", Content, NEW bytes \in Seq(Nat), Final(bytes), Meant(bytes),
         ecu.serving = Pending(asked)
  PROVE  Honest(bytes)'
<1>1. /\ UNCHANGED <<call, out, done, asked>> /\ NextRequest' = NextRequest
  BY HonestStays DEF Final, client
<1>2. /\ ecu.serving.svc = NextRequest.svc /\ ecu.serving.params = NextRequest.params
      /\ ecu.serving.of = asked
  BY DEF Pending
<1>3. call \in Calls /\ out \in Seq(Nat) /\ done \in Nat
  BY NextRequestType DEF IType, TypeOK
<1>. SUFFICES ASSUME IsPositive(NextRequest.svc, bytes)
              PROVE  /\ call.op = "unlock" => IF out = << >> THEN call.level % 2 = 1
                                                 ELSE asked \in granted'
                     /\ call.op = "region" /\ RegionsFit =>
                          Tail(bytes) = Memory(call.addr + done, Want(call.total, done, call.chunk))
  BY <1>1 DEF Honest
<1>4. IsPositive(ecu.serving.svc, bytes)
  BY <1>2
<1>5. CASE call.op = "unlock" /\ out = << >>
  <2>1. NextRequest.svc = SecurityAccess /\ NextRequest.params = <<call.level>>
    BY <1>5 DEF NextRequest
  <2>2. Len(<<call.level>>) = 1 /\ <<call.level>>[1] = call.level
    OBVIOUS
  <2>3. \/ NextRequest.params[1] % 2 = 1
        \/ Len(NextRequest.params) = 2
    BY <1>2, <1>4, <2>1 DEF Meant
  <2>. QED  BY <1>5, <2>1, <2>2, <2>3
<1>6. CASE call.op = "unlock" /\ out # << >>
  <2>1. /\ NextRequest.svc = SecurityAccess
        /\ NextRequest.params = <<KeyLevel(call.level)>> \o out
    BY <1>6 DEF NextRequest
  <2>2. call.level % 2 = 1 /\ call.level \in Nat /\ call.level <= 255
    BY <1>3, <1>6, CallFacts, ByteIsNat DEF Content
  <2>3. KeyLevel(call.level) % 2 = 0 /\ KeyLevel(call.level) \in Nat
    BY <2>2, KeyIsEven
  <2>4. NextRequest.params[1] = KeyLevel(call.level)
    BY <1>3, <2>1, <2>3
  <2>5. \/ NextRequest.params[1] % 2 = 1
        \/ asked \in granted'
    BY <1>2, <1>4, <2>1 DEF Meant
  <2>. QED  BY <1>6, <2>3, <2>4, <2>5
<1>7. CASE call.op = "region" /\ RegionsFit
  <2>. DEFINE want == Want(call.total, done, call.chunk)
  <2>1. /\ call.addr \in Nat /\ call.total \in Nat /\ call.chunk \in Nat
        /\ done < call.total /\ call.chunk > 0
    BY <1>3, <1>7, CallFacts DEF IType, InCall
  <2>2. /\ call.addr + call.total <= AddrSpace
        /\ call.chunk < LenSpace \/ call.total < LenSpace
    BY <1>3, <1>7 DEF RegionsFit
  <2>3. want \in Nat /\ want < LenSpace /\ call.addr + done \in Nat
        /\ call.addr + done < AddrSpace
    <3>1. want \in Nat /\ want <= call.total /\ want <= call.chunk
      BY <1>3, <2>1 DEF Want
    <3>2. want < LenSpace
      <4>. HIDE DEF want
      <4>. QED  BY <2>1, <2>2, <3>1
    <3>3. call.addr + done \in Nat /\ call.addr + done < AddrSpace
      BY <1>3, <2>1, <2>2
    <3>. QED  BY <3>1, <3>2, <3>3
  <2>. HIDE DEF want
  <2>4. (call.addr + done) % AddrSpace = call.addr + done /\ want % LenSpace = want
    BY <2>3, ModFits
  <2>5. /\ NextRequest.svc = ReadMemoryByAddress
        /\ NextRequest.params = <<call.addr + done, want>>
    BY <1>7, <2>4 DEF NextRequest, ReadParams, want
  <2>6. Tail(bytes) = Memory(NextRequest.params[1], NextRequest.params[2])
    BY <1>2, <1>4, <2>5 DEF Meant, SecurityAccess, ReadMemoryByAddress
  <2>. QED  BY <1>7, <2>5, <2>6 DEF want
<1>. QED  BY <1>5, <1>6, <1>7

\* Steps that leave the link as it is.
LEMMA LinkSame ==
  ASSUME OneRequest, UNCHANGED <<bus, ecu, attempt, asked>>,
         \/ Quiet
         \/ pc = "recv" /\ pc' = "recv" /\ UNCHANGED <<call, out, done>>
  PROVE  OneRequest'
BY DEF OneRequest, Quiet, Asking, Serving, Answering, Pending, NextRequest, bus

\* A silent link is one.
LEMMA QuietIsOneRequest == Quiet => OneRequest
<1>. SUFFICES ASSUME Quiet PROVE OneRequest
  OBVIOUS
<1>1. to_tester = << >> /\ Len(to_tester) = 0
  BY DEF Quiet
<1>. QED  BY <1>1 DEF OneRequest, Quiet, Asking, Serving, Answering

\* When the client takes a final reply, nothing is left behind it.
LEMMA FinalEmpties ==
  ASSUME IType, OneRequest, Receive, ~(IsPending(reply.bytes) /\ MorePending(attempt)),
         UNCHANGED <<to_ecu, ecu>>
  PROVE  Quiet' /\ Len(to_tester) = 1 /\ ~IsPending(reply.bytes)
<1>1. /\ reply = to_tester[1] /\ Len(to_tester) > 0 /\ Len(to_tester) \in Nat
      /\ to_tester' \in Seq(Reply) /\ Len(to_tester') = Len(to_tester) - 1
      /\ attempt \in Nat
  BY ReceiveFacts, LinkTyped, Limit DEF IType, TypeOK
<1>2. 1 \in 1..Len(to_tester)
  BY <1>1
<1>3. ~IsPending(reply.bytes)
  <2>1. IsPending(reply.bytes) => attempt + 1 <= PendingLimit
    BY <1>1, <1>2 DEF OneRequest, Answering
  <2>. QED  BY <1>1, <2>1, Limit DEF MorePending
<1>4. Len(to_tester) = 1 /\ ecu.serving = NoRequest
  BY <1>1, <1>2, <1>3 DEF OneRequest, Answering
<1>5. to_tester' = << >>
  BY <1>1, <1>4
<1>6. to_ecu = << >>
  BY <1>1 DEF OneRequest, Asking
<1>. QED  BY <1>3, <1>4, <1>5, <1>6 DEF Quiet

LEMMA BeginInTime == ASSUME IType, InTime, Begin PROVE InTime'
<1>1. pc = "idle" /\ pc' = "send" /\ Quiet /\ out' = << >> /\ done' = 0
      /\ UNCHANGED <<bus, ecu, attempt, asked, results, granted>>
  BY DEF Begin, InTime, OneRequest, IType, InCall
<1>2. OneRequest'
  BY <1>1, QuietIsOneRequest, LinkSame DEF InTime
<1>3. call' \in Calls
  BY DEF Begin
<1>4. call'.op = "region" => out' = Memory(call'.addr, done')
  BY <1>1, <1>3, CallFacts, MemoryFacts
<1>. QED  BY <1>1, <1>2, <1>4, ResultsStay DEF InTime, Content

LEMMA BeginEmptyRegionInTime == ASSUME IType, InTime, BeginEmptyRegion PROVE InTime'
<1>1. PICK c \in Calls :
        /\ c.op = "region" /\ (c.chunk = 0 \/ c.total = 0)
        /\ results' = Append(results, [call |-> c, ok |-> c.chunk > 0,
                                       out |-> << >>, last |-> asked])
  BY DEF BeginEmptyRegion
<1>2. pc = "idle" /\ pc' = "idle" /\ Quiet /\ UNCHANGED <<bus, ecu, attempt, asked, granted>>
  BY DEF BeginEmptyRegion, InTime, OneRequest
<1>3. c.addr \in Nat /\ c.total \in Nat /\ c.chunk \in Nat
  BY <1>1, CallFacts
<1>. DEFINE R == [call: Calls, ok: BOOLEAN, out: Seq(Nat), last: Nat]
            r == [call |-> c, ok |-> c.chunk > 0, out |-> << >>, last |-> asked]
<1>4. r \in R /\ results \in Seq(R) /\ results' = Append(results, r)
  <2>1. (c.chunk > 0) \in BOOLEAN /\ << >> \in Seq(Nat)
    OBVIOUS
  <2>. QED  BY <1>1, <2>1 DEF IType, TypeOK
<1>5. GoodResult(r)
  <2>1. c.chunk > 0 => << >> = Memory(c.addr, c.total)
    <3>1. Memory(c.addr, 0) = << >>
      BY <1>3, MemoryFacts
    <3>2. c.chunk > 0 => c.total = 0
      BY <1>1, <1>3
    <3>. QED  BY <3>1, <3>2
  <2>. QED  BY <1>1, <2>1 DEF GoodResult
<1>. HIDE DEF R, r
<1>6. /\ Len(results') = Len(results) + 1 /\ Len(results) \in Nat
      /\ \A i \in 1..Len(results) : results'[i] = results[i]
      /\ results'[Len(results) + 1] = r
  BY <1>4, AppendFacts
<1>7. ASSUME NEW i \in 1..Len(results') PROVE GoodResult(results'[i])
  <2>1. CASE i \in 1..Len(results)
    BY <1>6, <2>1 DEF InTime, Results
  <2>2. CASE i = Len(results) + 1
    BY <1>5, <1>6, <2>2
  <2>. QED  BY <1>6, <2>1, <2>2
<1>8. \A x : GoodResult(x) => GoodResult(x)'
  BY <1>2 DEF GoodResult
<1>9. OneRequest'
  BY <1>2, LinkSame DEF InTime
<1>. QED  BY <1>2, <1>7, <1>8, <1>9 DEF InTime, Results, Content

LEMMA SendInTime == ASSUME IType, InTime, Send PROVE InTime'
<1>1. /\ pc = "send" /\ pc' = "recv" /\ asked' = asked + 1 /\ attempt' = 0
      /\ UNCHANGED <<call, out, done, results, to_tester, ecu, granted>>
      /\ to_ecu' = Append(to_ecu, Pending(asked + 1))
  BY DEF Send, Pending
<1>2. to_ecu = << >> /\ to_tester = << >> /\ ecu.serving = NoRequest
  BY <1>1 DEF InTime, OneRequest, Quiet
<1>3. NextRequest' = NextRequest
  BY <1>1 DEF NextRequest
<1>4. to_ecu' = <<Pending(asked)'>>
  BY <1>1, <1>2, <1>3 DEF Pending
<1>5. OneRequest'
  BY <1>1, <1>2, <1>4 DEF OneRequest, Asking, Serving, Answering
<1>6. Content'
  BY <1>1, <1>2 DEF InTime, Content
<1>. QED  BY <1>1, <1>5, <1>6, ResultsStay DEF InTime

\* A request that fails ends its call without a result to answer for.
LEMMA FailureInTime ==
  ASSUME IType, InTime, pc # "idle", NEW of, RequestFails(of), Quiet', UNCHANGED granted
  PROVE  InTime'
<1>1. Results' /\ pc' = "idle"
  BY ResultsAppend DEF RequestFails, InTime, IType, TypeOK
<1>2. OneRequest'
  <2>1. to_tester' = << >> /\ Len(to_tester') = 0
    BY DEF Quiet
  <2>. QED  BY <2>1 DEF OneRequest, Quiet, Asking, Serving, Answering
<1>. QED  BY <1>1, <1>2 DEF InTime, Content

LEMMA SendFailsInTime == ASSUME IType, InTime, SendFails PROVE InTime'
<1>1. Quiet /\ Quiet'
  BY DEF SendFails, InTime, OneRequest, Quiet, bus
<1>. QED  BY <1>1, FailureInTime DEF SendFails

LEMMA RecvTimesOutInTime ==
  ASSUME IType, InTime, RecvTimesOut, early' = 0
  PROVE  InTime'
<1>1. early \in Nat
  BY DEF IType, TypeOK
<1>2. Quiet
  BY <1>1 DEF RecvTimesOut
<1>3. Quiet'
  BY <1>2 DEF RecvTimesOut, Quiet, bus
<1>. QED  BY <1>3, FailureInTime DEF RecvTimesOut

LEMMA RecvFailsInTime == ASSUME IType, InTime, RecvFails PROVE InTime'
<1>1. Quiet'
  BY FinalEmpties DEF RecvFails, InTime
<1>. QED  BY <1>1, FailureInTime DEF RecvFails, Receive

LEMMA NoMorePending ==
  ASSUME NEW a \in Nat, NEW b \in Nat, NEW i \in Nat, NEW l \in Nat,
         b <= a + 1, a + (i + 1) <= l
  PROVE  b + i <= l
OBVIOUS

\* A reply leaves the link to a client that goes on waiting, or is lost.
LEMMA ReplyLeavesInTime ==
  ASSUME IType, InTime, pc = "recv", to_tester # << >>, to_tester' = Tail(to_tester),
         attempt' \in {attempt, attempt + 1},
         UNCHANGED <<pc, call, out, done, asked, results, to_ecu, ecu, granted>>
  PROVE  InTime'
<1>1. /\ Len(to_tester) > 0 /\ Len(to_tester) \in Nat /\ Len(to_tester') = Len(to_tester) - 1
      /\ \A i \in 1..Len(to_tester') : to_tester'[i] = to_tester[i + 1]
  BY LinkTyped, TailFacts
<1>2. \A i \in 1..Len(to_tester') : i + 1 \in 1..Len(to_tester)
  BY <1>1
<1>3. attempt \in Nat /\ attempt' \in Nat /\ PendingLimit \in Nat /\ attempt' <= attempt + 1
  BY Limit DEF IType, TypeOK
<1>4. /\ \A n : Pending(n)' = Pending(n)
      /\ \A bytes : Honest(bytes) => Honest(bytes)'
  BY HonestStays
<1>5. Asking'
  BY DEF InTime, OneRequest, Asking
<1>6. Serving'
  <2>. SUFFICES ASSUME ecu.serving # NoRequest
                PROVE  /\ ecu.serving = Pending(asked)
                       /\ attempt' + Len(to_tester') <= ecu.pend /\ ecu.pend <= PendingLimit
    BY <1>4 DEF Serving
  <2>1. /\ ecu.serving = Pending(asked)
        /\ attempt + Len(to_tester) <= ecu.pend /\ ecu.pend <= PendingLimit
    BY DEF InTime, OneRequest, Serving
  <2>2. ecu.pend \in Nat
    BY ServingTyped
  <2>. QED  BY <1>1, <1>3, <2>1, <2>2
<1>7. Answering'
  <2>. SUFFICES ASSUME NEW i \in 1..Len(to_tester')
                PROVE  /\ IsPending(to_tester'[i].bytes) => attempt' + i <= PendingLimit
                       /\ ~IsPending(to_tester'[i].bytes) =>
                            i = Len(to_tester') /\ ecu.serving = NoRequest
    BY DEF Answering
  <2>1. to_tester'[i] = to_tester[i + 1] /\ i + 1 \in 1..Len(to_tester)
    BY <1>1, <1>2
  <2>2. /\ IsPending(to_tester[i + 1].bytes) => attempt + (i + 1) <= PendingLimit
        /\ ~IsPending(to_tester[i + 1].bytes) =>
             i + 1 = Len(to_tester) /\ ecu.serving = NoRequest
    BY <2>1 DEF InTime, OneRequest, Answering
  <2>3. /\ attempt + (i + 1) <= PendingLimit => attempt' + i <= PendingLimit
        /\ i + 1 = Len(to_tester) => i = Len(to_tester')
    <3>1. i \in Nat
      OBVIOUS
    <3>2. attempt + (i + 1) <= PendingLimit => attempt' + i <= PendingLimit
      BY <1>3, <3>1, NoMorePending
    <3>3. \A n \in Nat : i + 1 = n => i = n - 1
      BY <3>1
    <3>. QED  BY <1>1, <3>2, <3>3
  <2>. QED  BY <2>1, <2>2, <2>3
<1>8. OneRequest'
  BY <1>5, <1>6, <1>7 DEF OneRequest
<1>9. ASSUME NEW i \in 1..Len(to_tester')
      PROVE  Honest(to_tester[i].bytes)'
  <2>1. PICK bytes : bytes = to_tester[i + 1].bytes
    OBVIOUS
  <2>2. Honest(bytes)
    BY <1>2, <2>1 DEF InTime, Content
  <2>3. Honest(bytes)' /\ bytes = to_tester'[i].bytes
    BY <1>1, <1>4, <2>1, <2>2
  <2>. QED  BY <2>3
<1>10. Content'
  BY <1>9 DEF InTime, Content
<1>. QED  BY <1>8, <1>10, ResultsStay DEF InTime

LEMMA RecvPendingInTime == ASSUME IType, InTime, RecvPending PROVE InTime'
BY ReplyLeavesInTime DEF RecvPending, Receive

LEMMA RecvPositiveInTime == ASSUME IType, InTime, RecvPositive PROVE InTime'
<1>1. /\ pc = "recv" /\ reply = to_tester[1] /\ reply.bytes \in Seq(Nat)
      /\ UNCHANGED <<attempt, asked, to_ecu, ecu, granted>>
  BY ReceiveFacts DEF RecvPositive, Reply
<1>2. Quiet' /\ Len(to_tester) = 1
  BY FinalEmpties, PositiveIsFinal DEF RecvPositive, InTime
<1>. DEFINE payload == Tail(reply.bytes)
<1>3. /\ call.op = "unlock" => IF out = << >> THEN call.level % 2 = 1 ELSE asked \in granted
      /\ call.op = "region" /\ RegionsFit =>
           payload = Memory(call.addr + done, Want(call.total, done, call.chunk))
  <2>1. Honest(reply.bytes)
    BY <1>1, <1>2 DEF InTime, Content
  <2>. QED  BY <2>1 DEF Honest, RecvPositive
<1>4. payload \in Seq(Nat)
  <2>1. Len(reply.bytes) > 0
    BY DEF RecvPositive, IsPositive
  <2>. QED  BY <1>1, <2>1
<1>5. Proceed(payload)
  BY DEF RecvPositive
<1>. HIDE DEF payload
<1>6. /\ call \in Calls /\ out \in Seq(Nat) /\ done \in Nat /\ << >> \in Seq(Nat)
      /\ Results /\ pc # "idle"
  BY <1>1, NextRequestType DEF IType, TypeOK, InTime
<1>7. OneRequest'
  <2>1. to_tester' = << >> /\ Len(to_tester') = 0
    BY <1>2 DEF Quiet
  <2>. QED  BY <1>2, <2>1 DEF OneRequest, Quiet, Asking, Serving, Answering
<1>8. CASE call.op = "plain" /\ Return(TRUE, payload)
  <2>1. Results' /\ pc' = "idle"
    BY <1>1, <1>4, <1>6, <1>8, ResultsAppend
  <2>. QED  BY <1>7, <2>1 DEF InTime, Content
<1>9. CASE call.op = "unlock" /\ out # << >> /\ Return(TRUE, << >>)
  <2>1. Results' /\ pc' = "idle"
    BY <1>1, <1>3, <1>6, <1>9, ResultsAppend
  <2>. QED  BY <1>7, <2>1 DEF InTime, Content
<1>10. CASE call.op = "unlock" /\ Return(FALSE, << >>)
  <2>1. Results' /\ pc' = "idle"
    BY <1>1, <1>6, <1>10, ResultsAppend
  <2>. QED  BY <1>7, <2>1 DEF InTime, Content
<1>11. CASE /\ call.op = "unlock" /\ out = << >> /\ pc' = "send"
            /\ UNCHANGED <<call, done, results>>
  <2>1. Results'
    BY <1>1, <1>6, <1>11, ResultsStay
  <2>. QED  BY <1>3, <1>7, <1>11, <2>1 DEF InTime, Content
<1>12. CASE call.op = "region"
  <2>. DEFINE want == Want(call.total, done, call.chunk)
  <2>1. /\ call.addr \in Nat /\ call.total \in Nat /\ call.chunk \in Nat
        /\ done < call.total /\ call.chunk > 0
    BY <1>6, <1>12, CallFacts DEF IType, InCall
  <2>2. want \in Nat /\ done + want <= call.total
    BY <1>6, <2>1 DEF Want
  <2>3. RegionsFit => out = Memory(call.addr, done)
    BY <1>6, <1>12 DEF InTime, Content
  <2>4. RegionsFit => out \o payload = Memory(call.addr, done + want)
    <3>1. Memory(call.addr, done) \o Memory(call.addr + done, want)
            = Memory(call.addr, done + want)
      <4>. HIDE DEF want
      <4>1. done \in Nat
        BY <1>6
      <4>. QED  BY ONLY <2>1, <2>2, <4>1, MemoryConcat
    <3>. QED  BY <1>3, <1>12, <2>3, <3>1
  <2>5. out \o payload \in Seq(Nat)
    BY <1>4, <1>6
  <2>. HIDE DEF want
  <2>6. CASE /\ done + want < call.total /\ out' = out \o payload /\ done' = done + want
             /\ pc' = "send" /\ UNCHANGED <<call, results>>
    <3>1. Results'
      BY <1>1, <1>6, <2>6, ResultsStay
    <3>. QED  BY <1>7, <1>12, <2>4, <2>6, <3>1 DEF InTime, Content
  <2>7. CASE ~(done + want < call.total) /\ Return(TRUE, out \o payload)
    <3>1. done + want = call.total
      BY <1>6, <2>1, <2>2, <2>7
    <3>2. Results' /\ pc' = "idle"
      BY <1>1, <1>6, <1>12, <2>4, <2>5, <2>7, <3>1, ResultsAppend
    <3>. QED  BY <1>7, <3>2 DEF InTime, Content
  <2>. QED  BY <1>5, <1>12, <2>6, <2>7 DEF Proceed, want
<1>. QED  BY <1>5, <1>8, <1>9, <1>10, <1>11, <1>12 DEF Proceed

LEMMA EcuTakesInTime == ASSUME IType, InTime, EcuTakes PROVE InTime'
<1>1. /\ ecu.serving = NoRequest /\ to_ecu = <<Pending(asked)>> /\ to_tester = << >>
      /\ attempt = 0 /\ pc = "recv"
  BY DEF EcuTakes, InTime, OneRequest, Asking, Quiet
<1>2. Head(to_ecu) = Pending(asked) /\ to_ecu' = << >>
  BY <1>1 DEF EcuTakes
<1>3. ecu' = [serving |-> Pending(asked), pend |-> 0, seed |-> ecu.seed]
  BY <1>2, ServingTyped DEF EcuTakes
<1>4. UNCHANGED <<pc, call, attempt, out, done, asked, results, to_tester, granted>>
  BY DEF EcuTakes, client
<1>5. \A n : Pending(n)' = Pending(n)
  BY <1>4, HonestStays
<1>6. OneRequest'
  BY <1>1, <1>2, <1>3, <1>4, <1>5, Limit DEF OneRequest, Asking, Serving, Answering
<1>7. Content'
  BY <1>1, <1>4 DEF InTime, Content
<1>. QED  BY <1>4, <1>6, <1>7, ResultsStay DEF InTime

\* The ECU answers the pending request.
LEMMA AnswerInTime ==
  ASSUME IType, InTime, ecu.serving # NoRequest, NEW r \in Reply,
         to_tester' = Append(to_tester, r), Honest(r.bytes)',
         \/ /\ IsPending(r.bytes) /\ ecu.pend < PendingLimit
            /\ ecu' = [serving |-> ecu.serving, pend |-> ecu.pend + 1, seed |-> ecu.seed]
         \/ ~IsPending(r.bytes) /\ ecu'.serving = NoRequest,
         UNCHANGED <<pc, call, attempt, out, done, asked, results, to_ecu>>,
         granted \subseteq granted'
  PROVE  InTime'
<1>1. /\ Len(to_tester) \in Nat /\ Len(to_tester') = Len(to_tester) + 1
      /\ \A i \in 1..Len(to_tester) : to_tester'[i] = to_tester[i]
      /\ to_tester'[Len(to_tester) + 1] = r
  BY AppendFacts, LinkTyped
<1>2. \A i \in 1..Len(to_tester') : i \in 1..Len(to_tester) \/ i = Len(to_tester) + 1
  BY <1>1
<1>3. /\ \A n : Pending(n)' = Pending(n)
      /\ \A bytes : Honest(bytes) => Honest(bytes)'
  BY HonestStays
<1>4. /\ ecu.serving = Pending(asked) /\ to_ecu = << >> /\ pc = "recv"
      /\ attempt + Len(to_tester) <= ecu.pend /\ ecu.pend <= PendingLimit
  BY DEF InTime, OneRequest, Serving, Asking, Quiet
<1>5. attempt \in Nat /\ ecu.pend \in Nat /\ PendingLimit \in Nat
  BY ServingTyped, Limit DEF IType, TypeOK
<1>6. Serving'
  <2>1. CASE /\ ecu.pend < PendingLimit
             /\ ecu' = [serving |-> ecu.serving, pend |-> ecu.pend + 1, seed |-> ecu.seed]
    <3>1. /\ attempt + Len(to_tester') <= ecu.pend + 1 /\ ecu.pend + 1 <= PendingLimit
      BY <1>1, <1>4, <1>5, <2>1
    <3>2. ecu'.serving = ecu.serving /\ ecu'.pend = ecu.pend + 1
      BY <2>1
    <3>. QED  BY <1>3, <1>4, <3>1, <3>2 DEF Serving
  <2>2. CASE ecu'.serving = NoRequest
    BY <2>2 DEF Serving
  <2>. QED  BY <2>1, <2>2
<1>7. Answering'
  <2>. SUFFICES ASSUME NEW i \in 1..Len(to_tester')
                PROVE  /\ IsPending(to_tester'[i].bytes) => attempt + i <= PendingLimit
                       /\ ~IsPending(to_tester'[i].bytes) =>
                            i = Len(to_tester') /\ ecu'.serving = NoRequest
    BY DEF Answering
  <2>1. CASE i \in 1..Len(to_tester)
    <3>1. IsPending(to_tester[i].bytes) /\ attempt + i <= PendingLimit
      BY <2>1 DEF InTime, OneRequest, Answering
    <3>. QED  BY <1>1, <2>1, <3>1
  <2>2. CASE i = Len(to_tester) + 1
    <3>1. to_tester'[i] = r /\ i = Len(to_tester')
      BY <1>1, <2>2
    <3>2. ecu.pend < PendingLimit => attempt + i <= PendingLimit
      BY <1>1, <1>4, <1>5, <2>2
    <3>. QED  BY <3>1, <3>2
  <2>. QED  BY <1>2, <2>1, <2>2
<1>8. OneRequest'
  BY <1>4, <1>6, <1>7 DEF OneRequest, Asking
<1>9. ASSUME NEW i \in 1..Len(to_tester')
      PROVE  Honest(to_tester[i].bytes)'
  <2>1. CASE i \in 1..Len(to_tester)
    <3>1. PICK bytes : bytes = to_tester[i].bytes
      OBVIOUS
    <3>2. Honest(bytes)
      BY <1>4, <2>1, <3>1 DEF InTime, Content
    <3>3. Honest(bytes)' /\ bytes = to_tester'[i].bytes
      BY <1>1, <1>3, <2>1, <3>1, <3>2
    <3>. QED  BY <3>3
  <2>2. CASE i = Len(to_tester) + 1
    <3>1. to_tester'[i].bytes = r.bytes
      BY <1>1, <2>2
    <3>. QED  BY <3>1
  <2>. QED  BY <1>2, <2>1, <2>2
<1>10. Content'
  BY <1>9 DEF InTime, Content
<1>. QED  BY <1>8, <1>10, ResultsStay DEF InTime

LEMMA EcuDefersInTime ==
  ASSUME IType, InTime, EcuDefers, early' = 0
  PROVE  InTime'
<1>1. PICK bytes \in Seq(Nat) :
           /\ IsPending(bytes) /\ [of |-> ecu.serving.of, bytes |-> bytes] \in Reply
           /\ to_tester' = Append(to_tester, [of |-> ecu.serving.of, bytes |-> bytes])
           /\ ecu' = [serving |-> ecu.serving, pend |-> ecu.pend + 1, seed |-> ecu.seed]
           /\ early' = 0 => ecu.pend < PendingLimit
  BY EcuDefersFacts
<1>2. PICK r \in Reply : r = [of |-> ecu.serving.of, bytes |-> bytes]
  BY <1>1
<1>3. /\ IsPending(r.bytes) /\ to_tester' = Append(to_tester, r)
      /\ ecu.pend < PendingLimit
      /\ ecu' = [serving |-> ecu.serving, pend |-> ecu.pend + 1, seed |-> ecu.seed]
  BY <1>1, <1>2
<1>4. Honest(r.bytes)'
  BY <1>3 DEF Honest, IsPositive, IsPending
<1>5. /\ ecu.serving # NoRequest
      /\ UNCHANGED <<pc, call, attempt, out, done, asked, results, to_ecu, granted>>
  BY DEF EcuDefers, client
<1>. QED  BY <1>3, <1>4, <1>5, AnswerInTime

LEMMA FinalInTime == ASSUME IType, InTime, Answers PROVE InTime'
<1>1. PICK bytes \in Seq(Nat) : Final(bytes) /\ Meant(bytes)
  BY AnswersAreFinal
<1>2. [of |-> ecu.serving.of, bytes |-> bytes] \in Reply
  BY ServingTyped DEF Reply
<1>3. PICK r \in Reply : r = [of |-> ecu.serving.of, bytes |-> bytes]
  BY <1>2
<1>4. /\ r.bytes = bytes /\ to_tester' = Append(to_tester, r) /\ ~IsPending(r.bytes)
  BY <1>1, <1>3 DEF Final, Answer
<1>5. /\ ecu.serving # NoRequest /\ ecu'.serving = NoRequest /\ granted \subseteq granted'
      /\ UNCHANGED <<pc, call, attempt, out, done, asked, results, to_ecu>>
  BY <1>1 DEF Final, client
<1>6. Honest(bytes)'
  <2>1. ecu.serving = Pending(asked) /\ pc # "idle"
    BY <1>5 DEF InTime, OneRequest, Serving, Quiet
  <2>. QED  BY <1>1, <2>1, MeantIsHonest DEF InTime
<1>7. Honest(r.bytes)'
  BY <1>4, <1>6
<1>. QED  BY <1>4, <1>5, <1>7, AnswerInTime

LEMMA LosePduInTime == ASSUME IType, InTime, LosePdu PROVE InTime'
<1>1. UNCHANGED <<pc, call, attempt, out, done, asked, results, ecu, granted>>
  BY DEF LosePdu, client
<1>2. CASE to_ecu # << >> /\ to_ecu' = Tail(to_ecu) /\ to_tester' = to_tester
  <2>1. /\ to_ecu = <<Pending(asked)>> /\ to_tester = << >> /\ ecu.serving = NoRequest
    BY <1>2 DEF InTime, OneRequest, Asking
  <2>2. Quiet'
    BY <1>1, <1>2, <2>1 DEF Quiet
  <2>3. Len(to_tester') = 0
    BY <1>2, <2>1
  <2>4. OneRequest'
    BY <2>2, <2>3 DEF OneRequest, Quiet, Asking, Serving, Answering
  <2>5. Content'
    BY <1>1, <2>3 DEF InTime, Content
  <2>. QED  BY <1>1, <2>4, <2>5, ResultsStay DEF InTime
<1>3. CASE to_tester # << >> /\ to_tester' = Tail(to_tester) /\ to_ecu' = to_ecu
  <2>1. pc = "recv"
    BY <1>3 DEF InTime, OneRequest, Quiet
  <2>. QED  BY <1>1, <1>3, <2>1, ReplyLeavesInTime
<1>. QED  BY <1>2, <1>3 DEF LosePdu

LEMMA StutterInTime == ASSUME InTime, UNCHANGED vars PROVE InTime'
<1>1. UNCHANGED <<pc, call, attempt, out, done, asked, results, to_ecu, to_tester, ecu, granted>>
  BY DEF vars, client, bus
<1>2. OneRequest'
  BY <1>1 DEF InTime, OneRequest, Quiet, Asking, Serving, Answering, Pending, NextRequest
<1>3. Content'
  BY <1>1 DEF InTime, Content, Honest, NextRequest
<1>. QED  BY <1>1, <1>2, <1>3, ResultsStay DEF InTime

\* The client gives up too early once and for all.
LEMMA EarlyStays == ASSUME IType, [Next]_vars, early' = 0 PROVE early = 0
<1>1. early \in Nat
  BY DEF IType, TypeOK
<1>2. CASE Answers
  BY <1>2, AnswersAreFinal DEF Final
<1>3. CASE EcuDefers \/ RecvTimesOut
  BY <1>1, <1>3 DEF EcuDefers, RecvTimesOut
<1>4. CASE UNCHANGED early
  BY <1>4
<1>. QED  BY <1>2, <1>3, <1>4 DEF Next, Tester, Ecu, Answers, Finished, vars, luck, Begin,
          BeginEmptyRegion, Send, SendFails, RecvPending, RecvFails, RecvPositive, EcuTakes,
          EcuKeepsDeferring, LosePdu

LEMMA StepInTime ==
  ASSUME IInv, [Next]_vars
  PROVE  IInv'
<1>1. IType /\ IType'
  BY StepTyped DEF IInv
<1>2. ASSUME early' = 0 PROVE InTime'
  <2>1. InTime
    BY <1>1, <1>2, EarlyStays DEF IInv
  <2>2. CASE Tester
    BY <1>1, <1>2, <2>1, <2>2, BeginInTime, BeginEmptyRegionInTime, SendInTime, SendFailsInTime,
       RecvPendingInTime, RecvFailsInTime, RecvPositiveInTime, RecvTimesOutInTime DEF Tester
  <2>3. CASE Answers
    BY <1>1, <2>1, <2>3, FinalInTime
  <2>4. CASE EcuTakes \/ EcuDefers \/ LosePdu
    BY <1>1, <1>2, <2>1, <2>4, EcuTakesInTime, EcuDefersInTime, LosePduInTime
  <2>5. CASE UNCHANGED vars
    BY <2>1, <2>5, StutterInTime
  <2>6. ~EcuKeepsDeferring
    BY <1>1, <1>2, EarlyStays DEF EcuKeepsDeferring
  <2>. QED  BY <2>2, <2>3, <2>4, <2>5, <2>6 DEF Next, Ecu, Answers, Finished
<1>. QED  BY <1>1, <1>2 DEF IInv

LEMMA InitInTime == Init => IInv
<1>. SUFFICES ASSUME Init PROVE IInv
  OBVIOUS
<1>1. Quiet /\ pc = "idle" /\ results = << >> /\ Len(results) = 0
  BY DEF Init, Quiet
<1>2. OneRequest
  BY <1>1, QuietIsOneRequest
<1>. QED  BY <1>1, <1>2, InitTyped DEF IInv, InTime, Content, Results

\* As long as the client does not give up too early there is never more on its way
\* than one request, its 0x78 replies and its final reply, what that reply says is
\* what the ECU did, and the results of the calls are right (uds_client.cpp:61-117,
\* 206-232, 317-346).
THEOREM Invariance == Spec => []IInv
<1>1. IInv /\ [Next]_vars => IInv'
  BY StepInTime
<1>. QED  BY <1>1, InitInTime, PTL DEF Spec

\* Between calls the link is silent: request() reads every reply to what it sent,
\* also when it fails, whatever the limit on 0x78 replies (uds_client.cpp:73-97).
THEOREM LinkIsSilent == Spec => []InStep
<1>1. IInv => InStep
  BY DEF IInv, InTime, OneRequest, InStep
<1>. QED  BY <1>1, Invariance, PTL

\* An unlock() that succeeds was granted by the ECU, for every level
\* (uds_client.cpp:206-232).
THEOREM UnlockIsGranted == Spec => []UnlockGrantedInTime
<1>1. IInv => UnlockGrantedInTime
  BY DEF IInv, InTime, Results, GoodResult, UnlockGrantedInTime, UnlockGranted
<1>. QED  BY <1>1, Invariance, PTL

\* A region that is read is the region that was asked for, byte for byte and for
\* every size of region and chunk that the address and length fields can describe
\* (uds_client.cpp:317-346).
THEOREM RegionIsRight == RegionsFit => (Spec => []RegionRight)
<1>. SUFFICES ASSUME RegionsFit PROVE Spec => []RegionRight
  OBVIOUS
<1>1. IInv => RegionRight
  BY DEF IInv, InTime, Results, GoodResult, RegionRight
<1>. QED  BY <1>1, Invariance, PTL
=============================================================================
