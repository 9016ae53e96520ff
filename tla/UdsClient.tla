----------------------------- MODULE UdsClient -----------------------------
(***************************************************************************)
(* UdsClient (src/src/uds_client.cpp): one tester that makes diagnostic     *)
(* calls, one after the other, to one ECU.  A call is one request, or, for  *)
(* unlock() and read_memory_region(), a series of them; every request goes  *)
(* through UdsClient::request, which waits out the 0x78 (responsePending)   *)
(* replies and checks the service id of the final one.                      *)
(*                                                                          *)
(* Below the client is IsoTpTransport.  Here it is what IsoTpSession shows  *)
(* it to be: a PDU is delivered whole or not at all, in order, and what a   *)
(* call did not read is there for the next one.  A PDU is a record of its   *)
(* fields; of is the number of the request that a reply answers, which the  *)
(* ECU knows and the client does not.                                       *)
(*                                                                          *)
(* The ECU is external: it serves its requests one at a time, may put each  *)
(* off with 0x78 replies, and gives each one final reply.                   *)
(***************************************************************************)
EXTENDS Integers, Sequences, FiniteSetsExt

CONSTANTS Calls,         \* the calls the tester may make
          MaxCalls,      \* bound on how many it makes
          MaxResponsePending,  \* IsoTpConfig::max_response_pending
          AddrSpace,     \* 256^addr_bytes: what an address field can say
          LenSpace,      \* 256^len_bytes: what a length field can say
          EcuPending,    \* how many 0x78 replies to one request are told apart
          EcuRefuses,    \* the ECU may give a negative final reply
          MaxFaults,     \* bound on malformed replies and lost PDUs
          MaxEarly       \* bound on how often the client gives up too early

Byte == 0..255

\* Service identifiers.
TesterPresent       == 62
SecurityAccess      == 39
ReadMemoryByAddress == 35
NegativeResponse    == 127
ResponsePending     == 120
RequestOutOfRange   == 49
ConditionsNotCorrect == 34
InvalidKey          == 53

Positive(svc) == (svc + 64) % 256

\* A call: request(svc), unlock(level) or read_memory_region(addr, total, chunk).
Call == [op: {"plain"}, svc: Byte]
          \cup [op: {"unlock"}, level: Byte]
          \cup [op: {"region"}, addr: Nat, total: Nat, chunk: Nat]

ASSUME UdsAssumption ==
  /\ Calls \subseteq Call
  /\ MaxCalls \in Nat /\ MaxResponsePending \in Nat
  /\ AddrSpace \in Nat \ {0} /\ LenSpace \in Nat \ {0}
  /\ EcuPending \in Nat /\ MaxFaults \in Nat /\ MaxEarly \in Nat
  /\ EcuRefuses \in BOOLEAN

VARIABLES pc,            \* "idle", or where a call stands
          call,          \* the call in progress
          attempt,       \* request(): replies read so far
          out, done,     \* read_memory_region(): its locals
          asked,         \* how many requests have been sent
          replies,       \* how each request ended
          results,       \* what each call returned
          to_ecu, to_tester,  \* PDUs on their way
          ecu,           \* the ECU: the request it serves, the seed it gave
          granted,       \* the requests whose key the ECU accepted
          faults,        \* how many replies were malformed, and PDUs lost
          early          \* how often the client gave up too early: a deadline
                         \* passed, or there were more 0x78 than it tolerates

client == <<pc, call, attempt, out, done, asked, replies, results>>
bus    == <<to_ecu, to_tester>>
luck   == <<faults, early>>
vars   == <<client, bus, ecu, granted, luck>>

\* kMaxPending.
PendingLimit == IF MaxResponsePending > 0 THEN MaxResponsePending ELSE 8

None == [op |-> "none"]
NoRequest == [of |-> 0, svc |-> 0, params |-> << >>]

Request == [of: Nat, svc: Byte, params: Seq(Nat)]
Reply   == [of: Nat, bytes: Seq(Nat)]

TypeOK ==
  /\ pc \in {"idle", "send", "recv"}
  /\ call \in Calls \cup {None} /\ (call = None) = (pc = "idle")
  /\ attempt \in 0..PendingLimit
  /\ out \in Seq(Nat) /\ done \in Nat
  /\ asked \in Nat
  /\ replies \in Seq([ok: BOOLEAN, of: Nat])
  /\ Len(replies) = IF pc = "recv" THEN asked - 1 ELSE asked
  /\ results \in Seq([call: Calls, ok: BOOLEAN, out: Seq(Nat), last: Nat])
  /\ Len(results) <= MaxCalls
  /\ to_ecu \in Seq(Request) /\ to_tester \in Seq(Reply)
  /\ ecu \in [serving: Request, pend: 0..EcuPending, seed: Nat]
  /\ granted \subseteq Nat
  /\ faults \in 0..MaxFaults /\ early \in 0..MaxEarly

Init ==
  /\ pc = "idle" /\ call = None /\ attempt = 0
  /\ out = << >> /\ done = 0
  /\ asked = 0 /\ replies = << >> /\ results = << >>
  /\ to_ecu = << >> /\ to_tester = << >>
  /\ ecu = [serving |-> NoRequest, pend |-> 0, seed |-> 0]
  /\ granted = {} /\ faults = 0 /\ early = 0

-----------------------------------------------------------------------------
(* The requests that make up a call.                                        *)

\* The size of the next chunk of a region.
WantWholeChunk(total, offset, chunk) == chunk
Want(total, offset, chunk) == IF total - offset < chunk THEN total - offset ELSE chunk

\* push_be writes as many low bytes as the field has room for.
ReadParams(addr, len) == <<addr % AddrSpace, len % LenSpace>>

KeyLevelSame(level) == level
KeyLevel(level) == (level + 1) % 256

\* unlock() asks for the seed, and then, with the seed in out, sends the key that
\* the provider computed from it; here the key of a seed is the seed.
NextRequest ==
  CASE call.op = "plain"  -> [svc |-> call.svc, params |-> << >>]
    [] call.op = "unlock" -> [svc |-> SecurityAccess,
                              params |-> IF out = << >> THEN <<call.level>>
                                         ELSE <<KeyLevel(call.level)>> \o out]
    [] call.op = "region" -> [svc |-> ReadMemoryByAddress,
                              params |-> ReadParams(call.addr + done,
                                           Want(call.total, done, call.chunk))]

Return(ok, bytes) ==
  /\ results' = Append(results, [call |-> call, ok |-> ok, out |-> bytes, last |-> asked])
  /\ pc' = "idle" /\ call' = None /\ out' = << >> /\ done' = 0

Begin ==
  /\ pc = "idle" /\ Len(results) < MaxCalls
  /\ pc' = "send"
  /\ call' \in {c \in Calls : c.op # "region" \/ (c.chunk > 0 /\ c.total > 0)}
  /\ UNCHANGED <<attempt, out, done, asked, replies, results, bus, ecu, granted, luck>>

\* A region read in chunks of no bytes is refused, a region of no bytes is read
\* without a request.
BeginEmptyRegion ==
  /\ pc = "idle" /\ Len(results) < MaxCalls
  /\ \E c \in Calls :
       /\ c.op = "region" /\ (c.chunk = 0 \/ c.total = 0)
       /\ results' = Append(results, [call |-> c, ok |-> c.chunk > 0,
                                      out |-> << >>, last |-> asked])
  /\ UNCHANGED <<pc, call, attempt, out, done, asked, replies, bus, ecu, granted, luck>>

-----------------------------------------------------------------------------
(* request().                                                               *)

Send ==
  /\ pc = "send"
  /\ asked' = asked + 1
  /\ to_ecu' = Append(to_ecu, [of |-> asked + 1, svc |-> NextRequest.svc,
                               params |-> NextRequest.params])
  /\ attempt' = 0 /\ pc' = "recv"
  /\ UNCHANGED <<call, out, done, replies, results, to_tester, ecu, granted, luck>>

\* A request that fails fails the call it belongs to.
RequestFails(of) ==
  /\ replies' = Append(replies, [ok |-> FALSE, of |-> of])
  /\ Return(FALSE, out)

\* tp_.send fails before the request is complete, so that the ECU never sees it.
SendFails ==
  /\ pc = "send"
  /\ faults < MaxFaults /\ faults' = faults + 1
  /\ asked' = asked + 1
  /\ RequestFails(0)
  /\ UNCHANGED <<attempt, bus, ecu, granted, early>>

\* tp_.recv returns a PDU.
Receive == pc = "recv" /\ to_tester # << >> /\ to_tester' = Tail(to_tester)

reply == Head(to_tester)

IsNegative(r) == Len(r) > 0 /\ r[1] = NegativeResponse
IsPending(r)  == IsNegative(r) /\ Len(r) >= 3 /\ r[3] = ResponsePending

MorePendingOneLess(n) == n + 1 < PendingLimit
MorePendingAlways(n) == TRUE
MorePending(n) == n < PendingLimit

IsPositive(svc, r) == Len(r) > 0 /\ ~IsNegative(r) /\ r[1] = Positive(svc)

\* 0x78: the client goes on waiting, up to the limit.
RecvPendingResends ==
  /\ Receive
  /\ IsPending(reply.bytes) /\ MorePending(attempt)
  /\ attempt' = attempt + 1
  /\ to_ecu' = Append(to_ecu, [of |-> asked, svc |-> NextRequest.svc,
                               params |-> NextRequest.params])
  /\ UNCHANGED <<pc, call, out, done, asked, replies, results, ecu, granted, luck>>

RecvPendingForgets ==
  /\ Receive
  /\ IsPending(reply.bytes) /\ MorePending(attempt)
  /\ attempt' = 0
  /\ UNCHANGED <<pc, call, out, done, asked, replies, results, to_ecu, ecu, granted, luck>>

RecvPending ==
  /\ Receive
  /\ IsPending(reply.bytes) /\ MorePending(attempt)
  /\ attempt' = attempt + 1
  /\ UNCHANGED <<pc, call, out, done, asked, replies, results, to_ecu, ecu, granted, luck>>

\* An empty reply, a negative one, or one to another service.
RecvFails ==
  /\ Receive
  /\ ~IsPositive(NextRequest.svc, reply.bytes)
  /\ ~(IsPending(reply.bytes) /\ MorePending(attempt))
  /\ RequestFails(reply.of)
  /\ UNCHANGED <<attempt, asked, to_ecu, ecu, granted, luck>>

\* What the call does with the payload of a positive reply.  The provider may
\* fail to compute the key.
Proceed(payload) ==
  \/ call.op = "plain" /\ Return(TRUE, payload)
  \/ call.op = "unlock" /\ out # << >> /\ Return(TRUE, << >>)
  \/ call.op = "unlock" /\ out = << >> /\ Return(FALSE, << >>)
  \/ /\ call.op = "unlock" /\ out = << >> /\ Len(payload) > 1
     /\ out' = Tail(payload) /\ pc' = "send"
     /\ UNCHANGED <<call, done, results>>
  \/ /\ call.op = "region"
     /\ LET so_far == done + Want(call.total, done, call.chunk) IN
          IF so_far < call.total
          THEN /\ out' = out \o payload /\ done' = so_far /\ pc' = "send"
               /\ UNCHANGED <<call, results>>
          ELSE Return(TRUE, out \o payload)

RecvPositive ==
  /\ Receive
  /\ IsPositive(NextRequest.svc, reply.bytes)
  /\ replies' = Append(replies, [ok |-> TRUE, of |-> reply.of])
  /\ Proceed(Tail(reply.bytes))
  /\ UNCHANGED <<attempt, asked, to_ecu, ecu, granted, luck>>

\* Nothing that the tester waits for is on its way.
Quiet == to_ecu = << >> /\ to_tester = << >> /\ ecu.serving = NoRequest

\* The deadline of recv() passes when nothing else can help, or before that.
RecvTimesOut ==
  /\ pc = "recv"
  /\ \/ Quiet /\ early' = early
     \/ ~Quiet /\ early < MaxEarly /\ early' = early + 1
  /\ RequestFails(0)
  /\ UNCHANGED <<attempt, asked, bus, ecu, granted, faults>>

Finished == pc = "idle" /\ Len(results) = MaxCalls /\ UNCHANGED vars

-----------------------------------------------------------------------------
(* The ECU.  Its memory holds at address a the number a.                    *)

Answer(bytes) ==
  to_tester' = Append(to_tester, [of |-> ecu.serving.of, bytes |-> bytes])

Refusal(nrc) == <<NegativeResponse, ecu.serving.svc, nrc>>

EcuTakes ==
  /\ ecu.serving = NoRequest /\ to_ecu # << >>
  /\ ecu' = [ecu EXCEPT !.serving = Head(to_ecu), !.pend = 0]
  /\ to_ecu' = Tail(to_ecu)
  /\ UNCHANGED <<client, to_tester, granted, luck>>

EcuDefers ==
  /\ ecu.serving # NoRequest /\ ecu.pend < EcuPending
  /\ \/ ecu.pend < PendingLimit /\ early' = early
     \/ ecu.pend >= PendingLimit /\ early < MaxEarly /\ early' = early + 1
  /\ Answer(Refusal(ResponsePending))
  /\ ecu' = [ecu EXCEPT !.pend = @ + 1]
  /\ UNCHANGED <<client, to_ecu, granted, faults>>

\* One that has been given up, or has said 0x78 too often, may say so for ever.
EcuKeepsDeferring ==
  /\ ecu.serving # NoRequest /\ ecu.pend = EcuPending /\ early > 0
  /\ to_tester = << >>
  /\ Answer(Refusal(ResponsePending))
  /\ UNCHANGED <<client, to_ecu, ecu, granted, luck>>

\* A request that lacks the parameters of its service, which request() sends when
\* its caller gives none, is never served.
Incomplete ==
  \/ ecu.serving.svc = SecurityAccess /\ ecu.serving.params = << >>
  \/ ecu.serving.svc = ReadMemoryByAddress /\ Len(ecu.serving.params) # 2
  \/ ecu.serving.svc = 0

EcuDeclines ==
  /\ ecu.serving # NoRequest /\ (EcuRefuses \/ Incomplete)
  /\ Answer(Refusal(ConditionsNotCorrect))
  /\ ecu' = [ecu EXCEPT !.serving = NoRequest]
  /\ UNCHANGED <<client, to_ecu, granted, luck>>

EcuServesPlain ==
  /\ ecu.serving.svc \notin {0, SecurityAccess, ReadMemoryByAddress}
  /\ Answer(<<Positive(ecu.serving.svc), 0>>)
  /\ ecu' = [ecu EXCEPT !.serving = NoRequest]
  /\ UNCHANGED <<client, to_ecu, granted, luck>>

\* The seed of an odd level: a new one for each request.
EcuGivesSeed ==
  /\ ecu.serving.svc = SecurityAccess /\ ~Incomplete /\ ecu.serving.params[1] % 2 = 1
  /\ Answer(<<Positive(SecurityAccess), ecu.serving.params[1], ecu.serving.of>>)
  /\ ecu' = [ecu EXCEPT !.serving = NoRequest, !.seed = ecu.serving.of]
  /\ UNCHANGED <<client, to_ecu, granted, luck>>

\* The key of an even level is good for the last seed, once.
EcuChecksKey ==
  /\ ecu.serving.svc = SecurityAccess /\ ~Incomplete /\ ecu.serving.params[1] % 2 = 0
  /\ LET good == ecu.seed # 0 /\ Tail(ecu.serving.params) = <<ecu.seed>> IN
       /\ Answer(IF good THEN <<Positive(SecurityAccess), ecu.serving.params[1]>>
                 ELSE Refusal(InvalidKey))
       /\ granted' = IF good THEN granted \cup {ecu.serving.of} ELSE granted
  /\ ecu' = [ecu EXCEPT !.serving = NoRequest, !.seed = 0]
  /\ UNCHANGED <<client, to_ecu, luck>>

EcuReadsMemory ==
  /\ ecu.serving.svc = ReadMemoryByAddress /\ ~Incomplete
  /\ LET addr == ecu.serving.params[1]
         len  == ecu.serving.params[2]
     IN Answer(IF len = 0 \/ addr + len > AddrSpace THEN Refusal(RequestOutOfRange)
               ELSE <<Positive(ReadMemoryByAddress)>> \o [i \in 1..len |-> addr + i - 1])
  /\ ecu' = [ecu EXCEPT !.serving = NoRequest]
  /\ UNCHANGED <<client, to_ecu, granted, luck>>

\* A reply without a service id, one cut short, one of another service.
EcuMisbehaves ==
  /\ ecu.serving # NoRequest /\ faults < MaxFaults
  /\ \E bytes \in {<< >>, <<NegativeResponse>>, <<Positive(0)>>} : Answer(bytes)
  /\ ecu' = [ecu EXCEPT !.serving = NoRequest]
  /\ faults' = faults + 1
  /\ UNCHANGED <<client, to_ecu, granted, early>>

LosePdu ==
  /\ faults < MaxFaults /\ faults' = faults + 1
  /\ \/ to_ecu # << >> /\ to_ecu' = Tail(to_ecu) /\ to_tester' = to_tester
     \/ to_tester # << >> /\ to_tester' = Tail(to_tester) /\ to_ecu' = to_ecu
  /\ UNCHANGED <<client, ecu, granted, early>>

-----------------------------------------------------------------------------

Tester == \/ Begin \/ BeginEmptyRegion \/ Send \/ SendFails
          \/ RecvPending \/ RecvFails \/ RecvPositive \/ RecvTimesOut

Ecu == \/ EcuTakes \/ EcuDefers \/ EcuKeepsDeferring \/ EcuDeclines \/ EcuServesPlain
       \/ EcuGivesSeed \/ EcuChecksKey \/ EcuReadsMemory \/ EcuMisbehaves

Next == Tester \/ Ecu \/ LosePdu \/ Finished

Spec == Init /\ [][Next]_vars

\* The caller's thread runs, and the ECU serves what it has received.
FairSpec == Spec /\ WF_vars(Tester) /\ WF_vars(Ecu)

-----------------------------------------------------------------------------
(* Properties.                                                              *)

\* Between calls the link is silent: as long as no deadline passed too early
\* and no ECU said 0x78 more often than is tolerated (uds_client.cpp:73-97),
\* request() reads every reply to what it sent, also when it fails, so that the
\* next call cannot meet an answer that is not its own.
InStep == early = 0 /\ pc = "idle" => Quiet

Memory(addr, len) == [i \in 1..len |-> addr + i - 1]

\* What read_memory_region() returns is the region it was asked for, byte for
\* byte, whatever the chunk size (uds_client.cpp:317-346), as long as the
\* client did not give up too early.
RegionRight ==
  early = 0 => \A i \in 1..Len(results) :
    LET c == results[i].call IN
      c.op = "region" /\ results[i].ok => results[i].out = Memory(c.addr, c.total)

\* When unlock() returns success, the ECU has accepted the key it sent
\* (uds_client.cpp:206-232).
UnlockGranted ==
  \A i \in 1..Len(results) :
    results[i].call.op = "unlock" /\ results[i].ok => results[i].last \in granted

\* The same as long as the client did not give up too early: with a silent link between
\* calls, the reply to the key is the one that request() takes for it.
UnlockGrantedInTime == early = 0 => UnlockGranted

Failures(r) == {q \in 1..(r - 1) : ~replies[q].ok}

Used == {replies[r].of : r \in {q \in 1..Len(replies) : replies[q].ok}}

order == INSTANCE AnswerOrder
           WITH asked <- Len(replies), failed <- Cardinality(Failures(Len(replies) + 1)),
                last <- Max(Used \cup {0})

\* No reply is taken for the result of two requests, or after a later one, however
\* many 0x78 come before it: the requests of the client implement AnswerOrder, since
\* request() sends its PDU once and reads exactly one final reply to succeed
\* (uds_client.cpp:61-117).  So a reply is out of date by no more requests than have
\* failed before it (AnswerOrder!Lag).
AnsweredInOrder == order!Spec

\* Every call returns, also when the ECU stays silent, refuses, or says 0x78 for ever:
\* attempt counts the replies of one request, however many come
\* (uds_client.cpp:74-117).
Completes == <>(Len(results) = MaxCalls)
=============================================================================
