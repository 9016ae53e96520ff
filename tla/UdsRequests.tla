---------------------------- MODULE UdsRequests ----------------------------
(***************************************************************************)
(* The PDUs that the service wrappers of UdsClient build                    *)
(* (src/src/uds_client.cpp:121-315), and what an ECU that reads them by the *)
(* UDS and KWP2000 formats takes them for.  UdsClient.tla is about the      *)
(* conversation; here each request stands alone and its bytes matter.       *)
(***************************************************************************)
EXTENDS Positional

CONSTANTS Args,          \* values of one-byte arguments
          Dids,          \* data identifiers, of two bytes
          Data,          \* payloads: keys, parameters, blocks
          Addresses, Sizes,
          Widths         \* values of addr_bytes and len_bytes, 0 to 15

Byte == 0..255

\* The types of the arguments of the wrappers (uds_client.h:81-152).
RequestsAssumption ==
  /\ Args \subseteq Byte /\ Data \subseteq Seq(Byte)
  /\ \A did \in Dids : did \in Nat /\ did < 65536
  /\ Addresses \subseteq Nat /\ Sizes \subseteq Nat /\ Widths \subseteq 0..15

VARIABLES call,          \* the call in progress
          pdu,           \* what it sent
          result         \* what read_vin() returned

vars == <<call, pdu, result>>

SidOf ==
  [diagnostic_session |-> 16, stop_diagnostic_session |-> 32, tester_present |-> 62,
   read_data_by_id |-> 34, read_vin |-> 34, read_ecu_identification |-> 26,
   read_dtcs_uds |-> 25, read_dtcs_kwp |-> 24, clear_dtcs_uds |-> 20,
   request_seed |-> 39, send_key |-> 39,
   start_routine_kwp |-> 49, routine_results_kwp |-> 51, stop_routine_kwp |-> 50,
   io_control_kwp |-> 48, read_memory_by_address |-> 35, request_upload |-> 53,
   request_download |-> 52, transfer_data |-> 54, request_transfer_exit |-> 55]

Bare    == {"stop_diagnostic_session", "tester_present", "read_vin",
            "read_dtcs_kwp", "clear_dtcs_uds"}
OneByte == {"diagnostic_session", "read_ecu_identification", "routine_results_kwp",
            "read_dtcs_uds"}
WithData == {"start_routine_kwp", "stop_routine_kwp", "io_control_kwp", "transfer_data"}
Memory  == {"read_memory_by_address", "request_upload", "request_download"}

Odd == {a \in Args : a % 2 = 1}

Calls ==
  [op: Bare] \cup [op: OneByte, arg: Args] \cup [op: WithData, arg: Args, data: Data]
    \cup [op: {"request_seed"}, arg: Odd]
    \cup [op: {"send_key"}, arg: {a + 1 : a \in Odd \ {255}}, data: Data]
    \cup [op: {"read_data_by_id"}, did: Dids]
    \cup [op: {"request_transfer_exit"}, data: Data]
    \cup [op: {"read_memory_by_address"}, format: {0}, address: Addresses, size: Sizes,
          addr_bytes: Widths, len_bytes: Widths]
    \cup [op: Memory \ {"read_memory_by_address"}, format: Args, address: Addresses,
          size: Sizes, addr_bytes: Widths, len_bytes: Widths]

None == [op |-> "none"]

-----------------------------------------------------------------------------
(* The client.                                                              *)

ShiftedRight(value, i) == Shifted(value, i, 256)

\* One turn of push_be's loop.  A shift by 64 and more is undefined: the machine
\* counts modulo 64 (wraps), or what the compiler makes of it is zero.
ByteAtUncut(value, i, wraps) == ShiftedRight(value, i % 8)
ByteAt(value, i, wraps) ==
  IF i < 8 \/ wraps THEN ShiftedRight(value, i % 8) % 256 ELSE 0

PushBe(value, n, wraps) == [p \in 1..n |-> ByteAt(value, n - p, wraps)]

\* The addressAndLengthFormatIdentifier.
FormatIdSwapped(addr_bytes, len_bytes) == ((addr_bytes % 16) * 16) + (len_bytes % 16)
FormatId(addr_bytes, len_bytes) == ((len_bytes % 16) * 16) + (addr_bytes % 16)

MemoryParams(c, wraps) ==
  (IF c.op = "read_memory_by_address" THEN << >> ELSE <<c.format>>)
    \o <<FormatId(c.addr_bytes, c.len_bytes)>>
    \o PushBe(c.address, c.addr_bytes, wraps) \o PushBe(c.size, c.len_bytes, wraps)

BareParams(op) ==
  CASE op = "tester_present" -> <<0>>
    [] op = "read_vin"       -> <<241, 144>>
    [] op = "read_dtcs_kwp"  -> <<0, 255, 0>>
    [] op = "clear_dtcs_uds" -> <<255, 255, 255>>
    [] OTHER                 -> << >>

DidBytes(did) == <<did \div 256, did % 256>>

Params(c, wraps) ==
  CASE c.op \in Bare              -> BareParams(c.op)
    [] c.op = "read_dtcs_uds"     -> <<2, c.arg>>
    [] c.op \in (OneByte \ {"read_dtcs_uds"}) \cup {"request_seed"} -> <<c.arg>>
    [] c.op \in WithData \cup {"send_key"} -> <<c.arg>> \o c.data
    [] c.op = "read_data_by_id"   -> DidBytes(c.did)
    [] c.op = "request_transfer_exit" -> c.data
    [] c.op \in Memory            -> MemoryParams(c, wraps)

\* read_vin() drops the echoed identifier.
StrippedOnce(d) == IF Len(d) >= 2 THEN Tail(d) ELSE d
Stripped(d) == IF Len(d) >= 2 THEN SubSeq(d, 3, Len(d)) ELSE d

TypeOK ==
  /\ call \in Calls \cup {None}
  /\ pdu \in Seq(Byte) /\ (pdu = << >>) = (call = None)
  /\ result \in Seq(Byte)

Init ==
  call = None /\ pdu = << >> /\ result = << >>

Ask ==
  /\ call = None
  /\ \E c \in Calls, wraps \in BOOLEAN :
       call' = c /\ pdu' = <<SidOf[c.op]>> \o Params(c, wraps)
  /\ UNCHANGED result

Return == call # None /\ call' = None /\ pdu' = << >> /\ result' = << >>

-----------------------------------------------------------------------------
(* The ECU.                                                                 *)

\* The number that big-endian bytes stand for.
Number(bytes) == ValueOf(bytes, 256)

OpOf(sid, params) ==
  IF sid = 39
  THEN IF params[1] % 2 = 1 THEN "request_seed" ELSE "send_key"
  ELSE CHOOSE op \in DOMAIN SidOf \ {"read_vin"} : SidOf[op] = sid

\* The address, the size and what is left over of the bytes that follow the format
\* identifier.
HeardMemory(op, format, id, field) ==
  LET a == id % 16
      l == id \div 16
  IN [op |-> op, format |-> format,
      address |-> Number(SubSeq(field, 1, a)),
      size |-> Number(SubSeq(field, a + 1, a + l)),
      addr_bytes |-> a, len_bytes |-> Len(field) - a]

\* What the ECU takes the PDU for.
Heard ==
  LET p  == Tail(pdu)
      op == OpOf(pdu[1], p)
  IN CASE op \in Bare              -> [op |-> op]
       [] op = "read_dtcs_uds"     -> [op |-> op, arg |-> p[2]]
       [] op \in (OneByte \ {"read_dtcs_uds"}) \cup {"request_seed"}
                                   -> [op |-> op, arg |-> p[1]]
       [] op \in WithData \cup {"send_key"}
                                   -> [op |-> op, arg |-> p[1], data |-> Tail(p)]
       [] op = "read_data_by_id"   -> [op |-> op, did |-> Number(p)]
       [] op = "request_transfer_exit" -> [op |-> op, data |-> p]
       [] op = "read_memory_by_address" -> HeardMemory(op, 0, p[1], Tail(p))
       [] OTHER                    -> HeardMemory(op, p[1], p[2], Tail(Tail(p)))

\* The positive response to read_vin(): the identifier and the number, or, from an
\* ECU that has none, less.
VinAnswered ==
  /\ call.op = "read_vin" /\ result = << >>
  /\ \E data \in {<<>>, <<241>>} \cup {<<241, 144>> \o d : d \in Data} :
       result' = Stripped(data)
  /\ UNCHANGED <<call, pdu>>

Next == Ask \/ VinAnswered \/ Return

Spec == Init /\ [][Next]_vars

-----------------------------------------------------------------------------
(* Properties.                                                              *)

Fits(value, n) == n <= 8 /\ ShiftedRight(value, n) = 0

Sayable ==
  call.op \in Memory =>
    Fits(call.address, call.addr_bytes) /\ Fits(call.size, call.len_bytes)

\* The call that a PDU should be taken for; read_vin() is a read_data_by_id().
Meant == IF call.op = "read_vin" THEN [op |-> "read_data_by_id", did |-> 61840] ELSE call

\* Every request says what the call meant: the ECU that cuts a PDU by its format
\* identifier finds the address and the size, as long as each fits in its field and
\* no field is wider than the eight bytes of the argument, and no two wrappers
\* build the same PDU (uds_client.cpp:121-315).
Understood == call # None /\ Sayable => Heard = Meant

\* read_vin() returns the data of the record without the identifier that the ECU
\* echoes (uds_client.cpp:163-165).
VinWhole == call.op = "read_vin" /\ Len(result) > 1 => result \in Data
=============================================================================
