----------------------------- MODULE Positional -----------------------------
(***************************************************************************)
(* Numbers as digits, the highest first: how push_be                        *)
(* (src/src/uds_client.cpp) and the conversions "%02X", "%03X" and "%08X"   *)
(* (src/src/elm327_channel.cpp, src/src/frame_trace.cpp) take a number      *)
(* apart, and parse_hex_u32 puts it together.  The radix is 256 for bytes   *)
(* and 16 for hexadecimal digits.                                           *)
(***************************************************************************)
EXTENDS Integers, Sequences

\* What is left of a number when its k lowest digits are gone.
Shifted(number, k, radix) ==
  LET left[i \in Nat] == IF i = 0 THEN number ELSE left[i - 1] \div radix IN left[k]

\* The n lowest digits.
Spelled(number, n, radix) == [p \in 1..n |-> Shifted(number, n - p, radix) % radix]

\* The number that digits stand for.
ValueOf(digits, radix) ==
  LET read[i \in 0..Len(digits)] ==
        IF i = 0 THEN 0 ELSE read[i - 1] * radix + digits[i]
  IN  read[Len(digits)]
=============================================================================
