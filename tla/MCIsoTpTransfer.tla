--------------------------- MODULE MCIsoTpTransfer ---------------------------
(* Instances of IsoTpTransfer for TLC: the PDUs are given by their lengths,   *)
(* and byte i of a PDU is i, so that a misplaced byte shows.                  *)
EXTENDS IsoTpTransfer

CONSTANT Lengths

MCPdus == {[i \in 1..n |-> i] : n \in Lengths}
=============================================================================
