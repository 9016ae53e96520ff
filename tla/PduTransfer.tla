----------------------------- MODULE PduTransfer -----------------------------
(***************************************************************************)
(* What an ISO-TP transfer of one PDU promises, whatever the link does to   *)
(* the frames: send() and recv() each return once; recv() returns the whole *)
(* PDU or an error, never anything else; and a PDU whose send() failed is   *)
(* not received.  A send() that succeeded promises nothing: ISO-TP has no   *)
(* final acknowledgement.                                                   *)
(***************************************************************************)
EXTENDS Sequences

CONSTANT Pdus            \* the PDUs that may be sent

VARIABLES pdu,           \* the PDU handed to send()
          sres,          \* what send() returned: "none" while it runs
          rres,          \* what recv() returned
          got            \* the PDU recv() returned

vars == <<pdu, sres, rres, got>>

Init == /\ pdu \in Pdus
        /\ sres = "none"
        /\ rres = "none"
        /\ got = << >>

SendSucceeds == /\ sres = "none"
                /\ sres' = "ok"
                /\ UNCHANGED <<pdu, rres, got>>

SendFails == /\ sres = "none"
             /\ rres # "ok"
             /\ sres' = "error"
             /\ UNCHANGED <<pdu, rres, got>>

Deliver == /\ rres = "none"
           /\ sres # "error"
           /\ rres' = "ok"
           /\ got' = pdu
           /\ UNCHANGED <<pdu, sres>>

ReceiveFails == /\ rres = "none"
                /\ rres' = "error"
                /\ UNCHANGED <<pdu, sres, got>>

Next == SendSucceeds \/ SendFails \/ Deliver \/ ReceiveFails

Spec == Init /\ [][Next]_vars
=============================================================================
