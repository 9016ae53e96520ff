---------------------------- MODULE MCDiagStack ----------------------------
(* An instance of DiagStack for TLC: the number of frames of each request and   *)
(* of its response.  A long response comes late for a long request.           *)
EXTENDS DiagStack

SomeRequests  == <<1, 1, 3>>
SomeResponses == <<1, 3, 1>>

\* What the ECU may answer a first frame: all at once, block by block, or nothing.
Flows == {[status |-> 0, block |-> 0], [status |-> 0, block |-> 1], [status |-> 2, block |-> 0]}
=============================================================================
