--------------------------- MODULE MCIsoTpSession ---------------------------
(* Instances of IsoTpSession for TLC: the number of frames of each request     *)
(* and of its response.  Seventeen frames make the sequence number wrap.       *)
EXTENDS IsoTpSession

SomeRequests  == <<1, 3, 1>>
SomeResponses == <<1, 2, 17>>
LongLong   == <<3, 3>>
ShortShort == <<1, 1>>
ShortLong  == <<1, 2>>

\* What an ECU may answer a first frame: all at once, block by block, wait, or
\* nothing of it.
Plain   == {LetsAllThrough}
Blocks  == {LetsAllThrough, [status |-> Cts, block |-> 1]}
Waits   == {LetsAllThrough, [status |-> Wait, block |-> 0]}
AnyFlow == Blocks \cup [status: {Wait, Overflow}, block: {0}]
=============================================================================
