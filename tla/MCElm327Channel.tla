-------------------------- MODULE MCElm327Channel --------------------------
(* Instances of Elm327Channel for TLC: three ids, two of which share their     *)
(* number.                                                                    *)
EXTENDS Elm327Channel

MCIds == {[num |-> 1, ext |-> FALSE], [num |-> 1, ext |-> TRUE], [num |-> 2, ext |-> FALSE]}

\* A channel that is opened and then used to write and read.
WriteRead == {"open", "write", "read"}
=============================================================================
