---------------------------- MODULE MCUdsClient ----------------------------
(* Instances of UdsClient for TLC: the calls the tester may make.            *)
EXTENDS UdsClient

Plain == [op |-> "plain", svc |-> TesterPresent]
\* A request whose reply unlock() could take for its own, without the parameters that
\* the ECU needs to give one.
Bare  == [op |-> "plain", svc |-> SecurityAccess]
Unlock(level) == [op |-> "unlock", level |-> level]
Region(addr, total, chunk) ==
  [op |-> "region", addr |-> addr, total |-> total, chunk |-> chunk]

\* A region of three chunks, the last one shorter, one of no bytes, and one in chunks of
\* none.
Mixed == {Plain, Bare, Unlock(1), Region(2, 5, 2), Region(0, 0, 1), Region(0, 1, 0)}

Unlocks == {Unlock(1)}

\* The last address that AddrSpace allows, and the first beyond it.
AcrossTop == {Region(AddrSpace - 1, 2, 1)}

\* A chunk one longer than LenSpace allows.
LongChunk == {Region(0, LenSpace + 1, LenSpace + 1)}
=============================================================================
