--------------------------- MODULE MCConversions ---------------------------
(* An instance for TLC of the conversions of the SDK: extend_timestamp, the     *)
(* requests, the lines, and beside them the keys, one at a time.               *)
EXTENDS Conversions

CONSTANTS Keys, LowerCase, Spoiled, CipherKey, Stream, Seeds, Texts    \* SeedKey

VARIABLES asked, answer

Provider == INSTANCE SeedKey

provider == <<asked, answer>>

AllInit == ConvInit /\ Provider!Init

NoProvider == asked = Provider!Nothing /\ UNCHANGED provider

AllNext ==
  \/ NoProvider /\ ConvNext
  \/ NoClock /\ NoRequest /\ NoLine /\ Provider!Next

AllSpec == AllInit /\ [][AllNext]_<<clock, request, line, provider>>

\* Every module's variables keep their types.
AllTypes == ConvTypes /\ Provider!TypeOK

\* Besides the properties of Conversions: the key for a seed (security_access.cpp:105-138),
KeyRight == Provider!KeyRight

\* and the cipher it is encrypted with (security_access.cpp:13-45).
CipherRight == Provider!CipherRight

-----------------------------------------------------------------------------

MCData == {<< >>, <<0>>, <<255, 1>>, <<87, 68, 66>>}

\* Ids at the edges of 11 and 29 bits and of three digits, data of every length up to
\* nine bytes, with zeros in it and at its end.
MCIds  == {0, 1, 255, 2015, 2047, 2048, 4096, 65535, 417001744, 536870911, 536870912}
MCBytes == {<< >>, <<3, 127>>, <<2, 62>>, <<0, 0, 171>>, <<6, 97, 128, 0, 0, 255, 255, 16>>,
            <<1, 2, 3, 4, 5, 6, 7, 8, 9>>}
MCFrames == [id: MCIds, type: {"Standard", "Extended", "FD"}, dlc: {0, 1, 2, 3, 7, 8, 9},
             data: MCBytes]

\* A table of 260 keys for "sys", the last seed within and the first beyond it.
MCKeys == [n \in 1..260 |-> <<(n * 7) % 256, (n - 1) % 256>>]
Sys == <<115, 121, 115>>
SysStream == <<88, 234, 249, 90>>
MCSeeds == {<< >>, <<0>>, <<3>>, <<255>>, <<0, 1>>, <<1, 0>>, <<0, 171>>, <<0, 172>>, <<1, 3>>,
            <<1, 4>>, <<255, 255>>, <<0, 0, 1>>}

\* "Key" and "Plaintext", "Wiki" and "pedia", "Secret" and "Attack at dawn"; no key.
MCTexts ==
  {[key |-> <<75, 101, 121>>, data |-> <<80, 108, 97, 105, 110, 116, 101, 120, 116>>,
    cipher |-> <<187, 243, 22, 232, 217, 64, 175, 10, 211>>],
   [key |-> <<87, 105, 107, 105>>, data |-> <<112, 101, 100, 105, 97>>,
    cipher |-> <<16, 33, 191, 4, 32>>],
   [key |-> <<83, 101, 99, 114, 101, 116>>,
    data |-> <<65, 116, 116, 97, 99, 107, 32, 97, 116, 32, 100, 97, 119, 110>>,
    cipher |-> <<69, 160, 31, 100, 95, 195, 91, 56, 53, 82, 84, 75, 155, 245>>],
   [key |-> << >>, data |-> <<0, 0, 0, 0>>, cipher |-> <<2, 5, 7, 13>>]}
=============================================================================
