------------------------------ MODULE SeedKey ------------------------------
(***************************************************************************)
(* Rc4TableSeedKey (src/src/security_access.cpp): the key for a seed is an  *)
(* entry of a table, encrypted with RC4, of hexadecimal letters.  A table   *)
(* and the seeds come from outside; so does Rc4, which anyone may call.     *)
(* Bytes are integers, and a letter is its ASCII code.                      *)
(***************************************************************************)
EXTENDS Integers, Sequences, SequencesExt, Bitwise

CONSTANTS Keys,          \* the keys that went into the table, two bytes each
          LowerCase,     \* the seeds whose keys were written in small letters
          Spoiled,       \* those whose entry is not hexadecimal
          CipherKey,
          Stream,        \* the first bytes of its key stream
          Seeds,         \* the seeds the ECU may give
          Texts          \* keys and data for rc4()

Byte == 0..255

VARIABLES asked,         \* a seed, or a key and its data, or nothing
          answer         \* what came of it

vars == <<asked, answer>>

Nothing == [fun |-> "none"]
Failed == [ok |-> FALSE, bytes |-> << >>]
Gives(bytes) == [ok |-> TRUE, bytes |-> bytes]

-----------------------------------------------------------------------------
(* rc4().                                                                   *)

SwappedHalf(s, i, j) == [s EXCEPT ![i] = s[j]]
Swapped(s, i, j) == [s EXCEPT ![i] = s[j], ![j] = s[i]]

\* The permutation that the key makes.
Scheduled(key) ==
  LET identity == [k \in Byte |-> k]
      mix(m, i) == LET j == (m.j + m.s[i] + key[(i % Len(key)) + 1]) % 256
                   IN [s |-> Swapped(m.s, i, j), j |-> j]
  IN IF key = << >> THEN identity
     ELSE FoldLeft(mix, [s |-> identity, j |-> 0], [i \in 1..256 |-> i - 1]).s

Rc4(key, data) ==
  LET step(m, b) ==
        LET i == (m.i + 1) % 256
            j == (m.j + m.s[i]) % 256
            s == Swapped(m.s, i, j)
        IN [s |-> s, i |-> i, j |-> j,
            out |-> Append(m.out, b ^^ s[(s[i] + s[j]) % 256])]
  IN FoldLeft(step, [s |-> Scheduled(key), i |-> 0, j |-> 0, out |-> << >>], data).out

-----------------------------------------------------------------------------
(* compute(), lookup() and parse_hex().                                     *)

\* The value of a letter, -1 for one that is not hexadecimal.
Nibble(c) ==
  IF c \in 48..57 THEN c - 48
  ELSE IF c \in 65..70 THEN c - 55
  ELSE IF c \in 97..102 THEN c - 87 ELSE -1

ParseHex(s) ==
  IF Len(s) % 2 # 0 \/ \E k \in 1..Len(s) : Nibble(s[k]) < 0
  THEN Failed
  ELSE Gives([k \in 1..(Len(s) \div 2) |-> Nibble(s[(2 * k) - 1]) * 16 + Nibble(s[2 * k])])

\* The table: the letters of each key, encrypted from the start of the key stream.
EntrySize == 4
Letter(d, n) == IF d < 10 THEN 48 + d ELSE IF n \in LowerCase THEN 87 + d ELSE 55 + d
Letters(n) ==
  LET key == Keys[n + 1]
  IN <<Letter(key[1] \div 16, n), Letter(key[1] % 16, n), Letter(key[2] \div 16, n),
       IF n \in Spoiled THEN 71 ELSE Letter(key[2] % 16, n)>>

Table ==
  [m \in 1..(Len(Keys) * EntrySize) |->
     LET k == ((m - 1) % EntrySize) + 1
     IN Letters((m - 1) \div EntrySize)[k] ^^ Stream[k]]

Lookup(n) ==
  IF (n + 1) * EntrySize > Len(Table) THEN Failed
  ELSE ParseHex(Rc4(CipherKey, SubSeq(Table, n * EntrySize + 1, (n + 1) * EntrySize)))

SeedNumberLittle(seed) == IF Len(seed) = 1 THEN seed[1] ELSE seed[2] * 256 + seed[1]
SeedNumber(seed) == IF Len(seed) = 1 THEN seed[1] ELSE seed[1] * 256 + seed[2]

Compute(seed) == IF Len(seed) \notin 1..2 THEN Failed ELSE Lookup(SeedNumber(seed))

-----------------------------------------------------------------------------

TypeOK ==
  /\ asked \in {Nothing} \cup [fun: {"compute"}, seed: Seeds] \cup [fun: {"rc4"}, arg: Texts]
  /\ answer \in [ok: BOOLEAN, bytes: Seq(Byte)]

Init == asked = Nothing /\ answer = Failed

AskKey ==
  /\ asked = Nothing
  /\ \E seed \in Seeds :
       asked' = [fun |-> "compute", seed |-> seed] /\ answer' = Compute(seed)

AskCipher ==
  /\ asked = Nothing
  /\ \E t \in Texts :
       asked' = [fun |-> "rc4", arg |-> t] /\ answer' = Gives(Rc4(t.key, t.data))

Forget == asked # Nothing /\ asked' = Nothing /\ answer' = Failed

Next == AskKey \/ AskCipher \/ Forget

Spec == Init /\ [][Next]_vars

-----------------------------------------------------------------------------
(* Properties.                                                              *)

\* compute() gives the key that went into the table for that seed, read as a number
\* of one byte or two, and fails for seeds of other lengths, beyond the table, or whose
\* entry is not hexadecimal (security_access.cpp:105-138).
KeyRight ==
  asked.fun = "compute" =>
    LET bytes == asked.seed
        n == FoldLeft(LAMBDA v, b : v * 256 + b, 0, bytes)
    IN answer = IF Len(bytes) \in 1..2 /\ n < Len(Keys) /\ n \notin Spoiled
                THEN Gives(Keys[n + 1]) ELSE Failed

\* rc4() decrypts what it has encrypted (security_access.h:44), and gives the
\* ciphertext of its published examples.
CipherRight ==
  asked.fun = "rc4" =>
    Rc4(asked.arg.key, answer.bytes) = asked.arg.data /\ answer.bytes = asked.arg.cipher
=============================================================================
