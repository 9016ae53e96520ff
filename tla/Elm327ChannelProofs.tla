------------------------ MODULE Elm327ChannelProofs -------------------------
(***************************************************************************)
(* Proofs about Elm327Channel, for every configuration, every caller and    *)
(* every adapter: the types; the order of the frames handed over, whatever  *)
(* is lost, late or given up; and, as long as nothing has failed, that      *)
(* every command gets its own answer, that every frame is handed over, that *)
(* frames go out with their ids, and that open() leaves a configured        *)
(* adapter.                                                                 *)
(***************************************************************************)
EXTENDS Elm327Channel, SequenceTheorems, WellFoundedInduction, TLAPS

-----------------------------------------------------------------------------
(* The inductive invariants.                                                *)

\* What TypeOK says, and what it takes to keep it.
Known == {t \in Tokens : IsFrame(t) => t \in Frames}

Requests ==
  {r \in [step: Steps, cmd: 1..(9 * MaxOps), text: Texts] :
     r.step.cmd = "payload" => r.step.id \in Ids}

\* What an operation has still to do: only write() sends a payload.
StepFits(s) ==
  IF op = "write" THEN s.cmd \in {"ATSH", "payload"} /\ s.id \in Ids ELSE s.cmd # "payload"

\* The commands that an operation has still to give.
Due == IF waiting /\ todo # << >> THEN Len(todo) - 1 ELSE Len(todo)

CallerType ==
  /\ op \in OpNames \cup {"idle"} /\ (op # "idle" => op \in Ops)
  /\ todo \in Seq(Steps) /\ (todo = << >> <=> op \in {"idle", "read"})
  /\ \A i \in 1..Len(todo) : StepFits(todo[i])
  /\ waiting \in BOOLEAN /\ (op = "idle" => ~waiting) /\ (op = "read" => waiting)
  /\ ops \in 0..MaxOps /\ given \in Nat /\ given + Due <= 9 * ops
  /\ fragment \in {"none", "AT", "payload"}

Nums == {i.num : i \in Ids \cup {NoId}}

Flags ==
  /\ open_ \in BOOLEAN /\ header_set_ \in BOOLEAN /\ last_error_ \in BOOLEAN
  /\ tx_header_ \in Nums /\ (header_set_ => tx_header_ # 0)

ChannelType == Flags /\ rx_accum_ \in Seq(Known) /\ rx_queue_ \in Seq(Frames)

DeviceType ==
  /\ to_adapter \in Seq(Requests) /\ stream \in Seq(Known)
  /\ adapter \in [header: Ids \cup {NoId}, accepted: SUBSET AtCommands]
  /\ sent \subseteq Ids \X (Ids \cup {NoId})
  /\ emitted \in Seq(Frames) /\ taken \in Seq(Frames)
  /\ failures \in 0..MaxFailures

EType == CallerType /\ ChannelType /\ DeviceType

\* The frames among tokens.
FramesIn(s) == {t \in {s[i] : i \in 1..Len(s)} : IsFrame(t)}

Before(f, g) == f.cmd < g.cmd \/ (f.cmd = g.cmd /\ f.k < g.k)
Ahead(F, G)  == \A f \in F : \A g \in G : Before(f, g)

InTurn(s) ==
  \A i, j \in 1..Len(s) : i < j /\ IsFrame(s[i]) /\ IsFrame(s[j]) => Before(s[i], s[j])

\* The frames that the channel has received or may still receive.
FramesLeft == FramesIn(Received) \cup FramesIn(rx_accum_) \cup FramesIn(stream)

\* The frames follow each other in the order in which the adapter reported them, from
\* those handed over to those on their way.
FramesOrdered ==
  /\ InTurn(Received) /\ InTurn(rx_accum_) /\ InTurn(stream) /\ InTurn(emitted)
  /\ Ahead(FramesIn(Received), FramesIn(rx_accum_))
  /\ Ahead(FramesIn(Received), FramesIn(stream))
  /\ Ahead(FramesIn(rx_accum_), FramesIn(stream))
  /\ FramesLeft \subseteq FramesIn(emitted)

\* The commands on their way to the adapter are later than those that it has answered.
CommandsOrdered ==
  /\ \A i, j \in 1..Len(to_adapter) : i < j => to_adapter[i].cmd < to_adapter[j].cmd
  /\ \A i \in 1..Len(to_adapter) : to_adapter[i].cmd <= given
  /\ \A f \in FramesIn(emitted) :
       f.cmd <= given /\ \A i \in 1..Len(to_adapter) : f.cmd < to_adapter[i].cmd

\* read() waits only when write() has queued nothing.
ReadQueueEmpty == op = "read" => rx_queue_ = << >>

EOrder == EType /\ ReadQueueEmpty /\ FramesOrdered /\ CommandsOrdered

\* As long as nothing has failed, the channel and the adapter are in step: nothing is
\* outstanding, or the adapter has the command that is due, or its answer is on the
\* way, with the prompt at its end.
NothingOut ==
  /\ op = "read" \/ ~waiting
  /\ Quiet /\ rx_accum_ = << >> /\ Received = emitted

Asked ==
  /\ waiting /\ op # "read"
  /\ to_adapter = <<[step |-> Head(todo), cmd |-> given, text |-> "whole"]>>
  /\ stream = << >> /\ rx_accum_ = << >> /\ Received = emitted

\* What the lines of an answer say.
Tells(lines) ==
  /\ emitted = Received \o FramesOf(lines)
  /\ Head(todo).cmd # "payload" => FramesOf(lines) = << >>
  /\ HasOk(lines) => Head(todo).cmd \in adapter.accepted \ {"ATZ"}

AnswerComes(lines) ==
  /\ waiting /\ op # "read" /\ to_adapter = << >>
  /\ \A i \in 1..Len(lines) : lines[i].line # "prompt"
  /\ rx_accum_ \o stream = Append(lines, Prompt)
  /\ Tells(lines)

Lockstep ==
  /\ fragment = "none"
  /\ NothingOut \/ Asked \/ \E lines \in Seq(Known) : AnswerComes(lines)

\* The header that the adapter uses is the one in tx_header_, or the one that it has
\* just accepted.
HeaderIs(num) == adapter.header \in Ids /\ adapter.header.num = num

JustSet ==
  /\ SetsHeader /\ waiting /\ adapter.header = Head(todo).id
  /\ \E lines \in Seq(Known) : AnswerComes(lines) /\ HasOk(lines)

\* Only initialise() and write() change it.
HeaderCommands ==
  \A i \in 1..Len(todo) :
    /\ todo[i].cmd = "ATSH" => op = "write" /\ todo[i].need = "ok"
    /\ todo[i].cmd = "ATZ" => op \in {"open", "initialise"}

HeaderTold ==
  SetsHeader => \A lines \in Seq(Known) :
    AnswerComes(lines) /\ HasOk(lines) => adapter.header = Head(todo).id

\* A payload is given when the header is its id, or right after the command that sets
\* the header to it.
WritePrepared ==
  op = "write" =>
    \/ /\ Len(todo) = 1
       /\ todo[1].cmd = "payload" => header_set_ /\ tx_header_ = todo[1].id.num
    \/ /\ Len(todo) = 2 /\ todo[1].cmd = "ATSH" /\ todo[2].cmd = "payload"
       /\ todo[1].id = todo[2].id

HeaderKnown ==
  /\ header_set_ => HeaderIs(tx_header_) \/ JustSet
  /\ HeaderTold /\ WritePrepared /\ HeaderCommands
  /\ op \in {"open", "initialise"} => ~header_set_

SentRight ==
  \A w \in sent : w[1].num = w[2].num /\ (w[1].ext = w[2].ext \/ Ambiguous(w[1].num))

\* The settings that are missing while open() goes on are still to be asked for.
Configuring ==
  op = "open" =>
    /\ \A i \in 1..Len(todo) : todo[i].cmd = "ATZ" =>
         i = 1 /\ \A c \in Required : \E j \in 2..Len(todo) : todo[j].cmd = c
    /\ \A c \in Required :
         c \in adapter.accepted \/ \E j \in 1..Len(todo) : todo[j].cmd = c
    /\ \A i \in 1..Len(todo) : todo[i].cmd \in Required => todo[i].need = "ok"

\* The commands that the caller gives leave the header of the adapter alone.
HeaderIsOurs == UserCommands \cap {"ATZ", "ATSH"} = {}

-----------------------------------------------------------------------------
(* Sequences.                                                               *)

LEMMA Bounds ==
  /\ Ops \subseteq OpNames /\ Ids \subseteq Id
  /\ MaxOps \in Nat /\ MaxFrames \in Nat /\ MaxFailures \in Nat
  /\ UserCommands \subseteq AtCommands /\ Rejects \subseteq AtCommands
BY ElmAssumption

LEMMA AppendFacts ==
  ASSUME NEW S, NEW s \in Seq(S), NEW e \in S
  PROVE  /\ Append(s, e) \in Seq(S) /\ Len(Append(s, e)) = Len(s) + 1
         /\ \A i \in 1..Len(s) : Append(s, e)[i] = s[i]
         /\ Append(s, e)[Len(s) + 1] = e
OBVIOUS

LEMMA TailFacts ==
  ASSUME NEW S, NEW s \in Seq(S), s # << >>
  PROVE  /\ Tail(s) \in Seq(S) /\ Len(Tail(s)) = Len(s) - 1 /\ Len(s) > 0
         /\ Head(s) = s[1] /\ Head(s) \in S
         /\ \A i \in 1..Len(Tail(s)) : Tail(s)[i] = s[i + 1]
OBVIOUS

LEMMA SuffixFacts ==
  ASSUME NEW S, NEW s \in Seq(S), NEW j \in 0..Len(s)
  PROVE  /\ SubSeq(s, j + 1, Len(s)) \in Seq(S)
         /\ Len(SubSeq(s, j + 1, Len(s))) = Len(s) - j
         /\ \A i \in 1..(Len(s) - j) : SubSeq(s, j + 1, Len(s))[i] = s[i + j]
OBVIOUS

LEMMA PrefixFacts ==
  ASSUME NEW S, NEW s \in Seq(S), NEW j \in 0..Len(s)
  PROVE  /\ SubSeq(s, 1, j) \in Seq(S) /\ Len(SubSeq(s, 1, j)) = j
         /\ \A i \in 1..j : SubSeq(s, 1, j)[i] = s[i]
OBVIOUS

LEMMA ConcatFacts ==
  ASSUME NEW S, NEW s \in Seq(S), NEW t \in Seq(S)
  PROVE  /\ s \o t \in Seq(S) /\ Len(s \o t) = Len(s) + Len(t)
         /\ Len(s) \in Nat /\ Len(t) \in Nat
         /\ \A i \in 1..Len(s) : (s \o t)[i] = s[i]
         /\ \A i \in 1..Len(t) : (s \o t)[Len(s) + i] = t[i]
<1>1. Len(s) \in Nat /\ Len(t) \in Nat
  OBVIOUS
<1>2. /\ s \o t \in Seq(S) /\ Len(s \o t) = Len(s) + Len(t)
      /\ \A i \in 1..(Len(s) + Len(t)) :
           (s \o t)[i] = IF i <= Len(s) THEN s[i] ELSE t[i - Len(s)]
  BY ConcatProperties
<1>3. ASSUME NEW i \in 1..Len(s) PROVE (s \o t)[i] = s[i]
  BY <1>1, <1>2
<1>4. ASSUME NEW i \in 1..Len(t) PROVE (s \o t)[Len(s) + i] = t[i]
  <2>1. Len(s) + i \in 1..(Len(s) + Len(t)) /\ ~(Len(s) + i <= Len(s))
        /\ (Len(s) + i) - Len(s) = i
    BY <1>1
  <2>. QED  BY <1>2, <2>1
<1>. QED  BY <1>1, <1>2, <1>3, <1>4

LEMMA AppendPair ==
  ASSUME NEW S, NEW x \in S, NEW y \in S
  PROVE  Append(<<x>>, y) = <<x, y>>
<1>. DEFINE s == <<x>>
            t == <<x, y>>
<1>1. s \in Seq(S) /\ Len(s) = 1 /\ s[1] = x
  OBVIOUS
<1>2. t \in Seq(S) /\ Len(t) = 2 /\ t[1] = x /\ t[2] = y
  OBVIOUS
<1>. HIDE DEF s, t
<1>3. /\ Append(s, y) \in Seq(S) /\ Len(Append(s, y)) = Len(s) + 1
      /\ \A i \in 1..Len(s) : Append(s, y)[i] = s[i]
      /\ Append(s, y)[Len(s) + 1] = y
  BY <1>1, AppendFacts
<1>4. Append(s, y)[1] = x /\ Append(s, y)[1 + 1] = y /\ Len(Append(s, y)) = 1 + 1
  BY <1>1, <1>3
<1>5. \A i \in 1..2 : i = 1 \/ i = 2
  OBVIOUS
<1>6. Append(s, y) = t
  BY <1>2, <1>3, <1>4, <1>5, SeqEqual
<1>. QED  BY <1>6 DEF s, t

\* An index into a concatenation is one into its parts.
LEMMA TwoParts ==
  ASSUME NEW a \in Nat, NEW b \in Nat, NEW i \in 1..(a + b)
  PROVE  i \in 1..a \/ \E k \in 1..b : i = a + k
<1>1. CASE i > a
  <2>1. i - a \in 1..b /\ i = a + (i - a)
    BY <1>1
  <2>. QED  BY <2>1
<1>. QED  BY <1>1

\* The smallest of a set of numbers: what replaces an induction over them.
LEMMA SmallestOf ==
  ASSUME NEW T \in SUBSET Nat, T # {}
  PROVE  \E n \in T : \A m \in T : n <= m
<1>1. IsWellFoundedOn(OpToRel(<, Nat), Nat)
  BY NatLessThanWellFounded
<1>2. PICK x \in T : \A y \in T : ~ (<<y, x>> \in OpToRel(<, Nat))
  BY <1>1, WFMin
<1>3. ASSUME NEW y \in T PROVE x <= y
  <2>1. x \in Nat /\ y \in Nat
    OBVIOUS
  <2>2. ~ (<<y, x>> \in OpToRel(<, Nat))
    BY <1>2
  <2>3. ~(y < x)
    BY <2>1, <2>2 DEF OpToRel
  <2>. QED  BY <2>1, <2>3
<1>. QED  BY <1>3

-----------------------------------------------------------------------------
(* The frames among the lines of an answer.                                 *)

\* f gives the frames among the first lines, up to n of them.
IsAmong(f, lines, n) ==
  f = [i \in 0..n |-> IF i = 0 THEN << >>
                      ELSE IF IsFrame(lines[i]) THEN Append(f[i - 1], lines[i]) ELSE f[i - 1]]

LEMMA AmongExists ==
  ASSUME NEW lines, NEW len \in Nat
  PROVE  \E f : IsAmong(f, lines, len)
<1>. DEFINE T == {n \in Nat : ~ \E f : IsAmong(f, lines, n)}
<1>1. SUFFICES ASSUME T # {} PROVE FALSE
  OBVIOUS
<1>2. PICK n \in T : \A m \in T : n <= m
  BY <1>1, SmallestOf
<1>3. CASE n = 0
  <2>1. IsAmong([i \in 0..0 |-> << >>], lines, 0)
    BY DEF IsAmong
  <2>. QED  BY <1>3, <2>1
<1>4. CASE n > 0
  <2>1. n - 1 \in Nat /\ ~(n <= n - 1)
    BY <1>4
  <2>2. PICK f : IsAmong(f, lines, n - 1)
    BY <1>2, <2>1
  <2>. DEFINE g == [i \in 0..n |-> IF i = n
                       THEN IF IsFrame(lines[n]) THEN Append(f[n - 1], lines[n]) ELSE f[n - 1]
                       ELSE f[i]]
  <2>3. ASSUME NEW i \in 0..n
        PROVE  g[i] = IF i = 0 THEN << >>
                      ELSE IF IsFrame(lines[i]) THEN Append(g[i - 1], lines[i]) ELSE g[i - 1]
    <3>1. CASE i = n
      BY <1>4, <3>1
    <3>2. CASE i # n
      <4>1. i \in 0..(n - 1) /\ (i # 0 => i - 1 \in 0..n /\ i - 1 # n)
        BY <1>4, <3>2
      <4>2. f[i] = IF i = 0 THEN << >>
                   ELSE IF IsFrame(lines[i]) THEN Append(f[i - 1], lines[i]) ELSE f[i - 1]
        BY <2>2, <4>1 DEF IsAmong
      <4>. QED  BY <3>2, <4>1, <4>2
    <3>. QED  BY <3>1, <3>2
  <2>4. IsAmong(g, lines, n)
    BY <2>3 DEF IsAmong
  <2>. QED  BY <2>4
<1>. QED  BY <1>3, <1>4

LEMMA FramesOfIs ==
  ASSUME NEW S, NEW lines \in Seq(S)
  PROVE  \E f : IsAmong(f, lines, Len(lines)) /\ FramesOf(lines) = f[Len(lines)]
<1>1. PICK g : IsAmong(g, lines, Len(lines))
  BY AmongExists
<1>. QED  BY <1>1 DEF FramesOf, IsAmong

\* t is lines of s, in the order of s, at the places pos.
Places(t, s, pos) ==
  /\ pos \in [1..Len(t) -> 1..Len(s)]
  /\ \A i, j \in 1..Len(t) : i < j => pos[i] < pos[j]
  /\ \A i \in 1..Len(t) : t[i] = s[pos[i]]

\* t is the frames among the first n lines of s.
Picks(t, s, n) ==
  /\ t \in Seq(Frames)
  /\ \E pos : Places(t, s, pos) /\ \A i \in 1..Len(t) : pos[i] <= n
  /\ (\A i \in 1..n : ~IsFrame(s[i])) => t = << >>
  /\ (\A i \in 1..n : IsFrame(s[i])) => t = SubSeq(s, 1, n)
  /\ \A i \in 1..n : IsFrame(s[i]) => \E k \in 1..Len(t) : t[k] = s[i]

\* A frame is a token.
LEMMA FrameIs ==
  ASSUME NEW f \in Frames
  PROVE  f \in Tokens /\ IsFrame(f) /\ f.cmd \in Nat /\ f.k \in Nat
<1>1. \A n \in Nat : 1..n \subseteq Nat
  OBVIOUS
<1>2. f.line = "frame" /\ f.cmd \in Nat /\ f.k \in Nat
      /\ f = [line |-> f.line, cmd |-> f.cmd, k |-> f.k]
  BY <1>1, Bounds DEF Frames
<1>. QED  BY <1>2 DEF Tokens, IsFrame

LEMMA FramesKnown == Frames \subseteq Known
BY FrameIs DEF Known

LEMMA PicksNone == ASSUME NEW s \in Seq(Known) PROVE Picks(<< >>, s, 0)
<1>. DEFINE pos == [i \in 1..0 |-> 1]
<1>1. Places(<< >>, s, pos) /\ \A i \in 1..Len(<< >>) : pos[i] <= 0
  BY DEF Places
<1>2. SubSeq(s, 1, 0) = << >> /\ << >> \in Seq(Frames)
  OBVIOUS
<1>. HIDE DEF pos
<1>. QED  BY <1>1, <1>2 DEF Picks

LEMMA PicksSkip ==
  ASSUME NEW s \in Seq(Known), NEW n \in 1..Len(s), NEW t, Picks(t, s, n - 1), ~IsFrame(s[n])
  PROVE  Picks(t, s, n)
<1>1. PICK pos : Places(t, s, pos) /\ \A i \in 1..Len(t) : pos[i] <= n - 1
  BY DEF Picks
<1>2. \A i \in 1..Len(t) : pos[i] <= n
  <2>1. \A i \in 1..Len(t) : pos[i] \in Nat
    BY <1>1 DEF Places
  <2>. QED  BY <1>1, <2>1
<1>3. 1..(n - 1) \subseteq 1..n /\ n \in 1..n
  OBVIOUS
<1>4. (\A i \in 1..n : ~IsFrame(s[i])) => t = << >>
  BY <1>3 DEF Picks
<1>5. ~ \A i \in 1..n : IsFrame(s[i])
  BY <1>3
<1>6. t \in Seq(Frames)
  BY DEF Picks
<1>7. \A i \in 1..n : IsFrame(s[i]) => \E k \in 1..Len(t) : t[k] = s[i]
  <2>1. \A i \in 1..n : i \in 1..(n - 1) \/ i = n
    OBVIOUS
  <2>. QED  BY <2>1 DEF Picks
<1>. QED  BY <1>1, <1>2, <1>4, <1>5, <1>6, <1>7 DEF Picks

LEMMA PicksMore ==
  ASSUME NEW s \in Seq(Known), NEW n \in 1..Len(s), NEW t, Picks(t, s, n - 1), IsFrame(s[n])
  PROVE  Picks(Append(t, s[n]), s, n)
<1>. DEFINE u == Append(t, s[n])
            l == Len(t)
<1>1. s[n] \in Frames /\ t \in Seq(Frames)
  <2>1. s[n] \in Known
    BY ElementOfSeq
  <2>. QED  BY <2>1 DEF Known, Picks
<1>2. /\ u \in Seq(Frames) /\ Len(u) = l + 1 /\ l \in Nat
      /\ \A i \in 1..l : u[i] = t[i]
      /\ u[l + 1] = s[n]
  BY <1>1, AppendFacts
<1>3. PICK pos : Places(t, s, pos) /\ \A i \in 1..l : pos[i] <= n - 1
  BY DEF Picks
<1>. DEFINE more == [i \in 1..(l + 1) |-> IF i = l + 1 THEN n ELSE pos[i]]
<1>. HIDE DEF u, l
<1>4. \A i \in 1..l : pos[i] \in 1..Len(s) /\ pos[i] <= n - 1
  BY <1>3 DEF Places, l
<1>5. more \in [1..Len(u) -> 1..Len(s)] /\ \A i \in 1..Len(u) : more[i] <= n
  BY <1>2, <1>4
<1>6. ASSUME NEW i \in 1..Len(u), NEW j \in 1..Len(u), i < j PROVE more[i] < more[j]
  <2>1. i \in 1..l /\ i # l + 1
    BY <1>2, <1>6
  <2>2. CASE j = l + 1
    BY <1>2, <1>4, <2>1, <2>2
  <2>3. CASE j # l + 1
    <3>1. j \in 1..l
      BY <1>2, <2>3
    <3>2. pos[i] < pos[j]
      BY <1>3, <1>6, <2>1, <3>1 DEF Places, l
    <3>. QED  BY <1>2, <2>1, <2>3, <3>1, <3>2
  <2>. QED  BY <2>2, <2>3
<1>7. ASSUME NEW i \in 1..Len(u) PROVE u[i] = s[more[i]]
  <2>1. CASE i = l + 1
    BY <1>2, <2>1
  <2>2. CASE i # l + 1
    <3>1. i \in 1..l
      BY <1>2, <2>2
    <3>2. t[i] = s[pos[i]]
      BY <1>3, <3>1 DEF Places, l
    <3>. QED  BY <1>2, <2>2, <3>1, <3>2
  <2>. QED  BY <2>1, <2>2
<1>8. Places(u, s, more)
  BY <1>5, <1>6, <1>7 DEF Places
<1>9. ASSUME \A i \in 1..n : IsFrame(s[i]) PROVE u = SubSeq(s, 1, n)
  <2>1. 1..(n - 1) \subseteq 1..n /\ n - 1 \in 0..Len(s) /\ n \in 0..Len(s)
    OBVIOUS
  <2>2. t = SubSeq(s, 1, n - 1)
    BY <1>9, <2>1 DEF Picks
  <2>3. l = n - 1 /\ \A i \in 1..(n - 1) : t[i] = s[i]
    BY <2>1, <2>2, PrefixFacts DEF l
  <2>4. SubSeq(s, 1, n) \in Seq(Known) /\ Len(SubSeq(s, 1, n)) = n
        /\ \A i \in 1..n : SubSeq(s, 1, n)[i] = s[i]
    BY <2>1, PrefixFacts
  <2>5. Len(u) = n /\ \A i \in 1..n : u[i] = s[i]
    <3>1. Len(u) = n
      BY <1>2, <2>3
    <3>2. ASSUME NEW i \in 1..n PROVE u[i] = s[i]
      <4>1. CASE i = n
        BY <1>2, <2>3, <4>1
      <4>2. CASE i # n
        <5>1. i \in 1..(n - 1)
          BY <4>2
        <5>. QED  BY <1>2, <2>3, <5>1
      <4>. QED  BY <4>1, <4>2
    <3>. QED  BY <3>1, <3>2
  <2>6. u \in Seq(Known)
    BY <1>2, FramesKnown, SeqMonotonic
  <2>. QED  BY <2>4, <2>5, <2>6, SeqEqual
<1>10. ~ \A i \in 1..n : ~IsFrame(s[i])
  <2>1. n \in 1..n
    OBVIOUS
  <2>. QED  BY <2>1
<1>. HIDE DEF more
<1>11. ASSUME NEW i \in 1..n, IsFrame(s[i]) PROVE \E k \in 1..Len(u) : u[k] = s[i]
  <2>1. CASE i = n
    <3>1. l + 1 \in 1..Len(u)
      BY <1>2
    <3>. QED  BY <1>2, <2>1, <3>1
  <2>2. CASE i # n
    <3>1. i \in 1..(n - 1)
      BY <2>2
    <3>2. PICK k \in 1..l : t[k] = s[i]
      BY <1>11, <3>1 DEF Picks, l
    <3>3. k \in 1..Len(u)
      BY <1>2
    <3>. QED  BY <1>2, <3>2, <3>3
  <2>. QED  BY <2>1, <2>2
<1>. QED  BY <1>2, <1>5, <1>8, <1>9, <1>10, <1>11 DEF Picks, u

LEMMA FramesOfPicks ==
  ASSUME NEW s \in Seq(Known)
  PROVE  Picks(FramesOf(s), s, Len(s))
<1>1. PICK f : IsAmong(f, s, Len(s)) /\ FramesOf(s) = f[Len(s)]
  BY FramesOfIs
<1>2. Len(s) \in Nat
  OBVIOUS
<1>. DEFINE T == {n \in 0..Len(s) : ~Picks(f[n], s, n)}
<1>3. SUFFICES ASSUME T # {} PROVE FALSE
  BY <1>1, <1>2
<1>4. PICK n \in T : \A m \in T : n <= m
  <2>1. T \in SUBSET Nat
    BY <1>2
  <2>. HIDE DEF T
  <2>. QED  BY <1>3, <2>1, SmallestOf
<1>5. f[n] = IF n = 0 THEN << >>
             ELSE IF IsFrame(s[n]) THEN Append(f[n - 1], s[n]) ELSE f[n - 1]
  BY <1>1, <1>2 DEF IsAmong
<1>6. CASE n = 0
  BY <1>5, <1>6, PicksNone
<1>7. CASE n > 0
  <2>1. n \in 1..Len(s) /\ n - 1 \in 0..Len(s) /\ ~(n <= n - 1)
    BY <1>7
  <2>2. Picks(f[n - 1], s, n - 1)
    BY <1>4, <2>1
  <2>. QED  BY <1>5, <1>7, <2>1, <2>2, PicksSkip, PicksMore
<1>. QED  BY <1>6, <1>7

\* What FramesOf returns: the frames, all of them or none when the lines are.
LEMMA FramesOfFacts ==
  ASSUME NEW s \in Seq(Known)
  PROVE  /\ FramesOf(s) \in Seq(Frames)
         /\ \E pos : Places(FramesOf(s), s, pos)
         /\ (\A i \in 1..Len(s) : ~IsFrame(s[i])) => FramesOf(s) = << >>
         /\ (\A i \in 1..Len(s) : IsFrame(s[i])) => FramesOf(s) = s
         /\ \A i \in 1..Len(s) : IsFrame(s[i]) =>
              \E k \in 1..Len(FramesOf(s)) : FramesOf(s)[k] = s[i]
<1>1. Picks(FramesOf(s), s, Len(s))
  BY FramesOfPicks
<1>2. SubSeq(s, 1, Len(s)) = s
  OBVIOUS
<1>. QED  BY <1>1, <1>2 DEF Picks

-----------------------------------------------------------------------------
(* The commands of an operation.                                            *)

LEMMA IdFacts ==
  ASSUME NEW id \in Ids
  PROVE  id.num \in Nat /\ id.num # 0 /\ id # NoId
BY Bounds DEF Id, NoId

LEMMA StepType ==
  ASSUME NEW c \in AtCommands \cup {"payload"}, NEW n \in Needs
  PROVE  /\ Step(c, n) \in Steps /\ Step(c, n).cmd = c
         /\ Step(c, n).need = n /\ Step(c, n).id = NoId
BY DEF Step, Steps

\* The commands of initialise() after ATZ.
Settings ==
  {s \in Steps : /\ s.cmd \in AtCommands \ {"ATZ", "ATSH"} /\ s.id = NoId
                 /\ s.cmd \in Required => s.need = "ok"}

\* s starts with ATZ and goes on with them.
IsScript(s) ==
  /\ s \in Seq(Steps) /\ s # << >> /\ s[1].cmd = "ATZ" /\ s[1].id = NoId
  /\ \A i \in 2..Len(s) : s[i] \in Settings

Sets(s, c) == \E j \in 1..Len(s) : s[j].cmd = c

LEMMA ScriptGrows ==
  ASSUME NEW s, IsScript(s), NEW t \in Seq(Settings)
  PROVE  /\ IsScript(s \o t) /\ Len(s \o t) = Len(s) + Len(t)
         /\ \A c : Sets(s, c) \/ Sets(t, c) => Sets(s \o t, c)
<1>1. Settings \subseteq Steps
  BY DEF Settings
<1>2. s \in Seq(Steps) /\ t \in Seq(Steps)
  BY <1>1, SeqMonotonic DEF IsScript
<1>. DEFINE a == Len(s)
            b == Len(t)
            u == s \o t
<1>3. /\ u \in Seq(Steps) /\ Len(u) = a + b /\ a \in Nat /\ b \in Nat
      /\ \A i \in 1..a : u[i] = s[i]
      /\ \A i \in 1..b : u[a + i] = t[i]
  BY <1>2, ConcatFacts
<1>4. \A i \in 1..b : t[i] \in Settings
  BY ElementOfSeq
<1>5. a > 0
  BY <1>2 DEF IsScript
<1>. HIDE DEF u, a, b
<1>6. u # << >> /\ u[1] = s[1]
  <2>1. Len(u) > 0 /\ 1 \in 1..a
    BY <1>3, <1>5
  <2>. QED  BY <1>3, <2>1
<1>7. ASSUME NEW i \in 2..Len(u) PROVE u[i] \in Settings
  <2>1. i \in 1..(a + b)
    BY <1>3
  <2>2. CASE i \in 1..a
    BY <1>3, <2>2 DEF IsScript, a
  <2>3. CASE \E k \in 1..b : i = a + k
    BY <1>3, <1>4, <2>3
  <2>. QED  BY <1>3, <2>1, <2>2, <2>3, TwoParts
<1>8. IsScript(u)
  BY <1>3, <1>6, <1>7 DEF IsScript
<1>9. ASSUME NEW c, Sets(s, c) \/ Sets(t, c) PROVE Sets(u, c)
  <2>1. CASE Sets(s, c)
    <3>1. PICK j \in 1..a : s[j].cmd = c
      BY <2>1 DEF Sets, a
    <3>2. u[j].cmd = c /\ j \in 1..Len(u)
      BY <1>3, <3>1
    <3>. QED  BY <3>2 DEF Sets
  <2>2. CASE Sets(t, c)
    <3>1. PICK j \in 1..b : t[j].cmd = c
      BY <2>2 DEF Sets, b
    <3>2. u[a + j].cmd = c /\ a + j \in 1..Len(u)
      BY <1>3, <3>1
    <3>. QED  BY <3>2 DEF Sets
  <2>. QED  BY <1>9, <2>1, <2>2
<1>. QED  BY <1>3, <1>8, <1>9 DEF u, a, b

LEMMA SettingType ==
  ASSUME NEW c \in {"ATE0", "ATL0", "ATS1", "ATH1", "ATAT1", "ATSP", "ATCAF0"},
         NEW n \in Needs, c \in {"ATE0", "ATH1", "ATSP", "ATCAF0"} => n = "ok"
  PROVE  /\ Step(c, n) \in Settings /\ Step(c, n).cmd = c
         /\ \A p : /\ If(p, <<Step(c, n)>>) \in Seq(Settings)
                   /\ Len(If(p, <<Step(c, n)>>)) \in 0..1
                   /\ p => Sets(If(p, <<Step(c, n)>>), c)
<1>1. c \in AtCommands \ {"ATZ", "ATSH"}
  BY DEF AtCommands
<1>2. Step(c, n) \in Steps /\ Step(c, n).cmd = c /\ Step(c, n).need = n /\ Step(c, n).id = NoId
  BY <1>1, StepType
<1>3. c \in Required => n = "ok"
  BY DEF Required
<1>4. Step(c, n) \in Settings
  BY <1>1, <1>2, <1>3 DEF Settings
<1>5. Sets(<<Step(c, n)>>, c)
  BY <1>2 DEF Sets
<1>6. <<Step(c, n)>> \in Seq(Settings) /\ << >> \in Seq(Settings)
  BY <1>4
<1>. QED  BY <1>2, <1>4, <1>5, <1>6 DEF If

LEMMA InitScriptFacts ==
  /\ IsScript(InitScript) /\ Len(InitScript) \in Nat /\ Len(InitScript) <= 8
  /\ \A c \in Required : Sets(InitScript, c)
<1>. DEFINE s0 == <<Step("ATZ", "reply"), Step("ATE0", "ok"), Step("ATL0", "ignored"),
                    Step("ATS1", "reply")>>
            a == If(HeadersOn, <<Step("ATH1", "ok")>>)
            b == If(AdaptiveTiming, <<Step("ATAT1", "ignored")>>)
            c == <<Step("ATSP", "ok")>>
            d == If(~AutoFormat, <<Step("ATCAF0", "ok")>>)
<1>1. IsScript(s0) /\ Len(s0) = 4 /\ Sets(s0, "ATE0")
  <2>1. Step("ATZ", "reply") \in Steps /\ Step("ATZ", "reply").cmd = "ATZ"
        /\ Step("ATZ", "reply").id = NoId
    BY StepType DEF AtCommands, Needs
  <2>2. /\ Step("ATE0", "ok") \in Settings /\ Step("ATL0", "ignored") \in Settings
        /\ Step("ATS1", "reply") \in Settings /\ Step("ATE0", "ok").cmd = "ATE0"
    BY SettingType DEF Needs
  <2>3. Settings \subseteq Steps
    BY DEF Settings
  <2>4. s0 \in Seq(Steps) /\ Len(s0) = 4 /\ s0 # << >>
    BY <2>1, <2>2, <2>3
  <2>5. \A i \in 2..4 : s0[i] \in Settings
    BY <2>2
  <2>6. s0[1].cmd = "ATZ" /\ s0[1].id = NoId /\ s0[2].cmd = "ATE0"
    BY <2>1, <2>2
  <2>. HIDE DEF s0
  <2>. QED  BY <2>4, <2>5, <2>6 DEF IsScript, Sets
<1>2. a \in Seq(Settings) /\ Len(a) \in 0..1 /\ (HeadersOn => Sets(a, "ATH1"))
  BY SettingType DEF Needs
<1>3. b \in Seq(Settings) /\ Len(b) \in 0..1
  BY SettingType DEF Needs
<1>4. c \in Seq(Settings) /\ Len(c) = 1 /\ Sets(c, "ATSP")
  <2>1. Step("ATSP", "ok") \in Settings /\ Step("ATSP", "ok").cmd = "ATSP"
    BY SettingType DEF Needs
  <2>. QED  BY <2>1 DEF Sets
<1>5. d \in Seq(Settings) /\ Len(d) \in 0..1 /\ (~AutoFormat => Sets(d, "ATCAF0"))
  BY SettingType DEF Needs
<1>6. InitScript = (((s0 \o a) \o b) \o c) \o d
  BY DEF InitScript
<1>. HIDE DEF s0, a, b, c, d
<1>. DEFINE s1 == s0 \o a
            s2 == s1 \o b
            s3 == s2 \o c
            s4 == s3 \o d
<1>7. /\ IsScript(s1) /\ Len(s1) = 4 + Len(a)
      /\ \A x : Sets(s0, x) \/ Sets(a, x) => Sets(s1, x)
  BY <1>1, <1>2, ScriptGrows
<1>. HIDE DEF s1
<1>8. /\ IsScript(s2) /\ Len(s2) = Len(s1) + Len(b)
      /\ \A x : Sets(s1, x) \/ Sets(b, x) => Sets(s2, x)
  BY <1>3, <1>7, ScriptGrows
<1>. HIDE DEF s2
<1>9. /\ IsScript(s3) /\ Len(s3) = Len(s2) + 1
      /\ \A x : Sets(s2, x) \/ Sets(c, x) => Sets(s3, x)
  BY <1>4, <1>8, ScriptGrows
<1>. HIDE DEF s3
<1>10. /\ IsScript(s4) /\ Len(s4) = Len(s3) + Len(d)
       /\ \A x : Sets(s3, x) \/ Sets(d, x) => Sets(s4, x)
  BY <1>5, <1>9, ScriptGrows
<1>11. InitScript = s4
  BY <1>6 DEF s1, s2, s3
<1>. HIDE DEF s4
<1>12. Len(s4) \in Nat /\ Len(s4) <= 8
  <2>1. PICK l \in 0..1, m \in 0..1, n \in 0..1 : l = Len(a) /\ m = Len(b) /\ n = Len(d)
    BY <1>2, <1>3, <1>5
  <2>2. Len(s1) = 4 + l /\ Len(s2) = Len(s1) + m /\ Len(s3) = Len(s2) + 1
        /\ Len(s4) = Len(s3) + n
    BY <1>7, <1>8, <1>9, <1>10, <2>1
  <2>. QED  BY <2>2
<1>13. \A x \in Required : Sets(s4, x)
  BY <1>1, <1>2, <1>4, <1>5, <1>7, <1>8, <1>9, <1>10 DEF Required
<1>. QED  BY <1>10, <1>11, <1>12, <1>13

\* What write() gives: the header if it must, and the payload.
LEMMA TwoSteps ==
  ASSUME NEW x \in Steps, NEW y \in Steps
  PROVE  /\ <<x>> \o <<y>> \in Seq(Steps) /\ Len(<<x>> \o <<y>>) = 2
         /\ (<<x>> \o <<y>>)[1] = x /\ (<<x>> \o <<y>>)[2] = y
         /\ << >> \o <<y>> = <<y>>
<1>. DEFINE s == <<x>>
            t == <<y>>
<1>1. s \in Seq(Steps) /\ t \in Seq(Steps) /\ Len(s) = 1 /\ Len(t) = 1 /\ s[1] = x /\ t[1] = y
  OBVIOUS
<1>. HIDE DEF s, t
<1>2. /\ s \o t \in Seq(Steps) /\ Len(s \o t) = Len(s) + Len(t)
      /\ \A i \in 1..Len(s) : (s \o t)[i] = s[i]
      /\ \A i \in 1..Len(t) : (s \o t)[Len(s) + i] = t[i]
  BY <1>1, ConcatFacts
<1>3. (s \o t)[1] = x /\ (s \o t)[1 + 1] = y /\ Len(s \o t) = 2
  BY <1>1, <1>2
<1>4. << >> \o t = t
  BY <1>1, ConcatEmptySeq
<1>. QED  BY <1>2, <1>3, <1>4 DEF s, t

Header(id)  == [Step("ATSH", "ok") EXCEPT !.id = id]
Payload(id) == [Step("payload", "reply") EXCEPT !.id = id]

LEMMA HeaderPayload ==
  ASSUME NEW id \in Ids
  PROVE  /\ Header(id) \in Steps /\ Header(id).cmd = "ATSH" /\ Header(id).id = id
         /\ Header(id).need = "ok"
         /\ Payload(id) \in Steps /\ Payload(id).cmd = "payload" /\ Payload(id).id = id
BY DEF Header, Payload, Step, Steps, AtCommands, Needs

LEMMA WriteScript ==
  ASSUME NEW id \in Ids, NEW s, s = If(NeedsHeader(id), <<Header(id)>>) \o <<Payload(id)>>
  PROVE  /\ s \in Seq(Steps) /\ s # << >> /\ Len(s) \in 1..2
         /\ \A i \in 1..Len(s) : s[i].cmd \in {"ATSH", "payload"} /\ s[i].id \in Ids
         /\ NeedsHeader(id) => Len(s) = 2 /\ s[1] = Header(id) /\ s[2] = Payload(id)
         /\ ~NeedsHeader(id) => s = <<Payload(id)>>
<1>. DEFINE h == Header(id)
            y == Payload(id)
<1>1. /\ h \in Steps /\ h.cmd = "ATSH" /\ h.id = id
      /\ y \in Steps /\ y.cmd = "payload" /\ y.id = id
  BY HeaderPayload
<1>2. s = If(NeedsHeader(id), <<h>>) \o <<y>>
  OBVIOUS
<1>. HIDE DEF h, y
<1>3. CASE NeedsHeader(id)
  <2>1. s = <<h>> \o <<y>>
    BY <1>2, <1>3 DEF If
  <2>2. s \in Seq(Steps) /\ Len(s) = 2 /\ s[1] = h /\ s[2] = y
    <3>1. /\ <<h>> \o <<y>> \in Seq(Steps) /\ Len(<<h>> \o <<y>>) = 2
          /\ (<<h>> \o <<y>>)[1] = h /\ (<<h>> \o <<y>>)[2] = y
      BY <1>1, TwoSteps
    <3>. QED  BY ONLY <2>1, <3>1
  <2>3. \A i \in 1..Len(s) : i = 1 \/ i = 2
    BY <2>2
  <2>4. \A i \in 1..Len(s) : s[i].cmd \in {"ATSH", "payload"} /\ s[i].id \in Ids
    BY <1>1, <2>2, <2>3
  <2>5. s # << >> /\ Len(s) \in 1..2
    BY <2>2
  <2>. QED  BY <1>3, <2>2, <2>4, <2>5 DEF h, y
<1>4. CASE ~NeedsHeader(id)
  <2>1. s = << >> \o <<y>>
    BY <1>2, <1>4 DEF If
  <2>2. s = <<y>>
    BY <1>1, <2>1, TwoSteps
  <2>3. s \in Seq(Steps) /\ Len(s) = 1 /\ s[1] = y
    <3>1. <<y>> \in Seq(Steps) /\ Len(<<y>>) = 1 /\ <<y>>[1] = y
      BY <1>1
    <3>. QED  BY ONLY <2>2, <3>1
  <2>4. \A i \in 1..Len(s) : i = 1
    BY <2>3
  <2>5. \A i \in 1..Len(s) : s[i].cmd \in {"ATSH", "payload"} /\ s[i].id \in Ids
    BY <1>1, <2>3, <2>4
  <2>6. s # << >> /\ Len(s) \in 1..2
    BY <2>3
  <2>. QED  BY <1>4, <2>2, <2>3, <2>5, <2>6 DEF h, y
<1>. QED  BY <1>3, <1>4

-----------------------------------------------------------------------------
(* Types: the operations.                                                   *)

\* An operation that gives commands starts.
LEMMA Begins ==
  ASSUME EType, NEW name, Starts(name), op' = name, name \in OpNames \ {"read"},
         todo' \in Seq(Steps), todo' # << >>, Len(todo') <= 9,
         \A i \in 1..Len(todo') : IF name = "write"
                                  THEN todo'[i].cmd \in {"ATSH", "payload"} /\ todo'[i].id \in Ids
                                  ELSE todo'[i].cmd # "payload",
         UNCHANGED <<waiting, given, fragment>>
  PROVE  CallerType'
<1>1. /\ op = "idle" /\ ~waiting /\ todo = << >> /\ given + Len(todo) <= 9 * ops
      /\ ops \in 0..MaxOps /\ ops < MaxOps /\ given \in Nat /\ name \in Ops
      /\ ops' = ops + 1
      /\ fragment \in {"none", "AT", "payload"} /\ waiting \in BOOLEAN
  BY DEF EType, CallerType, Due, Starts
<1>2. ops' \in 0..MaxOps
  BY <1>1, Bounds
<1>3. given' + Due' <= 9 * ops'
  <2>1. Due' = Len(todo')
    BY <1>1 DEF Due
  <2>2. Len(todo') \in Nat /\ Len(todo) = 0
    BY <1>1
  <2>3. PICK l \in Nat : l = Len(todo')
    BY <2>2
  <2>. QED  BY <1>1, <2>1, <2>2, <2>3
<1>4. name \notin {"idle", "read"}
  BY DEF OpNames
<1>5. (\A i \in 1..Len(todo) : StepFits(todo[i]))'
  BY DEF StepFits
<1>. QED  BY <1>1, <1>2, <1>3, <1>4, <1>5 DEF CallerType

\* One that is over at once.
LEMMA Immediate ==
  ASSUME EType, NEW name, Starts(name), UNCHANGED <<op, todo, waiting, given, fragment>>
  PROVE  CallerType'
<1>1. /\ op = "idle" /\ given + Due <= 9 * ops
      /\ ops \in 0..MaxOps /\ ops < MaxOps /\ given \in Nat
      /\ ops' = ops + 1 /\ Due \in Nat
  BY DEF EType, CallerType, Due, Starts
<1>2. ops' \in 0..MaxOps
  BY <1>1, Bounds
<1>3. given' + Due' <= 9 * ops'
  <2>1. Due' = Due
    BY DEF Due
  <2>2. PICK d \in Nat : d = Due
    BY <1>1
  <2>. QED  BY <1>1, <2>1, <2>2
<1>4. (\A i \in 1..Len(todo) : StepFits(todo[i]))'
  BY DEF StepFits, EType, CallerType
<1>. QED  BY <1>1, <1>2, <1>3, <1>4 DEF CallerType, EType

\* Nothing of the caller changes.
LEMMA CallerSame == ASSUME CallerType, UNCHANGED caller PROVE CallerType'
BY DEF CallerType, caller, StepFits, Due

LEMMA DeviceSame == ASSUME DeviceType, UNCHANGED <<device, taken, failures>> PROVE DeviceType'
BY DEF DeviceType, device

LEMMA TakenType ==
  ASSUME EType, taken' = taken \o rx_queue_, UNCHANGED <<device, failures>>
  PROVE  DeviceType'
<1>1. taken' \in Seq(Frames)
  BY ConcatFacts DEF EType, ChannelType, DeviceType
<1>. QED  BY <1>1 DEF EType, DeviceType, device

LEMMA ScriptSteps ==
  ASSUME NEW s, IsScript(s)
  PROVE  \A i \in 1..Len(s) : s[i] \in Steps /\ s[i].cmd # "payload" /\ s[i].id = NoId
                              /\ (i # 1 => s[i] \in Settings)
<1>1. ASSUME NEW i \in 1..Len(s) PROVE s[i] \in Steps
  BY <1>1, ElementOfSeq DEF IsScript
<1>2. "payload" \notin AtCommands /\ "ATZ" # "payload"
  BY DEF AtCommands
<1>3. ASSUME NEW i \in 1..Len(s), i # 1 PROVE s[i] \in Settings
  <2>1. i \in 2..Len(s)
    BY <1>3
  <2>. QED  BY <2>1 DEF IsScript
<1>4. ASSUME NEW i \in 1..Len(s) PROVE s[i].cmd # "payload" /\ s[i].id = NoId
  BY <1>2, <1>3 DEF IsScript, Settings
<1>. QED  BY <1>1, <1>3, <1>4

LEMMA InitialiseTyped == ASSUME EType, Initialise PROVE EType'
<1>1. PICK name \in {"open", "initialise"} : Starts(name) /\ op' = name
  BY DEF Initialise
<1>2. /\ todo' = InitScript /\ stream' = << >> /\ rx_accum_' = << >> /\ rx_queue_' = << >>
      /\ taken' = taken \o rx_queue_ /\ header_set_' = FALSE
      /\ UNCHANGED <<waiting, given, fragment, open_, tx_header_, last_error_, to_adapter, adapter,
                     sent, emitted, failures>>
  BY DEF Initialise
<1>3. CallerType'
  <2>1. /\ InitScript \in Seq(Steps) /\ InitScript # << >> /\ Len(InitScript) <= 9
        /\ \A i \in 1..Len(InitScript) : InitScript[i].cmd # "payload"
    <3>1. IsScript(InitScript) /\ Len(InitScript) \in Nat /\ Len(InitScript) <= 8
      BY InitScriptFacts
    <3>2. PICK l \in Nat : l = Len(InitScript) /\ l <= 8
      BY <3>1
    <3>3. Len(InitScript) <= 9
      BY <3>2
    <3>. QED  BY <3>1, <3>3, ScriptSteps DEF IsScript
  <2>2. name \in OpNames \ {"read"} /\ name # "write"
    BY DEF OpNames
  <2>. QED  BY <1>1, <1>2, <2>1, <2>2, Begins
<1>4. ChannelType'
  <2>1. rx_accum_' \in Seq(Known) /\ rx_queue_' \in Seq(Frames)
    <3>1. << >> \in Seq(Known) /\ << >> \in Seq(Frames)
      OBVIOUS
    <3>. QED  BY <1>2, <3>1
  <2>2. header_set_' \in BOOLEAN /\ ~header_set_'
    BY <1>2
  <2>3. UNCHANGED <<open_, tx_header_, last_error_>>
    BY <1>2
  <2>. QED  BY <2>1, <2>2, <2>3 DEF EType, ChannelType, Flags
<1>5. DeviceType'
  <2>1. taken' \in Seq(Frames)
    BY <1>2, ConcatFacts DEF EType, ChannelType, DeviceType
  <2>. QED  BY <1>2, <2>1 DEF EType, DeviceType
<1>. QED  BY <1>3, <1>4, <1>5 DEF EType

LEMMA RefusedTyped ==
  ASSUME EType, OpenRefused \/ InitialiseRefused \/ WriteClosed
  PROVE  EType'
<1>1. /\ \E name : Starts(name)
      /\ UNCHANGED <<op, todo, waiting, given, fragment, header_set_, tx_header_, rx_accum_,
                     rx_queue_, device, taken, failures>>
      /\ open_' \in {FALSE, open_} /\ last_error_' \in {TRUE, last_error_}
  BY DEF OpenRefused, InitialiseRefused, WriteClosed, channel
<1>2. CallerType'
  BY <1>1, Immediate
<1>3. ChannelType'
  BY <1>1 DEF EType, ChannelType, Flags
<1>. QED  BY <1>1, <1>2, <1>3, DeviceSame DEF EType

LEMMA WriteTyped == ASSUME EType, Write PROVE EType'
<1>1. PICK id \in Ids :
        todo' = If(NeedsHeader(id), <<Header(id)>>) \o <<Payload(id)>>
  BY DEF Write, Header, Payload
<1>2. Starts("write") /\ op' = "write"
      /\ UNCHANGED <<waiting, given, fragment, channel, device, taken, failures>>
  BY DEF Write
<1>3. /\ todo' \in Seq(Steps) /\ todo' # << >> /\ Len(todo') \in 1..2
      /\ \A i \in 1..Len(todo') : todo'[i].cmd \in {"ATSH", "payload"} /\ todo'[i].id \in Ids
  BY <1>1, WriteScript
<1>4. CallerType'
  <2>1. todo' # << >> /\ Len(todo') <= 9 /\ "write" \in OpNames \ {"read"}
    BY <1>3 DEF OpNames
  <2>. QED  BY <1>2, <1>3, <2>1, Begins
<1>. QED  BY <1>2, <1>4, DeviceSame DEF EType, ChannelType, Flags, channel

LEMMA WriteEmptyTyped == ASSUME EType, WriteEmpty PROVE EType'
<1>1. PICK id \in Ids :
        /\ todo' = If(NeedsHeader(id), <<Header(id)>>)
        /\ op' = IF NeedsHeader(id) THEN "write" ELSE "idle"
  BY DEF WriteEmpty, Header
<1>2. Starts("write") /\ last_error_' = TRUE
      /\ UNCHANGED <<waiting, given, fragment, open_, header_set_, tx_header_, rx_accum_,
                 rx_queue_, device, taken, failures>>
  BY DEF WriteEmpty
<1>3. CallerType'
  <2>1. CASE NeedsHeader(id)
    <3>. DEFINE h == Header(id)
    <3>1. h \in Steps /\ h.cmd = "ATSH" /\ h.id = id
      BY HeaderPayload
    <3>2. todo' = <<h>> /\ op' = "write"
      BY <1>1, <2>1 DEF If
    <3>. HIDE DEF h
    <3>3. /\ todo' \in Seq(Steps) /\ Len(todo') = 1 /\ todo' # << >>
          /\ \A i \in 1..Len(todo') : todo'[i].cmd \in {"ATSH", "payload"} /\ todo'[i].id \in Ids
      BY <3>1, <3>2
    <3>4. "write" \in OpNames \ {"read"} /\ Len(todo') <= 9
      BY <3>3 DEF OpNames
    <3>. QED  BY <1>2, <3>2, <3>3, <3>4, Begins
  <2>2. CASE ~NeedsHeader(id)
    <3>1. UNCHANGED <<op, todo>>
      BY <1>1, <1>2, <2>2 DEF If, EType, CallerType, Starts
    <3>. QED  BY <1>2, <3>1, Immediate
  <2>. QED  BY <2>1, <2>2
<1>. QED  BY <1>2, <1>3, DeviceSame DEF EType, ChannelType, Flags

LEMMA ReadQueuedTyped == ASSUME EType, ReadQueued PROVE EType'
<1>1. /\ Starts("read") /\ taken' = taken \o rx_queue_ /\ rx_queue_' = << >>
      /\ UNCHANGED <<op, todo, waiting, given, fragment, open_, header_set_, tx_header_, rx_accum_,
                     last_error_, device, failures>>
  BY DEF ReadQueued, AfterRead
<1>. QED  BY <1>1, Immediate, TakenType DEF EType, ChannelType, Flags

LEMMA ReadWaitsTyped == ASSUME EType, ReadWaits PROVE EType'
<1>1. /\ Starts("read") /\ op' = "read" /\ waiting' = TRUE
      /\ UNCHANGED <<todo, given, fragment, channel, device, taken, failures>>
  BY DEF ReadWaits
<1>2. CallerType'
  <2>1. /\ op = "idle" /\ todo = << >> /\ given + Len(todo) <= 9 * ops
        /\ ops \in 0..MaxOps /\ ops < MaxOps /\ given \in Nat /\ "read" \in Ops
        /\ ops' = ops + 1 /\ fragment \in {"none", "AT", "payload"}
    BY <1>1 DEF EType, CallerType, Due, Starts
  <2>2. given' + Due' <= 9 * ops'
    BY <1>1, <2>1 DEF Due
  <2>3. ops' \in 0..MaxOps
    BY <2>1, Bounds
  <2>. QED  BY <1>1, <2>1, <2>2, <2>3, Bounds DEF CallerType, StepFits
<1>. QED  BY <1>1, <1>2, DeviceSame DEF EType, ChannelType, Flags, channel

\* A single command, and the two of a mask.
LEMMA OneStep ==
  ASSUME NEW x \in Steps, x.cmd # "payload"
  PROVE  /\ <<x>> \in Seq(Steps) /\ <<x>> # << >> /\ Len(<<x>>) <= 9
         /\ \A i \in 1..Len(<<x>>) : <<x>>[i].cmd # "payload"
OBVIOUS

LEMMA PairOfSteps ==
  ASSUME NEW x \in Steps, NEW y \in Steps, x.cmd # "payload", y.cmd # "payload"
  PROVE  /\ <<x, y>> \in Seq(Steps) /\ <<x, y>> # << >> /\ Len(<<x, y>>) <= 9
         /\ \A i \in 1..Len(<<x, y>>) : <<x, y>>[i].cmd # "payload"
OBVIOUS

LEMMA AtStep ==
  ASSUME NEW c \in AtCommands, NEW n \in Needs
  PROVE  Step(c, n) \in Steps /\ Step(c, n).cmd # "payload"
BY StepType DEF AtCommands

\* The operations that give such commands.
LEMMA GivesTyped ==
  ASSUME EType, NEW name, Starts(name), op' = name, name \in OpNames \ {"read", "write"},
         todo' \in Seq(Steps), todo' # << >>, Len(todo') <= 9,
         \A i \in 1..Len(todo') : todo'[i].cmd # "payload",
         UNCHANGED <<waiting, given, fragment, channel, device, taken, failures>>
  PROVE  EType'
<1>1. CallerType'
  BY Begins
<1>. QED  BY <1>1, DeviceSame DEF EType, ChannelType, Flags, channel

LEMMA SetFilterTyped == ASSUME EType, SetFilter PROVE EType'
<1>1. UNCHANGED <<waiting, given, fragment, channel, device, taken, failures>>
  BY DEF SetFilter
<1>2. /\ Step("ATCRA", "ignored") \in Steps /\ Step("ATCRA", "ignored").cmd # "payload"
      /\ Step("ATCM", "ignored") \in Steps /\ Step("ATCM", "ignored").cmd # "payload"
      /\ Step("ATCF", "ignored") \in Steps /\ Step("ATCF", "ignored").cmd # "payload"
  BY AtStep DEF AtCommands, Needs
<1>3. PICK name \in {"filter", "mask", "clear"} :
        /\ Starts(name) /\ op' = name
        /\ \/ todo' = <<Step("ATCRA", "ignored")>>
           \/ todo' = <<Step("ATCM", "ignored"), Step("ATCF", "ignored")>>
  BY DEF SetFilter
<1>4. name \in OpNames \ {"read", "write"}
  BY DEF OpNames
<1>5. /\ todo' \in Seq(Steps) /\ todo' # << >> /\ Len(todo') <= 9
      /\ \A i \in 1..Len(todo') : todo'[i].cmd # "payload"
  <2>1. CASE todo' = <<Step("ATCRA", "ignored")>>
    BY <1>2, <2>1, OneStep
  <2>2. CASE todo' = <<Step("ATCM", "ignored"), Step("ATCF", "ignored")>>
    BY <1>2, <2>2, PairOfSteps
  <2>. QED  BY <1>3, <2>1, <2>2
<1>. QED  BY <1>1, <1>3, <1>4, <1>5, GivesTyped

LEMMA CloseTyped == ASSUME EType, Close PROVE EType'
<1>1. /\ Starts("close") /\ op' = "close" /\ todo' = <<Step("ATPC", "ignored")>>
      /\ UNCHANGED <<waiting, given, fragment, channel, device, taken, failures>>
  BY DEF Close
<1>2. Step("ATPC", "ignored") \in Steps /\ Step("ATPC", "ignored").cmd # "payload"
  BY AtStep DEF AtCommands, Needs
<1>3. "close" \in OpNames \ {"read", "write"}
  BY DEF OpNames
<1>. QED  BY <1>1, <1>2, <1>3, OneStep, GivesTyped

LEMMA CommandTyped == ASSUME EType, Command PROVE EType'
<1>1. PICK c \in UserCommands : todo' = <<Step(c, "reply")>>
  BY DEF Command
<1>2. /\ Starts("command") /\ op' = "command"
      /\ UNCHANGED <<waiting, given, fragment, channel, device, taken, failures>>
  BY DEF Command
<1>3. Step(c, "reply") \in Steps /\ Step(c, "reply").cmd # "payload"
  <2>1. c \in AtCommands /\ "reply" \in Needs
    BY Bounds DEF Needs
  <2>. QED  BY <2>1, AtStep
<1>4. "command" \in OpNames \ {"read", "write"}
  BY DEF OpNames
<1>. QED  BY <1>1, <1>2, <1>3, <1>4, OneStep, GivesTyped

LEMMA CloseClosedTyped == ASSUME EType, CloseClosed PROVE EType'
<1>1. /\ Starts("close") /\ rx_accum_' = << >> /\ rx_queue_' = << >> /\ header_set_' = FALSE
      /\ taken' = taken \o rx_queue_
      /\ UNCHANGED <<op, todo, waiting, given, fragment, open_, tx_header_, last_error_, device,
                     failures>>
  BY DEF CloseClosed
<1>2. ChannelType'
  <2>1. rx_accum_' \in Seq(Known) /\ rx_queue_' \in Seq(Frames)
    <3>1. << >> \in Seq(Known) /\ << >> \in Seq(Frames)
      OBVIOUS
    <3>. QED  BY <1>1, <3>1
  <2>2. header_set_' \in BOOLEAN /\ ~header_set_' /\ UNCHANGED <<open_, tx_header_, last_error_>>
    BY <1>1
  <2>. QED  BY <2>1, <2>2 DEF EType, ChannelType, Flags
<1>3. CallerType'
  BY <1>1, Immediate
<1>4. DeviceType'
  BY <1>1, TakenType
<1>. QED  BY <1>2, <1>3, <1>4 DEF EType

-----------------------------------------------------------------------------
(* Types: a command and its answer.                                         *)

LEMMA CallerFacts ==
  ASSUME EType, todo # << >>
  PROVE  /\ todo \in Seq(Steps) /\ Tail(todo) \in Seq(Steps)
         /\ Len(todo) \in Nat /\ Len(todo) > 0 /\ Len(Tail(todo)) = Len(todo) - 1
         /\ Head(todo) = todo[1] /\ Head(todo) \in Steps /\ StepFits(Head(todo))
         /\ \A i \in 1..Len(Tail(todo)) : Tail(todo)[i] = todo[i + 1] /\ StepFits(Tail(todo)[i])
         /\ op \in Ops /\ op \notin {"idle", "read"} /\ waiting \in BOOLEAN
<1>1. todo \in Seq(Steps) /\ op \notin {"idle", "read"} /\ op \in Ops /\ waiting \in BOOLEAN
      /\ \A i \in 1..Len(todo) : StepFits(todo[i])
  BY DEF EType, CallerType
<1>2. /\ Tail(todo) \in Seq(Steps) /\ Len(todo) \in Nat /\ Len(todo) > 0
      /\ Len(Tail(todo)) = Len(todo) - 1
      /\ Head(todo) = todo[1] /\ Head(todo) \in Steps
      /\ \A i \in 1..Len(Tail(todo)) : Tail(todo)[i] = todo[i + 1]
  BY <1>1, TailFacts
<1>3. StepFits(Head(todo))
  <2>1. 1 \in 1..Len(todo)
    BY <1>2
  <2>. QED  BY <1>1, <1>2, <2>1
<1>4. ASSUME NEW i \in 1..Len(Tail(todo)) PROVE StepFits(Tail(todo)[i])
  <2>1. i + 1 \in 1..Len(todo)
    BY <1>2
  <2>. QED  BY <1>1, <1>2, <2>1
<1>. QED  BY <1>1, <1>2, <1>3, <1>4

LEMMA SendRawTyped == ASSUME EType, SendRaw PROVE EType'
<1>1. /\ todo # << >> /\ ~waiting
      /\ given' = given + 1 /\ waiting' = TRUE /\ fragment' = "none"
      /\ to_adapter' = Append(to_adapter, [step |-> Head(todo), cmd |-> given + 1,
                                           text |-> Text(Head(todo).cmd)])
      /\ UNCHANGED <<op, todo, ops, channel, stream, adapter, sent, emitted, taken, failures>>
  BY DEF SendRaw
<1>. DEFINE r == [step |-> Head(todo), cmd |-> given + 1, text |-> Text(Head(todo).cmd)]
<1>2. /\ given \in Nat /\ given + Len(todo) <= 9 * ops /\ ops \in 0..MaxOps /\ MaxOps \in Nat
      /\ Len(todo) \in Nat /\ Len(todo) > 0
  BY <1>1, CallerFacts, Bounds DEF EType, CallerType, Due
<1>3. given + 1 \in 1..(9 * MaxOps)
  <2>1. PICK l \in Nat : l = Len(todo) /\ l > 0
    BY <1>2
  <2>2. given + l <= 9 * ops
    BY <1>2, <2>1
  <2>3. 9 * ops <= 9 * MaxOps
    BY <1>2
  <2>. QED  BY <1>2, <2>1, <2>2, <2>3
<1>4. Text(Head(todo).cmd) \in Texts
  BY DEF Text, Texts
<1>5. Head(todo) \in Steps /\ StepFits(Head(todo))
  BY <1>1, CallerFacts
<1>6. r \in Requests
  <2>. HIDE DEF Requests
  <2>1. r \in [step: Steps, cmd: 1..(9 * MaxOps), text: Texts]
    BY <1>3, <1>4, <1>5
  <2>2. r.step.cmd = "payload" => r.step.id \in Ids
    BY <1>5 DEF StepFits
  <2>. QED  BY <2>1, <2>2 DEF Requests
<1>7. to_adapter' \in Seq(Requests)
  <2>. HIDE DEF r
  <2>1. to_adapter' = Append(to_adapter, r) /\ to_adapter \in Seq(Requests)
    BY <1>1 DEF r, EType, DeviceType
  <2>. QED  BY <1>6, <2>1, AppendFacts
<1>8. CallerType'
  <2>1. given' \in Nat /\ given' + Due' <= 9 * ops'
    <3>1. PICK l \in Nat : l = Len(todo)
      BY <1>2
    <3>2. Due' = l - 1
      BY <1>1, <3>1 DEF Due
    <3>. QED  BY <1>1, <1>2, <3>1, <3>2
  <2>2. (\A i \in 1..Len(todo) : StepFits(todo[i]))'
    BY <1>1 DEF StepFits, EType, CallerType
  <2>3. op' \notin {"idle", "read"} /\ waiting' \in BOOLEAN
    BY <1>1, CallerFacts
  <2>. QED  BY <1>1, <2>1, <2>2, <2>3 DEF EType, CallerType
<1>9. ChannelType'
  BY <1>1 DEF EType, ChannelType, Flags, channel
<1>10. DeviceType'
  BY <1>1, <1>7 DEF EType, DeviceType
<1>. QED  BY <1>8, <1>9, <1>10 DEF EType

\* The command that is due is over: on to the next one.
LEMMA DoneTyped ==
  ASSUME EType, todo # << >>, StepDone, UNCHANGED <<given, ops>>,
         fragment' \in {"none", "AT", "payload"}
  PROVE  CallerType' /\ Flags'
<1>1. /\ todo' = Tail(todo) /\ waiting' = FALSE
      /\ op' = IF Tail(todo) = << >> THEN "idle" ELSE op
      /\ tx_header_' = Programmed
      /\ header_set_' = (SetsHeader \/ (header_set_ /\ op # "close"))
      /\ IF op \in {"open", "initialise"} /\ Tail(todo) = << >>
         THEN open_' = TRUE /\ last_error_' = FALSE
         ELSE open_' = (open_ /\ op # "close") /\ last_error_' = last_error_
  BY DEF StepDone
<1>2. CallerType'
  <2>1. (\A i \in 1..Len(todo) : StepFits(todo[i]))'
    <3>1. CASE Tail(todo) = << >>
      <4>1. \A s : s = << >> => Len(s) = 0
        OBVIOUS
      <4>2. Len(todo') = 0
        BY <1>1, <3>1, <4>1
      <4>. QED  BY <4>2
    <3>2. CASE Tail(todo) # << >>
      <4>1. op' = op
        BY <1>1, <3>2
      <4>. QED  BY <1>1, <4>1, CallerFacts DEF StepFits
    <3>. QED  BY <3>1, <3>2
  <2>2. given' + Due' <= 9 * ops'
    <3>1. Due \in {Len(todo), Len(todo) - 1} /\ Due' = Len(todo) - 1 /\ Len(todo) \in Nat
      BY <1>1, CallerFacts DEF Due
    <3>2. given + Due <= 9 * ops /\ given \in Nat /\ ops \in Nat
      BY Bounds DEF EType, CallerType
    <3>3. PICK l \in Nat : l = Len(todo)
      BY <3>1
    <3>. QED  BY <3>1, <3>2, <3>3
  <2>3. todo' \in Seq(Steps) /\ op' \in OpNames \cup {"idle"} /\ (op' # "idle" => op' \in Ops)
        /\ (todo' = << >> <=> op' \in {"idle", "read"}) /\ (op' = "read" => waiting')
    BY <1>1, CallerFacts DEF EType, CallerType
  <2>. QED  BY <1>1, <2>1, <2>2, <2>3 DEF EType, CallerType
<1>3. open_' \in BOOLEAN /\ last_error_' \in BOOLEAN
  <2>1. CASE op \in {"open", "initialise"} /\ Tail(todo) = << >>
    BY <1>1, <2>1
  <2>2. CASE ~(op \in {"open", "initialise"} /\ Tail(todo) = << >>)
    <3>1. open_' = (open_ /\ op # "close") /\ last_error_' = last_error_
      BY <1>1, <2>2
    <3>. QED  BY <3>1 DEF EType, ChannelType, Flags
  <2>. QED  BY <2>1, <2>2
<1>4. header_set_' \in BOOLEAN
  BY <1>1
<1>5. tx_header_' \in Nums /\ (header_set_' => tx_header_' # 0)
  <2>1. CASE SetsHeader
    <3>1. Head(todo).id \in Ids
      BY <2>1, CallerFacts DEF SetsHeader, StepFits
    <3>. QED  BY <1>1, <2>1, <3>1, IdFacts DEF Programmed, Nums
  <2>2. CASE ~SetsHeader
    BY <1>1, <2>2 DEF Programmed, EType, ChannelType, Flags
  <2>. QED  BY <2>1, <2>2
<1>. QED  BY <1>2, <1>3, <1>4, <1>5 DEF Flags

\* The operation is given up.
LEMMA GivenUpTyped ==
  ASSUME EType, op # "idle", StepFails, UNCHANGED <<given, ops>>,
         fragment' \in {"none", "AT", "payload"}
  PROVE  CallerType' /\ Flags'
<1>1. /\ todo' = << >> /\ waiting' = FALSE /\ op' = "idle"
      /\ open_' = (open_ /\ op # "open")
      /\ last_error_' = (last_error_ \/ op \in {"open", "write"})
      /\ UNCHANGED <<header_set_, tx_header_>>
  BY DEF StepFails
<1>2. given' + Due' <= 9 * ops'
  <2>1. Due \in Nat /\ Due' = 0
    <3>1. Len(todo) \in Nat /\ (todo # << >> => Len(todo) > 0)
      BY CallerFacts DEF EType, CallerType
    <3>2. Len(todo') = 0
      BY <1>1
    <3>. QED  BY <1>1, <3>1, <3>2 DEF Due
  <2>2. given + Due <= 9 * ops /\ given \in Nat /\ ops \in Nat
    BY Bounds DEF EType, CallerType
  <2>3. PICK d \in Nat : d = Due
    BY <2>1
  <2>. QED  BY <2>1, <2>2, <2>3
<1>3. todo' \in Seq(Steps) /\ ~ \E i \in 1..Len(todo') : TRUE
  BY <1>1
<1>4. CallerType'
  BY <1>1, <1>2, <1>3 DEF EType, CallerType
<1>. QED  BY <1>1, <1>4 DEF EType, ChannelType, Flags

LEMMA NoAnswerTyped ==
  ASSUME EType, todo # << >>, NoAnswer, UNCHANGED <<given, ops>>,
         fragment' \in {"none", "AT", "payload"}
  PROVE  CallerType' /\ Flags'
<1>1. op # "idle"
  BY CallerFacts
<1>. QED  BY <1>1, DoneTyped, GivenUpTyped DEF NoAnswer

\* What is left in the buffers, or is handed to the caller by close().
LEMMA BuffersTyped ==
  ASSUME EType, NEW q \in Seq(Frames), NEW a \in Seq(Known), Queues(q), Accumulates(a)
  PROVE  rx_queue_' \in Seq(Frames) /\ taken' \in Seq(Frames) /\ rx_accum_' \in Seq(Known)
<1>1. taken \in Seq(Frames) /\ taken \o q \in Seq(Frames)
  BY ConcatFacts DEF EType, DeviceType
<1>2. << >> \in Seq(Frames) /\ << >> \in Seq(Known)
  OBVIOUS
<1>. QED  BY <1>1, <1>2 DEF Queues, Accumulates

LEMMA WriteBreaksFacts ==
  ASSUME EType, WriteBreaks
  PROVE  /\ todo # << >> /\ ~waiting /\ failures' \in 0..MaxFailures /\ failures' # 0
         /\ fragment' \in {"none", "AT", "payload"}
<1>1. failures \in 0..MaxFailures /\ failures < MaxFailures /\ failures' = failures + 1
      /\ MaxFailures \in Nat
  BY Bounds DEF EType, DeviceType, WriteBreaks
<1>2. failures' \in 0..MaxFailures /\ failures' # 0
  BY <1>1
<1>. QED  BY <1>2 DEF WriteBreaks, EType, CallerType

LEMMA SendRawFailsTyped == ASSUME EType, SendRawFails PROVE EType'
<1>1. /\ WriteBreaks /\ NoAnswer /\ Queues(rx_queue_) /\ Accumulates(rx_accum_)
      /\ UNCHANGED <<given, ops, device>>
  BY DEF SendRawFails
<1>2. CallerType' /\ Flags'
  BY <1>1, WriteBreaksFacts, NoAnswerTyped
<1>3. rx_queue_' \in Seq(Frames) /\ taken' \in Seq(Frames) /\ rx_accum_' \in Seq(Known)
  BY <1>1, BuffersTyped DEF EType, ChannelType
<1>4. DeviceType'
  BY <1>1, <1>3, WriteBreaksFacts DEF EType, DeviceType, device
<1>. QED  BY <1>2, <1>3, <1>4 DEF EType, ChannelType

LEMMA SendRawFailsUnseenTyped == ASSUME EType, SendRawFailsUnseen PROVE EType'
<1>1. WriteBreaks /\ waiting' = TRUE /\ UNCHANGED <<op, todo, given, ops, channel, device, taken>>
  BY DEF SendRawFailsUnseen
<1>2. CallerType'
  <2>1. todo # << >> /\ ~waiting /\ fragment' \in {"none", "AT", "payload"}
        /\ op # "idle" /\ Len(todo) \in Nat
    BY <1>1, WriteBreaksFacts, CallerFacts
  <2>2. given' + Due' <= 9 * ops'
    <3>1. PICK l \in Nat : l = Len(todo)
      BY <2>1
    <3>2. Due' = l - 1 /\ Due = l
      BY <1>1, <2>1, <3>1 DEF Due
    <3>3. given + Due <= 9 * ops /\ given \in Nat /\ ops \in Nat
      BY Bounds DEF EType, CallerType
    <3>. QED  BY <1>1, <3>2, <3>3
  <2>3. (\A i \in 1..Len(todo) : StepFits(todo[i]))'
    BY <1>1 DEF StepFits, EType, CallerType
  <2>. QED  BY <1>1, <2>1, <2>2, <2>3 DEF EType, CallerType
<1>3. ChannelType'
  BY <1>1 DEF EType, ChannelType, Flags, channel
<1>4. DeviceType'
  BY <1>1, WriteBreaksFacts DEF EType, DeviceType, device
<1>. QED  BY <1>2, <1>3, <1>4 DEF EType

LEMMA FetchTyped == ASSUME EType, Fetch PROVE EType'
<1>1. PICK k \in 1..Len(stream) :
        /\ rx_accum_' = rx_accum_ \o SubSeq(stream, 1, k)
        /\ stream' = SubSeq(stream, k + 1, Len(stream))
  BY DEF Fetch
<1>2. UNCHANGED <<caller, open_, header_set_, tx_header_, rx_queue_, last_error_,
                  to_adapter, adapter, sent, emitted, taken, failures>>
  BY DEF Fetch
<1>3. stream \in Seq(Known) /\ rx_accum_ \in Seq(Known) /\ k \in 0..Len(stream)
  BY DEF EType, ChannelType, DeviceType
<1>4. SubSeq(stream, 1, k) \in Seq(Known) /\ stream' \in Seq(Known)
  BY <1>1, <1>3, PrefixFacts, SuffixFacts
<1>5. rx_accum_' \in Seq(Known)
  BY <1>1, <1>3, <1>4, ConcatFacts
<1>. QED  BY <1>2, <1>4, <1>5, CallerSame DEF EType, ChannelType, Flags, DeviceType

\* The lines before a prompt, and what follows it.
LEMMA AnswerLines ==
  ASSUME NEW a \in Seq(Known), NEW j \in 1..Len(a)
  PROVE  /\ SubSeq(a, 1, j - 1) \in Seq(Known) /\ Len(SubSeq(a, 1, j - 1)) = j - 1
         /\ \A i \in 1..(j - 1) : SubSeq(a, 1, j - 1)[i] = a[i]
         /\ SubSeq(a, j + 1, Len(a)) \in Seq(Known)
         /\ Len(SubSeq(a, j + 1, Len(a))) = Len(a) - j
         /\ \A i \in 1..(Len(a) - j) : SubSeq(a, j + 1, Len(a))[i] = a[i + j]
<1>1. j - 1 \in 0..Len(a) /\ j \in 0..Len(a)
  OBVIOUS
<1>. QED  BY <1>1, PrefixFacts, SuffixFacts

\* A wait of read() is over.
LEMMA ReadEnds ==
  ASSUME EType, op = "read", op' = "idle", waiting' = FALSE,
         UNCHANGED <<todo, given, fragment, ops>>
  PROVE  CallerType'
<1>1. todo = << >> /\ given + Due <= 9 * ops
  BY DEF EType, CallerType
<1>2. Due' = Due
  BY <1>1 DEF Due
<1>3. ~ \E i \in 1..Len(todo') : TRUE
  <2>1. Len(todo') = 0
    BY <1>1
  <2>. QED  BY <2>1
<1>. QED  BY <1>1, <1>2, <1>3 DEF EType, CallerType

LEMMA GetAnswerTyped == ASSUME EType, GetAnswer PROVE EType'
<1>. DEFINE lines(j) == SubSeq(rx_accum_, 1, j - 1)
<1>1. PICK j \in 1..Len(rx_accum_) :
        /\ PromptAt(j)
        /\ \/ /\ op = "read"
              /\ op' = "idle" /\ waiting' = FALSE
              /\ taken' = taken \o FramesOf(lines(j))
              /\ UNCHANGED <<todo, rx_queue_, open_, header_set_, tx_header_, last_error_>>
           \/ /\ op # "read" /\ Head(todo).cmd = "payload"
              /\ StepDone
              /\ Queues(rx_queue_ \o FramesOf(lines(j)))
           \/ /\ op # "read" /\ Head(todo).cmd # "payload"
              /\ IF Answered(Head(todo).need, lines(j)) THEN StepDone ELSE StepFails
              /\ Queues(rx_queue_)
        /\ Accumulates(AfterPrompt(j))
  BY DEF GetAnswer
<1>2. waiting /\ UNCHANGED <<given, fragment, ops, device, failures>>
  BY DEF GetAnswer
<1>3. lines(j) \in Seq(Known) /\ AfterPrompt(j) \in Seq(Known)
  BY AnswerLines DEF AfterPrompt, EType, ChannelType
<1>. HIDE DEF lines
<1>4. FramesOf(lines(j)) \in Seq(Frames)
  BY <1>3, FramesOfFacts
<1>5. fragment' \in {"none", "AT", "payload"} /\ rx_queue_ \in Seq(Frames) /\ taken \in Seq(Frames)
  BY <1>2 DEF EType, CallerType, ChannelType, DeviceType
<1>6. CASE op = "read"
  <2>1. /\ op' = "idle" /\ waiting' = FALSE /\ taken' = taken \o FramesOf(lines(j))
        /\ UNCHANGED <<todo, rx_queue_, open_, header_set_, tx_header_, last_error_>>
        /\ rx_accum_' = AfterPrompt(j)
    BY <1>1, <1>6 DEF Accumulates, Closing
  <2>2. CallerType'
    BY <1>2, <1>6, <2>1, ReadEnds
  <2>3. taken' \in Seq(Frames)
    BY <1>4, <1>5, <2>1, ConcatFacts
  <2>. QED  BY <1>2, <1>3, <2>1, <2>2, <2>3
            DEF EType, ChannelType, Flags, DeviceType, device
<1>7. CASE op # "read"
  <2>1. todo # << >>
    BY <1>2, <1>7 DEF EType, CallerType
  <2>2. StepDone \/ StepFails
    BY <1>1, <1>7
  <2>3. op # "idle"
    BY <2>1, CallerFacts
  <2>4. CallerType' /\ Flags'
    BY <1>2, <1>5, <2>1, <2>2, <2>3, DoneTyped, GivenUpTyped
  <2>5. PICK q \in Seq(Frames) : Queues(q)
    <3>1. rx_queue_ \o FramesOf(lines(j)) \in Seq(Frames)
      BY <1>4, <1>5, ConcatFacts
    <3>. QED  BY <1>1, <1>5, <1>7, <3>1
  <2>6. rx_queue_' \in Seq(Frames) /\ taken' \in Seq(Frames) /\ rx_accum_' \in Seq(Known)
    BY <1>1, <1>3, <2>5, BuffersTyped
  <2>. QED  BY <1>2, <2>4, <2>6 DEF EType, ChannelType, DeviceType, device
<1>. QED  BY <1>6, <1>7

LEMMA GiveUpTyped == ASSUME EType, GiveUp PROVE EType'
<1>1. /\ waiting /\ Queues(rx_queue_) /\ Accumulates(rx_accum_)
      /\ UNCHANGED <<given, fragment, ops, device>>
      /\ failures' = failures \/ (failures < MaxFailures /\ failures' = failures + 1)
      /\ IF op = "read"
         THEN op' = "idle" /\ waiting' = FALSE
              /\ UNCHANGED <<todo, open_, header_set_, tx_header_, last_error_>>
         ELSE NoAnswer
  BY DEF GiveUp
<1>2. failures' \in 0..MaxFailures
  BY <1>1, Bounds DEF EType, DeviceType
<1>3. rx_queue_' \in Seq(Frames) /\ taken' \in Seq(Frames) /\ rx_accum_' \in Seq(Known)
  BY <1>1, BuffersTyped DEF EType, ChannelType
<1>4. CallerType' /\ Flags'
  <2>1. fragment' \in {"none", "AT", "payload"}
    BY <1>1 DEF EType, CallerType
  <2>2. CASE op = "read"
    <3>1. Flags'
      BY <1>1, <2>2 DEF EType, ChannelType, Flags
    <3>. QED  BY <1>1, <2>2, <3>1, ReadEnds
  <2>3. CASE op # "read"
    <3>1. todo # << >>
      BY <1>1, <2>3 DEF EType, CallerType
    <3>. QED  BY <1>1, <2>1, <2>3, <3>1, NoAnswerTyped
  <2>. QED  BY <2>2, <2>3
<1>. QED  BY <1>1, <1>2, <1>3, <1>4 DEF EType, ChannelType, DeviceType, device

-----------------------------------------------------------------------------
(* Types: the adapter.                                                      *)

LEMMA TokenTypes ==
  ASSUME NEW c \in 1..(9 * MaxOps)
  PROVE  /\ Prompt \in Known /\ ~IsFrame(Prompt)
         /\ \A text \in {"ok", "status"} : \A k \in Nat :
              Line(text, c, k) \in Known /\ ~IsFrame(Line(text, c, k))
         /\ \A k \in 1..MaxFrames : Line("frame", c, k) \in Frames
<1>1. c \in Nat
  BY Bounds
<1>2. Prompt \in Known /\ ~IsFrame(Prompt)
  BY DEF Prompt, Known, Tokens, IsFrame
<1>3. ASSUME NEW text \in {"ok", "status"}, NEW k \in Nat
      PROVE  Line(text, c, k) \in Known /\ ~IsFrame(Line(text, c, k))
  BY <1>1 DEF Line, Known, Tokens, IsFrame
<1>4. ASSUME NEW k \in 1..MaxFrames PROVE Line("frame", c, k) \in Frames
  BY DEF Line, Frames
<1>. QED  BY <1>2, <1>3, <1>4

LEMMA TakesFacts ==
  ASSUME EType, NEW cmds, NEW text, Takes(cmds, text)
  PROVE  /\ to_adapter # << >> /\ to_adapter' = Tail(to_adapter)
         /\ Head(to_adapter) = to_adapter[1] /\ Head(to_adapter) \in Requests
         /\ to_adapter' \in Seq(Requests) /\ Len(to_adapter') = Len(to_adapter) - 1
         /\ Len(to_adapter) \in Nat /\ Len(to_adapter) > 0
         /\ \A i \in 1..Len(to_adapter') : to_adapter'[i] = to_adapter[i + 1]
         /\ Head(to_adapter).step \in Steps /\ Head(to_adapter).cmd \in 1..(9 * MaxOps)
         /\ Head(to_adapter).step.cmd \in cmds /\ Head(to_adapter).text \in text
         /\ Head(to_adapter).step.cmd = "payload" => Head(to_adapter).step.id \in Ids
<1>1. /\ to_adapter # << >> /\ to_adapter' = Tail(to_adapter)
      /\ Head(to_adapter).step.cmd \in cmds /\ Head(to_adapter).text \in text
  BY DEF Takes
<1>2. to_adapter \in Seq(Requests)
  BY DEF EType, DeviceType
<1>3. /\ Tail(to_adapter) \in Seq(Requests) /\ Len(Tail(to_adapter)) = Len(to_adapter) - 1
      /\ Len(to_adapter) > 0 /\ Len(to_adapter) \in Nat
      /\ Head(to_adapter) = to_adapter[1] /\ Head(to_adapter) \in Requests
      /\ \A i \in 1..Len(Tail(to_adapter)) : Tail(to_adapter)[i] = to_adapter[i + 1]
  BY <1>1, <1>2, TailFacts
<1>4. ASSUME NEW r \in Requests
      PROVE  r.step \in Steps /\ r.cmd \in 1..(9 * MaxOps)
             /\ (r.step.cmd = "payload" => r.step.id \in Ids)
  BY DEF Requests
<1>. QED  BY <1>1, <1>3, <1>4

\* An answer of one line.
LEMMA OneLine ==
  ASSUME EType, NEW text \in {"ok", "status"}, Head(to_adapter).cmd \in 1..(9 * MaxOps),
         AdapterAnswers(text)
  PROVE  LET t == Line(text, Head(to_adapter).cmd, 1) IN
           /\ t \in Known /\ ~IsFrame(t) /\ stream' \in Seq(Known)
           /\ stream' = stream \o <<t, Prompt>>
<1>. DEFINE t == Line(text, Head(to_adapter).cmd, 1)
<1>1. t \in Known /\ ~IsFrame(t) /\ Prompt \in Known
  BY TokenTypes
<1>2. stream' = stream \o <<t, Prompt>>
  BY DEF AdapterAnswers
<1>. HIDE DEF t
<1>3. <<t, Prompt>> \in Seq(Known) /\ stream \in Seq(Known)
  BY <1>1 DEF EType, DeviceType
<1>4. stream' \in Seq(Known)
  BY <1>2, <1>3, ConcatFacts
<1>. QED  BY <1>1, <1>2, <1>4 DEF t

\* Of the steps of the adapter that leave the bus alone.
LEMMA RepliedTyped ==
  ASSUME EType, NEW text \in {"ok", "status"}, NEW cmds, NEW texts, Takes(cmds, texts),
         AdapterAnswers(text),
         adapter' \in [header: Ids \cup {NoId}, accepted: SUBSET AtCommands],
         UNCHANGED <<caller, channel, sent, emitted, taken, failures>>
  PROVE  EType'
<1>1. to_adapter' \in Seq(Requests) /\ Head(to_adapter).cmd \in 1..(9 * MaxOps)
  BY TakesFacts
<1>2. stream' \in Seq(Known)
  BY <1>1, OneLine
<1>3. CallerType'
  BY CallerSame DEF EType
<1>4. ChannelType'
  BY DEF EType, ChannelType, Flags, channel
<1>5. DeviceType'
  BY <1>1, <1>2 DEF EType, DeviceType
<1>. QED  BY <1>3, <1>4, <1>5 DEF EType

LEMMA AdapterResetsTyped == ASSUME EType, AdapterResets PROVE EType'
<1>1. /\ Takes({"ATZ"}, {"whole"}) /\ AdapterAnswers("status")
      /\ adapter' = [header |-> NoId, accepted |-> {}]
      /\ UNCHANGED <<caller, channel, sent, emitted, taken, failures>>
  BY DEF AdapterResets, Carries
<1>2. adapter' \in [header: Ids \cup {NoId}, accepted: SUBSET AtCommands]
  BY <1>1
<1>. QED  BY <1>1, <1>2, RepliedTyped

LEMMA ObeysFacts ==
  ASSUME EType, AdapterObeys
  PROVE  LET step == Head(to_adapter).step IN
           /\ Takes(AtCommands \ {"ATZ", "ATI"}, {"whole"}) /\ AdapterAnswers("ok")
           /\ adapter'.header = IF step.cmd = "ATSH" THEN step.id ELSE adapter.header
           /\ adapter'.accepted = adapter.accepted \cup {step.cmd}
           /\ adapter' \in [header: Ids \cup {NoId}, accepted: SUBSET AtCommands]
           /\ UNCHANGED <<caller, channel, sent, emitted, taken, failures>>
<1>1. /\ Takes(AtCommands \ {"ATZ", "ATI"}, {"whole"}) /\ AdapterAnswers("ok")
      /\ adapter' = [adapter EXCEPT !.header = IF Head(to_adapter).step.cmd = "ATSH"
                                               THEN Head(to_adapter).step.id ELSE @,
                                    !.accepted = @ \cup {Head(to_adapter).step.cmd}]
      /\ UNCHANGED <<caller, channel, sent, emitted, taken, failures>>
  BY DEF AdapterObeys, Carries
<1>2. /\ Head(to_adapter).step \in Steps
      /\ Head(to_adapter).step.cmd \in AtCommands \ {"ATZ", "ATI"}
  BY <1>1, TakesFacts
<1>3. PICK step \in Steps : step = Head(to_adapter).step
  BY <1>2
<1>4. step.cmd \in AtCommands /\ step.id \in Ids \cup {NoId}
  BY <1>2, <1>3 DEF Steps
<1>5. adapter \in [header: Ids \cup {NoId}, accepted: SUBSET AtCommands]
  BY DEF EType, DeviceType
<1>6. adapter' = [adapter EXCEPT !.header = IF step.cmd = "ATSH" THEN step.id ELSE adapter.header,
                                 !.accepted = adapter.accepted \cup {step.cmd}]
  BY <1>1, <1>3, <1>5
<1>7. /\ adapter'.header = IF step.cmd = "ATSH" THEN step.id ELSE adapter.header
      /\ adapter'.accepted = adapter.accepted \cup {step.cmd}
      /\ adapter' \in [header: Ids \cup {NoId}, accepted: SUBSET AtCommands]
  BY <1>4, <1>5, <1>6
<1>. QED  BY <1>1, <1>3, <1>7

LEMMA AdapterObeysTyped == ASSUME EType, AdapterObeys PROVE EType'
BY ObeysFacts, RepliedTyped

LEMMA RejectsFacts ==
  ASSUME AdapterRejects
  PROVE  /\ \E cmds, texts : Takes(cmds, texts) /\ (cmds \subseteq AtCommands \/ "whole" \notin texts)
         /\ AdapterAnswers("status")
         /\ UNCHANGED <<caller, channel, adapter, sent, emitted, taken, failures>>
<1>1. \/ Takes(Rejects \cup {"ATI"}, {"whole"})
      \/ Takes(AtCommands \cup {"payload"}, {"garbled", "glued"})
  BY DEF AdapterRejects, Carries
<1>2. Rejects \cup {"ATI"} \subseteq AtCommands
  <2>1. "ATI" \in AtCommands
    BY DEF AtCommands
  <2>. QED  BY <2>1, Bounds
<1>3. "whole" \notin {"garbled", "glued"}
  OBVIOUS
<1>4. \E cmds, texts : Takes(cmds, texts) /\ (cmds \subseteq AtCommands \/ "whole" \notin texts)
  BY <1>1, <1>2, <1>3
<1>. QED  BY <1>4 DEF AdapterRejects

LEMMA AdapterRejectsTyped == ASSUME EType, AdapterRejects PROVE EType'
<1>1. PICK cmds, texts : Takes(cmds, texts)
  BY RejectsFacts
<1>2. /\ AdapterAnswers("status")
      /\ UNCHANGED <<caller, channel, adapter, sent, emitted, taken, failures>>
  BY RejectsFacts
<1>3. adapter' \in [header: Ids \cup {NoId}, accepted: SUBSET AtCommands]
  BY <1>2 DEF EType, DeviceType
<1>. QED  BY <1>1, <1>2, <1>3, RepliedTyped

\* The frames that answer a payload, and the lines of that answer.
FramesFor(n) == [k \in 1..n |-> Line("frame", Head(to_adapter).cmd, k)]
LinesFor(n)  == IF n = 0 THEN <<Line("status", Head(to_adapter).cmd, 1)>> ELSE FramesFor(n)

LEMMA TransmitsFacts ==
  ASSUME EType, NEW n \in 0..MaxFrames, Transmits(n)
  PROVE  /\ Takes({"payload"}, {"whole", "glued"})
         /\ sent' = sent \cup {<<Head(to_adapter).step.id, adapter.header>>}
         /\ FramesFor(n) \in Seq(Frames) /\ Len(FramesFor(n)) = n /\ n \in Nat
         /\ emitted' = emitted \o FramesFor(n)
         /\ LinesFor(n) \in Seq(Known) /\ (n # 0 => LinesFor(n) = FramesFor(n))
         /\ n = 0 => Len(LinesFor(n)) = 1 /\ ~IsFrame(LinesFor(n)[1]) /\ FramesFor(n) = << >>
         /\ \A i \in 1..Len(LinesFor(n)) : LinesFor(n)[i].line \notin {"prompt", "ok"}
         /\ stream' = stream \o LinesFor(n) \o <<Prompt>>
         /\ UNCHANGED <<caller, channel, adapter, taken, failures>>
<1>1. /\ Takes({"payload"}, {"whole", "glued"})
      /\ sent' = sent \cup {<<Head(to_adapter).step.id, adapter.header>>}
      /\ emitted' = emitted \o FramesFor(n)
      /\ stream' = stream \o LinesFor(n) \o <<Prompt>>
      /\ UNCHANGED <<caller, channel, adapter, taken, failures>>
  BY DEF Transmits, FramesFor, LinesFor
<1>2. Head(to_adapter).cmd \in 1..(9 * MaxOps)
  BY <1>1, TakesFacts
<1>3. n \in Nat /\ n <= MaxFrames
  BY Bounds
<1>4. FramesFor(n) \in Seq(Frames) /\ Len(FramesFor(n)) = n
  <2>1. ASSUME NEW k \in 1..n PROVE Line("frame", Head(to_adapter).cmd, k) \in Frames
    <3>1. k \in 1..MaxFrames
      BY <1>3, Bounds
    <3>. QED  BY <1>2, <3>1, TokenTypes
  <2>2. FramesFor(n) \in [1..n -> Frames]
    BY <2>1 DEF FramesFor
  <2>. QED  BY <1>3, <2>2
<1>5. Line("status", Head(to_adapter).cmd, 1) \in Known
      /\ ~IsFrame(Line("status", Head(to_adapter).cmd, 1))
      /\ Line("status", Head(to_adapter).cmd, 1).line = "status"
  <2>1. Line("status", Head(to_adapter).cmd, 1).line = "status"
    BY DEF Line
  <2>. QED  BY <1>2, <2>1, TokenTypes
<1>6. CASE n = 0
  <2>. DEFINE t == Line("status", Head(to_adapter).cmd, 1)
  <2>1. LinesFor(n) = <<t>> /\ t \in Known /\ ~IsFrame(t) /\ t.line = "status"
    BY <1>5, <1>6 DEF LinesFor
  <2>. HIDE DEF t
  <2>2. LinesFor(n) \in Seq(Known) /\ Len(LinesFor(n)) = 1 /\ LinesFor(n)[1] = t
    BY <2>1
  <2>3. \A i \in 1..Len(LinesFor(n)) : LinesFor(n)[i].line \notin {"prompt", "ok"}
    BY <2>1, <2>2
  <2>4. FramesFor(n) = << >>
    BY <1>4, <1>6
  <2>. QED  BY <1>1, <1>3, <1>4, <1>6, <2>1, <2>2, <2>3, <2>4
<1>7. CASE n # 0
  <2>1. LinesFor(n) = FramesFor(n)
    BY <1>7 DEF LinesFor
  <2>2. FramesFor(n) \in Seq(Known)
    BY <1>4, FramesKnown, SeqMonotonic
  <2>3. ASSUME NEW i \in 1..Len(FramesFor(n))
        PROVE  FramesFor(n)[i].line \notin {"prompt", "ok"}
    BY <1>4, <2>3 DEF FramesFor, Line
  <2>. QED  BY <1>1, <1>3, <1>4, <1>7, <2>1, <2>2, <2>3
<1>. QED  BY <1>6, <1>7

LEMMA AdapterTransmitsTyped == ASSUME EType, AdapterTransmits PROVE EType'
<1>1. PICK n \in 0..MaxFrames : Transmits(n)
  BY DEF AdapterTransmits
<1>2. /\ Takes({"payload"}, {"whole", "glued"})
      /\ sent' = sent \cup {<<Head(to_adapter).step.id, adapter.header>>}
      /\ FramesFor(n) \in Seq(Frames) /\ emitted' = emitted \o FramesFor(n)
      /\ LinesFor(n) \in Seq(Known) /\ stream' = stream \o LinesFor(n) \o <<Prompt>>
      /\ UNCHANGED <<caller, channel, adapter, taken, failures>>
  BY <1>1, TransmitsFacts
<1>3. to_adapter' \in Seq(Requests) /\ Head(to_adapter).step.id \in Ids
      /\ Head(to_adapter).cmd \in 1..(9 * MaxOps)
  <2>1. Head(to_adapter).step.cmd \in {"payload"}
        /\ (Head(to_adapter).step.cmd = "payload" => Head(to_adapter).step.id \in Ids)
        /\ to_adapter' \in Seq(Requests) /\ Head(to_adapter).cmd \in 1..(9 * MaxOps)
    BY <1>2, TakesFacts
  <2>. QED  BY <2>1
<1>4. emitted' \in Seq(Frames)
  BY <1>2, ConcatFacts DEF EType, DeviceType
<1>5. stream' \in Seq(Known)
  <2>1. <<Prompt>> \in Seq(Known) /\ stream \in Seq(Known)
    BY <1>3, TokenTypes DEF EType, DeviceType
  <2>2. stream \o LinesFor(n) \in Seq(Known)
    BY <1>2, <2>1, ConcatFacts
  <2>. QED  BY <1>2, <2>1, <2>2, ConcatFacts
<1>6. sent' \subseteq Ids \X (Ids \cup {NoId})
  <2>1. adapter.header \in Ids \cup {NoId} /\ sent \subseteq Ids \X (Ids \cup {NoId})
    BY DEF EType, DeviceType
  <2>. QED  BY <1>2, <1>3, <2>1
<1>7. CallerType'
  BY <1>2, CallerSame DEF EType
<1>8. ChannelType'
  BY <1>2 DEF EType, ChannelType, Flags, channel
<1>. QED  BY <1>2, <1>3, <1>4, <1>5, <1>6, <1>7, <1>8 DEF EType, DeviceType

LEMMA LoseTokenTyped == ASSUME EType, LoseToken PROVE EType'
<1>1. /\ failures < MaxFailures /\ failures' = failures + 1
      /\ stream # << >> /\ stream' = Tail(stream)
      /\ UNCHANGED <<caller, channel, to_adapter, adapter, sent, emitted, taken>>
  BY DEF LoseToken
<1>2. stream' \in Seq(Known) /\ failures' \in 0..MaxFailures
  BY <1>1, TailFacts, Bounds DEF EType, DeviceType
<1>3. CallerType'
  BY <1>1, CallerSame DEF EType
<1>4. ChannelType'
  BY <1>1 DEF EType, ChannelType, Flags, channel
<1>. QED  BY <1>1, <1>2, <1>3, <1>4 DEF EType, DeviceType

LEMMA StutterTyped == ASSUME EType, UNCHANGED vars PROVE EType'
<1>1. UNCHANGED caller /\ UNCHANGED channel /\ UNCHANGED <<device, taken, failures>>
  BY DEF vars
<1>2. CallerType' /\ DeviceType'
  BY <1>1, CallerSame, DeviceSame DEF EType
<1>3. ChannelType'
  BY <1>1 DEF EType, ChannelType, Flags, channel
<1>. QED  BY <1>2, <1>3 DEF EType

LEMMA InitTyped == Init => EType
<1>. SUFFICES ASSUME Init PROVE EType
  OBVIOUS
<1>1. CallerType
  <2>1. op = "idle" /\ todo = << >> /\ waiting = FALSE /\ given = 0 /\ fragment = "none" /\ ops = 0
    BY DEF Init
  <2>2. Len(todo) = 0 /\ todo \in Seq(Steps) /\ Due = 0
    BY <2>1 DEF Due
  <2>3. \A i \in 1..Len(todo) : StepFits(todo[i])
    BY <2>2
  <2>4. given + Due <= 9 * ops /\ ops \in 0..MaxOps
    BY <2>1, <2>2, Bounds
  <2>. QED  BY <2>1, <2>2, <2>3, <2>4 DEF CallerType
<1>2. ChannelType
  <2>1. /\ open_ = FALSE /\ header_set_ = FALSE /\ tx_header_ = 0
        /\ rx_accum_ = << >> /\ rx_queue_ = << >> /\ last_error_ = FALSE
    BY DEF Init
  <2>2. 0 \in Nums
    <3>1. NoId.num = 0 /\ NoId \in Ids \cup {NoId}
      BY DEF NoId
    <3>. QED  BY <3>1 DEF Nums
  <2>3. << >> \in Seq(Known) /\ << >> \in Seq(Frames)
    OBVIOUS
  <2>. QED  BY <2>1, <2>2, <2>3 DEF ChannelType, Flags
<1>3. DeviceType
  <2>1. /\ to_adapter = << >> /\ stream = << >> /\ adapter = [header |-> NoId, accepted |-> {}]
        /\ sent = {} /\ emitted = << >> /\ taken = << >> /\ failures = 0
    BY DEF Init
  <2>2. << >> \in Seq(Known) /\ << >> \in Seq(Frames) /\ << >> \in Seq(Requests)
    OBVIOUS
  <2>3. adapter \in [header: Ids \cup {NoId}, accepted: SUBSET AtCommands]
    BY <2>1
  <2>. QED  BY <2>1, <2>2, <2>3, Bounds DEF DeviceType
<1>. QED  BY <1>1, <1>2, <1>3 DEF EType

LEMMA StepTyped == EType /\ [Next]_vars => EType'
<1>. SUFFICES ASSUME EType, [Next]_vars PROVE EType'
  OBVIOUS
<1>1. CASE Initialise
  BY <1>1, InitialiseTyped
<1>2. CASE OpenRefused \/ InitialiseRefused \/ WriteClosed
  BY <1>2, RefusedTyped
<1>3. CASE Write
  BY <1>3, WriteTyped
<1>4. CASE WriteEmpty
  BY <1>4, WriteEmptyTyped
<1>5. CASE ReadQueued
  BY <1>5, ReadQueuedTyped
<1>6. CASE ReadWaits
  BY <1>6, ReadWaitsTyped
<1>7. CASE SetFilter
  BY <1>7, SetFilterTyped
<1>8. CASE Command
  BY <1>8, CommandTyped
<1>9. CASE Close
  BY <1>9, CloseTyped
<1>10. CASE CloseClosed
  BY <1>10, CloseClosedTyped
<1>11. CASE SendRaw
  BY <1>11, SendRawTyped
<1>12. CASE SendRawFails
  BY <1>12, SendRawFailsTyped
<1>13. CASE SendRawFailsUnseen
  BY <1>13, SendRawFailsUnseenTyped
<1>14. CASE Fetch
  BY <1>14, FetchTyped
<1>15. CASE GetAnswer
  BY <1>15, GetAnswerTyped
<1>16. CASE GiveUp
  BY <1>16, GiveUpTyped
<1>17. CASE AdapterResets
  BY <1>17, AdapterResetsTyped
<1>18. CASE AdapterObeys
  BY <1>18, AdapterObeysTyped
<1>19. CASE AdapterRejects
  BY <1>19, AdapterRejectsTyped
<1>20. CASE AdapterTransmits
  BY <1>20, AdapterTransmitsTyped
<1>21. CASE LoseToken
  BY <1>21, LoseTokenTyped
<1>22. CASE Finished \/ UNCHANGED vars
  BY <1>22, StutterTyped DEF Finished
<1>. QED  BY <1>1, <1>2, <1>3, <1>4, <1>5, <1>6, <1>7, <1>8, <1>9, <1>10, <1>11, <1>12,
             <1>13, <1>14, <1>15, <1>16, <1>17, <1>18, <1>19, <1>20, <1>21, <1>22
          DEF Next, Caller, Device

LEMMA TypesImply == EType => TypeOK
<1>. SUFFICES ASSUME EType PROVE TypeOK
  OBVIOUS
<1>1. given \in 0..(9 * MaxOps)
  <2>1. Due \in Nat
    <3>1. Len(todo) \in Nat /\ (todo # << >> => Len(todo) > 0)
      BY CallerFacts DEF EType, CallerType
    <3>. QED  BY <3>1 DEF Due
  <2>2. given + Due <= 9 * ops /\ given \in Nat /\ ops \in 0..MaxOps /\ MaxOps \in Nat
    BY Bounds DEF EType, CallerType
  <2>3. PICK d \in Nat : d = Due
    BY <2>1
  <2>. QED  BY <2>2, <2>3
<1>2. to_adapter \in Seq([step: Steps, cmd: Nat, text: Texts])
  <2>1. Requests \subseteq [step: Steps, cmd: Nat, text: Texts]
    <3>1. 1..(9 * MaxOps) \subseteq Nat
      BY Bounds
    <3>. QED  BY <3>1 DEF Requests
  <2>. QED  BY <2>1, SeqMonotonic DEF EType, DeviceType
<1>3. Seq(Known) \subseteq Seq(Tokens)
  <2>1. Known \subseteq Tokens
    BY DEF Known
  <2>. QED  BY <2>1, SeqMonotonic
<1>4. /\ op \in Ops \cup {"idle"} /\ todo \in Seq(Steps) /\ (op = "idle" => todo = << >>)
      /\ waiting \in BOOLEAN /\ (waiting => (op = "read" \/ todo # << >>))
      /\ fragment \in {"none", "AT", "payload"} /\ ops \in 0..MaxOps
  BY DEF EType, CallerType
<1>5. /\ open_ \in BOOLEAN /\ header_set_ \in BOOLEAN /\ last_error_ \in BOOLEAN
      /\ tx_header_ \in {i.num : i \in Ids \cup {NoId}} /\ (header_set_ => tx_header_ # 0)
      /\ rx_accum_ \in Seq(Known) /\ rx_queue_ \in Seq(Frames)
  BY DEF EType, ChannelType, Flags, Nums
<1>6. rx_accum_ \in Seq(Tokens) /\ stream \in Seq(Tokens)
  BY <1>3, <1>5 DEF EType, DeviceType
<1>. QED  BY <1>1, <1>2, <1>4, <1>5, <1>6 DEF TypeOK, EType, DeviceType

\* The variables keep their types: in particular the commands given stay within nine
\* for each operation, which is what initialise() needs at most, and tx_header_ is
\* an id when header_set_ is true (elm327_channel.cpp:344-395, 439-449).
THEOREM TypeCorrect == Spec => []TypeOK
<1>1. Init => EType
  BY InitTyped
<1>2. EType /\ [Next]_vars => EType'
  BY StepTyped
<1>3. EType => TypeOK
  BY TypesImply
<1>. QED  BY <1>1, <1>2, <1>3, PTL DEF Spec

-----------------------------------------------------------------------------
(* In step.                                                                 *)

ILock == EType /\ (failures = 0 => Lockstep)

LEMMA IdleNothingOut ==
  ASSUME EType, Lockstep, op = "idle" \/ ~waiting
  PROVE  NothingOut
BY DEF EType, CallerType, Lockstep, Asked, AnswerComes

\* What is received is the same when rx_queue_ is handed over.
LEMMA HandedOver ==
  ASSUME EType, taken' = taken \o rx_queue_, rx_queue_' = << >>
  PROVE  Received' = Received
<1>1. taken \o rx_queue_ \in Seq(Frames)
  BY ConcatFacts DEF EType, ChannelType, DeviceType
<1>2. (taken \o rx_queue_) \o << >> = taken \o rx_queue_
  BY <1>1, ConcatEmptySeq
<1>. QED  BY <1>2 DEF Received

LEMMA ReceivedIs ==
  ASSUME EType
  PROVE  Received \in Seq(Frames) /\ Received \o << >> = Received
<1>1. Received \in Seq(Frames)
  BY ConcatFacts DEF EType, ChannelType, DeviceType, Received
<1>. QED  BY <1>1, ConcatEmptySeq

\* Queues(q) receives what q has more than rx_queue_.
LEMMA QueuesReceives ==
  ASSUME EType, NEW f \in Seq(Frames), Queues(rx_queue_ \o f)
  PROVE  Received' = Received \o f
<1>1. taken \in Seq(Frames) /\ rx_queue_ \in Seq(Frames)
  BY DEF EType, ChannelType, DeviceType
<1>2. (taken \o rx_queue_) \o f = taken \o (rx_queue_ \o f) /\ rx_queue_ \o f \in Seq(Frames)
  BY <1>1, ConcatAssociative, ConcatFacts
<1>3. CASE Closing
  <2>1. taken' = taken \o (rx_queue_ \o f) /\ rx_queue_' = << >>
    BY <1>3 DEF Queues
  <2>2. taken \o (rx_queue_ \o f) \in Seq(Frames)
    BY <1>1, <1>2, ConcatFacts
  <2>3. (taken \o (rx_queue_ \o f)) \o << >> = taken \o (rx_queue_ \o f)
    BY <2>2, ConcatEmptySeq
  <2>. QED  BY <1>2, <2>1, <2>3 DEF Received
<1>4. CASE ~Closing
  <2>1. taken' = taken /\ rx_queue_' = rx_queue_ \o f
    BY <1>4 DEF Queues
  <2>. QED  BY <1>2, <2>1 DEF Received
<1>. QED  BY <1>3, <1>4

LEMMA QueuesSame ==
  ASSUME EType, Queues(rx_queue_)
  PROVE  Received' = Received
<1>1. rx_queue_ \o << >> = rx_queue_ /\ << >> \in Seq(Frames)
  BY ConcatEmptySeq DEF EType, ChannelType
<1>2. Received' = Received \o << >>
  BY <1>1, QueuesReceives
<1>. QED  BY <1>2, ReceivedIs

\* An operation starts, or is over at once.
LEMMA StartLocks ==
  ASSUME EType, Lockstep, NEW name, Starts(name),
         rx_accum_' \in {<< >>, rx_accum_}, stream' \in {<< >>, stream},
         Received' = Received, op' = "read" \/ ~waiting',
         UNCHANGED <<fragment, to_adapter, emitted>>
  PROVE  Lockstep'
<1>1. NothingOut
  BY IdleNothingOut DEF Starts
<1>2. NothingOut'
  BY <1>1 DEF NothingOut, Quiet
<1>. QED  BY <1>2 DEF Lockstep

LEMMA SameReceived ==
  ASSUME UNCHANGED <<channel, taken>>
  PROVE  Received' = Received
BY DEF channel, Received

LEMMA StartsLock ==
  ASSUME EType, Lockstep,
         \/ Initialise \/ OpenRefused \/ InitialiseRefused \/ Write \/ WriteEmpty \/ WriteClosed
         \/ ReadQueued \/ ReadWaits \/ SetFilter \/ Command \/ Close \/ CloseClosed
  PROVE  Lockstep'
<1>. USE DEF EType, CallerType
<1>1. CASE Initialise
  <2>1. Received' = Received
    BY <1>1, HandedOver DEF Initialise
  <2>2. \E name : Starts(name)
    BY <1>1 DEF Initialise
  <2>3. ~waiting' /\ rx_accum_' = << >> /\ stream' = << >>
        /\ UNCHANGED <<fragment, to_adapter, emitted>>
    BY <1>1 DEF Initialise, Starts
  <2>. QED  BY <2>1, <2>2, <2>3, StartLocks
<1>2. CASE OpenRefused \/ InitialiseRefused \/ WriteClosed
  <2>1. /\ \E name : Starts(name)
        /\ UNCHANGED <<waiting, fragment, taken, rx_queue_, rx_accum_, stream, to_adapter, emitted>>
    BY <1>2 DEF OpenRefused, InitialiseRefused, WriteClosed, channel, device
  <2>2. ~waiting' /\ Received' = Received
    BY <2>1 DEF Starts, Received
  <2>. QED  BY <2>1, <2>2, StartLocks
<1>3. CASE Write \/ SetFilter \/ Command \/ Close
  <2>1. /\ \E name : Starts(name)
        /\ UNCHANGED <<waiting, fragment, channel, device, taken>>
    BY <1>3 DEF Write, SetFilter, Command, Close
  <2>2. ~waiting' /\ Received' = Received
    BY <2>1, SameReceived DEF Starts
  <2>3. UNCHANGED <<rx_accum_, stream, fragment, to_adapter, emitted>>
    BY <2>1 DEF channel, device
  <2>. QED  BY <2>1, <2>2, <2>3, StartLocks
<1>4. CASE WriteEmpty
  <2>1. /\ Starts("write")
        /\ UNCHANGED <<waiting, fragment, rx_accum_, rx_queue_, device, taken>>
    BY <1>4 DEF WriteEmpty
  <2>2. ~waiting' /\ Received' = Received /\ UNCHANGED <<stream, to_adapter, emitted>>
    BY <2>1 DEF Starts, Received, device
  <2>. QED  BY <2>1, <2>2, StartLocks
<1>5. CASE ReadQueued
  <2>1. Received' = Received
    BY <1>5, HandedOver DEF ReadQueued, AfterRead
  <2>2. /\ Starts("read")
        /\ UNCHANGED <<waiting, fragment, rx_accum_, stream, to_adapter, emitted>>
    BY <1>5 DEF ReadQueued, device
  <2>3. ~waiting'
    BY <2>2 DEF Starts
  <2>. QED  BY <2>1, <2>2, <2>3, StartLocks
<1>6. CASE ReadWaits
  <2>1. /\ Starts("read") /\ op' = "read" /\ Received' = Received
        /\ UNCHANGED <<fragment, rx_accum_, stream, to_adapter, emitted>>
    BY <1>6, SameReceived DEF ReadWaits, channel, device
  <2>. QED  BY <2>1, StartLocks
<1>7. CASE CloseClosed
  <2>1. Received' = Received
    BY <1>7, HandedOver DEF CloseClosed
  <2>2. /\ Starts("close") /\ rx_accum_' = << >>
        /\ UNCHANGED <<waiting, fragment, stream, to_adapter, emitted>>
    BY <1>7 DEF CloseClosed, device
  <2>3. ~waiting'
    BY <2>2 DEF Starts
  <2>. QED  BY <2>1, <2>2, <2>3, StartLocks
<1>. QED  BY <1>1, <1>2, <1>3, <1>4, <1>5, <1>6, <1>7

LEMMA SendRawLocks == ASSUME EType, Lockstep, SendRaw PROVE Lockstep'
<1>1. /\ todo # << >> /\ ~waiting /\ given' = given + 1 /\ waiting' = TRUE /\ fragment' = "none"
      /\ to_adapter' = Append(to_adapter, [step |-> Head(todo), cmd |-> given + 1,
                                           text |-> Text(Head(todo).cmd)])
      /\ UNCHANGED <<op, todo, ops, channel, stream, adapter, sent, emitted, taken, failures>>
  BY DEF SendRaw
<1>2. NothingOut /\ fragment = "none"
  BY <1>1, IdleNothingOut DEF Lockstep
<1>3. Text(Head(todo).cmd) = "whole"
  BY <1>2 DEF Text
<1>4. to_adapter' = <<[step |-> Head(todo), cmd |-> given', text |-> "whole"]>>
  <2>1. to_adapter = << >>
    BY <1>2 DEF NothingOut, Quiet
  <2>2. \A r : Append(<< >>, r) = <<r>>
    OBVIOUS
  <2>. QED  BY <1>1, <1>3, <2>1, <2>2
<1>5. op' # "read"
  BY <1>1, CallerFacts
<1>6. Received' = Received
  BY <1>1, SameReceived
<1>7. Asked'
  BY <1>1, <1>2, <1>4, <1>5, <1>6 DEF Asked, NothingOut, Quiet, channel
<1>. QED  BY <1>1, <1>7 DEF Lockstep

\* A read of the stream moves tokens from one place to the other.
LEMMA FetchKeeps ==
  ASSUME EType, Fetch
  PROVE  /\ rx_accum_' \o stream' = rx_accum_ \o stream
         /\ stream # << >> /\ waiting /\ NoPrompt
         /\ UNCHANGED <<caller, taken, rx_queue_, to_adapter, emitted, adapter, failures>>
<1>1. PICK k \in 1..Len(stream) :
        /\ rx_accum_' = rx_accum_ \o SubSeq(stream, 1, k)
        /\ stream' = SubSeq(stream, k + 1, Len(stream))
  BY DEF Fetch
<1>2. stream \in Seq(Known) /\ rx_accum_ \in Seq(Known) /\ Len(stream) \in Nat
  BY DEF EType, ChannelType, DeviceType
<1>3. SubSeq(stream, 1, k) \o SubSeq(stream, k + 1, Len(stream)) = stream
  <2>1. 1 \in 1..(Len(stream) + 1) /\ k \in (1 - 1)..Len(stream) /\ Len(stream) \in k..Len(stream)
    BY <1>2
  <2>2. SubSeq(stream, 1, k) \o SubSeq(stream, k + 1, Len(stream))
          = SubSeq(stream, 1, Len(stream))
    BY <1>2, <2>1, ConcatAdjacentSubSeq
  <2>3. SubSeq(stream, 1, Len(stream)) = stream
    BY <1>2
  <2>. QED  BY <2>2, <2>3
<1>4. SubSeq(stream, 1, k) \in Seq(Known) /\ stream' \in Seq(Known)
  <2>1. k \in 0..Len(stream)
    BY <1>2
  <2>. QED  BY <1>1, <1>2, <2>1, PrefixFacts, SuffixFacts
<1>5. rx_accum_' \o stream' = rx_accum_ \o (SubSeq(stream, 1, k) \o stream')
  <2>1. PICK a \in Seq(Known), s \in Seq(Known), t \in Seq(Known) :
          a = rx_accum_ /\ s = SubSeq(stream, 1, k) /\ t = stream'
    BY <1>2, <1>4
  <2>2. (a \o s) \o t = a \o (s \o t)
    BY ONLY <2>1, ConcatAssociative
  <2>. QED  BY <1>1, <2>1, <2>2
<1>6. stream # << >>
  BY <1>1, <1>2
<1>. QED  BY <1>1, <1>3, <1>5, <1>6 DEF Fetch

LEMMA FetchLocks == ASSUME EType, Lockstep, Fetch PROVE Lockstep'
<1>1. PICK lines \in Seq(Known) : AnswerComes(lines)
  BY FetchKeeps DEF Lockstep, NothingOut, Quiet, Asked
<1>2. AnswerComes(lines)'
  <2>1. rx_accum_' \o stream' = Append(lines, Prompt)
    BY <1>1, FetchKeeps DEF AnswerComes
  <2>2. UNCHANGED <<waiting, op, todo, to_adapter, emitted, adapter>> /\ Received' = Received
    BY FetchKeeps DEF caller, Received
  <2>3. Tells(lines)'
    BY <1>1, <2>2 DEF AnswerComes, Tells
  <2>. QED  BY <1>1, <2>1, <2>2, <2>3 DEF AnswerComes
<1>3. fragment' = "none"
  BY FetchKeeps DEF caller, Lockstep
<1>. QED  BY <1>1, <1>2, <1>3 DEF Lockstep

\* The prompt that GetAnswer finds is the one at the end of the answer.
LEMMA WholeAnswer ==
  ASSUME EType, NEW lines \in Seq(Known), AnswerComes(lines),
         NEW j \in 1..Len(rx_accum_), PromptAt(j)
  PROVE  SubSeq(rx_accum_, 1, j - 1) = lines /\ AfterPrompt(j) = << >> /\ stream = << >>
<1>. DEFINE a == Len(rx_accum_)
            b == Len(stream)
            l == Len(lines)
            w == rx_accum_ \o stream
<1>1. rx_accum_ \in Seq(Known) /\ stream \in Seq(Known) /\ a \in Nat /\ b \in Nat /\ l \in Nat
  BY DEF EType, ChannelType, DeviceType
<1>2. Len(w) = a + b /\ \A i \in 1..a : w[i] = rx_accum_[i]
  BY <1>1, ConcatFacts
<1>3. /\ w = Append(lines, Prompt) /\ \A i \in 1..l : lines[i].line # "prompt"
  BY DEF AnswerComes
<1>4. Len(w) = l + 1 /\ \A i \in 1..l : w[i] = lines[i]
  <2>1. /\ Len(Append(lines, Prompt)) = l + 1 
        /\ \A i \in 1..l : Append(lines, Prompt)[i] = lines[i]
    <3>1. Prompt \in Known
      BY DEF Prompt, Known, Tokens, IsFrame
    <3>. QED  BY <3>1, AppendFacts
  <2>. QED  BY <1>3, <2>1
<1>5. j \in 1..a /\ rx_accum_[j].line = "prompt"
  BY DEF PromptAt
<1>6. j - 1 \in 0..Len(rx_accum_) /\ j \in 0..Len(rx_accum_)
  BY <1>1
<1>. HIDE DEF a, b, l, w
<1>7. j = l + 1 /\ a = l + 1 /\ b = 0
  <2>1. ~(j \in 1..l)
    BY <1>2, <1>3, <1>4, <1>5
  <2>2. a + b = l + 1 /\ j <= a /\ j \in Nat /\ j >= 1
    BY <1>1, <1>2, <1>4, <1>5
  <2>. QED  BY <1>1, <2>1, <2>2
<1>8. SubSeq(rx_accum_, 1, j - 1) \in Seq(Known) /\ Len(SubSeq(rx_accum_, 1, j - 1)) = j - 1
      /\ \A i \in 1..(j - 1) : SubSeq(rx_accum_, 1, j - 1)[i] = rx_accum_[i]
  BY <1>1, <1>6, PrefixFacts
<1>9. SubSeq(rx_accum_, 1, j - 1) = lines
  <2>1. j - 1 = l /\ Len(lines) = l
    BY <1>1, <1>7 DEF l
  <2>2. \A i \in 1..l : i \in 1..a
    BY <1>1, <1>7
  <2>3. \A i \in 1..l : SubSeq(rx_accum_, 1, j - 1)[i] = lines[i]
    BY <1>2, <1>4, <1>8, <2>1, <2>2
  <2>4. Len(SubSeq(rx_accum_, 1, j - 1)) = Len(lines)
    BY <1>8, <2>1
  <2>. QED  BY <1>8, <2>1, <2>3, <2>4, SeqEqual
<1>10. AfterPrompt(j) = << >>
  <2>1. SubSeq(rx_accum_, j + 1, Len(rx_accum_)) \in Seq(Known)
        /\ Len(SubSeq(rx_accum_, j + 1, Len(rx_accum_))) = Len(rx_accum_) - j
    BY <1>1, <1>6, SuffixFacts
  <2>2. Len(rx_accum_) - j = 0
    BY <1>1, <1>7 DEF a
  <2>. QED  BY <2>1, <2>2 DEF AfterPrompt
<1>11. stream = << >>
  BY <1>1, <1>7 DEF b
<1>. QED  BY <1>9, <1>10, <1>11

\* A whole answer gets to the operation that waits for it.
LEMMA AnswerTaken ==
  ASSUME EType, Lockstep, GetAnswer
  PROVE  \E lines \in Seq(Known) :
           /\ AnswerComes(lines) /\ stream = << >> /\ todo # << >>
           /\ op \notin {"idle", "read"}
           /\ \/ Head(todo).cmd = "payload" /\ StepDone /\ Queues(rx_queue_ \o FramesOf(lines))
              \/ /\ Head(todo).cmd # "payload"
                 /\ IF Answered(Head(todo).need, lines) THEN StepDone ELSE StepFails
                 /\ Queues(rx_queue_)
           /\ rx_accum_' = << >>
           /\ UNCHANGED <<given, fragment, ops, device, failures>>
<1>. DEFINE part(j) == SubSeq(rx_accum_, 1, j - 1)
<1>1. PICK j \in 1..Len(rx_accum_) :
        /\ PromptAt(j)
        /\ \/ op = "read"
           \/ /\ op # "read" /\ Head(todo).cmd = "payload"
              /\ StepDone
              /\ Queues(rx_queue_ \o FramesOf(part(j)))
           \/ /\ op # "read" /\ Head(todo).cmd # "payload"
              /\ IF Answered(Head(todo).need, part(j)) THEN StepDone ELSE StepFails
              /\ Queues(rx_queue_)
        /\ Accumulates(AfterPrompt(j))
  BY DEF GetAnswer
<1>2. waiting /\ UNCHANGED <<given, fragment, ops, device, failures>>
  BY DEF GetAnswer
<1>3. rx_accum_ # << >>
  <2>1. \A s : s = << >> => ~(j \in 1..Len(s))
    OBVIOUS
  <2>. QED  BY <2>1
<1>4. PICK lines \in Seq(Known) : AnswerComes(lines)
  BY <1>3 DEF Lockstep, NothingOut, Asked
<1>5. part(j) = lines /\ AfterPrompt(j) = << >> /\ stream = << >>
  BY <1>1, <1>4, WholeAnswer
<1>. HIDE DEF part
<1>6. op # "read" /\ todo # << >> /\ op # "idle"
  BY <1>4 DEF AnswerComes, EType, CallerType
<1>7. rx_accum_' = << >>
  BY <1>1, <1>5 DEF Accumulates
<1>8. \/ Head(todo).cmd = "payload" /\ StepDone /\ Queues(rx_queue_ \o FramesOf(lines))
      \/ /\ Head(todo).cmd # "payload"
         /\ IF Answered(Head(todo).need, lines) THEN StepDone ELSE StepFails
         /\ Queues(rx_queue_)
  BY <1>1, <1>5, <1>6
<1>. QED  BY <1>2, <1>4, <1>5, <1>6, <1>7, <1>8

LEMMA GetAnswerLocks == ASSUME EType, Lockstep, GetAnswer PROVE Lockstep'
<1>1. PICK lines \in Seq(Known) :
        /\ AnswerComes(lines) /\ stream = << >>
        /\ \/ Head(todo).cmd = "payload" /\ StepDone /\ Queues(rx_queue_ \o FramesOf(lines))
           \/ /\ Head(todo).cmd # "payload" /\ (StepDone \/ StepFails)
              /\ Queues(rx_queue_)
        /\ rx_accum_' = << >>
        /\ UNCHANGED <<fragment, device>>
  BY AnswerTaken
<1>2. emitted = Received \o FramesOf(lines)
      /\ (Head(todo).cmd # "payload" => FramesOf(lines) = << >>)
      /\ to_adapter = << >>
  BY <1>1 DEF AnswerComes, Tells
<1>3. Received' = emitted
  <2>1. CASE Head(todo).cmd = "payload"
    <3>1. FramesOf(lines) \in Seq(Frames)
      BY FramesOfFacts
    <3>. QED  BY <1>1, <1>2, <2>1, <3>1, QueuesReceives
  <2>2. CASE Head(todo).cmd # "payload"
    <3>1. Received' = Received
      BY <1>1, <2>2, QueuesSame
    <3>. QED  BY <1>2, <2>2, <3>1, ReceivedIs
  <2>. QED  BY <2>1, <2>2
<1>4. waiting' = FALSE
  BY <1>1 DEF StepDone, StepFails
<1>5. NothingOut'
  BY <1>1, <1>2, <1>3, <1>4 DEF NothingOut, Quiet, device
<1>. QED  BY <1>1, <1>5 DEF Lockstep

\* As long as nothing has failed, only read() can wait for what does not come.
LEMMA GiveUpIsRead ==
  ASSUME EType, Lockstep, GiveUp, failures' = failures
  PROVE  /\ op = "read" /\ op' = "idle" /\ waiting' = FALSE /\ NothingOut
         /\ UNCHANGED <<todo, open_, header_set_, tx_header_, last_error_, taken, rx_queue_,
                        rx_accum_, given, fragment, ops, device>>
<1>1. /\ waiting /\ NoPrompt /\ Queues(rx_queue_) /\ Accumulates(rx_accum_)
      /\ UNCHANGED <<given, fragment, ops, device>>
      /\ IF op = "read"
         THEN op' = "idle" /\ waiting' = FALSE
              /\ UNCHANGED <<todo, open_, header_set_, tx_header_, last_error_>>
         ELSE NoAnswer
  BY DEF GiveUp
<1>2. Quiet
  <2>1. failures \in Nat
    BY Bounds DEF EType, DeviceType
  <2>2. failures' # failures + 1
    BY <2>1
  <2>. QED  BY <2>2 DEF GiveUp
<1>3. ~Asked
  <2>1. \A r : <<r>> # << >>
    OBVIOUS
  <2>. QED  BY <1>2, <2>1 DEF Quiet, Asked
<1>4. ASSUME NEW lines \in Seq(Known), AnswerComes(lines) PROVE FALSE
  <2>1. rx_accum_ = Append(lines, Prompt)
    <3>1. rx_accum_ \o << >> = rx_accum_
      BY ConcatEmptySeq DEF EType, ChannelType
    <3>. QED  BY <1>2, <1>4, <3>1 DEF AnswerComes, Quiet
  <2>2. Len(lines) + 1 \in 1..Len(rx_accum_) /\ rx_accum_[Len(lines) + 1] = Prompt
    <3>1. Prompt \in Known
      BY DEF Prompt, Known, Tokens, IsFrame
    <3>2. Len(Append(lines, Prompt)) = Len(lines) + 1 /\ Append(lines, Prompt)[Len(lines) + 1] = Prompt
          /\ Len(lines) \in Nat
      BY <3>1, AppendFacts
    <3>. QED  BY <2>1, <3>2
  <2>3. Prompt.line = "prompt"
    BY DEF Prompt
  <2>. QED  BY <1>1, <2>2, <2>3 DEF NoPrompt
<1>5. NothingOut /\ op = "read"
  BY <1>1, <1>3, <1>4 DEF Lockstep, NothingOut
<1>. QED  BY <1>1, <1>5 DEF Queues, Accumulates, Closing

LEMMA GiveUpLocks == ASSUME EType, Lockstep, GiveUp, failures' = failures PROVE Lockstep'
<1>1. NothingOut'
  BY GiveUpIsRead DEF NothingOut, Quiet, Received, device
<1>. QED  BY <1>1, GiveUpIsRead DEF Lockstep

\* The adapter has the command that is due, and answers it.
LEMMA TakesIsAsked ==
  ASSUME EType, Lockstep, NEW cmds, NEW texts, Takes(cmds, texts)
  PROVE  /\ Asked /\ to_adapter' = << >>
         /\ Head(to_adapter) = [step |-> Head(todo), cmd |-> given, text |-> "whole"]
         /\ Head(to_adapter).step = Head(todo) /\ "whole" \in texts /\ Head(todo).cmd \in cmds
<1>1. to_adapter # << >>
  BY DEF Takes
<1>2. Asked
  BY <1>1 DEF Lockstep, NothingOut, Quiet, AnswerComes
<1>. DEFINE r == [step |-> Head(todo), cmd |-> given, text |-> "whole"]
<1>3. to_adapter = <<r>> /\ r.step = Head(todo) /\ r.text = "whole"
  BY <1>2 DEF Asked
<1>. HIDE DEF r
<1>4. Head(to_adapter) = r /\ Tail(to_adapter) = << >>
  BY <1>3
<1>. QED  BY <1>2, <1>3, <1>4 DEF Takes, r

LEMMA AnswerLocks ==
  ASSUME EType, Lockstep, NEW cmds, NEW texts, Takes(cmds, texts),
         NEW lines \in Seq(Known), \A i \in 1..Len(lines) : lines[i].line # "prompt",
         stream' = stream \o lines \o <<Prompt>>,
         emitted' = emitted \o FramesOf(lines),
         Head(todo).cmd # "payload" => FramesOf(lines) = << >>,
         HasOk(lines) => Head(todo).cmd \in adapter'.accepted \ {"ATZ"},
         UNCHANGED <<caller, channel, taken>>
  PROVE  AnswerComes(lines)' /\ Lockstep'
<1>1. Asked /\ to_adapter' = << >>
  BY TakesIsAsked
<1>2. stream = << >> /\ rx_accum_' = << >> /\ emitted = Received /\ waiting /\ op # "read"
  BY <1>1 DEF Asked, channel
<1>3. rx_accum_' \o stream' = Append(lines, Prompt)
  <2>1. << >> \o lines = lines
    BY ConcatEmptySeq
  <2>2. lines \o <<Prompt>> = Append(lines, Prompt) /\ lines \o <<Prompt>> \in Seq(Known)
    <3>1. Prompt \in Known
      BY DEF Prompt, Known, Tokens, IsFrame
    <3>2. <<Prompt>> \in Seq(Known)
      BY <3>1
    <3>3. lines \o <<Prompt>> = Append(lines, Prompt)
      BY <3>1, AppendIsConcat
    <3>. QED  BY <3>2, <3>3, ConcatFacts
  <2>3. << >> \o (lines \o <<Prompt>>) = lines \o <<Prompt>>
    BY <2>2, ConcatEmptySeq
  <2>. QED  BY <1>2, <2>1, <2>2, <2>3
<1>4. UNCHANGED <<waiting, op, todo, fragment>> /\ Received' = Received
  BY SameReceived DEF caller
<1>5. Tells(lines)'
  BY <1>2, <1>4 DEF Tells
<1>6. AnswerComes(lines)'
  BY <1>1, <1>2, <1>3, <1>4, <1>5 DEF AnswerComes
<1>. QED  BY <1>4, <1>6 DEF Lockstep

\* An answer of one line holds no frame.
LEMMA OneLineAnswer ==
  ASSUME EType, NEW text \in {"ok", "status"}, Head(to_adapter).cmd \in 1..(9 * MaxOps),
         AdapterAnswers(text)
  PROVE  \E lines \in Seq(Known) :
           /\ stream' = stream \o lines \o <<Prompt>>
           /\ \A i \in 1..Len(lines) : lines[i].line # "prompt" /\ ~IsFrame(lines[i])
           /\ FramesOf(lines) = << >> /\ (HasOk(lines) => text = "ok")
           /\ Len(lines) = 1 /\ lines[1].line = text
<1>. DEFINE t == Line(text, Head(to_adapter).cmd, 1)
<1>1. t \in Known /\ ~IsFrame(t) /\ Prompt \in Known
  BY TokenTypes
<1>2. stream' = stream \o <<t, Prompt>> /\ t.line = text
  BY DEF AdapterAnswers, Line
<1>. HIDE DEF t
<1>3. <<t>> \in Seq(Known) /\ Len(<<t>>) = 1 /\ <<t>>[1] = t /\ <<Prompt>> \in Seq(Known)
  BY <1>1
<1>4. <<t, Prompt>> = <<t>> \o <<Prompt>>
  <2>1. <<t>> \o <<Prompt>> = Append(<<t>>, Prompt)
    BY <1>1, <1>3, AppendIsConcat
  <2>2. Append(<<t>>, Prompt) = <<t, Prompt>>
    BY <1>1, AppendPair
  <2>. QED  BY <2>1, <2>2
<1>. DEFINE lines == <<t>>
<1>5. lines \in Seq(Known) /\ Len(lines) = 1 /\ lines[1] = t
  BY <1>3
<1>. HIDE DEF lines
<1>6. stream' = stream \o lines \o <<Prompt>>
  <2>1. stream \in Seq(Known)
    BY DEF EType, DeviceType
  <2>2. (stream \o lines) \o <<Prompt>> = stream \o (lines \o <<Prompt>>)
    BY <1>3, <1>5, <2>1, ConcatAssociative
  <2>. QED  BY <1>2, <1>4, <2>2 DEF lines
<1>7. \A i \in 1..Len(lines) : i = 1
  BY <1>5
<1>8. \A i \in 1..Len(lines) : lines[i].line # "prompt" /\ ~IsFrame(lines[i])
  BY <1>1, <1>2, <1>5, <1>7
<1>9. FramesOf(lines) = << >>
  BY <1>5, <1>8, FramesOfFacts
<1>10. HasOk(lines) => text = "ok"
  BY <1>2, <1>5, <1>7 DEF HasOk
<1>. QED  BY <1>2, <1>5, <1>6, <1>8, <1>9, <1>10

\* The steps of the adapter, each with the answer that comes.
LEMMA ResetsAnswer ==
  ASSUME EType, Lockstep, AdapterResets \/ AdapterRejects
  PROVE  Lockstep' /\ \E lines \in Seq(Known) : AnswerComes(lines)' /\ ~HasOk(lines)
<1>1. PICK cmds, texts : Takes(cmds, texts)
  BY RejectsFacts DEF AdapterResets, Carries
<1>2. AdapterAnswers("status") /\ UNCHANGED <<caller, channel, emitted, taken>>
  BY RejectsFacts DEF AdapterResets
<1>3. Head(to_adapter).cmd \in 1..(9 * MaxOps)
  BY <1>1, TakesFacts
<1>4. PICK lines \in Seq(Known) :
        /\ stream' = stream \o lines \o <<Prompt>>
        /\ \A i \in 1..Len(lines) : lines[i].line # "prompt"
        /\ FramesOf(lines) = << >> /\ ~HasOk(lines)
  BY <1>2, <1>3, OneLineAnswer
<1>5. emitted \o << >> = emitted
  BY ConcatEmptySeq DEF EType, DeviceType
<1>. QED  BY <1>1, <1>2, <1>4, <1>5, AnswerLocks

LEMMA ObeysAnswer ==
  ASSUME EType, Lockstep, AdapterObeys
  PROVE  Lockstep' /\ \E lines \in Seq(Known) : AnswerComes(lines)' /\ HasOk(lines)
<1>1. /\ Takes(AtCommands \ {"ATZ", "ATI"}, {"whole"}) /\ AdapterAnswers("ok")
      /\ adapter'.accepted = adapter.accepted \cup {Head(to_adapter).step.cmd}
      /\ UNCHANGED <<caller, channel, sent, emitted, taken, failures>>
  BY ObeysFacts
<1>2. Head(to_adapter).cmd \in 1..(9 * MaxOps)
  BY <1>1, TakesFacts
<1>3. Head(to_adapter).step = Head(todo) /\ Head(todo).cmd \in AtCommands \ {"ATZ", "ATI"}
  BY <1>1, TakesIsAsked
<1>4. PICK lines \in Seq(Known) :
        /\ stream' = stream \o lines \o <<Prompt>>
        /\ \A i \in 1..Len(lines) : lines[i].line # "prompt"
        /\ FramesOf(lines) = << >> /\ Len(lines) = 1 /\ lines[1].line = "ok"
  BY <1>1, <1>2, OneLineAnswer
<1>5. emitted \o << >> = emitted
  BY ConcatEmptySeq DEF EType, DeviceType
<1>6. Head(todo).cmd \in adapter'.accepted \ {"ATZ"}
  BY <1>1, <1>3
<1>7. HasOk(lines)
  BY <1>4 DEF HasOk
<1>. QED  BY <1>1, <1>4, <1>5, <1>6, <1>7, AnswerLocks

LEMMA TransmitsAnswer ==
  ASSUME EType, Lockstep, NEW n \in 0..MaxFrames, Transmits(n)
  PROVE  Lockstep' /\ \E lines \in Seq(Known) : AnswerComes(lines)' /\ ~HasOk(lines)
<1>1. /\ Takes({"payload"}, {"whole", "glued"})
      /\ FramesFor(n) \in Seq(Frames) /\ emitted' = emitted \o FramesFor(n)
      /\ LinesFor(n) \in Seq(Known) /\ (n # 0 => LinesFor(n) = FramesFor(n))
      /\ n = 0 => Len(LinesFor(n)) = 1 /\ ~IsFrame(LinesFor(n)[1]) /\ FramesFor(n) = << >>
      /\ \A i \in 1..Len(LinesFor(n)) : LinesFor(n)[i].line \notin {"prompt", "ok"}
      /\ stream' = stream \o LinesFor(n) \o <<Prompt>>
      /\ UNCHANGED <<caller, channel, adapter, taken, failures>>
  BY TransmitsFacts
<1>2. FramesOf(LinesFor(n)) = FramesFor(n)
  <2>1. CASE n = 0
    <3>1. \A i \in 1..Len(LinesFor(n)) : i = 1
      BY <1>1, <2>1
    <3>. QED  BY <1>1, <2>1, <3>1, FramesOfFacts
  <2>2. CASE n # 0
    <3>1. LinesFor(n) = FramesFor(n)
      BY <1>1, <2>2
    <3>2. \A i \in 1..Len(FramesFor(n)) : IsFrame(FramesFor(n)[i])
      BY <1>1, ElementOfSeq, FrameIs
    <3>. QED  BY <1>1, <3>1, <3>2, FramesOfFacts
  <2>. QED  BY <2>1, <2>2
<1>3. Head(todo).cmd = "payload"
  BY <1>1, TakesIsAsked
<1>4. ~HasOk(LinesFor(n))
  BY <1>1 DEF HasOk
<1>. QED  BY <1>1, <1>2, <1>3, <1>4, AnswerLocks

LEMMA FailuresGrow ==
  ASSUME EType, Next
  PROVE  failures' = failures \/ failures' = failures + 1
BY DEF Next, Caller, Device, Initialise, OpenRefused, InitialiseRefused, Write, WriteEmpty,
       WriteClosed, ReadQueued, ReadWaits, SetFilter, Command, Close, CloseClosed, SendRaw,
       SendRawFails, SendRawFailsUnseen, WriteBreaks, Fetch, GetAnswer, GiveUp, AdapterResets,
       AdapterObeys, AdapterRejects, AdapterTransmits, Transmits, LoseToken, Finished, vars

LEMMA StepLocks == ILock /\ [Next]_vars => ILock'
<1>. SUFFICES ASSUME ILock, [Next]_vars, failures' = 0 PROVE Lockstep'
  BY StepTyped DEF ILock
<1>. USE DEF ILock
<1>1. CASE UNCHANGED vars
  BY <1>1 DEF vars, caller, channel, device, Lockstep, NothingOut, Asked, AnswerComes, Tells,
              Quiet, Received
<1>2. CASE Next
  <2>1. failures = 0 /\ EType
    <3>1. failures \in Nat
      BY Bounds DEF EType, DeviceType
    <3>. QED  BY <1>2, <3>1, FailuresGrow
  <2>2. Lockstep
    BY <2>1
  <2>3. CASE \/ Initialise \/ OpenRefused \/ InitialiseRefused \/ Write \/ WriteEmpty
             \/ WriteClosed \/ ReadQueued \/ ReadWaits \/ SetFilter \/ Command \/ Close
             \/ CloseClosed
    BY <2>1, <2>2, <2>3, StartsLock
  <2>4. CASE SendRaw
    BY <2>1, <2>2, <2>4, SendRawLocks
  <2>5. CASE Fetch
    BY <2>1, <2>2, <2>5, FetchLocks
  <2>6. CASE GetAnswer
    BY <2>1, <2>2, <2>6, GetAnswerLocks
  <2>7. CASE GiveUp
    BY <2>1, <2>2, <2>7, GiveUpLocks
  <2>8. CASE AdapterResets \/ AdapterRejects
    BY <2>1, <2>2, <2>8, ResetsAnswer
  <2>9. CASE AdapterObeys
    BY <2>1, <2>2, <2>9, ObeysAnswer
  <2>10. CASE AdapterTransmits
    BY <2>1, <2>2, <2>10, TransmitsAnswer DEF AdapterTransmits
  <2>11. CASE SendRawFails \/ SendRawFailsUnseen \/ LoseToken
    BY <2>1, <2>11 DEF SendRawFails, SendRawFailsUnseen, LoseToken, WriteBreaks
  <2>12. CASE Finished
    BY <1>1, <2>12 DEF Finished
  <2>. QED  BY <1>2, <2>3, <2>4, <2>5, <2>6, <2>7, <2>8, <2>9, <2>10, <2>11, <2>12
            DEF Next, Caller, Device
<1>. QED  BY <1>1, <1>2

LEMMA InitLocks == Init => ILock
<1>. SUFFICES ASSUME Init PROVE Lockstep
  BY InitTyped DEF ILock
<1>1. Received = << >>
  <2>1. << >> \o << >> = << >>
    BY ConcatEmptySeq
  <2>. QED  BY <2>1 DEF Init, Received
<1>. QED  BY <1>1 DEF Init, Lockstep, NothingOut, Quiet

LEMMA LockedInvariant == Spec => []ILock
BY InitLocks, StepLocks, PTL DEF Spec

\* Every command gets its own answer, as long as nothing has failed: between two
\* operations nothing is outstanding and rx_accum_ is empty (elm327_channel.cpp:183-245).
THEOREM LockstepKept == Spec => []InStep
<1>1. ILock => InStep
  BY IdleNothingOut DEF ILock, InStep, NothingOut
<1>. QED  BY <1>1, LockedInvariant, PTL

\* Every frame that answered a write has been handed over or is in rx_queue_, as long
\* as nothing has failed (elm327_channel.cpp:462-510).
THEOREM NothingIsLost == Spec => []AllReceived
<1>1. ILock => AllReceived
  BY IdleNothingOut DEF ILock, AllReceived, NothingOut
<1>. QED  BY <1>1, LockedInvariant, PTL

-----------------------------------------------------------------------------
(* open() configures the adapter.                                           *)

IConf == ILock /\ (failures = 0 => Configuring)

LEMMA RequiredFacts == Required \subseteq AtCommands \ {"ATZ", "ATI", "ATSH"}
BY DEF Required, AtCommands

LEMMA ConfiguringStarts ==
  ASSUME op' = "open", todo' = InitScript
  PROVE  Configuring'
<1>. DEFINE s == InitScript
<1>1. IsScript(s) /\ \A c \in Required : Sets(s, c)
  BY InitScriptFacts
<1>2. \A i \in 1..Len(s) : i # 1 => s[i] \in Settings
  BY <1>1, ScriptSteps
<1>3. s[1].cmd = "ATZ" /\ "ATZ" \notin Required
  BY <1>1, RequiredFacts DEF IsScript
<1>. HIDE DEF s
<1>4. \A c \in Required : \E j \in 2..Len(s) : s[j].cmd = c
  <2>1. SUFFICES ASSUME NEW c \in Required PROVE \E j \in 2..Len(s) : s[j].cmd = c
    OBVIOUS
  <2>2. PICK j \in 1..Len(s) : s[j].cmd = c
    BY <1>1 DEF Sets
  <2>3. j # 1
    BY <1>3, <2>2
  <2>4. Len(s) \in Nat
    BY <1>1 DEF IsScript
  <2>. QED  BY <2>2, <2>3, <2>4
<1>5. \A c \in Required : \E j \in 1..Len(s) : s[j].cmd = c
  BY <1>1 DEF Sets
<1>6. \A i \in 1..Len(s) : s[i].cmd = "ATZ" => i = 1
  BY <1>2 DEF Settings
<1>7. \A i \in 1..Len(s) : s[i].cmd \in Required => s[i].need = "ok"
  BY <1>2, <1>3 DEF Settings
<1>8. todo' = s
  BY DEF s
<1>. QED  BY <1>4, <1>5, <1>6, <1>7, <1>8 DEF Configuring

\* The answer to a command of open() says that the adapter has accepted it.
LEMMA OpenStepAccepted ==
  ASSUME EType, Lockstep, Configuring, GetAnswer, op = "open", StepDone
  PROVE  /\ todo # << >> /\ UNCHANGED adapter
         /\ Head(todo).cmd \in Required => Head(todo).cmd \in adapter.accepted
<1>1. PICK lines \in Seq(Known) :
        /\ AnswerComes(lines) /\ todo # << >>
        /\ \/ Head(todo).cmd = "payload"
           \/ IF Answered(Head(todo).need, lines) THEN StepDone ELSE StepFails
        /\ UNCHANGED device
  BY AnswerTaken
<1>2. todo[1] = Head(todo) /\ 1 \in 1..Len(todo) /\ Head(todo).cmd # "payload"
  BY <1>1, CallerFacts DEF StepFits
<1>3. ASSUME Head(todo).cmd \in Required PROVE Head(todo).cmd \in adapter.accepted
  <2>1. Head(todo).need = "ok"
    BY <1>2, <1>3 DEF Configuring
  <2>2. open_' \/ todo' # << >>
    BY DEF StepDone
  <2>3. ~StepFails
    <3>1. open_' => ~StepFails
      BY DEF StepFails
    <3>2. todo' # << >> => ~StepFails
      BY DEF StepFails
    <3>. QED  BY <2>2, <3>1, <3>2
  <2>4. HasOk(lines)
    BY <1>1, <1>2, <2>1, <2>3 DEF Answered
  <2>. QED  BY <1>1, <2>4 DEF AnswerComes, Tells
<1>. QED  BY <1>1, <1>3 DEF device

LEMMA AnswerConfigures ==
  ASSUME EType, Lockstep, Configuring, GetAnswer
  PROVE  Configuring'
<1>1. SUFFICES ASSUME op' = "open" PROVE Configuring'
  BY DEF Configuring
<1>2. op = "open" /\ StepDone
  <2>1. StepDone \/ StepFails
    BY AnswerTaken
  <2>. QED  BY <1>1, <2>1 DEF StepDone, StepFails
<1>3. /\ todo # << >> /\ UNCHANGED adapter
      /\ Head(todo).cmd \in Required => Head(todo).cmd \in adapter.accepted
  BY <1>2, OpenStepAccepted
<1>4. todo' = Tail(todo)
  BY <1>2 DEF StepDone
<1>5. /\ Len(todo) \in Nat /\ Len(todo) > 0 /\ Len(todo') = Len(todo) - 1 /\ Head(todo) = todo[1]
      /\ \A i \in 1..Len(todo') : todo'[i] = todo[i + 1]
  BY <1>3, <1>4, CallerFacts
<1>6. PICK l \in Nat : l = Len(todo) /\ l > 0
  BY <1>5
<1>7. Len(todo') = l - 1
  BY <1>5, <1>6
<1>8. /\ \A i \in 1..l : todo[i].cmd = "ATZ" => i = 1
      /\ \A c \in Required : c \in adapter.accepted \/ \E j \in 1..l : todo[j].cmd = c
      /\ \A i \in 1..l : todo[i].cmd \in Required => todo[i].need = "ok"
  BY <1>2, <1>6 DEF Configuring
<1>9. \A i \in 1..(l - 1) : i + 1 \in 1..l /\ i + 1 # 1
  OBVIOUS
<1>10. \A i \in 1..(l - 1) : todo'[i].cmd # "ATZ"
  BY <1>5, <1>7, <1>8, <1>9
<1>11. \A i \in 1..(l - 1) : todo'[i].cmd \in Required => todo'[i].need = "ok"
  <2>. SUFFICES ASSUME NEW i \in 1..(l - 1)
                PROVE  todo'[i].cmd \in Required => todo'[i].need = "ok"
    OBVIOUS
  <2>1. i + 1 \in 1..l /\ todo'[i] = todo[i + 1]
    BY <1>5, <1>7, <1>9
  <2>. QED  BY <1>8, <2>1
<1>12. ASSUME NEW c \in Required
       PROVE  c \in adapter'.accepted \/ \E j \in 1..(l - 1) : todo'[j].cmd = c
  <2>1. CASE c \in adapter.accepted
    BY <1>3, <2>1
  <2>2. CASE \E j \in 1..l : todo[j].cmd = c
    <3>1. PICK j \in 1..l : todo[j].cmd = c
      BY <2>2
    <3>2. CASE j = 1
      BY <1>3, <1>5, <3>1, <3>2
    <3>3. CASE j # 1
      <4>1. j - 1 \in 1..(l - 1) /\ (j - 1) + 1 = j
        BY <3>3
      <4>. QED  BY <1>5, <1>7, <3>1, <4>1
    <3>. QED  BY <3>2, <3>3
  <2>. QED  BY <1>8, <2>1, <2>2
<1>. QED  BY <1>7, <1>10, <1>11, <1>12 DEF Configuring

LEMMA ResetConfigures ==
  ASSUME EType, Lockstep, Configuring, AdapterResets
  PROVE  Configuring'
<1>1. SUFFICES ASSUME op' = "open" PROVE Configuring'
  BY DEF Configuring
<1>2. Takes({"ATZ"}, {"whole"}) /\ UNCHANGED <<op, todo>>
  BY DEF AdapterResets, Carries, caller
<1>3. Head(todo).cmd = "ATZ" /\ Asked
  BY <1>2, TakesIsAsked
<1>4. op = "open" /\ todo # << >>
  BY <1>1, <1>2 DEF EType, CallerType
<1>5. todo[1] = Head(todo) /\ Len(todo) \in Nat /\ 1 \in 1..Len(todo)
  BY <1>4, CallerFacts
<1>6. \A c \in Required : \E j \in 2..Len(todo) : todo[j].cmd = c
  BY <1>3, <1>4, <1>5 DEF Configuring
<1>7. \A c \in Required : \E j \in 1..Len(todo) : todo[j].cmd = c
  <2>1. \A j \in 2..Len(todo) : j \in 1..Len(todo)
    BY <1>5
  <2>. QED  BY <1>6, <2>1
<1>8. /\ \A i \in 1..Len(todo) : todo[i].cmd = "ATZ" => i = 1
      /\ \A i \in 1..Len(todo) : todo[i].cmd \in Required => todo[i].need = "ok"
  BY <1>4 DEF Configuring
<1>. QED  BY <1>2, <1>6, <1>7, <1>8 DEF Configuring

LEMMA GrownConfigures ==
  ASSUME Configuring, UNCHANGED <<op, todo>>, adapter.accepted \subseteq adapter'.accepted
  PROVE  Configuring'
<1>1. SUFFICES ASSUME op = "open" PROVE Configuring'
  BY DEF Configuring
<1>2. /\ \A i \in 1..Len(todo) : todo[i].cmd = "ATZ" =>
           i = 1 /\ \A c \in Required : \E j \in 2..Len(todo) : todo[j].cmd = c
      /\ \A c \in Required :
           c \in adapter.accepted \/ \E j \in 1..Len(todo) : todo[j].cmd = c
      /\ \A i \in 1..Len(todo) : todo[i].cmd \in Required => todo[i].need = "ok"
  BY <1>1 DEF Configuring
<1>3. \A c \in Required :
        c \in adapter'.accepted \/ \E j \in 1..Len(todo) : todo[j].cmd = c
  BY <1>2
<1>. QED  BY <1>2, <1>3 DEF Configuring

LEMMA StepConfigures == IConf /\ [Next]_vars => IConf'
<1>. SUFFICES ASSUME IConf, [Next]_vars, failures' = 0 PROVE Configuring'
  BY StepLocks DEF IConf
<1>1. EType /\ (failures = 0 => Lockstep /\ Configuring)
  BY DEF IConf, ILock
<1>2. CASE UNCHANGED vars
  <2>1. UNCHANGED <<op, todo, adapter, failures>>
    BY <1>2 DEF vars, caller, device
  <2>. QED  BY <1>1, <2>1, GrownConfigures
<1>3. CASE Next
  <2>1. Lockstep /\ Configuring /\ failures = 0
    <3>1. failures \in Nat
      BY <1>1, Bounds DEF EType, DeviceType
    <3>. QED  BY <1>1, <1>3, <3>1, FailuresGrow
  <2>2. CASE Initialise
    BY <2>2, ConfiguringStarts DEF Initialise, Configuring
  <2>3. CASE \/ OpenRefused \/ InitialiseRefused \/ Write \/ WriteEmpty \/ WriteClosed
             \/ ReadQueued \/ ReadWaits \/ SetFilter \/ Command \/ Close \/ CloseClosed
    <3>1. op' # "open"
      BY <2>3 DEF OpenRefused, InitialiseRefused, Write, WriteEmpty, WriteClosed, ReadQueued,
                  ReadWaits, SetFilter, Command, Close, CloseClosed, Starts
    <3>. QED  BY <3>1 DEF Configuring
  <2>4. CASE SendRaw \/ Fetch \/ AdapterRejects \/ AdapterTransmits
    <3>1. UNCHANGED <<op, todo, adapter>>
      BY <2>4 DEF SendRaw, Fetch, AdapterRejects, AdapterTransmits, Transmits, caller
    <3>. QED  BY <2>1, <3>1, GrownConfigures
  <2>5. CASE GetAnswer
    BY <1>1, <2>1, <2>5, AnswerConfigures
  <2>6. CASE GiveUp
    <3>1. op' = "idle"
      BY <1>1, <2>1, <2>6, GiveUpIsRead
    <3>. QED  BY <3>1 DEF Configuring
  <2>7. CASE AdapterResets
    BY <1>1, <2>1, <2>7, ResetConfigures
  <2>8. CASE AdapterObeys
    <3>1. adapter.accepted \subseteq adapter'.accepted /\ UNCHANGED caller
      BY <1>1, <2>8, ObeysFacts
    <3>. QED  BY <2>1, <3>1, GrownConfigures DEF caller
  <2>9. CASE SendRawFails \/ SendRawFailsUnseen \/ LoseToken
    BY <2>1, <2>9 DEF SendRawFails, SendRawFailsUnseen, LoseToken, WriteBreaks
  <2>10. CASE Finished
    BY <1>2, <2>10 DEF Finished
  <2>. QED  BY <1>3, <2>2, <2>3, <2>4, <2>5, <2>6, <2>7, <2>8, <2>9, <2>10
            DEF Next, Caller, Device
<1>. QED  BY <1>2, <1>3

LEMMA OpenSucceeds ==
  ASSUME IConf, Next, failures' = 0, op = "open", op' = "idle", open_'
  PROVE  Required \subseteq adapter'.accepted
<1>1. EType /\ (failures = 0 => Lockstep /\ Configuring)
  BY DEF IConf, ILock
<1>2. Lockstep /\ Configuring /\ failures' = failures
  <2>1. failures \in Nat
    BY <1>1, Bounds DEF EType, DeviceType
  <2>. QED  BY <1>1, <2>1, FailuresGrow
<1>3. GetAnswer
  <2>1. ~GiveUp
    BY <1>1, <1>2, GiveUpIsRead
  <2>2. ~(SendRawFails \/ SendRawFailsUnseen \/ LoseToken)
    <3>1. failures \in Nat
      BY <1>1, Bounds DEF EType, DeviceType
    <3>. QED  BY <1>2, <3>1 DEF SendRawFails, SendRawFailsUnseen, LoseToken, WriteBreaks
  <2>3. ~(\/ Initialise \/ OpenRefused \/ InitialiseRefused \/ Write \/ WriteEmpty \/ WriteClosed
          \/ ReadQueued \/ ReadWaits \/ SetFilter \/ Command \/ Close \/ CloseClosed)
    BY DEF Initialise, OpenRefused, InitialiseRefused, Write, WriteEmpty, WriteClosed,
           ReadQueued, ReadWaits, SetFilter, Command, Close, CloseClosed, Starts
  <2>4. ~(\/ SendRaw \/ Fetch \/ AdapterResets \/ AdapterObeys \/ AdapterRejects
          \/ AdapterTransmits \/ Finished)
    BY DEF SendRaw, Fetch, AdapterResets, AdapterObeys, AdapterRejects, AdapterTransmits,
           Transmits, Finished, vars, caller
  <2>. QED  BY <2>1, <2>2, <2>3, <2>4 DEF Next, Caller, Device
<1>4. StepDone
  <2>1. StepDone \/ StepFails
    BY <1>1, <1>2, <1>3, AnswerTaken
  <2>. QED  BY <2>1 DEF StepFails
<1>5. /\ todo # << >> /\ UNCHANGED adapter
      /\ Head(todo).cmd \in Required => Head(todo).cmd \in adapter.accepted
  BY <1>1, <1>2, <1>3, <1>4, OpenStepAccepted
<1>6. Tail(todo) = << >>
  BY <1>4 DEF StepDone
<1>7. todo[1] = Head(todo) /\ Len(todo) = 1
  <2>1. Len(Tail(todo)) = Len(todo) - 1 /\ Len(todo) \in Nat /\ Head(todo) = todo[1]
    BY <1>1, <1>5, CallerFacts
  <2>2. \A s : s = << >> => Len(s) = 0
    OBVIOUS
  <2>3. Len(Tail(todo)) = 0
    BY <1>6, <2>2
  <2>. QED  BY <2>1, <2>3
<1>8. ASSUME NEW c \in Required PROVE c \in adapter'.accepted
  <2>1. c \in adapter.accepted \/ \E j \in 1..Len(todo) : todo[j].cmd = c
    BY <1>2 DEF Configuring
  <2>. QED  BY <1>5, <1>7, <2>1
<1>. QED  BY <1>8

LEMMA ConfigInvariant == Spec => []IConf
<1>1. Init => IConf
  BY InitLocks DEF IConf, Init, Configuring
<1>. QED  BY <1>1, StepConfigures, PTL DEF Spec

\* When open() succeeds and nothing has failed, the adapter has accepted every setting
\* that the channel cannot work without (elm327_channel.cpp:344-395, 397-431).
THEOREM OpenIsConfigured == Spec => OpenConfigures
<1>1. IConf /\ [Next]_vars =>
        [failures' = 0 /\ op = "open" /\ op' = "idle" /\ open_'
           => Required \subseteq adapter'.accepted]_vars
  BY OpenSucceeds
<1>. QED  BY <1>1, ConfigInvariant, PTL DEF Spec, OpenConfigures

-----------------------------------------------------------------------------
(* Frames go out with their ids.                                            *)

IHead == ILock /\ (failures = 0 => HeaderKnown /\ SentRight)

\* The answer that comes is one.
LEMMA OneAnswer ==
  ASSUME NEW l \in Seq(Known), NEW m \in Seq(Known), Append(l, Prompt) = Append(m, Prompt)
  PROVE  l = m
<1>1. Prompt \in Known
  BY DEF Prompt, Known, Tokens, IsFrame
<1>2. /\ Len(Append(l, Prompt)) = Len(l) + 1 /\ Len(Append(m, Prompt)) = Len(m) + 1
      /\ \A i \in 1..Len(l) : Append(l, Prompt)[i] = l[i]
      /\ \A i \in 1..Len(m) : Append(m, Prompt)[i] = m[i]
  BY <1>1, AppendFacts
<1>3. Len(l) = Len(m)
  <2>1. PICK a \in Nat, b \in Nat : a = Len(l) /\ b = Len(m)
    OBVIOUS
  <2>2. a + 1 = b + 1
    BY <1>2, <2>1
  <2>. QED  BY <2>1, <2>2
<1>4. \A i \in 1..Len(l) : l[i] = m[i]
  BY <1>2, <1>3
<1>. QED  BY <1>3, <1>4, SeqEqual

\* When the channel does not wait for an answer that has come, the header is known.
LEMMA HeaderSettled ==
  ASSUME EType, HeaderKnown, header_set_,
         ~waiting \/ to_adapter # << >> \/ ~SetsHeader
  PROVE  HeaderIs(tx_header_)
BY DEF HeaderKnown, JustSet, AnswerComes

\* An operation starts, or is over at once, and gives no header.
LEMMA StartKnows ==
  ASSUME EType, HeaderKnown, NEW name, Starts(name), op' # "write", op' \notin {"open", "initialise"},
         \A i \in 1..Len(todo') : todo'[i].cmd \notin {"ATZ", "ATSH"},
         header_set_' => header_set_,
         UNCHANGED <<adapter, tx_header_>>
  PROVE  HeaderKnown'
<1>1. header_set_' => HeaderIs(tx_header_)'
  <2>1. ~waiting
    BY DEF Starts, EType, CallerType
  <2>. QED  BY <2>1, HeaderSettled DEF HeaderIs
<1>2. ~SetsHeader'
  BY DEF SetsHeader
<1>. QED  BY <1>1, <1>2 DEF HeaderKnown, HeaderTold, WritePrepared, HeaderCommands

LEMMA NoCommands ==
  ASSUME EType, \E name : Starts(name), todo' = todo
  PROVE  \A i \in 1..Len(todo') : todo'[i].cmd \notin {"ATZ", "ATSH"}
<1>1. todo' = << >>
  BY DEF EType, CallerType, Starts
<1>2. \A s : s = << >> => Len(s) = 0
  OBVIOUS
<1>3. Len(todo') = 0
  BY <1>1, <1>2
<1>. QED  BY <1>3


LEMMA InitialiseKnows == ASSUME EType, HeaderKnown, Initialise PROVE HeaderKnown'
<1>1. op' \in {"open", "initialise"} /\ todo' = InitScript /\ header_set_' = FALSE
  BY DEF Initialise
<1>2. \A i \in 1..Len(InitScript) : InitScript[i].cmd # "ATSH"
  <2>1. IsScript(InitScript)
    BY InitScriptFacts
  <2>2. \A i \in 1..Len(InitScript) : i # 1 => InitScript[i] \in Settings
    BY <2>1, ScriptSteps
  <2>3. InitScript[1].cmd = "ATZ"
    BY <2>1 DEF IsScript
  <2>. HIDE DEF InitScript
  <2>. QED  BY <2>2, <2>3 DEF Settings
<1>3. ~SetsHeader'
  BY <1>1 DEF SetsHeader
<1>. QED  BY <1>1, <1>2, <1>3 DEF HeaderKnown, HeaderTold, WritePrepared, HeaderCommands

\* write() gives the header when it must.
LEMMA WriteKnows == ASSUME EType, HeaderKnown, Write PROVE HeaderKnown'
<1>1. PICK id \in Ids :
        todo' = If(NeedsHeader(id), <<Header(id)>>) \o <<Payload(id)>>
  BY DEF Write, Header, Payload
<1>2. /\ Starts("write") /\ op' = "write" /\ ~waiting
      /\ UNCHANGED <<waiting, tx_header_, header_set_, adapter>>
  BY DEF Write, channel, device, Starts, EType, CallerType
<1>3. /\ Len(todo') \in 1..2
      /\ NeedsHeader(id) => Len(todo') = 2 /\ todo'[1] = Header(id) /\ todo'[2] = Payload(id)
      /\ ~NeedsHeader(id) => todo' = <<Payload(id)>>
  BY <1>1, WriteScript
<1>4. /\ Header(id).cmd = "ATSH" /\ Header(id).id = id /\ Header(id).need = "ok"
      /\ Payload(id).cmd = "payload" /\ Payload(id).id = id
  BY HeaderPayload
<1>5. header_set_' => HeaderIs(tx_header_)'
  BY <1>2, HeaderSettled DEF HeaderIs
<1>6. HeaderTold'
  BY <1>2 DEF HeaderTold, AnswerComes
<1>7. WritePrepared' /\ HeaderCommands'
  <2>1. CASE NeedsHeader(id)
    <3>1. \A i \in 1..Len(todo') : i = 1 \/ i = 2
      <4>1. Len(todo') = 2
        BY <1>3, <2>1
      <4>. QED  BY <4>1
    <3>. QED  BY <1>2, <1>3, <1>4, <2>1, <3>1 DEF WritePrepared, HeaderCommands
  <2>2. CASE ~NeedsHeader(id)
    <3>1. PICK y : y = Payload(id)
      OBVIOUS
    <3>2. todo' = <<y>>
      BY <1>3, <2>2, <3>1
    <3>3. Len(todo') = 1 /\ todo'[1] = y
      BY <3>2
    <3>4. \A i \in 1..Len(todo') : i = 1
      BY <3>3
    <3>5. header_set_' /\ tx_header_' = id.num
      BY <1>2, <2>2 DEF NeedsHeader
    <3>. QED  BY <1>2, <1>4, <3>1, <3>3, <3>4, <3>5 DEF WritePrepared, HeaderCommands
  <2>. QED  BY <2>1, <2>2
<1>. QED  BY <1>2, <1>5, <1>6, <1>7 DEF HeaderKnown

LEMMA WriteEmptyKnows == ASSUME EType, HeaderKnown, WriteEmpty PROVE HeaderKnown'
<1>1. PICK id \in Ids :
        /\ todo' = If(NeedsHeader(id), <<Header(id)>>)
        /\ op' = IF NeedsHeader(id) THEN "write" ELSE "idle"
  BY DEF WriteEmpty, Header
<1>2. /\ Starts("write") /\ ~waiting /\ todo = << >>
      /\ UNCHANGED <<waiting, tx_header_, header_set_, adapter>>
  BY DEF WriteEmpty, device, Starts, EType, CallerType
<1>3. CASE NeedsHeader(id)
  <2>1. Header(id).cmd = "ATSH" /\ Header(id).need = "ok"
    BY HeaderPayload
  <2>2. PICK y : y = Header(id)
    OBVIOUS
  <2>3. todo' = <<y>> /\ op' = "write"
    BY <1>1, <1>3, <2>2 DEF If
  <2>4. Len(todo') = 1 /\ todo'[1] = y
    BY <2>3
  <2>5. \A i \in 1..Len(todo') : i = 1
    BY <2>4
  <2>6. header_set_' => HeaderIs(tx_header_)'
    BY <1>2, HeaderSettled DEF HeaderIs
  <2>7. HeaderTold'
    BY <1>2 DEF HeaderTold, AnswerComes
  <2>8. WritePrepared' /\ HeaderCommands'
    BY <2>1, <2>2, <2>3, <2>4, <2>5 DEF WritePrepared, HeaderCommands
  <2>. QED  BY <2>3, <2>6, <2>7, <2>8 DEF HeaderKnown
<1>4. CASE ~NeedsHeader(id)
  <2>1. todo' = todo /\ op' = "idle"
    BY <1>1, <1>2, <1>4 DEF If
  <2>. QED  BY <1>2, <2>1, NoCommands, StartKnows
<1>. QED  BY <1>3, <1>4

\* The other operations.
LEMMA OthersKnow ==
  ASSUME EType, HeaderKnown, HeaderIsOurs,
         \/ OpenRefused \/ InitialiseRefused \/ WriteClosed \/ ReadQueued \/ ReadWaits
         \/ SetFilter \/ Command \/ Close \/ CloseClosed
  PROVE  HeaderKnown'
<1>1. CASE \/ OpenRefused \/ InitialiseRefused \/ WriteClosed \/ ReadQueued \/ ReadWaits
           \/ CloseClosed
  <2>1. /\ \E name : Starts(name) /\ todo' = todo
        /\ op' \in {"idle", "read"} /\ (header_set_' => header_set_)
        /\ UNCHANGED <<adapter, tx_header_>>
    BY <1>1 DEF OpenRefused, InitialiseRefused, WriteClosed, ReadQueued, ReadWaits, CloseClosed,
                Starts, channel, device
  <2>. QED  BY <2>1, NoCommands, StartKnows
<1>2. CASE SetFilter \/ Close
  <2>1. /\ \E name : Starts(name)
        /\ op' \in {"filter", "mask", "clear", "close"}
        /\ UNCHANGED <<adapter, tx_header_, header_set_>>
    BY <1>2 DEF SetFilter, Close, channel, device
  <2>2. \A i \in 1..Len(todo') : todo'[i].cmd \notin {"ATZ", "ATSH"}
    <3>1. \A c : Step(c, "ignored").cmd = c
      BY DEF Step
    <3>2. PICK w, x, y, z : /\ w = Step("ATCRA", "ignored") /\ x = Step("ATCM", "ignored")
                            /\ y = Step("ATCF", "ignored") /\ z = Step("ATPC", "ignored")
      OBVIOUS
    <3>3. todo' = <<w>> \/ todo' = <<x, y>> \/ todo' = <<z>>
      BY <1>2, <3>2 DEF SetFilter, Close
    <3>4. \A t \in {w, x, y, z} : t.cmd \notin {"ATZ", "ATSH"}
      BY <3>1, <3>2
    <3>5. \A i \in 1..Len(todo') : todo'[i] \in {w, x, y, z}
      BY <3>3
    <3>. QED  BY <3>4, <3>5
  <2>. QED  BY <2>1, <2>2, StartKnows
<1>3. CASE Command
  <2>1. PICK c \in UserCommands : todo' = <<Step(c, "reply")>>
    BY <1>3 DEF Command
  <2>2. /\ Starts("command") /\ op' = "command"
        /\ UNCHANGED <<adapter, tx_header_, header_set_>>
    BY <1>3 DEF Command, channel, device
  <2>3. PICK w : w = Step(c, "reply")
    OBVIOUS
  <2>4. w.cmd \notin {"ATZ", "ATSH"}
    BY <2>3 DEF Step, HeaderIsOurs
  <2>5. todo' = <<w>>
    BY <2>1, <2>3
  <2>6. \A i \in 1..Len(todo') : todo'[i] = w
    BY <2>5
  <2>. QED  BY <2>2, <2>4, <2>6, StartKnows
<1>. QED  BY <1>1, <1>2, <1>3

LEMMA SendRawKnows == ASSUME EType, HeaderKnown, SendRaw PROVE HeaderKnown'
<1>1. /\ ~waiting /\ to_adapter' = Append(to_adapter, [step |-> Head(todo), cmd |-> given + 1,
                                                       text |-> Text(Head(todo).cmd)])
      /\ UNCHANGED <<op, todo, tx_header_, header_set_, adapter>>
  BY DEF SendRaw, channel
<1>2. header_set_' => HeaderIs(tx_header_)'
  BY <1>1, HeaderSettled DEF HeaderIs
<1>3. to_adapter' # << >>
  <2>1. to_adapter \in Seq(Requests)
    BY DEF EType, DeviceType
  <2>2. PICK r : r = [step |-> Head(todo), cmd |-> given + 1, text |-> Text(Head(todo).cmd)]
    OBVIOUS
  <2>3. to_adapter' = Append(to_adapter, r)
    BY <1>1, <2>2
  <2>. QED  BY <2>1, <2>3
<1>4. HeaderTold'
  BY <1>3 DEF HeaderTold, AnswerComes
<1>5. WritePrepared' /\ HeaderCommands'
  BY <1>1 DEF HeaderKnown, WritePrepared, HeaderCommands
<1>6. op' \in {"open", "initialise"} => ~header_set_'
  BY <1>1 DEF HeaderKnown
<1>. QED  BY <1>2, <1>4, <1>5, <1>6 DEF HeaderKnown

LEMMA FetchKnows == ASSUME EType, HeaderKnown, Fetch PROVE HeaderKnown'
<1>1. UNCHANGED <<op, todo, waiting, to_adapter, taken, rx_queue_, emitted, adapter>>
      /\ rx_accum_' \o stream' = rx_accum_ \o stream /\ UNCHANGED <<tx_header_, header_set_>>
  BY FetchKeeps DEF caller, Fetch
<1>2. ASSUME NEW lines PROVE AnswerComes(lines)' <=> AnswerComes(lines)
  BY <1>1 DEF AnswerComes, Tells, Received
<1>3. SetsHeader' = SetsHeader
  BY <1>1 DEF SetsHeader
<1>4. HeaderTold'
  BY <1>1, <1>2, <1>3 DEF HeaderKnown, HeaderTold
<1>5. header_set_' => HeaderIs(tx_header_)' \/ JustSet'
  <2>1. CASE HeaderIs(tx_header_)
    BY <1>1, <2>1 DEF HeaderIs
  <2>2. CASE JustSet
    BY <1>1, <1>2, <1>3, <2>2 DEF JustSet
  <2>. QED  BY <1>1, <2>1, <2>2 DEF HeaderKnown
<1>6. WritePrepared' /\ HeaderCommands' /\ (op' \in {"open", "initialise"} => ~header_set_')
  BY <1>1 DEF HeaderKnown, WritePrepared, HeaderCommands
<1>. QED  BY <1>4, <1>5, <1>6 DEF HeaderKnown

\* The commands that are left keep the shapes.
LEMMA TailKnows ==
  ASSUME EType, HeaderKnown, todo # << >>, todo' = Tail(todo),
         op' = IF Tail(todo) = << >> THEN "idle" ELSE op,
         SetsHeader => header_set_' /\ tx_header_' = Head(todo).id.num
  PROVE  WritePrepared' /\ HeaderCommands'
<1>1. /\ Len(todo) \in Nat /\ Len(todo) > 0 /\ Len(todo') = Len(todo) - 1 /\ Head(todo) = todo[1]
      /\ \A i \in 1..Len(todo') : todo'[i] = todo[i + 1]
  BY CallerFacts
<1>2. \A i \in 1..Len(todo') : i + 1 \in 1..Len(todo)
  BY <1>1
<1>3. Tail(todo) # << >> => op' = op
  OBVIOUS
<1>4. ASSUME NEW i \in 1..Len(todo')
      PROVE  /\ todo'[i].cmd = "ATSH" => op' = "write" /\ todo'[i].need = "ok"
             /\ todo'[i].cmd = "ATZ" => op' \in {"open", "initialise"}
  <2>1. \A s : s = << >> => Len(s) = 0
    OBVIOUS
  <2>2. op' = op
    <3>1. Len(todo') # 0
      BY <1>1
    <3>. QED  BY <1>3, <2>1, <3>1
  <2>. QED  BY <1>1, <1>2, <2>2 DEF HeaderKnown, HeaderCommands
<1>5. WritePrepared'
  <2>1. SUFFICES ASSUME op' = "write" PROVE WritePrepared'
    BY DEF WritePrepared
  <2>2. op = "write" /\ Tail(todo) # << >>
    BY <2>1
  <2>3. Tail(todo) \in Seq(Steps) /\ Len(Tail(todo)) # 0
    BY <2>2, CallerFacts
  <2>4. Len(todo) = 2 /\ todo[1].cmd = "ATSH" /\ todo[2].cmd = "payload" /\ todo[1].id = todo[2].id
    BY <1>1, <2>2, <2>3 DEF HeaderKnown, WritePrepared
  <2>5. header_set_' /\ tx_header_' = todo[2].id.num
    BY <1>1, <2>2, <2>4 DEF SetsHeader
  <2>6. Len(todo') = 1
    BY <1>1, <2>4
  <2>7. 1 \in 1..Len(todo')
    BY <2>6
  <2>8. todo'[1] = todo[1 + 1]
    BY <1>1, <2>7
  <2>. QED  BY <2>4, <2>5, <2>6, <2>8 DEF WritePrepared
<1>. QED  BY <1>4, <1>5 DEF HeaderCommands


\* The command that is due is over; what is known of the header stays known.
LEMMA DoneKnows ==
  ASSUME EType, HeaderKnown, todo # << >>, StepDone, UNCHANGED adapter,
         SetsHeader => adapter.header = Head(todo).id
  PROVE  HeaderKnown'
<1>1. /\ todo' = Tail(todo) /\ op' = IF Tail(todo) = << >> THEN "idle" ELSE op
      /\ tx_header_' = (IF SetsHeader THEN Head(todo).id.num ELSE tx_header_)
      /\ header_set_' = (SetsHeader \/ (header_set_ /\ op # "close")) /\ waiting' = FALSE
  BY DEF StepDone, Programmed
<1>2. WritePrepared' /\ HeaderCommands'
  BY <1>1, TailKnows
<1>3. HeaderTold'
  BY <1>1 DEF HeaderTold, AnswerComes
<1>4. ASSUME header_set_' PROVE HeaderIs(tx_header_)'
  <2>1. CASE SetsHeader
    <3>1. Head(todo).id \in Ids
      BY <2>1, CallerFacts DEF SetsHeader, StepFits
    <3>. QED  BY <1>1, <2>1, <3>1 DEF HeaderIs
  <2>2. CASE ~SetsHeader
    <3>1. header_set_
      BY <1>1, <1>4, <2>2
    <3>2. HeaderIs(tx_header_)
      BY <2>2, <3>1, HeaderSettled
    <3>. QED  BY <1>1, <2>2, <3>2 DEF HeaderIs
  <2>. QED  BY <2>1, <2>2
<1>5. op' \in {"open", "initialise"} => ~header_set_'
  <2>1. op' \in {"open", "initialise"} => op = op'
    BY <1>1
  <2>. QED  BY <1>1, <2>1 DEF HeaderKnown, SetsHeader
<1>. QED  BY <1>2, <1>3, <1>4, <1>5 DEF HeaderKnown

LEMMA GetAnswerKnows ==
  ASSUME EType, Lockstep, HeaderKnown, GetAnswer
  PROVE  HeaderKnown'
<1>1. PICK lines \in Seq(Known) :
        /\ AnswerComes(lines) /\ todo # << >> /\ op # "idle"
        /\ \/ Head(todo).cmd = "payload" /\ StepDone
           \/ /\ Head(todo).cmd # "payload"
              /\ IF Answered(Head(todo).need, lines) THEN StepDone ELSE StepFails
        /\ UNCHANGED device
  BY AnswerTaken
<1>2. UNCHANGED adapter
  BY <1>1 DEF device
<1>3. todo[1] = Head(todo) /\ 1 \in 1..Len(todo)
  BY <1>1, CallerFacts
<1>4. CASE Head(todo).cmd = "payload" /\ StepDone
  BY <1>1, <1>2, <1>4, DoneKnows DEF SetsHeader
<1>5. CASE Answered(Head(todo).need, lines) /\ StepDone
  <2>1. ASSUME SetsHeader PROVE adapter.header = Head(todo).id
    <3>1. HasOk(lines)
      BY <1>3, <1>5, <2>1 DEF SetsHeader, HeaderKnown, HeaderCommands, Answered
    <3>. QED  BY <1>1, <2>1, <3>1 DEF HeaderKnown, HeaderTold
  <2>. QED  BY <1>1, <1>2, <1>5, <2>1, DoneKnows
<1>6. CASE ~Answered(Head(todo).need, lines) /\ StepFails
  <2>1. /\ todo' = << >> /\ waiting' = FALSE /\ op' = "idle"
        /\ UNCHANGED <<header_set_, tx_header_>>
    BY <1>6 DEF StepFails
  <2>2. ~HasOk(lines)
    BY <1>6 DEF Answered
  <2>3. ~JustSet
    <3>1. ASSUME NEW other \in Seq(Known), AnswerComes(other) PROVE other = lines
      BY <1>1, <3>1, OneAnswer DEF AnswerComes
    <3>. QED  BY <2>2, <3>1 DEF JustSet
  <2>4. header_set_' => HeaderIs(tx_header_)'
    BY <1>2, <2>1, <2>3 DEF HeaderKnown, HeaderIs
  <2>5. Len(todo') = 0
    BY <2>1
  <2>6. HeaderTold' /\ WritePrepared' /\ HeaderCommands'
    BY <2>1, <2>5 DEF HeaderTold, AnswerComes, WritePrepared, HeaderCommands
  <2>. QED  BY <2>1, <2>4, <2>6 DEF HeaderKnown
<1>. QED  BY <1>1, <1>4, <1>5, <1>6

LEMMA GiveUpKnows ==
  ASSUME EType, Lockstep, HeaderKnown, GiveUp, failures' = failures
  PROVE  HeaderKnown'
<1>1. /\ op = "read" /\ op' = "idle" /\ waiting' = FALSE
      /\ UNCHANGED <<todo, header_set_, tx_header_>> /\ UNCHANGED device
  BY GiveUpIsRead
<1>2. UNCHANGED adapter /\ todo = << >>
  BY <1>1 DEF device, EType, CallerType
<1>3. header_set_' => HeaderIs(tx_header_)'
  BY <1>1, <1>2, HeaderSettled DEF HeaderIs, SetsHeader
<1>4. HeaderTold' /\ WritePrepared' /\ HeaderCommands'
  <2>1. Len(todo') = 0
    BY <1>1, <1>2
  <2>. QED  BY <1>1, <2>1 DEF HeaderTold, AnswerComes, WritePrepared, HeaderCommands
<1>. QED  BY <1>1, <1>3, <1>4 DEF HeaderKnown

\* A step of the adapter that leaves its header, and says no.
LEMMA RefusalKnows ==
  ASSUME EType, Lockstep, HeaderKnown, NEW cmds, NEW texts, Takes(cmds, texts),
         NEW lines \in Seq(Known), AnswerComes(lines)', ~HasOk(lines),
         adapter'.header = adapter.header,
         UNCHANGED <<caller, channel>>
  PROVE  HeaderKnown'
<1>1. UNCHANGED <<op, todo, waiting, header_set_, tx_header_>>
  BY DEF caller, channel
<1>2. to_adapter # << >>
  BY DEF Takes
<1>3. header_set_' => HeaderIs(tx_header_)'
  BY <1>1, <1>2, HeaderSettled DEF HeaderIs
<1>4. HeaderTold'
  <2>1. ASSUME NEW other \in Seq(Known), AnswerComes(other)' PROVE other = lines
    <3>1. Append(other, Prompt) = Append(lines, Prompt)
      BY <2>1 DEF AnswerComes
    <3>. QED  BY <3>1, OneAnswer
  <2>. QED  BY <2>1 DEF HeaderTold
<1>5. WritePrepared' /\ HeaderCommands' /\ (op' \in {"open", "initialise"} => ~header_set_')
  BY <1>1 DEF HeaderKnown, WritePrepared, HeaderCommands
<1>. QED  BY <1>3, <1>4, <1>5 DEF HeaderKnown

\* The command that is due, when the adapter takes it.
LEMMA TakenCommand ==
  ASSUME EType, Lockstep, HeaderKnown, NEW cmds, NEW texts, Takes(cmds, texts)
  PROVE  /\ Asked /\ todo # << >> /\ Head(todo) = todo[1] /\ 1 \in 1..Len(todo)
         /\ Head(to_adapter).step = Head(todo) /\ Head(todo).cmd \in cmds
         /\ StepFits(Head(todo))
         /\ Head(todo).cmd = "ATSH" => op = "write"
         /\ Head(todo).cmd = "ATZ" => op \in {"open", "initialise"}
<1>1. Asked /\ Head(to_adapter).step = Head(todo) /\ Head(todo).cmd \in cmds
  BY TakesIsAsked
<1>2. todo # << >>
  BY <1>1 DEF Asked, EType, CallerType
<1>3. Head(todo) = todo[1] /\ 1 \in 1..Len(todo) /\ StepFits(Head(todo))
  BY <1>2, CallerFacts
<1>. QED  BY <1>1, <1>2, <1>3 DEF HeaderKnown, HeaderCommands

LEMMA ResetKnows ==
  ASSUME EType, Lockstep, HeaderKnown, AdapterResets
  PROVE  HeaderKnown'
<1>1. Takes({"ATZ"}, {"whole"}) /\ UNCHANGED <<caller, channel>>
  BY DEF AdapterResets, Carries
<1>2. Head(todo).cmd = "ATZ" /\ op \in {"open", "initialise"}
  <2>1. Head(todo).cmd \in {"ATZ"} /\ (Head(todo).cmd = "ATZ" => op \in {"open", "initialise"})
    BY <1>1, TakenCommand
  <2>. QED  BY <2>1
<1>3. UNCHANGED <<op, todo, header_set_, tx_header_>>
  BY <1>1 DEF caller, channel
<1>. QED  BY <1>2, <1>3 DEF HeaderKnown, HeaderTold, SetsHeader, WritePrepared, HeaderCommands

LEMMA ObeyKnows ==
  ASSUME EType, Lockstep, HeaderKnown, AdapterObeys
  PROVE  HeaderKnown'
<1>1. /\ Takes(AtCommands \ {"ATZ", "ATI"}, {"whole"})
      /\ adapter'.header = IF Head(to_adapter).step.cmd = "ATSH" THEN Head(to_adapter).step.id
                           ELSE adapter.header
      /\ UNCHANGED <<caller, channel>>
  BY ObeysFacts
<1>2. /\ Asked /\ Head(to_adapter).step = Head(todo)
      /\ Head(todo).cmd = "ATSH" => op = "write"
  BY <1>1, TakenCommand
<1>3. PICK lines \in Seq(Known) : AnswerComes(lines)' /\ HasOk(lines)
  BY ObeysAnswer
<1>4. UNCHANGED <<op, todo, waiting, header_set_, tx_header_>>
  BY <1>1 DEF caller, channel
<1>5. WritePrepared' /\ HeaderCommands' /\ (op' \in {"open", "initialise"} => ~header_set_')
  BY <1>4 DEF HeaderKnown, WritePrepared, HeaderCommands
<1>6. SetsHeader' = SetsHeader
  BY <1>4 DEF SetsHeader
<1>7. CASE Head(todo).cmd = "ATSH"
  <2>1. adapter'.header = Head(todo').id
    BY <1>1, <1>2, <1>4, <1>7
  <2>2. SetsHeader' /\ waiting'
    BY <1>2, <1>4, <1>6, <1>7 DEF SetsHeader, Asked
  <2>3. JustSet'
    BY <1>3, <2>1, <2>2 DEF JustSet
  <2>4. HeaderTold'
    BY <2>1 DEF HeaderTold
  <2>. QED  BY <1>5, <2>3, <2>4 DEF HeaderKnown
<1>8. CASE Head(todo).cmd # "ATSH"
  <2>1. adapter'.header = adapter.header /\ ~SetsHeader
    BY <1>1, <1>2, <1>8 DEF SetsHeader
  <2>2. header_set_' => HeaderIs(tx_header_)'
    BY <1>4, <2>1, HeaderSettled DEF HeaderIs
  <2>3. HeaderTold'
    BY <1>6, <2>1 DEF HeaderTold
  <2>. QED  BY <1>5, <2>2, <2>3 DEF HeaderKnown
<1>. QED  BY <1>7, <1>8

\* What goes to the bus has the header that was set for it.
LEMMA TransmitRight ==
  ASSUME EType, Lockstep, HeaderKnown, SentRight, NEW n \in 0..MaxFrames, Transmits(n)
  PROVE  SentRight'
<1>1. /\ Takes({"payload"}, {"whole", "glued"})
      /\ sent' = sent \cup {<<Head(to_adapter).step.id, adapter.header>>}
  BY TransmitsFacts
<1>2. /\ todo # << >> /\ Head(todo) = todo[1] /\ Head(to_adapter).step = Head(todo)
      /\ Head(todo).cmd \in {"payload"} /\ StepFits(Head(todo)) /\ Asked
  BY <1>1, TakenCommand
<1>3. op = "write" /\ Head(todo).id \in Ids /\ Head(todo).cmd = "payload"
  BY <1>2 DEF StepFits
<1>4. header_set_ /\ tx_header_ = Head(todo).id.num
  <2>1. todo[1].cmd # "ATSH"
    BY <1>2, <1>3
  <2>. QED  BY <1>2, <1>3, <2>1 DEF HeaderKnown, WritePrepared
<1>5. HeaderIs(tx_header_)
  <2>1. to_adapter # << >>
    BY <1>1 DEF Takes
  <2>. QED  BY <1>4, <2>1, HeaderSettled
<1>6. PICK i \in Ids, j \in Ids : i = Head(todo).id /\ j = adapter.header /\ i.num = j.num
  BY <1>3, <1>4, <1>5 DEF HeaderIs
<1>7. i.ext = j.ext \/ Ambiguous(i.num)
  BY <1>6 DEF Ambiguous
<1>8. ASSUME NEW w \in sent' 
      PROVE  w[1].num = w[2].num /\ (w[1].ext = w[2].ext \/ Ambiguous(w[1].num))
  <2>1. CASE w \in sent
    BY <2>1 DEF SentRight
  <2>2. CASE w = <<i, j>>
    BY <1>6, <1>7, <2>2
  <2>. QED  BY <1>1, <1>2, <1>6, <2>1, <2>2
<1>. QED  BY <1>8 DEF SentRight

LEMMA AdapterKnows ==
  ASSUME EType, Lockstep, HeaderKnown, SentRight, Device
  PROVE  HeaderKnown' /\ SentRight'
<1>1. CASE AdapterResets \/ AdapterObeys
  <2>1. sent' = sent
    BY <1>1 DEF AdapterResets, AdapterObeys
  <2>. QED  BY <1>1, <2>1, ResetKnows, ObeyKnows DEF SentRight
<1>2. CASE AdapterRejects
  <2>1. PICK cmds, texts : Takes(cmds, texts)
    BY <1>2, RejectsFacts
  <2>2. UNCHANGED <<caller, channel, adapter, sent>>
    BY <1>2, RejectsFacts
  <2>3. PICK lines \in Seq(Known) : AnswerComes(lines)' /\ ~HasOk(lines)
    BY <1>2, ResetsAnswer
  <2>4. HeaderKnown'
    BY <2>1, <2>2, <2>3, RefusalKnows
  <2>. QED  BY <2>2, <2>4 DEF SentRight
<1>3. CASE AdapterTransmits
  <2>1. PICK n \in 0..MaxFrames : Transmits(n)
    BY <1>3 DEF AdapterTransmits
  <2>2. Takes({"payload"}, {"whole", "glued"}) /\ UNCHANGED <<caller, channel, adapter>>
    BY <2>1, TransmitsFacts
  <2>3. PICK lines \in Seq(Known) : AnswerComes(lines)' /\ ~HasOk(lines)
    BY <2>1, TransmitsAnswer
  <2>4. HeaderKnown'
    BY <2>2, <2>3, RefusalKnows
  <2>. QED  BY <2>1, <2>4, TransmitRight
<1>. QED  BY <1>1, <1>2, <1>3 DEF Device

LEMMA StutterKnows == ASSUME HeaderKnown, SentRight, UNCHANGED vars PROVE HeaderKnown' /\ SentRight'
<1>1. /\ UNCHANGED <<op, todo, waiting>> /\ UNCHANGED <<header_set_, tx_header_, rx_accum_, rx_queue_>>
      /\ UNCHANGED <<to_adapter, stream, adapter, sent, emitted>> /\ UNCHANGED taken
  BY DEF vars, caller, channel, device
<1>2. \A lines : AnswerComes(lines)' <=> AnswerComes(lines)
  BY <1>1 DEF AnswerComes, Tells, Received
<1>3. SetsHeader' = SetsHeader
  BY <1>1 DEF SetsHeader
<1>4. header_set_' => HeaderIs(tx_header_)' \/ JustSet'
  BY <1>1, <1>2, <1>3 DEF HeaderKnown, HeaderIs, JustSet
<1>5. HeaderTold'
  BY <1>1, <1>2, <1>3 DEF HeaderKnown, HeaderTold
<1>6. WritePrepared' /\ HeaderCommands' /\ (op' \in {"open", "initialise"} => ~header_set_')
  BY <1>1 DEF HeaderKnown, WritePrepared, HeaderCommands
<1>. QED  BY <1>1, <1>4, <1>5, <1>6 DEF HeaderKnown, SentRight

LEMMA StepKnows == HeaderIsOurs => (IHead /\ [Next]_vars => IHead')
<1>. SUFFICES ASSUME HeaderIsOurs, IHead, [Next]_vars, failures' = 0
              PROVE  HeaderKnown' /\ SentRight'
  BY StepLocks DEF IHead
<1>1. EType /\ (failures = 0 => Lockstep /\ HeaderKnown /\ SentRight)
  BY DEF IHead, ILock
<1>2. CASE UNCHANGED vars
  <2>1. failures = 0
    BY <1>2 DEF vars
  <2>. QED  BY <1>1, <1>2, <2>1, StutterKnows
<1>3. CASE Next
  <2>1. Lockstep /\ HeaderKnown /\ SentRight /\ failures = 0
    <3>1. failures \in Nat
      BY <1>1, Bounds DEF EType, DeviceType
    <3>. QED  BY <1>1, <1>3, <3>1, FailuresGrow
  <2>2. CASE Device
    BY <1>1, <2>1, <2>2, AdapterKnows
  <2>3. CASE Finished
    BY <1>2, <2>3 DEF Finished
  <2>4. ~LoseToken
    BY <2>1 DEF LoseToken
  <2>5. CASE Caller
    <3>1. ~SendRawFails /\ ~SendRawFailsUnseen
      BY <2>1 DEF SendRawFails, SendRawFailsUnseen, WriteBreaks
    <3>2. sent' = sent
      BY <2>5 DEF Caller, Initialise, OpenRefused, InitialiseRefused, Write, WriteEmpty,
                  WriteClosed, ReadQueued, ReadWaits, SetFilter, Command, Close, CloseClosed,
                  SendRaw, SendRawFails, SendRawFailsUnseen, Fetch, GetAnswer, GiveUp, device
    <3>3. CASE \/ OpenRefused \/ InitialiseRefused \/ WriteClosed \/ ReadQueued \/ ReadWaits
               \/ SetFilter \/ Command \/ Close \/ CloseClosed
      BY <1>1, <2>1, <3>2, <3>3, OthersKnow DEF SentRight
    <3>4. CASE Initialise \/ Write \/ WriteEmpty
      BY <1>1, <2>1, <3>2, <3>4, InitialiseKnows, WriteKnows, WriteEmptyKnows DEF SentRight
    <3>5. CASE SendRaw \/ Fetch
      BY <1>1, <2>1, <3>2, <3>5, SendRawKnows, FetchKnows DEF SentRight
    <3>6. CASE GetAnswer \/ GiveUp
      BY <1>1, <2>1, <3>2, <3>6, GetAnswerKnows, GiveUpKnows DEF SentRight
    <3>. QED  BY <2>5, <3>1, <3>3, <3>4, <3>5, <3>6 DEF Caller
  <2>. QED  BY <1>3, <2>2, <2>3, <2>4, <2>5 DEF Next
<1>. QED  BY <1>2, <1>3

LEMMA InitKnows == Init => IHead
<1>. SUFFICES ASSUME Init PROVE HeaderKnown /\ SentRight
  BY InitLocks DEF IHead
<1>1. Len(todo) = 0
  BY DEF Init
<1>. QED  BY <1>1 DEF Init, HeaderKnown, HeaderTold, SetsHeader, WritePrepared, HeaderCommands,
                      SentRight

\* A frame goes out with the id it was written with, up to the length of an id that
\* shares its number, as long as nothing has failed and the caller leaves the header to
\* the channel (elm327_channel.cpp:439-458).
THEOREM HeaderIsRight == HeaderIsOurs => (Spec => []HeaderRight)
<1>. SUFFICES ASSUME HeaderIsOurs PROVE Spec => []HeaderRight
  OBVIOUS
<1>1. IHead /\ [Next]_vars => IHead'
  BY StepKnows
<1>2. IHead => HeaderRight
  BY DEF IHead, SentRight, HeaderRight
<1>. QED  BY <1>1, <1>2, InitKnows, PTL DEF Spec

-----------------------------------------------------------------------------
(* The order of the frames, whatever fails.                                 *)

LEMMA FramesAre ==
  ASSUME NEW s \in Seq(Known)
  PROVE  /\ FramesIn(s) \subseteq Frames
         /\ \A i \in 1..Len(s) : IsFrame(s[i]) => s[i] \in FramesIn(s)
         /\ \A f \in FramesIn(s) : IsFrame(f) /\ \E i \in 1..Len(s) : s[i] = f
<1>1. \A i \in 1..Len(s) : s[i] \in Known
  BY ElementOfSeq
<1>. QED  BY <1>1 DEF FramesIn, Known

\* A part of a sequence has some of its frames, in the same order.
LEMMA PartOrdered ==
  ASSUME NEW s \in Seq(Known), NEW t \in Seq(Known), NEW pos, Places(t, s, pos)
  PROVE  FramesIn(t) \subseteq FramesIn(s) /\ (InTurn(s) => InTurn(t))
<1>1. /\ \A i \in 1..Len(t) : pos[i] \in 1..Len(s) /\ t[i] = s[pos[i]]
      /\ \A i, j \in 1..Len(t) : i < j => pos[i] < pos[j]
  BY DEF Places
<1>2. FramesIn(t) \subseteq FramesIn(s)
  BY <1>1 DEF FramesIn
<1>3. ASSUME InTurn(s) PROVE InTurn(t)
  BY <1>1, <1>3 DEF InTurn
<1>. QED  BY <1>2, <1>3

\* What comes before a place of a sequence, and what comes after it.
LEMMA PartsOrdered ==
  ASSUME NEW s \in Seq(Known), NEW m \in 0..Len(s), NEW n \in 0..Len(s), m <= n
  PROVE  LET first == SubSeq(s, 1, m)
             rest  == SubSeq(s, n + 1, Len(s))
         IN  /\ first \in Seq(Known) /\ rest \in Seq(Known)
             /\ FramesIn(first) \subseteq FramesIn(s) /\ FramesIn(rest) \subseteq FramesIn(s)
             /\ InTurn(s) => InTurn(first) /\ InTurn(rest) /\ Ahead(FramesIn(first), FramesIn(rest))
<1>. DEFINE first == SubSeq(s, 1, m)
            rest  == SubSeq(s, n + 1, Len(s))
<1>1. first \in Seq(Known) /\ Len(first) = m /\ \A i \in 1..m : first[i] = s[i]
  BY PrefixFacts
<1>2. rest \in Seq(Known) /\ Len(rest) = Len(s) - n /\ \A i \in 1..(Len(s) - n) : rest[i] = s[i + n]
  BY SuffixFacts
<1>. HIDE DEF first, rest
<1>3. PICK l \in Nat : l = Len(s)
  OBVIOUS
<1>4. Places(first, s, [i \in 1..m |-> i])
  BY <1>1, <1>3 DEF Places
<1>5. Places(rest, s, [i \in 1..(l - n) |-> i + n])
  BY <1>2, <1>3 DEF Places
<1>6. FramesIn(first) \subseteq FramesIn(s) /\ (InTurn(s) => InTurn(first))
  BY <1>1, <1>4, PartOrdered
<1>7. FramesIn(rest) \subseteq FramesIn(s) /\ (InTurn(s) => InTurn(rest))
  BY <1>2, <1>5, PartOrdered
<1>8. ASSUME InTurn(s), NEW f \in FramesIn(first), NEW g \in FramesIn(rest)
      PROVE  Before(f, g)
  <2>1. PICK i \in 1..m : f = s[i] /\ IsFrame(s[i])
    BY <1>1, FramesAre
  <2>2. PICK j \in 1..(l - n) : g = s[j + n] /\ IsFrame(s[j + n])
    BY <1>2, <1>3, FramesAre
  <2>3. i \in 1..l /\ j + n \in 1..l /\ i < j + n
    BY <1>3, <2>1, <2>2
  <2>. QED  BY <1>3, <1>8, <2>1, <2>2, <2>3 DEF InTurn
<1>9. InTurn(s) => Ahead(FramesIn(first), FramesIn(rest))
  BY <1>8 DEF Ahead
<1>. QED  BY <1>1, <1>2, <1>6, <1>7, <1>9 DEF first, rest

\* The frames of two sequences, one after the other.
LEMMA JoinedOrdered ==
  ASSUME NEW s \in Seq(Known), NEW t \in Seq(Known)
  PROVE  /\ s \o t \in Seq(Known)
         /\ FramesIn(s \o t) = FramesIn(s) \cup FramesIn(t)
         /\ InTurn(s) /\ InTurn(t) /\ Ahead(FramesIn(s), FramesIn(t)) => InTurn(s \o t)
<1>1. PICK u : u = s \o t
  OBVIOUS
<1>2. PICK a \in Nat, b \in Nat : a = Len(s) /\ b = Len(t)
  OBVIOUS
<1>3. /\ u \in Seq(Known) /\ Len(u) = a + b
      /\ \A i \in 1..a : u[i] = s[i]
      /\ \A i \in 1..b : u[a + i] = t[i]
  BY <1>1, <1>2, ConcatFacts
<1>4. FramesIn(u) \subseteq FramesIn(s) \cup FramesIn(t)
  <2>1. SUFFICES ASSUME NEW f \in FramesIn(u) PROVE f \in FramesIn(s) \cup FramesIn(t)
    OBVIOUS
  <2>2. PICK i \in 1..(a + b) : u[i] = f /\ IsFrame(f)
    BY <1>3, FramesAre
  <2>3. CASE i \in 1..a
    BY <1>2, <1>3, <2>2, <2>3, FramesAre
  <2>4. CASE \E k \in 1..b : i = a + k
    BY <1>2, <1>3, <2>2, <2>4, FramesAre
  <2>. QED  BY <2>3, <2>4, TwoParts
<1>5. FramesIn(s) \subseteq FramesIn(u)
  <2>1. \A i \in 1..a : i \in 1..Len(u)
    BY <1>3
  <2>. QED  BY <1>2, <1>3, <2>1 DEF FramesIn
<1>6. FramesIn(t) \subseteq FramesIn(u)
  <2>1. \A i \in 1..b : a + i \in 1..Len(u)
    BY <1>3
  <2>. QED  BY <1>2, <1>3, <2>1 DEF FramesIn
<1>7. ASSUME InTurn(s), InTurn(t), Ahead(FramesIn(s), FramesIn(t)) PROVE InTurn(u)
  <2>1. SUFFICES ASSUME NEW i \in 1..(a + b), NEW j \in 1..(a + b), i < j,
                        IsFrame(u[i]), IsFrame(u[j])
                 PROVE  Before(u[i], u[j])
    BY <1>3 DEF InTurn
  <2>2. CASE i \in 1..a /\ j \in 1..a
    BY <1>2, <1>3, <1>7, <2>1, <2>2 DEF InTurn
  <2>3. CASE i \in 1..a /\ \E k \in 1..b : j = a + k
    <3>1. PICK k \in 1..b : j = a + k
      BY <2>3
    <3>2. u[i] \in FramesIn(s) /\ u[j] \in FramesIn(t)
      BY <1>2, <1>3, <2>1, <2>3, <3>1, FramesAre
    <3>. QED  BY <1>7, <3>2 DEF Ahead
  <2>4. CASE (\E k \in 1..b : i = a + k) /\ \E k \in 1..b : j = a + k
    <3>1. PICK k \in 1..b, m \in 1..b : i = a + k /\ j = a + m
      BY <2>4
    <3>2. k < m /\ u[i] = t[k] /\ u[j] = t[m]
      BY <1>3, <2>1, <3>1
    <3>. QED  BY <1>2, <1>7, <2>1, <3>2 DEF InTurn
  <2>5. ~((\E k \in 1..b : i = a + k) /\ j \in 1..a)
    BY <2>1
  <2>. QED  BY <2>2, <2>3, <2>4, <2>5, TwoParts
<1>. QED  BY <1>1, <1>3, <1>4, <1>5, <1>6, <1>7

LEMMA NoFrames == FramesIn(<< >>) = {} /\ InTurn(<< >>)
<1>1. \A s : s = << >> => Len(s) = 0
  OBVIOUS
<1>2. Len(<< >>) = 0
  BY <1>1
<1>. QED  BY <1>2 DEF FramesIn, InTurn

LEMMA TokensKnown ==
  ASSUME EType
  PROVE  /\ Received \in Seq(Known) /\ rx_accum_ \in Seq(Known) /\ stream \in Seq(Known)
         /\ emitted \in Seq(Known)
<1>1. Received \in Seq(Known) /\ emitted \in Seq(Known)
  BY ReceivedIs, FramesKnown, SeqMonotonic DEF EType, DeviceType
<1>. QED  BY <1>1 DEF EType, ChannelType, DeviceType

\* No frame is added, and those that stay are still in order.
LEMMA Narrowed ==
  ASSUME EOrder, NEW r, NEW a, NEW s,
         Received' = r, rx_accum_' = a, stream' = s,
         InTurn(r), InTurn(a), InTurn(s),
         Ahead(FramesIn(r), FramesIn(a)), Ahead(FramesIn(r), FramesIn(s)),
         Ahead(FramesIn(a), FramesIn(s)),
         FramesIn(r) \cup FramesIn(a) \cup FramesIn(s) \subseteq FramesLeft,
         UNCHANGED <<given, to_adapter, emitted>>
  PROVE  FramesOrdered' /\ CommandsOrdered' /\ FramesLeft' \subseteq FramesLeft
<1>1. FramesLeft' = FramesIn(r) \cup FramesIn(a) \cup FramesIn(s)
  BY DEF FramesLeft
<1>2. FramesLeft' \subseteq FramesLeft
  BY <1>1
<1>3. FramesOrdered'
  BY <1>2 DEF EOrder, FramesOrdered
<1>4. CommandsOrdered'
  BY <1>2 DEF EOrder, CommandsOrdered
<1>. QED  BY <1>2, <1>3, <1>4

\* A buffer is emptied, or nothing happens to the frames.
LEMMA KeptOrder ==
  ASSUME EOrder, Received' = Received,
         rx_accum_' \in {<< >>, rx_accum_}, stream' \in {<< >>, stream},
         UNCHANGED <<given, to_adapter, emitted>>
  PROVE  FramesOrdered' /\ CommandsOrdered' /\ FramesLeft' \subseteq FramesLeft
<1>1. PICK r, a, s : r = Received /\ a \in {<< >>, rx_accum_} /\ s \in {<< >>, stream}
                     /\ Received' = r /\ rx_accum_' = a /\ stream' = s
  OBVIOUS
<1>2. FramesIn(a) \in {{}, FramesIn(rx_accum_)} /\ FramesIn(s) \in {{}, FramesIn(stream)}
  BY <1>1, NoFrames
<1>3. InTurn(r) /\ InTurn(a) /\ InTurn(s)
  BY <1>1, NoFrames DEF EOrder, FramesOrdered
<1>4. /\ Ahead(FramesIn(r), FramesIn(a)) /\ Ahead(FramesIn(r), FramesIn(s))
      /\ Ahead(FramesIn(a), FramesIn(s))
  BY <1>1, <1>2 DEF EOrder, FramesOrdered, Ahead
<1>5. FramesIn(r) \cup FramesIn(a) \cup FramesIn(s) \subseteq FramesLeft
  BY <1>1, <1>2 DEF FramesLeft
<1>. QED  BY <1>1, <1>3, <1>4, <1>5, Narrowed

LEMMA StartsOrder ==
  ASSUME EOrder,
         \/ Initialise \/ OpenRefused \/ InitialiseRefused \/ Write \/ WriteEmpty \/ WriteClosed
         \/ ReadQueued \/ ReadWaits \/ SetFilter \/ Command \/ Close \/ CloseClosed
  PROVE  FramesOrdered' /\ CommandsOrdered' /\ FramesLeft' \subseteq FramesLeft
<1>1. EType
  BY DEF EOrder
<1>2. CASE Initialise \/ ReadQueued \/ CloseClosed
  <2>1. /\ taken' = taken \o rx_queue_ /\ rx_queue_' = << >>
        /\ rx_accum_' \in {<< >>, rx_accum_} /\ stream' \in {<< >>, stream}
        /\ UNCHANGED <<given, to_adapter, emitted>>
    BY <1>2 DEF Initialise, ReadQueued, CloseClosed, AfterRead, device
  <2>2. Received' = Received
    BY <1>1, <2>1, HandedOver
  <2>. QED  BY <2>1, <2>2, KeptOrder
<1>3. CASE OpenRefused \/ InitialiseRefused \/ Write \/ WriteEmpty \/ WriteClosed
           \/ ReadWaits \/ SetFilter \/ Command \/ Close
  <2>1. UNCHANGED <<taken, rx_queue_, rx_accum_, stream, given, to_adapter, emitted>>
    BY <1>3 DEF OpenRefused, InitialiseRefused, Write, WriteEmpty, WriteClosed, ReadWaits,
                SetFilter, Command, Close, channel, device
  <2>. QED  BY <2>1, KeptOrder DEF Received
<1>. QED  BY <1>2, <1>3

LEMMA FailsOrder ==
  ASSUME EOrder, SendRawFails \/ SendRawFailsUnseen \/ GiveUp \/ UNCHANGED vars
  PROVE  FramesOrdered' /\ CommandsOrdered' /\ FramesLeft' \subseteq FramesLeft
<1>1. EType
  BY DEF EOrder
<1>2. CASE SendRawFails \/ GiveUp
  <2>1. /\ Queues(rx_queue_) /\ Accumulates(rx_accum_)
        /\ UNCHANGED <<given, stream, to_adapter, emitted>>
    BY <1>2 DEF SendRawFails, GiveUp, device
  <2>2. rx_accum_' \in {<< >>, rx_accum_} /\ Received' = Received
    BY <1>1, <2>1, QueuesSame DEF Accumulates
  <2>. QED  BY <2>1, <2>2, KeptOrder
<1>3. CASE SendRawFailsUnseen \/ UNCHANGED vars
  <2>1. UNCHANGED <<taken, rx_queue_, rx_accum_, stream, given, to_adapter, emitted>>
    BY <1>3 DEF SendRawFailsUnseen, vars, caller, channel, device
  <2>. QED  BY <2>1, KeptOrder DEF Received
<1>. QED  BY <1>2, <1>3

\* A command is later than all that is on its way.
LEMMA SendRawOrder == ASSUME EOrder, SendRaw PROVE FramesOrdered' /\ CommandsOrdered' /\ FramesLeft' \subseteq FramesLeft
<1>1. /\ given' = given + 1
      /\ to_adapter' = Append(to_adapter, [step |-> Head(todo), cmd |-> given + 1,
                                           text |-> Text(Head(todo).cmd)])
      /\ UNCHANGED <<taken, rx_queue_, rx_accum_, stream, emitted>>
  BY DEF SendRaw, channel
<1>2. to_adapter \in Seq(Requests) /\ given \in Nat
  BY DEF EOrder, EType, CallerType, DeviceType
<1>3. PICK r : r = [step |-> Head(todo), cmd |-> given + 1, text |-> Text(Head(todo).cmd)]
  OBVIOUS
<1>4. r.cmd = given + 1 /\ to_adapter' = Append(to_adapter, r)
  BY <1>1, <1>3
<1>5. PICK l \in Nat : l = Len(to_adapter)
  BY <1>2
<1>6. /\ Len(to_adapter') = l + 1 /\ to_adapter'[l + 1] = r
      /\ \A i \in 1..l : to_adapter'[i] = to_adapter[i]
  BY <1>2, <1>4, <1>5
<1>7. FramesLeft' = FramesLeft /\ FramesOrdered'
  <2>1. Received' = Received
    BY <1>1 DEF Received
  <2>2. FramesLeft' = FramesLeft
    BY <1>1, <2>1 DEF FramesLeft
  <2>. QED  BY <1>1, <2>1, <2>2 DEF EOrder, FramesOrdered
<1>8. \A i \in 1..l : to_adapter[i].cmd \in Nat /\ to_adapter[i].cmd <= given
  <2>1. \A q \in Requests : q.cmd \in Nat
    <3>1. \A n \in Nat : 1..n \subseteq Nat
      OBVIOUS
    <3>2. 9 * MaxOps \in Nat
      BY Bounds
    <3>. QED  BY <3>1, <3>2 DEF Requests
  <2>2. \A i \in 1..l : to_adapter[i] \in Requests
    BY <1>2, <1>5, ElementOfSeq
  <2>. QED  BY <1>5, <2>1, <2>2 DEF EOrder, CommandsOrdered
<1>9. \A i \in 1..(l + 1) : i \in 1..l \/ i = l + 1
  OBVIOUS
<1>10. \A i, j \in 1..Len(to_adapter') : i < j => to_adapter'[i].cmd < to_adapter'[j].cmd
  <2>1. SUFFICES ASSUME NEW i \in 1..(l + 1), NEW j \in 1..(l + 1), i < j
                 PROVE  to_adapter'[i].cmd < to_adapter'[j].cmd
    BY <1>6
  <2>2. i \in 1..l
    BY <2>1
  <2>3. CASE j \in 1..l
    BY <1>5, <1>6, <2>1, <2>2, <2>3 DEF EOrder, CommandsOrdered
  <2>4. CASE j = l + 1
    BY <1>2, <1>4, <1>6, <1>8, <2>2, <2>4
  <2>. QED  BY <1>9, <2>3, <2>4
<1>11. \A i \in 1..Len(to_adapter') : to_adapter'[i].cmd <= given'
  BY <1>1, <1>2, <1>4, <1>6, <1>8, <1>9
<1>12. ASSUME NEW f \in FramesIn(emitted)
       PROVE  f.cmd <= given' /\ \A i \in 1..Len(to_adapter') : f.cmd < to_adapter'[i].cmd
  <2>1. f.cmd <= given /\ \A i \in 1..l : f.cmd < to_adapter[i].cmd
    BY <1>5 DEF EOrder, CommandsOrdered
  <2>2. f.cmd \in Nat
    <3>1. f \in Frames
      BY TokensKnown, FramesAre DEF EOrder
    <3>. QED  BY <3>1, FrameIs
  <2>3. f.cmd < given + 1
    BY <1>2, <2>1, <2>2
  <2>. QED  BY <1>1, <1>2, <1>4, <1>6, <1>9, <2>1, <2>2, <2>3
<1>. QED  BY <1>1, <1>7, <1>10, <1>11, <1>12 DEF CommandsOrdered

LEMMA FetchOrder == ASSUME EOrder, Fetch PROVE FramesOrdered' /\ CommandsOrdered' /\ FramesLeft' \subseteq FramesLeft
<1>1. PICK k \in 1..Len(stream) :
        /\ rx_accum_' = rx_accum_ \o SubSeq(stream, 1, k)
        /\ stream' = SubSeq(stream, k + 1, Len(stream))
  BY DEF Fetch
<1>2. UNCHANGED <<taken, rx_queue_, given, to_adapter, emitted>>
  BY DEF Fetch, caller
<1>3. Received' = Received
  BY <1>2 DEF Received
<1>4. Received \in Seq(Known) /\ rx_accum_ \in Seq(Known) /\ stream \in Seq(Known)
      /\ k \in 0..Len(stream) /\ k <= k
  BY TokensKnown DEF EOrder
<1>5. PICK read, left : read = SubSeq(stream, 1, k) /\ left = SubSeq(stream, k + 1, Len(stream))
  OBVIOUS
<1>6. /\ read \in Seq(Known) /\ left \in Seq(Known)
      /\ FramesIn(read) \subseteq FramesIn(stream) /\ FramesIn(left) \subseteq FramesIn(stream)
      /\ InTurn(read) /\ InTurn(left) /\ Ahead(FramesIn(read), FramesIn(left))
  BY <1>4, <1>5, PartsOrdered DEF EOrder, FramesOrdered
<1>7. PICK a : a = rx_accum_ \o read
  OBVIOUS
<1>8. Ahead(FramesIn(rx_accum_), FramesIn(read)) /\ Ahead(FramesIn(rx_accum_), FramesIn(left))
  BY <1>6 DEF EOrder, FramesOrdered, Ahead
<1>9. FramesIn(a) = FramesIn(rx_accum_) \cup FramesIn(read) /\ InTurn(a)
  BY <1>4, <1>6, <1>7, <1>8, JoinedOrdered DEF EOrder, FramesOrdered
<1>10. /\ Ahead(FramesIn(Received), FramesIn(a)) /\ Ahead(FramesIn(Received), FramesIn(left))
       /\ Ahead(FramesIn(a), FramesIn(left))
  BY <1>6, <1>8, <1>9 DEF EOrder, FramesOrdered, Ahead
<1>11. FramesIn(Received) \cup FramesIn(a) \cup FramesIn(left) \subseteq FramesLeft
  BY <1>6, <1>9 DEF FramesLeft
<1>12. InTurn(Received) /\ rx_accum_' = a /\ stream' = left
  BY <1>1, <1>5, <1>7 DEF EOrder, FramesOrdered
<1>. QED  BY <1>2, <1>3, <1>6, <1>9, <1>10, <1>11, <1>12, Narrowed

LEMMA GetAnswerOrder == ASSUME EOrder, GetAnswer PROVE FramesOrdered' /\ CommandsOrdered' /\ FramesLeft' \subseteq FramesLeft
<1>1. PICK j \in 1..Len(rx_accum_) :
        /\ \/ /\ op = "read" /\ op' = "idle"
              /\ taken' = taken \o FramesOf(SubSeq(rx_accum_, 1, j - 1))
              /\ UNCHANGED rx_queue_
           \/ Queues(rx_queue_ \o FramesOf(SubSeq(rx_accum_, 1, j - 1)))
           \/ Queues(rx_queue_)
        /\ Accumulates(SubSeq(rx_accum_, j + 1, Len(rx_accum_)))
  BY DEF GetAnswer, AfterPrompt
<1>2. UNCHANGED <<given, stream, to_adapter, emitted>>
  BY DEF GetAnswer, device
<1>3. EType /\ Received \in Seq(Known) /\ rx_accum_ \in Seq(Known) /\ stream \in Seq(Known)
  BY TokensKnown DEF EOrder
<1>4. PICK lines, left : /\ lines = SubSeq(rx_accum_, 1, j - 1)
                         /\ left = SubSeq(rx_accum_, j + 1, Len(rx_accum_))
  OBVIOUS
<1>5. /\ lines \in Seq(Known) /\ left \in Seq(Known)
      /\ FramesIn(lines) \subseteq FramesIn(rx_accum_)
      /\ FramesIn(left) \subseteq FramesIn(rx_accum_)
      /\ InTurn(lines) /\ InTurn(left) /\ Ahead(FramesIn(lines), FramesIn(left))
  <2>1. j - 1 \in 0..Len(rx_accum_) /\ j \in 0..Len(rx_accum_) /\ j - 1 <= j
    BY <1>3
  <2>. QED  BY <1>3, <1>4, <2>1, PartsOrdered DEF EOrder, FramesOrdered
<1>6. PICK f \in Seq(Frames) :
        /\ Received' = Received \o f
        /\ FramesIn(f) \subseteq FramesIn(lines) /\ InTurn(f)
  <2>1. << >> \in Seq(Frames) /\ FramesIn(<< >>) \subseteq FramesIn(lines) /\ InTurn(<< >>)
    BY NoFrames
  <2>2. PICK g \in Seq(Frames) : g = FramesOf(lines) /\ \E pos : Places(g, lines, pos)
    BY <1>5, FramesOfFacts
  <2>3. FramesIn(g) \subseteq FramesIn(lines) /\ InTurn(g)
    <3>1. g \in Seq(Known)
      BY FramesKnown, SeqMonotonic
    <3>. QED  BY <1>5, <2>2, <3>1, PartOrdered
  <2>4. CASE op = "read" /\ taken' = taken \o g /\ UNCHANGED rx_queue_
    <3>1. rx_queue_ = << >>
      BY <2>4 DEF EOrder, ReadQueueEmpty
    <3>2. taken \in Seq(Frames) /\ taken \o g \in Seq(Frames)
      BY <1>3, ConcatFacts DEF EType, DeviceType
    <3>3. taken \o << >> = taken /\ (taken \o g) \o << >> = taken \o g
      BY <3>2, ConcatEmptySeq
    <3>. QED  BY <2>3, <2>4, <3>1, <3>3 DEF Received
  <2>5. CASE Queues(rx_queue_ \o g)
    BY <1>3, <2>3, <2>5, QueuesReceives
  <2>6. CASE Queues(rx_queue_)
    BY <1>3, <2>1, <2>6, QueuesSame, ReceivedIs
  <2>. QED  BY <1>1, <1>4, <2>2, <2>4, <2>5, <2>6
<1>7. f \in Seq(Known)
  BY <1>6, FramesKnown, SeqMonotonic
<1>8. PICK r, a : r = Received \o f /\ a = rx_accum_'
  OBVIOUS
<1>9. a \in {<< >>, left}
  BY <1>1, <1>4, <1>8 DEF Accumulates
<1>10. InTurn(a) /\ FramesIn(a) \subseteq FramesIn(left)
  BY <1>5, <1>9, NoFrames
<1>11. Ahead(FramesIn(Received), FramesIn(f))
  BY <1>5, <1>6 DEF EOrder, FramesOrdered, Ahead
<1>12. FramesIn(r) = FramesIn(Received) \cup FramesIn(f) /\ InTurn(r)
  BY <1>3, <1>6, <1>7, <1>8, <1>11, JoinedOrdered DEF EOrder, FramesOrdered
<1>13. /\ Ahead(FramesIn(r), FramesIn(a)) /\ Ahead(FramesIn(r), FramesIn(stream))
       /\ Ahead(FramesIn(a), FramesIn(stream))
  BY <1>5, <1>6, <1>10, <1>12 DEF EOrder, FramesOrdered, Ahead
<1>14. FramesIn(r) \cup FramesIn(a) \cup FramesIn(stream) \subseteq FramesLeft
  BY <1>5, <1>6, <1>10, <1>12 DEF FramesLeft
<1>15. InTurn(stream) /\ Received' = r /\ stream' = stream
  BY <1>2, <1>6, <1>8 DEF EOrder, FramesOrdered
<1>. QED  BY <1>2, <1>8, <1>10, <1>12, <1>13, <1>14, <1>15, Narrowed

\* The lines t answer the command that the adapter takes; the frames among them are
\* those that it reports.
LEMMA AnsweredOrder ==
  ASSUME EOrder, NEW cmds, NEW texts, Takes(cmds, texts), UNCHANGED <<caller, channel, taken>>,
         NEW t \in Seq(Known), stream' = stream \o t, InTurn(t),
         NEW e \in Seq(Frames), emitted' = emitted \o e, FramesIn(t) \subseteq FramesIn(e),
         InTurn(e), \A f \in FramesIn(e) : f.cmd = Head(to_adapter).cmd
  PROVE  FramesOrdered' /\ CommandsOrdered' /\ FramesLeft' = FramesLeft \cup FramesIn(t)
<1>1. EType /\ Received \in Seq(Known) /\ rx_accum_ \in Seq(Known) /\ stream \in Seq(Known)
      /\ emitted \in Seq(Known)
  BY TokensKnown DEF EOrder
<1>2. /\ Head(to_adapter) = to_adapter[1] /\ Len(to_adapter') = Len(to_adapter) - 1
      /\ Len(to_adapter) \in Nat /\ Len(to_adapter) > 0
      /\ \A i \in 1..Len(to_adapter') : to_adapter'[i] = to_adapter[i + 1]
  BY <1>1, TakesFacts
<1>3. PICK l \in Nat : l = Len(to_adapter) /\ l > 0 /\ Len(to_adapter') = l - 1
  BY <1>2
<1>4. /\ \A i \in 1..(l - 1) : i + 1 \in 1..l /\ 1 < i + 1 /\ to_adapter'[i] = to_adapter[i + 1]
      /\ 1 \in 1..l
  BY <1>2, <1>3
<1>5. \A f \in FramesIn(emitted) : \A g \in FramesIn(e) : Before(f, g)
  <2>1. \A f \in FramesIn(emitted) : f.cmd < to_adapter[1].cmd
    BY <1>3, <1>4 DEF EOrder, CommandsOrdered
  <2>. QED  BY <1>2, <2>1 DEF Before
<1>6. /\ UNCHANGED <<rx_accum_, given>> /\ Received' = Received
  BY DEF caller, channel, Received
<1>7. PICK s : s = stream \o t
  OBVIOUS
<1>8. FramesIn(s) = FramesIn(stream) \cup FramesIn(t) /\ InTurn(s)
  <2>1. Ahead(FramesIn(stream), FramesIn(t))
    BY <1>5 DEF EOrder, FramesOrdered, Ahead, FramesLeft
  <2>. QED  BY <1>1, <1>7, <2>1, JoinedOrdered DEF EOrder, FramesOrdered
<1>9. FramesLeft' = FramesLeft \cup FramesIn(t)
  BY <1>6, <1>7, <1>8 DEF FramesLeft
<1>10. FramesIn(emitted') = FramesIn(emitted) \cup FramesIn(e) /\ InTurn(emitted')
  <2>1. e \in Seq(Known)
    BY FramesKnown, SeqMonotonic
  <2>2. PICK m : m = emitted \o e
    OBVIOUS
  <2>3. FramesIn(m) = FramesIn(emitted) \cup FramesIn(e) /\ InTurn(m)
    BY <1>1, <1>5, <2>1, <2>2, JoinedOrdered DEF EOrder, FramesOrdered, Ahead
  <2>. QED  BY <2>2, <2>3
<1>11. FramesOrdered'
  <2>1. FramesLeft' \subseteq FramesIn(emitted')
    BY <1>9, <1>10 DEF EOrder, FramesOrdered
  <2>2. Ahead(FramesIn(Received), FramesIn(s)) /\ Ahead(FramesIn(rx_accum_), FramesIn(s))
    BY <1>5, <1>8 DEF EOrder, FramesOrdered, Ahead, FramesLeft
  <2>. QED  BY <1>6, <1>7, <1>8, <1>10, <2>1, <2>2 DEF EOrder, FramesOrdered
<1>12. /\ \A i, j \in 1..Len(to_adapter') : i < j => to_adapter'[i].cmd < to_adapter'[j].cmd
       /\ \A i \in 1..Len(to_adapter') : to_adapter'[i].cmd <= given
  BY <1>3, <1>4 DEF EOrder, CommandsOrdered
<1>13. ASSUME NEW f \in FramesIn(emitted')
       PROVE  f.cmd <= given /\ \A i \in 1..Len(to_adapter') : f.cmd < to_adapter'[i].cmd
  <2>1. CASE f \in FramesIn(emitted)
    BY <1>3, <1>4, <2>1 DEF EOrder, CommandsOrdered
  <2>2. CASE f \in FramesIn(e)
    <3>1. f.cmd = to_adapter[1].cmd
      BY <1>2, <2>2
    <3>. QED  BY <1>3, <1>4, <3>1 DEF EOrder, CommandsOrdered
  <2>. QED  BY <1>10, <2>1, <2>2
<1>. QED  BY <1>6, <1>9, <1>11, <1>12, <1>13 DEF CommandsOrdered

LEMMA RepliedOrder ==
  ASSUME EOrder, NEW text \in {"ok", "status"}, NEW cmds, NEW texts, Takes(cmds, texts),
         AdapterAnswers(text), UNCHANGED <<caller, channel, emitted, taken>>
  PROVE  FramesOrdered' /\ CommandsOrdered' /\ FramesLeft' \subseteq FramesLeft
<1>1. EType /\ emitted \in Seq(Frames)
  BY DEF EOrder, EType, DeviceType
<1>2. Head(to_adapter).cmd \in 1..(9 * MaxOps)
  BY <1>1, TakesFacts
<1>3. PICK line : line \in Known /\ ~IsFrame(line) /\ stream' = stream \o <<line, Prompt>>
  BY <1>1, <1>2, OneLine
<1>4. Prompt \in Known /\ ~IsFrame(Prompt)
  BY <1>2, TokenTypes
<1>5. PICK p : p = Prompt
  OBVIOUS
<1>6. PICK t : t = <<line, p>>
  OBVIOUS
<1>7. t \in Seq(Known) /\ \A i \in 1..Len(t) : ~IsFrame(t[i])
  BY <1>3, <1>4, <1>5, <1>6
<1>8. FramesIn(t) = {} /\ InTurn(t)
  BY <1>7 DEF FramesIn, InTurn
<1>9. << >> \in Seq(Frames) /\ emitted' = emitted \o << >>
  BY <1>1, ConcatEmptySeq
<1>10. FramesIn(<< >>) = {} /\ InTurn(<< >>)
  BY NoFrames
<1>. QED  BY <1>3, <1>5, <1>6, <1>7, <1>8, <1>9, <1>10, AnsweredOrder

LEMMA TransmitsOrder ==
  ASSUME EOrder, NEW n \in 0..MaxFrames, Transmits(n)
  PROVE  /\ FramesOrdered' /\ CommandsOrdered'
         /\ FramesLeft' \subseteq FramesLeft \cup FramesIn(FramesFor(n))
<1>1. EType /\ stream \in Seq(Known)
  BY DEF EOrder, EType, DeviceType
<1>2. /\ Takes({"payload"}, {"whole", "glued"}) /\ UNCHANGED <<caller, channel, taken>>
      /\ FramesFor(n) \in Seq(Frames) /\ Len(FramesFor(n)) = n /\ n \in Nat
      /\ emitted' = emitted \o FramesFor(n)
      /\ LinesFor(n) \in Seq(Known) /\ (n # 0 => LinesFor(n) = FramesFor(n))
      /\ n = 0 => Len(LinesFor(n)) = 1 /\ ~IsFrame(LinesFor(n)[1])
      /\ stream' = stream \o LinesFor(n) \o <<Prompt>>
  BY <1>1, TransmitsFacts
<1>3. \A i \in 1..n : FramesFor(n)[i].cmd = Head(to_adapter).cmd /\ FramesFor(n)[i].k = i
  BY DEF FramesFor, Line
<1>4. PICK l \in Seq(Known), p \in Known : l = LinesFor(n) /\ p = Prompt /\ ~IsFrame(p)
  <2>1. Head(to_adapter).cmd \in 1..(9 * MaxOps)
    BY <1>1, <1>2, TakesFacts
  <2>. QED  BY <1>2, <2>1, TokenTypes
<1>11. InTurn(FramesFor(n)) /\ \A f \in FramesIn(FramesFor(n)) : f.cmd = Head(to_adapter).cmd
  <2>1. PICK e \in Seq(Frames) : e = FramesFor(n) /\ Len(e) = n
    BY <1>2
  <2>2. \A i \in 1..n : e[i].cmd = Head(to_adapter).cmd /\ e[i].k = i
    BY <1>3, <2>1
  <2>3. InTurn(e)
    BY <1>2, <2>1, <2>2 DEF InTurn, Before
  <2>4. \A f \in FramesIn(e) : f.cmd = Head(to_adapter).cmd
    BY <2>1, <2>2 DEF FramesIn
  <2>. QED  BY <2>1, <2>3, <2>4
<1>5. FramesIn(l) \subseteq FramesIn(FramesFor(n)) /\ InTurn(l)
  <2>1. CASE n = 0
    <3>1. Len(l) = 1 /\ ~IsFrame(l[1])
      BY <1>2, <1>4, <2>1
    <3>. QED  BY <3>1 DEF FramesIn, InTurn
  <2>2. CASE n # 0
    BY <1>2, <1>4, <1>11, <2>2
  <2>. QED  BY <2>1, <2>2
<1>6. PICK q : q = <<p>>
  OBVIOUS
<1>7. q \in Seq(Known) /\ FramesIn(q) = {} /\ InTurn(q)
  <2>1. q \in Seq(Known) /\ Len(q) = 1 /\ q[1] = p
    BY <1>6
  <2>2. \A i \in 1..Len(q) : ~IsFrame(q[i])
    BY <1>4, <2>1
  <2>. QED  BY <2>1, <2>2 DEF FramesIn, InTurn
<1>8. PICK t : t = l \o q
  OBVIOUS
<1>9. t \in Seq(Known) /\ FramesIn(t) = FramesIn(l) /\ InTurn(t)
  <2>1. Ahead(FramesIn(l), FramesIn(q))
    BY <1>7 DEF Ahead
  <2>2. FramesIn(l \o q) = FramesIn(l) \cup FramesIn(q) /\ InTurn(l \o q) /\ l \o q \in Seq(Known)
    BY <1>4, <1>5, <1>7, <2>1, JoinedOrdered
  <2>. QED  BY <1>7, <1>8, <2>2
<1>10. stream' = stream \o t
  <2>1. (stream \o l) \o q = stream \o (l \o q)
    BY <1>1, <1>7, ConcatAssociative
  <2>. QED  BY <1>2, <1>4, <1>6, <1>8, <2>1
<1>12. FramesOrdered' /\ CommandsOrdered'
  BY <1>2, <1>5, <1>9, <1>10, <1>11, AnsweredOrder
<1>13. FramesLeft' \subseteq FramesLeft \cup FramesIn(FramesFor(n))
  <2>1. FramesIn(stream \o t) = FramesIn(stream) \cup FramesIn(t)
    BY <1>1, <1>9, JoinedOrdered
  <2>2. Received' = Received /\ rx_accum_' = rx_accum_
    BY <1>2 DEF Received, channel
  <2>3. FramesIn(rx_accum_)' = FramesIn(rx_accum_)
    BY <2>2 DEF FramesIn
  <2>4. FramesIn(Received)' = FramesIn(Received)
    BY <2>2 DEF FramesIn
  <2>5. FramesIn(stream)' = FramesIn(stream \o t)
    BY <1>10 DEF FramesIn
  <2>. QED  BY <1>5, <1>9, <2>1, <2>3, <2>4, <2>5 DEF FramesLeft
<1>. QED  BY <1>12, <1>13

LEMMA LoseTokenOrder == ASSUME EOrder, LoseToken PROVE FramesOrdered' /\ CommandsOrdered' /\ FramesLeft' \subseteq FramesLeft
<1>1. /\ stream # << >> /\ stream' = Tail(stream)
      /\ UNCHANGED <<rx_accum_, rx_queue_, taken, given, to_adapter, emitted>>
  BY DEF LoseToken, caller, channel
<1>2. stream \in Seq(Known)
  BY DEF EOrder, EType, DeviceType
<1>3. PICK s : s = Tail(stream)
  OBVIOUS
<1>4. /\ s \in Seq(Known) /\ Len(s) = Len(stream) - 1 /\ Len(stream) \in Nat
      /\ \A i \in 1..Len(s) : s[i] = stream[i + 1]
  BY <1>1, <1>2, <1>3, TailFacts
<1>5. Places(s, stream, [i \in 1..Len(s) |-> i + 1])
  BY <1>4 DEF Places
<1>6. FramesIn(s) \subseteq FramesIn(stream) /\ InTurn(s)
  BY <1>2, <1>4, <1>5, PartOrdered DEF EOrder, FramesOrdered
<1>7. /\ Ahead(FramesIn(Received), FramesIn(s)) /\ Ahead(FramesIn(rx_accum_), FramesIn(s))
      /\ FramesIn(Received) \cup FramesIn(rx_accum_) \cup FramesIn(s) \subseteq FramesLeft
  BY <1>6 DEF EOrder, FramesOrdered, Ahead, FramesLeft
<1>8. Received' = Received
  BY <1>1 DEF Received
<1>9. InTurn(Received) /\ InTurn(rx_accum_) /\ Ahead(FramesIn(Received), FramesIn(rx_accum_))
  BY DEF EOrder, FramesOrdered
<1>. QED  BY <1>1, <1>3, <1>6, <1>7, <1>8, <1>9, Narrowed

LEMMA ReadQueueStaysEmpty == ASSUME EOrder, [Next]_vars PROVE ReadQueueEmpty'
<1>1. SUFFICES ASSUME op' = "read" PROVE rx_queue_' = << >>
  BY DEF ReadQueueEmpty
<1>2. CASE op # "read"
  <2>1. ~(\/ OpenRefused \/ InitialiseRefused \/ WriteClosed \/ ReadQueued \/ CloseClosed
          \/ SendRaw \/ SendRawFailsUnseen \/ Fetch \/ AdapterResets \/ AdapterObeys
          \/ AdapterRejects \/ AdapterTransmits \/ LoseToken \/ Finished \/ UNCHANGED vars)
    BY <1>1, <1>2 DEF OpenRefused, InitialiseRefused, WriteClosed, ReadQueued, CloseClosed, Starts,
       SendRaw, SendRawFailsUnseen, Fetch, AdapterResets, AdapterObeys, AdapterRejects,
       AdapterTransmits, Transmits, LoseToken, Finished, vars, caller
  <2>2. ~(Initialise \/ Write \/ WriteEmpty \/ SetFilter \/ Command \/ Close)
    BY <1>1 DEF Initialise, Write, WriteEmpty, SetFilter, Command, Close
  <2>3. ~(SendRawFails \/ GetAnswer \/ GiveUp)
    <3>1. ~StepDone /\ ~StepFails /\ ~NoAnswer
      BY <1>1, <1>2 DEF StepDone, StepFails, NoAnswer
    <3>. QED  BY <1>1, <1>2, <3>1 DEF SendRawFails, GetAnswer, GiveUp
  <2>4. CASE ReadWaits
    BY <2>4 DEF ReadWaits, channel
  <2>. QED  BY <2>1, <2>2, <2>3, <2>4 DEF Next, Caller, Device
<1>3. CASE op = "read"
  <2>1. rx_queue_ = << >> /\ todo = << >>
    BY <1>3 DEF EOrder, ReadQueueEmpty, EType, CallerType
  <2>2. ~(\/ Initialise \/ OpenRefused \/ InitialiseRefused \/ Write \/ WriteEmpty \/ WriteClosed
          \/ ReadQueued \/ ReadWaits \/ SetFilter \/ Command \/ Close \/ CloseClosed)
    BY <1>3 DEF Initialise, OpenRefused, InitialiseRefused, Write, WriteEmpty,
           WriteClosed, ReadQueued, ReadWaits, SetFilter, Command, Close, CloseClosed, Starts
  <2>3. ~(SendRaw \/ SendRawFails \/ SendRawFailsUnseen)
    BY <2>1 DEF SendRaw, SendRawFails, SendRawFailsUnseen, WriteBreaks
  <2>4. ~(GetAnswer \/ GiveUp)
    BY <1>1, <1>3 DEF GetAnswer, GiveUp
  <2>5. CASE \/ Fetch \/ AdapterResets \/ AdapterObeys \/ AdapterRejects \/ AdapterTransmits
             \/ LoseToken \/ Finished \/ UNCHANGED vars
    BY <2>1, <2>5 DEF Fetch, AdapterResets, AdapterObeys, AdapterRejects, AdapterTransmits,
           Transmits, LoseToken, Finished, vars, channel
  <2>. QED  BY <2>2, <2>3, <2>4, <2>5 DEF Next, Caller, Device
<1>. QED  BY <1>2, <1>3

LEMMA StepOrder == EOrder /\ [Next]_vars => EOrder'
<1>. SUFFICES ASSUME EOrder, [Next]_vars PROVE FramesOrdered' /\ CommandsOrdered'
  BY StepTyped, ReadQueueStaysEmpty DEF EOrder
<1>1. CASE \/ Initialise \/ OpenRefused \/ InitialiseRefused \/ Write \/ WriteEmpty \/ WriteClosed
           \/ ReadQueued \/ ReadWaits \/ SetFilter \/ Command \/ Close \/ CloseClosed
  BY <1>1, StartsOrder
<1>2. CASE SendRaw
  BY <1>2, SendRawOrder
<1>3. CASE Fetch
  BY <1>3, FetchOrder
<1>4. CASE GetAnswer
  BY <1>4, GetAnswerOrder
<1>5. CASE \/ SendRawFails \/ SendRawFailsUnseen \/ GiveUp \/ Finished \/ UNCHANGED vars
  BY <1>5, FailsOrder DEF Finished
<1>6. CASE AdapterResets
  BY <1>6, RepliedOrder DEF AdapterResets, Carries
<1>7. CASE AdapterObeys
  BY <1>7, RepliedOrder DEF AdapterObeys, Carries
<1>8. CASE AdapterRejects
  BY <1>8, RejectsFacts, RepliedOrder
<1>9. CASE AdapterTransmits
  BY <1>9, TransmitsOrder DEF AdapterTransmits
<1>10. CASE LoseToken
  BY <1>10, LoseTokenOrder
<1>. QED  BY <1>1, <1>2, <1>3, <1>4, <1>5, <1>6, <1>7, <1>8, <1>9, <1>10 DEF Next, Caller, Device

\* The steps with which the adapter reports nothing.
Unreported == Caller \/ AdapterResets \/ AdapterObeys \/ AdapterRejects \/ LoseToken

\* Only what the adapter reports is new.
LEMMA StepNarrows ==
  ASSUME EOrder, Unreported
  PROVE  FramesLeft' \subseteq FramesLeft
<1>1. CASE \/ Initialise \/ OpenRefused \/ InitialiseRefused \/ Write \/ WriteEmpty \/ WriteClosed
           \/ ReadQueued \/ ReadWaits \/ SetFilter \/ Command \/ Close \/ CloseClosed
  BY <1>1, StartsOrder
<1>2. CASE SendRaw
  BY <1>2, SendRawOrder
<1>3. CASE Fetch
  BY <1>3, FetchOrder
<1>4. CASE GetAnswer
  BY <1>4, GetAnswerOrder
<1>5. CASE \/ SendRawFails \/ SendRawFailsUnseen \/ GiveUp
  BY <1>5, FailsOrder
<1>6. CASE AdapterResets
  BY <1>6, RepliedOrder DEF AdapterResets, Carries
<1>7. CASE AdapterObeys
  BY <1>7, RepliedOrder DEF AdapterObeys, Carries
<1>8. CASE AdapterRejects
  BY <1>8, RejectsFacts, RepliedOrder
<1>9. CASE LoseToken
  BY <1>9, LoseTokenOrder
<1>. QED  BY <1>1, <1>2, <1>3, <1>4, <1>5, <1>6, <1>7, <1>8, <1>9 DEF Unreported, Caller

LEMMA InitOrder == Init => EOrder
<1>. SUFFICES ASSUME Init PROVE ReadQueueEmpty /\ FramesOrdered /\ CommandsOrdered
  BY InitTyped DEF EOrder
<1>1. /\ op = "idle" /\ rx_accum_ = << >> /\ stream = << >> /\ to_adapter = << >>
      /\ taken = << >> /\ rx_queue_ = << >> /\ emitted = << >>
  BY DEF Init
<1>2. Received = << >>
  <2>1. << >> \o << >> = << >>
    BY ConcatEmptySeq
  <2>. QED  BY <1>1, <2>1 DEF Received
<1>3. FramesLeft = {} /\ Len(to_adapter) = 0
  BY <1>1, <1>2, NoFrames DEF FramesLeft
<1>4. FramesOrdered
  BY <1>1, <1>2, <1>3, NoFrames DEF FramesOrdered, Ahead
<1>5. CommandsOrdered
  BY <1>1, <1>3, NoFrames DEF CommandsOrdered
<1>. QED  BY <1>1, <1>4, <1>5 DEF ReadQueueEmpty

LEMMA OrderImplies == EOrder => InOrder
<1>. SUFFICES ASSUME EOrder PROVE InOrder
  OBVIOUS
<1>1. Received \in Seq(Known) /\ emitted \in Seq(Known) /\ Received \in Seq(Frames)
  BY TokensKnown, ReceivedIs DEF EOrder
<1>2. \A i \in 1..Len(Received) : IsFrame(Received[i])
  BY <1>1, ElementOfSeq, FrameIs
<1>3. \A i \in 1..Len(Received) : Received[i] \in FramesIn(emitted)
  BY <1>1, <1>2, FramesAre DEF EOrder, FramesOrdered, FramesLeft
<1>4. \A j \in 1..Len(Received) : \E i \in 1..Len(emitted) : Received[j] = emitted[i]
  BY <1>1, <1>3, FramesAre
<1>5. \A i, j \in 1..Len(Received) : i < j => Before(Received[i], Received[j])
  BY <1>2 DEF EOrder, FramesOrdered, InTurn
<1>. QED  BY <1>4, <1>5 DEF InOrder, Before

\* No frame is handed over twice, out of turn or without having been reported, whatever
\* fails, is late or is given up (elm327_channel.cpp:183-245, 462-510).
THEOREM FramesStayInOrder == Spec => []InOrder
BY InitOrder, StepOrder, OrderImplies, PTL DEF Spec
=============================================================================
