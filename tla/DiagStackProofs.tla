-------------------------- MODULE DiagStackProofs ---------------------------
(***************************************************************************)
(* Proofs about DiagStack, for every list of requests and responses, every  *)
(* adapter and whatever fails: the channel in the stack is an               *)
(* Elm327Channel; the types; the trace lacks nothing that was sent and has  *)
(* nothing that did not come; and the stack implements AnswerOrder.         *)
(*                                                                          *)
(* Chan == Elm327Channel with its proofs, as Elm in DiagStack.              *)
(* Path == IsoTpSession with its proofs, with the whole way between the     *)
(* transport and the ECU in the place of the bus.                           *)
(***************************************************************************)
EXTENDS DiagStack, SequenceTheorems, FiniteSetTheorems, WellFoundedInduction, TLAPS

-----------------------------------------------------------------------------
(* Sequences.                                                               *)

\* The smallest of a set of numbers: what replaces an induction over them.
LEMMA SmallestOf ==
  ASSUME NEW T \in SUBSET Nat, T # {}
  PROVE  \E n \in T : \A m \in T : n <= m
<1>1. IsWellFoundedOn(OpToRel(<, Nat), Nat)
  BY NatLessThanWellFounded
<1>2. PICK x \in T : \A y \in T : ~ (<<y, x>> \in OpToRel(<, Nat))
  BY <1>1, WFMin
<1>3. ASSUME NEW y \in T PROVE x <= y
  <2>1. x \in Nat /\ y \in Nat
    OBVIOUS
  <2>2. ~ (<<y, x>> \in OpToRel(<, Nat))
    BY <1>2
  <2>3. ~(y < x)
    BY <2>1, <2>2 DEF OpToRel
  <2>. QED  BY <2>1, <2>3
<1>. QED  BY <1>3

LEMMA LenIs ==
  ASSUME NEW S, NEW s \in Seq(S)
  PROVE  Len(s) \in Nat /\ \A i \in 1..Len(s) : s[i] \in S
OBVIOUS

LEMMA ConcatFacts ==
  ASSUME NEW S, NEW s \in Seq(S), NEW t \in Seq(S)
  PROVE  /\ s \o t \in Seq(S) /\ Len(s \o t) = Len(s) + Len(t)
         /\ Len(s) \in Nat /\ Len(t) \in Nat
         /\ \A i \in 1..Len(s) : (s \o t)[i] = s[i]
         /\ \A i \in 1..Len(t) : (s \o t)[Len(s) + i] = t[i]
<1>1. Len(s) \in Nat /\ Len(t) \in Nat
  OBVIOUS
<1>2. /\ s \o t \in Seq(S) /\ Len(s \o t) = Len(s) + Len(t)
      /\ \A i \in 1..(Len(s) + Len(t)) :
           (s \o t)[i] = IF i <= Len(s) THEN s[i] ELSE t[i - Len(s)]
  BY ConcatProperties
<1>3. ASSUME NEW i \in 1..Len(s) PROVE (s \o t)[i] = s[i]
  BY <1>1, <1>2
<1>4. ASSUME NEW i \in 1..Len(t) PROVE (s \o t)[Len(s) + i] = t[i]
  <2>1. Len(s) + i \in 1..(Len(s) + Len(t)) /\ ~(Len(s) + i <= Len(s))
        /\ (Len(s) + i) - Len(s) = i
    BY <1>1
  <2>. QED  BY <1>2, <2>1
<1>. QED  BY <1>1, <1>2, <1>3, <1>4

\* An index into a concatenation is one into its parts.
LEMMA TwoParts ==
  ASSUME NEW a \in Nat, NEW b \in Nat, NEW i \in 1..(a + b)
  PROVE  i \in 1..a \/ \E k \in 1..b : i = a + k
<1>1. CASE i > a
  <2>1. i - a \in 1..b /\ i = a + (i - a)
    BY <1>1
  <2>. QED  BY <2>1
<1>. QED  BY <1>1

LEMMA AppendFacts ==
  ASSUME NEW S, NEW s \in Seq(S), NEW e \in S
  PROVE  /\ Append(s, e) \in Seq(S) /\ Len(Append(s, e)) = Len(s) + 1 /\ Len(s) \in Nat
         /\ \A i \in 1..Len(s) : Append(s, e)[i] = s[i]
         /\ Append(s, e)[Len(s) + 1] = e
OBVIOUS

LEMMA AppendLen ==
  ASSUME NEW S, NEW s \in Seq(S), NEW x
  PROVE  \E T : Append(s, x) \in Seq(T) /\ Len(Append(s, x)) = Len(s) + 1
<1>1. s \in Seq(S \cup {x}) /\ x \in S \cup {x}
  OBVIOUS
<1>. QED  BY <1>1

\* More is reported.
Joins(d, s, t) ==
  /\ Len(d) = Len(s) + Len(t) /\ Len(s) \in Nat /\ Len(t) \in Nat
  /\ (\A i \in 1..Len(s) : d[i] = s[i]) /\ \A i \in 1..Len(t) : d[Len(s) + i] = t[i]

LEMMA JoinIs ==
  ASSUME NEW S, NEW s \in Seq(S), NEW t \in Seq(S)
  PROVE  s \o t \in Seq(S) /\ Joins(s \o t, s, t)
BY ConcatFacts DEF Joins

LEMMA JoinNone ==
  ASSUME NEW S, NEW s \in Seq(S)
  PROVE  s \o << >> = s /\ << >> \o s = s /\ << >> \in Seq(S)
BY ConcatEmptySeq

LEMMA JoinThree ==
  ASSUME NEW S, NEW a \in Seq(S), NEW b \in Seq(S), NEW c \in Seq(S)
  PROVE  (a \o b) \o c = a \o (b \o c)
BY ConcatAssociative

\* The same, for steps about more than three.
Regroups(a, b, c) == (a \o b) \o c = a \o (b \o c)

LEMMA Regroup ==
  ASSUME NEW S, NEW a \in Seq(S), NEW b \in Seq(S), NEW c \in Seq(S)
  PROVE  Regroups(a, b, c)
BY JoinThree DEF Regroups

LEMMA JoinOne ==
  ASSUME NEW S, NEW s \in Seq(S), NEW t \in Seq(S), NEW e \in S
  PROVE  /\ s \o Append(t, e) = Append(s \o t, e)
         /\ s \o <<e>> = Append(s, e)
<1>1. <<e>> \in Seq(S) /\ s \o t \in Seq(S)
  OBVIOUS
<1>2. \A u \in Seq(S) : Append(u, e) = u \o <<e>>
  BY AppendIsConcat
<1>3. s \o Append(t, e) = (s \o t) \o <<e>>
  BY <1>1, <1>2, JoinThree
<1>. QED  BY <1>1, <1>2, <1>3

LEMMA JoinAny ==
  ASSUME NEW S, NEW s \in Seq(S), NEW t \in Seq(S), NEW f
  PROVE  s \o Append(t, f) = Append(s \o t, f)
<1>. PICK T : T = S \cup {f}
  OBVIOUS
<1>1. S \subseteq T /\ f \in T
  OBVIOUS
<1>2. s \in Seq(T) /\ t \in Seq(T)
  BY <1>1, SeqMonotonic
<1>. QED  BY <1>1, <1>2, JoinOne

LEMMA JoinSplit ==
  ASSUME NEW S, NEW s \in Seq(S), NEW t \in Seq(S)
  PROVE  SubSeq(s \o t, 1, Len(s)) = s /\ SubSeq(s \o t, Len(s) + 1, Len(s \o t)) = t
<1>0. PICK u : u = s \o t
  OBVIOUS
<1>1. PICK m, n \in Nat :
        /\ u \in Seq(S) /\ u = s \o t /\ m = Len(s) /\ n = Len(t) /\ Joins(u, s, t)
  BY <1>0, LenIs, JoinIs
<1>2. /\ Len(u) = m + n /\ (\A i \in 1..m : u[i] = s[i]) /\ \A i \in 1..n : u[m + i] = t[i]
  BY <1>1 DEF Joins
<1>3. PICK a : a = SubSeq(u, 1, m)
  OBVIOUS
<1>4. a \in Seq(S) /\ Len(a) = m /\ \A i \in 1..m : a[i] = u[i]
  BY <1>1, <1>2, <1>3
<1>5. a = s
  BY <1>1, <1>2, <1>4, SeqEqual
<1>6. PICK b : b = SubSeq(u, m + 1, m + n)
  OBVIOUS
<1>7. b \in Seq(S) /\ Len(b) = n /\ \A i \in 1..n : b[i] = u[m + i]
  BY <1>1, <1>2, <1>6
<1>8. b = t
  BY <1>1, <1>2, <1>7, SeqEqual
<1>. QED  BY <1>1, <1>2, <1>3, <1>5, <1>6, <1>8

LEMMA TailJoined ==
  ASSUME NEW S, NEW s \in Seq(S), NEW t \in Seq(S), s # << >>
  PROVE  s \o t # << >> /\ Head(s \o t) = Head(s) /\ Tail(s \o t) = Tail(s) \o t
<1>0. PICK u : u = s \o t
  OBVIOUS
<1>1. PICK m, n \in Nat :
        u \in Seq(S) /\ m = Len(s) /\ n = Len(t) /\ Joins(u, s, t)
  BY <1>0, LenIs, JoinIs
<1>2. Len(u) = m + n /\ (\A i \in 1..m : u[i] = s[i]) /\ \A i \in 1..n : u[m + i] = t[i]
  BY <1>1 DEF Joins
<1>3. m > 0 /\ u # << >> /\ Head(u) = u[1] /\ Head(s) = s[1]
  BY <1>1, <1>2
<1>4. PICK a, v : a = Tail(s) /\ v = Tail(u)
  OBVIOUS
<1>5. /\ a \in Seq(S) /\ Len(a) = m - 1 /\ \A i \in 1..(m - 1) : a[i] = s[i + 1]
      /\ v \in Seq(S) /\ Len(v) = (m - 1) + n /\ \A i \in 1..((m - 1) + n) : v[i] = u[i + 1]
  BY <1>1, <1>2, <1>3, <1>4
<1>6. PICK w : w = a \o t
  OBVIOUS
<1>7. w \in Seq(S) /\ Joins(w, a, t)
  BY <1>5, <1>6, JoinIs
<1>8. /\ Len(w) = (m - 1) + n /\ (\A i \in 1..(m - 1) : w[i] = a[i])
      /\ \A i \in 1..n : w[(m - 1) + i] = t[i]
  BY <1>1, <1>5, <1>7 DEF Joins
<1>9. ASSUME NEW i \in 1..((m - 1) + n) PROVE v[i] = w[i]
  <2>1. CASE i \in 1..(m - 1)
    <3>1. i + 1 \in 1..m
      BY <1>3, <2>1
    <3>. QED  BY <1>2, <1>5, <1>8, <2>1, <3>1
  <2>2. ASSUME NEW k \in 1..n, i = (m - 1) + k PROVE v[i] = w[i]
    <3>1. i + 1 = m + k
      BY <2>2
    <3>. QED  BY <1>2, <1>5, <1>8, <2>2, <3>1
  <2>3. m - 1 \in Nat
    BY <1>3
  <2>. QED  BY <2>1, <2>2, <2>3, TwoParts
<1>10. v = w
  BY <1>5, <1>7, <1>8, <1>9, SeqEqual
<1>. QED  BY <1>0, <1>2, <1>3, <1>4, <1>6, <1>10, 1 \in 1..m

\* A sequence without its last element.
LEMMA LastOf ==
  ASSUME NEW S, NEW t \in Seq(S), NEW n \in 1..Len(t)
  PROVE  /\ SubSeq(t, 1, n - 1) \in Seq(S) /\ SubSeq(t, 1, n) \in Seq(S) /\ t[n] \in S
         /\ SubSeq(t, 1, n) = Append(SubSeq(t, 1, n - 1), t[n])
<1>. DEFINE u == SubSeq(t, 1, n - 1)
            v == SubSeq(t, 1, n)
<1>1. /\ n - 1 \in Nat /\ t[n] \in S
      /\ u \in Seq(S) /\ Len(u) = n - 1 /\ \A i \in 1..(n - 1) : u[i] = t[i]
      /\ v \in Seq(S) /\ Len(v) = n /\ \A i \in 1..n : v[i] = t[i]
  OBVIOUS
<1>. HIDE DEF u, v
<1>. DEFINE w == Append(u, t[n])
<1>2. w \in Seq(S) /\ Len(w) = n /\ (\A i \in 1..(n - 1) : w[i] = u[i]) /\ w[n] = t[n]
  <2>1. (n - 1) + 1 = n
    OBVIOUS
  <2>. QED  BY <1>1, <2>1, AppendFacts
<1>. HIDE DEF w
<1>3. ASSUME NEW i \in 1..n PROVE v[i] = w[i]
  <2>1. CASE i = n
    BY <1>1, <1>2, <2>1
  <2>2. CASE i # n
    <3>1. i \in 1..(n - 1)
      BY <2>2
    <3>. QED  BY <1>1, <1>2, <3>1
  <2>. QED  BY <2>1, <2>2
<1>4. v = w
  BY <1>1, <1>2, <1>3, SeqEqual
<1>. QED  BY <1>1, <1>4 DEF u, v, w

LEMMA LastIn ==
  ASSUME NEW S, NEW s \in Seq(S), NEW f, Append(s, f) \in Seq(S)
  PROVE  f \in S
<1>1. PICK n \in Nat : n = Len(s)
  BY LenIs
<1>2. Len(Append(s, f)) = n + 1 /\ Append(s, f)[n + 1] = f
  BY <1>1
<1>3. n + 1 \in 1..Len(Append(s, f))
  BY <1>2
<1>. QED  BY <1>2, <1>3, LenIs

LEMMA OneOnly ==
  ASSUME NEW S, NEW s \in Seq(S), Len(s) <= 1, s # << >>
  PROVE  Len(s) = 1 /\ s = <<s[1]>>
<1>1. PICK n \in Nat : n = Len(s)
  BY LenIs
<1>2. n = 1
  BY <1>1
<1>3. s[1] \in S
  BY <1>1, <1>2, LenIs
<1>4. PICK t : t = <<s[1]>>
  OBVIOUS
<1>5. t \in Seq(S) /\ Len(t) = 1 /\ t[1] = s[1]
  BY <1>3, <1>4
<1>6. s = t
  <2>1. Len(s) = Len(t) /\ \A i \in 1..Len(s) : s[i] = t[i]
    BY <1>1, <1>2, <1>5
  <2>. QED  BY <1>5, <2>1, SeqEqual
<1>. QED  BY <1>1, <1>2, <1>4, <1>6

IsTwo(u, x, y) == Len(u) = 2 /\ u[1] = x /\ u[2] = y

LEMMA TwoOf ==
  ASSUME NEW x, NEW y
  PROVE  IsTwo(<<x>> \o <<y>>, x, y)
<1>1. PICK s, t, u : s = <<x>> /\ t = <<y>> /\ u = s \o t
  OBVIOUS
<1>2. /\ s \in Seq({x, y}) /\ Len(s) = 1 /\ s[1] = x
      /\ t \in Seq({x, y}) /\ Len(t) = 1 /\ t[1] = y
  BY <1>1
<1>3. /\ Len(u) = Len(s) + Len(t) /\ (\A i \in 1..Len(s) : u[i] = s[i])
      /\ \A i \in 1..Len(t) : u[Len(s) + i] = t[i]
  <2>1. PICK S : S = {x, y}
    OBVIOUS
  <2>. QED  BY <1>1, <1>2, <2>1, ConcatFacts
<1>4. IsTwo(u, x, y)
  BY <1>2, <1>3 DEF IsTwo
<1>. QED  BY <1>1, <1>4

-----------------------------------------------------------------------------
(* Sequences that lose elements.                                            *)

\* The elements of t are elements of s, in the order of s.
Thins(t, s) ==
  \E pos \in [1..Len(t) -> 1..Len(s)] :
    /\ \A i, j \in 1..Len(t) : i < j => pos[i] < pos[j]
    /\ \A i \in 1..Len(t) : t[i] = s[pos[i]]

LEMMA ThinSame ==
  ASSUME NEW S, NEW s \in Seq(S)
  PROVE  Thins(s, s)
<1>. DEFINE pos == [i \in 1..Len(s) |-> i]
<1>1. /\ pos \in [1..Len(s) -> 1..Len(s)]
      /\ \A i, j \in 1..Len(s) : i < j => pos[i] < pos[j]
      /\ \A i \in 1..Len(s) : s[i] = s[pos[i]]
  OBVIOUS
<1>. HIDE DEF pos
<1>. QED  BY <1>1 DEF Thins

LEMMA ThinNone ==
  ASSUME NEW S, NEW s \in Seq(S)
  PROVE  Thins(<< >>, s)
<1>. DEFINE pos == [i \in 1..0 |-> 1]
<1>1. Len(<< >>) = 0 /\ 1..0 = {}
  OBVIOUS
<1>2. pos \in [1..0 -> 1..Len(s)]
  BY <1>1
<1>. HIDE DEF pos
<1>. QED  BY <1>1, <1>2 DEF Thins

LEMMA ThinTail ==
  ASSUME NEW S, NEW s \in Seq(S), s # << >>
  PROVE  Thins(Tail(s), s)
<1>. DEFINE t == Tail(s)
            pos == [i \in 1..Len(t) |-> i + 1]
<1>1. Len(s) \in Nat /\ Len(t) = Len(s) - 1 /\ \A i \in 1..Len(t) : t[i] = s[i + 1]
  OBVIOUS
<1>. HIDE DEF t
<1>2. /\ pos \in [1..Len(t) -> 1..Len(s)]
      /\ \A i, j \in 1..Len(t) : i < j => pos[i] < pos[j]
      /\ \A i \in 1..Len(t) : t[i] = s[pos[i]]
  BY <1>1
<1>. HIDE DEF pos
<1>. QED  BY <1>2 DEF Thins, t

LEMMA ThinTwice ==
  ASSUME NEW S, NEW a \in Seq(S), NEW b \in Seq(S), NEW c \in Seq(S), Thins(a, b), Thins(b, c)
  PROVE  Thins(a, c)
<1>1. PICK p \in [1..Len(a) -> 1..Len(b)] :
        /\ \A i, j \in 1..Len(a) : i < j => p[i] < p[j]
        /\ \A i \in 1..Len(a) : a[i] = b[p[i]]
  BY DEF Thins
<1>2. PICK q \in [1..Len(b) -> 1..Len(c)] :
        /\ \A i, j \in 1..Len(b) : i < j => q[i] < q[j]
        /\ \A i \in 1..Len(b) : b[i] = c[q[i]]
  BY DEF Thins
<1>. DEFINE pos == [i \in 1..Len(a) |-> q[p[i]]]
<1>3. /\ pos \in [1..Len(a) -> 1..Len(c)]
      /\ \A i, j \in 1..Len(a) : i < j => pos[i] < pos[j]
      /\ \A i \in 1..Len(a) : a[i] = c[pos[i]]
  BY <1>1, <1>2
<1>. HIDE DEF pos
<1>. QED  BY <1>3 DEF Thins

LEMMA ThinJoined ==
  ASSUME NEW S, NEW a \in Seq(S), NEW b \in Seq(S), NEW c \in Seq(S), NEW d \in Seq(S),
         Thins(a, b), Thins(c, d)
  PROVE  Thins(a \o c, b \o d)
<1>1. PICK p \in [1..Len(a) -> 1..Len(b)] :
        /\ \A i, j \in 1..Len(a) : i < j => p[i] < p[j]
        /\ \A i \in 1..Len(a) : a[i] = b[p[i]]
  BY DEF Thins
<1>2. PICK q \in [1..Len(c) -> 1..Len(d)] :
        /\ \A i, j \in 1..Len(c) : i < j => q[i] < q[j]
        /\ \A i \in 1..Len(c) : c[i] = d[q[i]]
  BY DEF Thins
<1>. DEFINE m == Len(a)
            n == Len(b)
            k == Len(c)
            l == Len(d)
            t == a \o c
            s == b \o d
            pos == [i \in 1..(m + k) |-> IF i <= m THEN p[i] ELSE n + q[i - m]]
<1>3. /\ m \in Nat /\ n \in Nat /\ k \in Nat /\ l \in Nat
      /\ Len(t) = m + k /\ Len(s) = n + l
      /\ \A i \in 1..m : t[i] = a[i]
      /\ \A i \in 1..k : t[m + i] = c[i]
      /\ \A i \in 1..n : s[i] = b[i]
      /\ \A i \in 1..l : s[n + i] = d[i]
  BY ConcatFacts
<1>4. /\ \A i \in 1..m : p[i] \in 1..n
      /\ \A i \in 1..k : q[i] \in 1..l
      /\ \A i, j \in 1..m : i < j => p[i] < p[j]
      /\ \A i, j \in 1..k : i < j => q[i] < q[j]
  BY <1>1, <1>2
<1>. HIDE DEF m, n, k, l, t, s
<1>5. ASSUME NEW i \in 1..m PROVE i \in 1..(m + k) /\ pos[i] = p[i]
  <2>1. i \in 1..(m + k) /\ i <= m
    BY <1>3
  <2>. QED  BY <2>1
<1>6. ASSUME NEW i \in 1..k PROVE m + i \in 1..(m + k) /\ pos[m + i] = n + q[i]
  <2>1. m + i \in 1..(m + k) /\ ~(m + i <= m) /\ (m + i) - m = i
    BY <1>3
  <2>. QED  BY <2>1
<1>7. ASSUME NEW i \in 1..m PROVE pos[i] \in 1..(n + l) /\ pos[i] <= n
  <2>1. p[i] \in 1..(n + l) /\ p[i] <= n
    BY <1>3, <1>4
  <2>. QED  BY <1>5, <2>1
<1>8. ASSUME NEW i \in 1..k PROVE pos[m + i] \in 1..(n + l) /\ pos[m + i] > n
  <2>1. n + q[i] \in 1..(n + l) /\ n + q[i] > n
    BY <1>3, <1>4
  <2>. QED  BY <1>6, <2>1
<1>9. pos \in [1..Len(t) -> 1..Len(s)]
  <2>1. ASSUME NEW i \in 1..(m + k) PROVE pos[i] \in 1..(n + l)
    <3>1. i \in 1..m \/ \E g \in 1..k : i = m + g
      BY <1>3, TwoParts
    <3>2. CASE i \in 1..m
      BY <1>7, <3>2, Zenon
    <3>3. CASE \E g \in 1..k : i = m + g
      BY <1>8, <3>3, Zenon
    <3>. QED  BY <3>1, <3>2, <3>3, Zenon
  <2>2. pos = [i \in 1..(m + k) |-> pos[i]]
    OBVIOUS
  <2>. HIDE DEF pos
  <2>. QED  BY <1>3, <2>1, <2>2
<1>. HIDE DEF pos
<1>10. ASSUME NEW i \in 1..Len(t), NEW j \in 1..Len(t), i < j PROVE pos[i] < pos[j]
  <2>1. CASE i \in 1..m /\ j \in 1..m
    BY <1>4, <1>5, <1>10, <2>1
  <2>2. CASE i \in 1..m /\ \E h \in 1..k : j = m + h
    <3>1. pos[i] \in 1..(n + l) /\ pos[i] <= n /\ pos[j] \in 1..(n + l) /\ pos[j] > n
      BY <1>7, <1>8, <2>2
    <3>2. pos[i] \in Int /\ pos[j] \in Int /\ n \in Int
      BY <1>3, <3>1
    <3>. QED  BY <3>1, <3>2
  <2>3. CASE (\E g \in 1..k : i = m + g) /\ \E h \in 1..k : j = m + h
    <3>1. PICK g \in 1..k, h \in 1..k : i = m + g /\ j = m + h
      BY <2>3
    <3>2. g < h
      BY <1>3, <1>10, <3>1
    <3>3. q[g] < q[h] /\ q[g] \in Nat /\ q[h] \in Nat
      <4>1. q[g] < q[h] /\ q[g] \in 1..l /\ q[h] \in 1..l
        BY <1>4, <3>2, Zenon
      <4>2. l \in Nat
        BY <1>3, Zenon
      <4>. QED  BY ONLY <4>1, <4>2
    <3>4. pos[i] = n + q[g] /\ pos[j] = n + q[h]
      BY <1>6, <3>1
    <3>5. n \in Nat
      BY <1>3
    <3>6. n + q[g] < n + q[h]
      BY <3>3, <3>5
    <3>. QED  BY <3>4, <3>6
  <2>4. ~((\E g \in 1..k : i = m + g) /\ j \in 1..m)
    <3>. SUFFICES ASSUME NEW g \in 1..k, i = m + g, j \in 1..m PROVE FALSE
      OBVIOUS
    <3>1. j <= m /\ m + g < j
      BY <1>3, <1>10
    <3>2. g > 0 /\ g \in Nat /\ j \in Nat /\ m \in Nat
      BY <1>3
    <3>. QED  BY <3>1, <3>2
  <2>5. (i \in 1..m \/ \E g \in 1..k : i = m + g) /\ (j \in 1..m \/ \E h \in 1..k : j = m + h)
    BY <1>3, TwoParts
  <2>. QED  BY <2>1, <2>2, <2>3, <2>4, <2>5
<1>11. ASSUME NEW i \in 1..Len(t) PROVE t[i] = s[pos[i]]
  <2>1. CASE i \in 1..m
    <3>1. t[i] = a[i] /\ a[i] = b[p[i]] /\ p[i] \in 1..n
      BY <1>1, <1>3, <1>4, <2>1 DEF m
    <3>. QED  BY <1>3, <1>5, <2>1, <3>1
  <2>2. CASE \E g \in 1..k : i = m + g
    <3>1. PICK g \in 1..k : i = m + g
      BY <2>2
    <3>2. t[i] = c[g] /\ c[g] = d[q[g]] /\ q[g] \in 1..l
      BY <1>2, <1>3, <1>4, <3>1 DEF k
    <3>. QED  BY <1>3, <1>6, <3>1, <3>2
  <2>. QED  BY <1>3, <2>1, <2>2, TwoParts
<1>12. Thins(t, s)
  BY <1>9, <1>10, <1>11 DEF Thins
<1>. QED  BY <1>12 DEF t, s

\* Elements are lost in front.
LEMMA ThinFront ==
  ASSUME NEW S, NEW a \in Seq(S), NEW b \in Seq(S)
  PROVE  Thins(b, a \o b)
<1>1. Thins(<< >> \o b, a \o b)
  BY JoinNone, ThinNone, ThinSame, ThinJoined
<1>. QED  BY <1>1, JoinNone

LEMMA ThinBack ==
  ASSUME NEW S, NEW a \in Seq(S), NEW b \in Seq(S)
  PROVE  Thins(a, a \o b)
<1>1. Thins(a \o << >>, a \o b)
  BY JoinNone, ThinNone, ThinSame, ThinJoined
<1>. QED  BY <1>1, JoinNone

\* What waits behind it stays.
LEMMA ThinWithRest ==
  ASSUME NEW S, NEW a \in Seq(S), NEW b \in Seq(S), NEW r \in Seq(S), Thins(a, b)
  PROVE  Thins(a \o r, b \o r)
BY ThinSame, ThinJoined

LEMMA ThinBehind ==
  ASSUME NEW S, NEW a \in Seq(S), NEW b \in Seq(S), NEW r \in Seq(S), Thins(a, b)
  PROVE  Thins(r \o a, r \o b)
BY ThinSame, ThinJoined

\* Without the last element of each, what is left is still left.
LEMMA ThinBeforeLast ==
  ASSUME NEW S, NEW a \in Seq(S), NEW b \in Seq(S), NEW e \in S, NEW f \in S,
         Thins(Append(a, e), Append(b, f))
  PROVE  Thins(a, b)
<1>1. PICK m, n \in Nat, x, y \in Seq(S) :
        m = Len(a) /\ n = Len(b) /\ x = Append(a, e) /\ y = Append(b, f)
  BY LenIs, AppendFacts
<1>2. /\ Len(x) = m + 1 /\ \A i \in 1..m : x[i] = a[i]
      /\ Len(y) = n + 1 /\ \A i \in 1..n : y[i] = b[i]
  BY <1>1, AppendFacts
<1>3. PICK pos \in [1..(m + 1) -> 1..(n + 1)] :
        /\ \A i, j \in 1..(m + 1) : i < j => pos[i] < pos[j]
        /\ \A i \in 1..(m + 1) : x[i] = y[pos[i]]
  <2>1. Thins(x, y) /\ Len(x) = m + 1 /\ Len(y) = n + 1
    BY <1>1, <1>2
  <2>. QED  BY <2>1 DEF Thins
<1>4. ASSUME NEW i \in 1..m PROVE pos[i] \in 1..n /\ i \in 1..(m + 1)
  <2>1. i \in 1..(m + 1) /\ m + 1 \in 1..(m + 1) /\ i < m + 1
    BY <1>1
  <2>2. pos[i] < pos[m + 1] /\ pos[i] \in 1..(n + 1) /\ pos[m + 1] \in 1..(n + 1)
    BY <1>3, <2>1
  <2>. QED  BY <1>1, <2>1, <2>2
<1>5. PICK q : q = [i \in 1..m |-> pos[i]]
  OBVIOUS
<1>6. q \in [1..m -> 1..n] /\ \A i \in 1..m : q[i] = pos[i]
  BY <1>4, <1>5
<1>7. \A i, j \in 1..m : i < j => q[i] < q[j]
  BY <1>3, <1>4, <1>6
<1>8. \A i \in 1..m : a[i] = b[q[i]]
  BY <1>2, <1>3, <1>4, <1>6
<1>. QED  BY <1>1, <1>6, <1>7, <1>8 DEF Thins

-----------------------------------------------------------------------------
(* Only and Within.                                                         *)

Entry == [dir: Directions, frame: Ecu!SessionFrame]

\* f gives the entries of a direction among the first of a trace, up to n of them.
IsAmong(f, dir, trace, n) ==
  f = [i \in 0..n |-> IF i = 0 THEN << >>
                      ELSE IF trace[i].dir = dir THEN Append(f[i - 1], trace[i]) ELSE f[i - 1]]

LEMMA AmongExists ==
  ASSUME NEW dir, NEW trace, NEW len \in Nat
  PROVE  \E f : IsAmong(f, dir, trace, len)
<1>. DEFINE T == {n \in Nat : ~ \E f : IsAmong(f, dir, trace, n)}
<1>1. SUFFICES ASSUME T # {} PROVE FALSE
  OBVIOUS
<1>2. PICK n \in T : \A m \in T : n <= m
  BY <1>1, SmallestOf
<1>3. CASE n = 0
  <2>1. IsAmong([i \in 0..0 |-> << >>], dir, trace, 0)
    BY DEF IsAmong
  <2>. QED  BY <1>3, <2>1
<1>4. CASE n > 0
  <2>1. n - 1 \in Nat /\ ~(n <= n - 1)
    BY <1>4
  <2>2. PICK f : IsAmong(f, dir, trace, n - 1)
    BY <1>2, <2>1
  <2>. DEFINE g == [i \in 0..n |-> IF i = n
                       THEN IF trace[n].dir = dir THEN Append(f[n - 1], trace[n]) ELSE f[n - 1]
                       ELSE f[i]]
  <2>3. ASSUME NEW i \in 0..n
        PROVE  g[i] = IF i = 0 THEN << >>
                      ELSE IF trace[i].dir = dir THEN Append(g[i - 1], trace[i]) ELSE g[i - 1]
    <3>1. CASE i = n
      BY <1>4, <3>1
    <3>2. CASE i # n
      <4>1. i \in 0..(n - 1) /\ (i # 0 => i - 1 \in 0..n /\ i - 1 # n)
        BY <1>4, <3>2
      <4>2. f[i] = IF i = 0 THEN << >>
                   ELSE IF trace[i].dir = dir THEN Append(f[i - 1], trace[i]) ELSE f[i - 1]
        BY <2>2, <4>1 DEF IsAmong
      <4>. QED  BY <3>2, <4>1, <4>2
    <3>. QED  BY <3>1, <3>2
  <2>4. IsAmong(g, dir, trace, n)
    BY <2>3 DEF IsAmong
  <2>. QED  BY <2>4
<1>. QED  BY <1>3, <1>4

LEMMA OnlyIs ==
  ASSUME NEW dir, NEW S, NEW trace \in Seq(S)
  PROVE  \E f : IsAmong(f, dir, trace, Len(trace)) /\ Only(dir, trace) = f[Len(trace)]
<1>0. Len(trace) \in Nat
  OBVIOUS
<1>1. PICK g : IsAmong(g, dir, trace, Len(trace))
  BY <1>0, AmongExists
<1>. QED  BY <1>1 DEF Only, IsAmong

\* Traces that begin alike have the same entries there.
LEMMA AmongAgree ==
  ASSUME NEW dir, NEW s, NEW t, NEW m \in Nat, NEW n \in Nat, m <= n,
         \A i \in 1..m : t[i] = s[i],
         NEW f, IsAmong(f, dir, s, m), NEW g, IsAmong(g, dir, t, n)
  PROVE  g[m] = f[m]
<1>. DEFINE T == {i \in 0..m : g[i] # f[i]}
<1>1. SUFFICES ASSUME T # {} PROVE FALSE
  BY <1>1
<1>2. PICK k \in T : \A i \in T : k <= i
  <2>1. T \in SUBSET Nat
    OBVIOUS
  <2>. HIDE DEF T
  <2>. QED  BY <1>1, <2>1, SmallestOf
<1>3. k \in 0..m /\ k \in 0..n
  OBVIOUS
<1>4. /\ f[k] = IF k = 0 THEN << >>
                ELSE IF s[k].dir = dir THEN Append(f[k - 1], s[k]) ELSE f[k - 1]
      /\ g[k] = IF k = 0 THEN << >>
                ELSE IF t[k].dir = dir THEN Append(g[k - 1], t[k]) ELSE g[k - 1]
  BY <1>3 DEF IsAmong
<1>5. CASE k = 0
  BY <1>4, <1>5
<1>6. CASE k # 0
  <2>1. k \in 1..m /\ k - 1 \in 0..m /\ ~(k <= k - 1)
    BY <1>3, <1>6
  <2>2. g[k - 1] = f[k - 1] /\ t[k] = s[k]
    BY <1>2, <2>1
  <2>. QED  BY <1>4, <1>6, <2>2
<1>. QED  BY <1>5, <1>6

LEMMA OnlyAppend ==
  ASSUME NEW dir, NEW S, NEW s \in Seq(S), NEW e \in S
  PROVE  Only(dir, Append(s, e))
           = IF e.dir = dir THEN Append(Only(dir, s), e) ELSE Only(dir, s)
<1>. DEFINE n == Len(s)
            t == Append(s, e)
<1>1. t \in Seq(S) /\ Len(t) = n + 1 /\ n \in Nat /\ (\A i \in 1..n : t[i] = s[i]) /\ t[n + 1] = e
  BY AppendFacts
<1>. HIDE DEF n, t
<1>2. PICK f : IsAmong(f, dir, s, n) /\ Only(dir, s) = f[n]
  BY OnlyIs DEF n
<1>3. PICK g : IsAmong(g, dir, t, n + 1) /\ Only(dir, t) = g[n + 1]
  <2>1. \E g : IsAmong(g, dir, t, Len(t)) /\ Only(dir, t) = g[Len(t)]
    BY <1>1, OnlyIs
  <2>. QED  BY <1>1, <2>1
<1>4. g[n] = f[n]
  BY <1>1, <1>2, <1>3, AmongAgree
<1>5. g[n + 1] = IF t[n + 1].dir = dir THEN Append(g[n], t[n + 1]) ELSE g[n]
  <2>1. n + 1 \in 0..(n + 1) /\ n + 1 # 0 /\ (n + 1) - 1 = n
    BY <1>1
  <2>2. g[n + 1] = IF n + 1 = 0 THEN << >>
                   ELSE IF t[n + 1].dir = dir THEN Append(g[(n + 1) - 1], t[n + 1])
                        ELSE g[(n + 1) - 1]
    BY <1>3, <2>1 DEF IsAmong
  <2>. QED  BY <2>1, <2>2
<1>6. Only(dir, t) = IF e.dir = dir THEN Append(Only(dir, s), e) ELSE Only(dir, s)
  BY <1>1, <1>2, <1>3, <1>4, <1>5
<1>. QED  BY <1>6 DEF t

LEMMA OnlyNone == ASSUME NEW dir PROVE Only(dir, << >>) = << >>
<1>1. << >> \in Seq({}) /\ Len(<< >>) = 0
  OBVIOUS
<1>2. PICK f : IsAmong(f, dir, << >>, 0) /\ Only(dir, << >>) = f[0]
  BY <1>1, OnlyIs
<1>. QED  BY <1>2 DEF IsAmong

AllOf(d, t) == \A i \in 1..Len(t) : t[i].dir = d

OnlyGrows(dir, d, s, t) ==
  Only(dir, s \o t) = IF d = dir THEN Only(dir, s) \o t ELSE Only(dir, s)

\* Entries of one direction are written.
LEMMA OnlyJoined ==
  ASSUME NEW dir, NEW d, NEW S, NEW s \in Seq(S), NEW t \in Seq(S),
         AllOf(d, t), Only(dir, s) \in Seq(S)
  PROVE  OnlyGrows(dir, d, s, t)
<1>. SUFFICES Only(dir, s \o t) = IF d = dir THEN Only(dir, s) \o t ELSE Only(dir, s)
  BY DEF OnlyGrows
<1>. DEFINE Good(n) == Only(dir, s \o SubSeq(t, 1, n))
                         = IF d = dir THEN Only(dir, s) \o SubSeq(t, 1, n) ELSE Only(dir, s)
            T == {n \in 0..Len(t) : ~Good(n)}
<1>0. Len(t) \in Nat /\ SubSeq(t, 1, Len(t)) = t /\ SubSeq(t, 1, 0) = << >>
  OBVIOUS
<1>1. SUFFICES ASSUME T # {} PROVE FALSE
  <2>1. Good(Len(t))
    BY <1>0, <1>1
  <2>. QED  BY <1>0, <2>1
<1>2. PICK n \in T : \A m \in T : n <= m
  <2>1. T \in SUBSET Nat
    BY <1>0
  <2>. HIDE DEF T
  <2>. QED  BY <1>1, <2>1, SmallestOf
<1>3. n \in 0..Len(t) /\ ~Good(n)
  OBVIOUS
<1>4. CASE n = 0
  BY <1>0, <1>3, <1>4, JoinNone
<1>5. CASE n # 0
  <2>1. n \in 1..Len(t) /\ n - 1 \in 0..Len(t) /\ ~(n <= n - 1)
    BY <1>0, <1>3, <1>5
  <2>2. Good(n - 1)
    BY <1>2, <2>1
  <2>. DEFINE u == SubSeq(t, 1, n - 1)
              v == SubSeq(t, 1, n)
  <2>3. u \in Seq(S) /\ v \in Seq(S) /\ t[n] \in S /\ v = Append(u, t[n]) /\ t[n].dir = d
    BY <2>1, LastOf DEF AllOf
  <2>4. Only(dir, s \o u) = IF d = dir THEN Only(dir, s) \o u ELSE Only(dir, s)
    BY <2>2
  <2>5. Only(dir, s \o v) # IF d = dir THEN Only(dir, s) \o v ELSE Only(dir, s)
    BY <1>3
  <2>. HIDE DEF u, v, Good, T
  <2>6. s \o v = Append(s \o u, t[n]) /\ s \o u \in Seq(S)
    BY <2>3, JoinOne
  <2>7. Only(dir, s \o v)
          = IF d = dir THEN Append(Only(dir, s \o u), t[n]) ELSE Only(dir, s \o u)
    <3>1. Only(dir, Append(s \o u, t[n]))
            = IF t[n].dir = dir THEN Append(Only(dir, s \o u), t[n]) ELSE Only(dir, s \o u)
      <4>1. PICK w \in Seq(S), x \in S : w = s \o u /\ x = t[n]
        BY <2>3, <2>6
      <4>2. Only(dir, Append(w, x)) = IF x.dir = dir THEN Append(Only(dir, w), x) ELSE Only(dir, w)
        BY OnlyAppend
      <4>. QED  BY <4>1, <4>2
    <3>. QED  BY <2>3, <2>6, <3>1
  <2>8. Only(dir, s) \o v = Append(Only(dir, s) \o u, t[n])
    BY <2>3, JoinOne
  <2>. QED  BY <2>4, <2>5, <2>7, <2>8
<1>. QED  BY <1>4, <1>5

LEMMA OnlyTyped ==
  ASSUME NEW dir, NEW S, NEW s \in Seq(S)
  PROVE  Only(dir, s) \in Seq(S)
<1>. DEFINE T == {n \in 0..Len(s) : Only(dir, SubSeq(s, 1, n)) \notin Seq(S)}
<1>0. Len(s) \in Nat /\ SubSeq(s, 1, Len(s)) = s /\ SubSeq(s, 1, 0) = << >>
  OBVIOUS
<1>1. SUFFICES ASSUME T # {} PROVE FALSE
  <2>1. Only(dir, SubSeq(s, 1, Len(s))) \in Seq(S)
    <3>1. Len(s) \in 0..Len(s) /\ Len(s) \notin T
      BY <1>0, <1>1
    <3>. QED  BY <3>1
  <2>. QED  BY <1>0, <2>1
<1>2. PICK n \in T : \A m \in T : n <= m
  <2>1. T \in SUBSET Nat
    BY <1>0
  <2>. HIDE DEF T
  <2>. QED  BY <1>1, <2>1, SmallestOf
<1>3. n \in 0..Len(s) /\ Only(dir, SubSeq(s, 1, n)) \notin Seq(S)
  OBVIOUS
<1>4. CASE n = 0
  <2>1. Only(dir, << >>) \notin Seq(S)
    BY <1>0, <1>3, <1>4
  <2>2. << >> \in Seq(S)
    OBVIOUS
  <2>. QED  BY <2>1, <2>2, OnlyNone
<1>5. CASE n # 0
  <2>1. n \in 1..Len(s) /\ n - 1 \in 0..Len(s) /\ ~(n <= n - 1)
    BY <1>0, <1>3, <1>5
  <2>. DEFINE u == SubSeq(s, 1, n - 1)
              v == SubSeq(s, 1, n)
  <2>2. Only(dir, u) \in Seq(S)
    BY <1>2, <2>1
  <2>3. Only(dir, v) \notin Seq(S)
    BY <1>3
  <2>4. u \in Seq(S) /\ s[n] \in S /\ v = Append(u, s[n])
    BY <2>1, LastOf
  <2>. HIDE DEF u, v
  <2>5. Only(dir, v) = IF s[n].dir = dir THEN Append(Only(dir, u), s[n]) ELSE Only(dir, u)
    BY <2>4, OnlyAppend
  <2>. QED  BY <2>2, <2>3, <2>4, <2>5, AppendFacts
<1>. QED  BY <1>4, <1>5

\* f counts what has been found of part among the first of whole, up to n of them.
IsFound(f, part, whole, n) ==
  f = [i \in 0..n |-> IF i = 0 THEN 0
                      ELSE IF f[i - 1] < Len(part) /\ part[f[i - 1] + 1] = whole[i]
                           THEN f[i - 1] + 1 ELSE f[i - 1]]

LEMMA FoundExists ==
  ASSUME NEW part, NEW whole, NEW len \in Nat
  PROVE  \E f : IsFound(f, part, whole, len)
<1>. DEFINE T == {n \in Nat : ~ \E f : IsFound(f, part, whole, n)}
<1>1. SUFFICES ASSUME T # {} PROVE FALSE
  OBVIOUS
<1>2. PICK n \in T : \A m \in T : n <= m
  BY <1>1, SmallestOf
<1>3. CASE n = 0
  <2>1. IsFound([i \in 0..0 |-> 0], part, whole, 0)
    BY DEF IsFound
  <2>. QED  BY <1>3, <2>1
<1>4. CASE n > 0
  <2>1. n - 1 \in Nat /\ ~(n <= n - 1)
    BY <1>4
  <2>2. PICK f : IsFound(f, part, whole, n - 1)
    BY <1>2, <2>1
  <2>. DEFINE g == [i \in 0..n |-> IF i = n
                       THEN IF f[n - 1] < Len(part) /\ part[f[n - 1] + 1] = whole[n]
                            THEN f[n - 1] + 1 ELSE f[n - 1]
                       ELSE f[i]]
  <2>3. ASSUME NEW i \in 0..n
        PROVE  g[i] = IF i = 0 THEN 0
                      ELSE IF g[i - 1] < Len(part) /\ part[g[i - 1] + 1] = whole[i]
                           THEN g[i - 1] + 1 ELSE g[i - 1]
    <3>1. CASE i = n
      <4>1. g[i - 1] = f[n - 1]
        BY <1>4, <3>1
      <4>. QED  BY <1>4, <3>1, <4>1
    <3>2. CASE i # n
      <4>1. i \in 0..(n - 1) /\ (i # 0 => i - 1 \in 0..n /\ i - 1 # n)
        BY <1>4, <3>2
      <4>2. f[i] = IF i = 0 THEN 0
                   ELSE IF f[i - 1] < Len(part) /\ part[f[i - 1] + 1] = whole[i]
                        THEN f[i - 1] + 1 ELSE f[i - 1]
        BY <2>2, <4>1 DEF IsFound
      <4>3. g[i] = f[i] /\ (i # 0 => g[i - 1] = f[i - 1])
        BY <3>2, <4>1
      <4>. QED  BY <4>2, <4>3
    <3>. QED  BY <3>1, <3>2
  <2>4. g = [i \in 0..n |-> g[i]]
    OBVIOUS
  <2>. HIDE DEF g
  <2>5. IsFound(g, part, whole, n)
    BY <2>3, <2>4 DEF IsFound
  <2>. QED  BY <2>5
<1>. QED  BY <1>3, <1>4

LEMMA WithinIs ==
  ASSUME NEW part, NEW S, NEW whole \in Seq(S)
  PROVE  \E f : IsFound(f, part, whole, Len(whole))
                /\ (Within(part, whole) <=> f[Len(whole)] = Len(part))
<1>0. Len(whole) \in Nat
  OBVIOUS
<1>1. PICK g : IsFound(g, part, whole, Len(whole))
  BY <1>0, FoundExists
<1>. QED  BY <1>1 DEF Within, IsFound

\* What is left of a sequence is found in it: no element is found later than it stands.
LEMMA ThinIsWithin ==
  ASSUME NEW S, NEW t \in Seq(S), NEW s \in Seq(S), Thins(t, s)
  PROVE  Within(t, s)
<1>1. PICK m, n \in Nat : m = Len(t) /\ n = Len(s)
  BY LenIs
<1>2. PICK pos \in [1..m -> 1..n] :
        /\ \A i, j \in 1..m : i < j => pos[i] < pos[j]
        /\ \A i \in 1..m : t[i] = s[pos[i]]
  BY <1>1 DEF Thins
<1>3. PICK f : IsFound(f, t, s, n) /\ (Within(t, s) <=> f[n] = m)
  BY <1>1, WithinIs
<1>. DEFINE Good(i) == f[i] \in 0..m /\ \A k \in 1..m : pos[k] <= i => k <= f[i]
            T == {i \in 0..n : ~Good(i)}
<1>4. T = {}
  <2>1. SUFFICES ASSUME T # {} PROVE FALSE
    OBVIOUS
  <2>2. PICK i \in T : \A j \in T : i <= j
    <3>1. T \in SUBSET Nat
      OBVIOUS
    <3>. HIDE DEF T
    <3>. QED  BY <2>1, <3>1, SmallestOf
  <2>3. i \in 0..n /\ ~Good(i)
    OBVIOUS
  <2>4. f[i] = IF i = 0 THEN 0
               ELSE IF f[i - 1] < m /\ t[f[i - 1] + 1] = s[i] THEN f[i - 1] + 1 ELSE f[i - 1]
    BY <1>1, <1>3, <2>3 DEF IsFound
  <2>5. CASE i = 0
    <3>1. \A k \in 1..m : ~(pos[k] <= 0)
      BY <1>2
    <3>2. f[i] = 0 /\ 0 \in 0..m
      BY <1>1, <2>4, <2>5
    <3>3. \A k \in 1..m : ~(pos[k] <= i)
      BY <2>5, <3>1, Zenon
    <3>. QED  BY <2>3, <3>2, <3>3, Zenon
  <2>6. CASE i # 0
    <3>1. i - 1 \in 0..n /\ ~(i <= i - 1) /\ i \in Nat
      BY <1>1, <2>3, <2>6
    <3>2. Good(i - 1)
      BY <2>2, <3>1
    <3>3. PICK e : e = f[i - 1]
      OBVIOUS
    <3>4. /\ e \in 0..m /\ \A k \in 1..m : pos[k] <= i - 1 => k <= e
          /\ f[i] = IF e < m /\ t[e + 1] = s[i] THEN e + 1 ELSE e
      BY <2>4, <2>6, <3>2, <3>3
    <3>5. f[i] \in 0..m /\ e <= f[i]
      BY <1>1, <3>4
    <3>6. ASSUME NEW k \in 1..m, pos[k] <= i PROVE k <= f[i]
      <4>0. pos[k] \in 1..n /\ k \in Nat /\ e \in Nat /\ f[i] \in Nat
        <5>1. pos[k] \in 1..n
          BY <1>2
        <5>2. e \in Nat /\ f[i] \in Nat /\ k \in Nat
          BY <1>1, <3>4, <3>5
        <5>. QED  BY <5>1, <5>2
      <4>1. CASE pos[k] <= i - 1
        BY <3>4, <3>5, <4>0, <4>1
      <4>2. CASE pos[k] = i
        <5>1. k - 1 <= e
          <6>1. CASE k = 1
            BY <4>0, <6>1
          <6>2. CASE k # 1
            <7>1. k - 1 \in 1..m /\ k - 1 < k
              BY <6>2
            <7>2. pos[k - 1] < pos[k] /\ pos[k - 1] \in 1..n
              BY <1>2, <7>1
            <7>3. pos[k - 1] <= i - 1
              BY <3>1, <4>2, <7>2
            <7>. QED  BY <3>4, <7>1, <7>3
          <6>. QED  BY <6>1, <6>2
        <5>2. CASE k <= e
          BY <3>5, <4>0, <5>2
        <5>3. CASE ~(k <= e)
          <6>1. e = k - 1 /\ e < m /\ e + 1 = k
            BY <1>1, <4>0, <5>1, <5>3
          <6>2. t[k] = s[i]
            BY <1>2, <4>2
          <6>. QED  BY <3>4, <4>0, <6>1, <6>2
        <5>. QED  BY <5>2, <5>3
      <4>. QED  BY <3>1, <3>6, <4>0, <4>1, <4>2
    <3>. QED  BY <2>3, <3>5, <3>6
  <2>. QED  BY <2>5, <2>6
<1>5. Good(n)
  <2>1. n \in 0..n /\ n \notin T
    BY <1>1, <1>4
  <2>. QED  BY <2>1
<1>6. f[n] = m
  <2>1. CASE m = 0
    BY <1>5, <2>1
  <2>2. CASE m # 0
    <3>1. m \in 1..m /\ pos[m] \in 1..n
      BY <1>1, <1>2, <2>2
    <3>2. m <= f[n]
      BY <1>1, <1>5, <3>1
    <3>. QED  BY <1>1, <1>5, <3>2
  <2>. QED  BY <2>1, <2>2
<1>. QED  BY <1>3, <1>6

LEMMA TracedTyped ==
  ASSUME NEW dir \in Directions, NEW s \in Seq(Ecu!SessionFrame)
  PROVE  /\ Traced(dir, s) \in Seq(Entry) /\ Len(Traced(dir, s)) = Len(s)
         /\ \A i \in 1..Len(s) : Traced(dir, s)[i] = [dir |-> dir, frame |-> s[i]]
<1>1. Len(s) \in Nat /\ \A i \in 1..Len(s) : s[i] \in Ecu!SessionFrame
  BY LenIs
<1>. PICK S : S = Ecu!SessionFrame
  OBVIOUS
<1>2. \A i \in 1..Len(s) : [dir |-> dir, frame |-> s[i]] \in [dir: Directions, frame: S]
  BY <1>1
<1>. QED  BY <1>1, <1>2 DEF Traced, Entry

\* The trace of frames joined is joined, and of frames left is left.
LEMMA TracedThins ==
  ASSUME NEW dir \in Directions, NEW a \in Seq(Ecu!SessionFrame), NEW b \in Seq(Ecu!SessionFrame),
         Thins(a, b)
  PROVE  Thins(Traced(dir, a), Traced(dir, b))
<1>1. PICK pos \in [1..Len(a) -> 1..Len(b)] :
        /\ \A i, j \in 1..Len(a) : i < j => pos[i] < pos[j]
        /\ \A i \in 1..Len(a) : a[i] = b[pos[i]]
  BY DEF Thins
<1>2. PICK c, d : c = Traced(dir, a) /\ d = Traced(dir, b)
  OBVIOUS
<1>3. /\ Len(c) = Len(a) /\ \A i \in 1..Len(a) : c[i] = [dir |-> dir, frame |-> a[i]]
      /\ Len(d) = Len(b) /\ \A i \in 1..Len(b) : d[i] = [dir |-> dir, frame |-> b[i]]
  <2>1. /\ Len(c) = Len(a) /\ \A i \in 1..Len(a) : c[i] = [dir |-> dir, frame |-> a[i]]
    BY <1>2, TracedTyped
  <2>2. /\ Len(d) = Len(b) /\ \A i \in 1..Len(b) : d[i] = [dir |-> dir, frame |-> b[i]]
    BY <1>2, TracedTyped
  <2>. QED  BY <2>1, <2>2
<1>4. ASSUME NEW i \in 1..Len(c) PROVE c[i] = d[pos[i]]
  <2>1. i \in 1..Len(a) /\ pos[i] \in 1..Len(b) /\ a[i] = b[pos[i]]
    BY <1>1, <1>3
  <2>2. c[i] = [dir |-> dir, frame |-> a[i]] /\ d[pos[i]] = [dir |-> dir, frame |-> b[pos[i]]]
    BY <1>3, <2>1
  <2>. QED  BY <2>1, <2>2
<1>5. Thins(c, d)
  BY <1>1, <1>3, <1>4 DEF Thins
<1>. QED  BY <1>2, <1>5

LEMMA TracedJoined ==
  ASSUME NEW dir \in Directions, NEW a \in Seq(Ecu!SessionFrame), NEW b \in Seq(Ecu!SessionFrame)
  PROVE  Traced(dir, a \o b) = Traced(dir, a) \o Traced(dir, b)
<1>1. PICK m, n \in Nat, ab \in Seq(Ecu!SessionFrame) :
        m = Len(a) /\ n = Len(b) /\ ab = a \o b /\ Joins(ab, a, b)
  BY LenIs, JoinIs
<1>2. Len(ab) = m + n /\ (\A i \in 1..m : ab[i] = a[i]) /\ \A i \in 1..n : ab[m + i] = b[i]
  BY <1>1 DEF Joins
<1>3. PICK x, y, z \in Seq(Entry) :
        x = Traced(dir, a) /\ y = Traced(dir, b) /\ z = Traced(dir, ab)
  BY TracedTyped
<1>4. /\ Len(x) = m /\ \A i \in 1..m : x[i] = [dir |-> dir, frame |-> a[i]]
      /\ Len(y) = n /\ \A i \in 1..n : y[i] = [dir |-> dir, frame |-> b[i]]
      /\ Len(z) = m + n /\ \A i \in 1..(m + n) : z[i] = [dir |-> dir, frame |-> ab[i]]
  <2>1. Len(x) = m /\ \A i \in 1..m : x[i] = [dir |-> dir, frame |-> a[i]]
    BY <1>1, <1>3, TracedTyped
  <2>2. Len(y) = n /\ \A i \in 1..n : y[i] = [dir |-> dir, frame |-> b[i]]
    BY <1>1, <1>3, TracedTyped
  <2>3. Len(z) = m + n /\ \A i \in 1..(m + n) : z[i] = [dir |-> dir, frame |-> ab[i]]
    <3>1. Len(z) = Len(ab) /\ \A i \in 1..Len(ab) : z[i] = [dir |-> dir, frame |-> ab[i]]
      BY <1>3, TracedTyped
    <3>. QED  BY <1>2, <3>1
  <2>. QED  BY <2>1, <2>2, <2>3
<1>5. PICK xy \in Seq(Entry) : xy = x \o y /\ Joins(xy, x, y)
  BY JoinIs
<1>6. /\ Len(xy) = m + n /\ (\A i \in 1..m : xy[i] = x[i])
      /\ \A i \in 1..n : xy[m + i] = y[i]
  BY <1>1, <1>4, <1>5 DEF Joins
<1>7. ASSUME NEW i \in 1..(m + n) PROVE z[i] = xy[i]
  <2>1. CASE i \in 1..m
    <3>1. xy[i] = x[i] /\ x[i] = [dir |-> dir, frame |-> a[i]] /\ ab[i] = a[i]
      BY <1>2, <1>4, <1>6, <2>1
    <3>2. z[i] = [dir |-> dir, frame |-> ab[i]]
      BY <1>4
    <3>. QED  BY <3>1, <3>2
  <2>2. ASSUME NEW k \in 1..n, i = m + k PROVE z[i] = xy[i]
    <3>1. /\ xy[m + k] = y[k] /\ y[k] = [dir |-> dir, frame |-> b[k]]
          /\ ab[m + k] = b[k]
      BY <1>2, <1>4, <1>6
    <3>2. z[i] = [dir |-> dir, frame |-> ab[i]]
      BY <1>4
    <3>. QED  BY <2>2, <3>1, <3>2
  <2>. QED  BY <2>1, <2>2, TwoParts
<1>8. z = xy
  <2>1. Len(z) = Len(xy) /\ \A i \in 1..Len(z) : z[i] = xy[i]
    BY <1>4, <1>6, <1>7
  <2>. QED  BY <2>1, SeqEqual
<1>. QED  BY <1>1, <1>3, <1>5, <1>8

LEMMA TracedNone == Traced("TX", << >>) = << >> /\ Traced("RX", << >>) = << >>
<1>1. Len(<< >>) = 0
  OBVIOUS
<1>. QED  BY <1>1 DEF Traced

\* The entries of one direction, when frames of one direction are written.
LEMMA OnlyTraced ==
  ASSUME NEW dir, NEW d \in Directions, NEW s \in Seq(Entry), NEW a \in Seq(Ecu!SessionFrame)
  PROVE  OnlyGrows(dir, d, s, Traced(d, a))
<1>1. Only(dir, s) \in Seq(Entry)
  BY OnlyTyped
<1>2. PICK t \in Seq(Entry) : t = Traced(d, a)
  BY TracedTyped
<1>3. ASSUME NEW i \in 1..Len(t) PROVE t[i].dir = d
  <2>1. Len(t) = Len(a) /\ \A k \in 1..Len(a) : t[k] = [dir |-> d, frame |-> a[k]]
    BY <1>2, TracedTyped
  <2>2. t[i] = [dir |-> d, frame |-> a[i]]
    BY <2>1
  <2>. QED  BY <2>2
<1>4. AllOf(d, t)
  BY <1>3 DEF AllOf
<1>5. OnlyGrows(dir, d, s, t)
  BY <1>1, <1>4, OnlyJoined
<1>. QED  BY <1>2, <1>5

-----------------------------------------------------------------------------
(* Payloads among requests.                                                 *)

IsPayload(x) == x.step.cmd = "payload"
PayloadsOf(s) == {i \in 1..Len(s) : IsPayload(s[i])}
Count(s) == Cardinality(PayloadsOf(s))

LEMMA CountTyped ==
  ASSUME NEW S, NEW s \in Seq(S)
  PROVE  IsFiniteSet(PayloadsOf(s)) /\ Count(s) \in Nat
<1>1. Len(s) \in Nat /\ PayloadsOf(s) \subseteq 1..Len(s)
  BY LenIs DEF PayloadsOf
<1>2. IsFiniteSet(1..Len(s))
  BY <1>1, FS_Interval
<1>3. IsFiniteSet(PayloadsOf(s))
  BY <1>1, <1>2, FS_Subset
<1>. QED  BY <1>3, FS_CardinalityType DEF Count

LEMMA CountNone == Count(<< >>) = 0
<1>1. PayloadsOf(<< >>) = {}
  BY DEF PayloadsOf
<1>. QED  BY <1>1, FS_EmptySet DEF Count

LEMMA CountAppend ==
  ASSUME NEW S, NEW s \in Seq(S), NEW x \in S
  PROVE  Count(Append(s, x)) = Count(s) + (IF IsPayload(x) THEN 1 ELSE 0)
<1>1. PICK t : t = Append(s, x)
  OBVIOUS
<1>2. PICK n \in Nat : n = Len(s)
  BY LenIs
<1>3. Len(t) = n + 1 /\ t[n + 1] = x /\ \A i \in 1..n : t[i] = s[i]
  BY <1>1, <1>2, AppendFacts
<1>4. PICK p, q : p = PayloadsOf(s) /\ q = PayloadsOf(t)
  OBVIOUS
<1>5. p \subseteq 1..n /\ n + 1 \notin p
  BY <1>2, <1>4 DEF PayloadsOf
<1>6. CASE IsPayload(x)
  <2>1. q = p \cup {n + 1}
    BY <1>2, <1>3, <1>4, <1>6 DEF PayloadsOf
  <2>2. Cardinality(q) = Cardinality(p) + 1
    BY <1>4, <1>5, <2>1, CountTyped, FS_AddElement
  <2>. QED  BY <1>1, <1>4, <1>6, <2>2 DEF Count
<1>7. CASE ~IsPayload(x)
  <2>1. q = p
    BY <1>2, <1>3, <1>4, <1>7 DEF PayloadsOf
  <2>. QED  BY <1>1, <1>4, <1>7, <2>1, CountTyped DEF Count
<1>. QED  BY <1>6, <1>7

LEMMA CountTail ==
  ASSUME NEW S, NEW s \in Seq(S), s # << >>
  PROVE  Count(s) = Count(Tail(s)) + (IF IsPayload(Head(s)) THEN 1 ELSE 0)
<1>1. PICK t : t = Tail(s)
  OBVIOUS
<1>2. PICK n \in Nat : n = Len(t)
  BY <1>1, LenIs
<1>3. Len(s) = n + 1 /\ Head(s) = s[1] /\ \A i \in 1..n : t[i] = s[i + 1]
  BY <1>1, <1>2
<1>4. t \in Seq(S)
  BY <1>1
<1>5. PICK p, q : p = PayloadsOf(t) /\ q = PayloadsOf(s)
  OBVIOUS
<1>6. IsFiniteSet(p) /\ IsFiniteSet(q) /\ Cardinality(p) \in Nat
  BY <1>4, <1>5, CountTyped DEF Count
<1>7. PICK r : r = {i \in 2..(n + 1) : IsPayload(s[i])}
  OBVIOUS
<1>8. IsFiniteSet(r) /\ Cardinality(r) = Cardinality(p)
  <2>. DEFINE f == [i \in p |-> i + 1]
  <2>1. \A i \in p : i \in 1..n /\ IsPayload(s[i + 1])
    BY <1>2, <1>3, <1>5 DEF PayloadsOf
  <2>2. f \in [p -> r]
    <3>1. \A i \in p : i + 1 \in r
      BY <1>7, <2>1
    <3>. QED  BY <3>1
  <2>3. \A j \in r : \E i \in p : f[i] = j
    <3>1. ASSUME NEW j \in r PROVE j - 1 \in p /\ f[j - 1] = j
      <4>1. j \in 2..(n + 1) /\ IsPayload(s[j])
        BY <1>7
      <4>2. j - 1 \in 1..n /\ t[j - 1] = s[j] /\ (j - 1) + 1 = j
        BY <1>3, <4>1
      <4>3. j - 1 \in p
        BY <1>2, <1>5, <4>1, <4>2 DEF PayloadsOf
      <4>. QED  BY <4>2, <4>3
    <3>. QED  BY <3>1
  <2>4. \A i, j \in p : f[i] = f[j] => i = j
    BY <2>1
  <2>. HIDE DEF f
  <2>5. f \in Bijection(p, r)
    BY <2>2, <2>3, <2>4 DEF Bijection, Injection, Surjection, IsInjective
  <2>. QED  BY <1>6, <2>5, FS_Bijection DEF ExistsBijection
<1>9. 1 \notin r
  BY <1>7
<1>10. CASE IsPayload(s[1])
  <2>1. q = r \cup {1}
    BY <1>3, <1>5, <1>7, <1>10 DEF PayloadsOf
  <2>2. Cardinality(q) = Cardinality(r) + 1
    BY <1>8, <1>9, <2>1, FS_AddElement
  <2>. QED  BY <1>1, <1>3, <1>5, <1>8, <1>10, <2>2 DEF Count
<1>11. CASE ~IsPayload(s[1])
  <2>1. q = r
    BY <1>3, <1>5, <1>7, <1>11 DEF PayloadsOf
  <2>. QED  BY <1>1, <1>3, <1>5, <1>6, <1>8, <1>11, <2>1 DEF Count
<1>. QED  BY <1>10, <1>11

-----------------------------------------------------------------------------
(* The channel in the stack is an Elm327Channel.                            *)

Chan == INSTANCE Elm327ChannelProofs
  WITH Ids <- {TheId}, UserCommands <- {}, Ops <- {"open", "write", "read"},
       HeadersOn <- TRUE, AdaptiveTiming <- TRUE, AutoFormat <- FALSE

LEMMA ChannelAssumed == Chan!ElmAssumption
BY StackAssumption DEF StackAssumption, Elm!ElmAssumption, Chan!ElmAssumption,
   Elm!OpNames, Chan!OpNames, Elm!AtCommands, Chan!AtCommands, Elm!Id, Chan!Id

LEMMA SameInit == Elm!Init <=> Chan!Init
BY DEF Elm!Init, Chan!Init, Elm!NoId, Chan!NoId

LEMMA SameVars == UNCHANGED Elm!vars <=> UNCHANGED Chan!vars
BY DEF Elm!vars, Chan!vars, Elm!caller, Chan!caller, Elm!channel, Chan!channel,
   Elm!device, Chan!device

LEMMA SameNext == Elm!Next <=> Chan!Next
BY DEF Elm!Next, Chan!Next, Elm!Caller, Chan!Caller, Elm!Device, Chan!Device,
   Elm!OpNames, Chan!OpNames, Elm!AtCommands, Chan!AtCommands, Elm!Id, Chan!Id,
   Elm!NoId, Chan!NoId, Elm!caller, Chan!caller, Elm!channel, Chan!channel, Elm!device,
   Chan!device, Elm!vars, Chan!vars, Elm!Needs, Chan!Needs, Elm!Step, Chan!Step,
   Elm!Prompt, Chan!Prompt, Elm!Line, Chan!Line, Elm!Texts, Chan!Texts, Elm!Steps,
   Chan!Steps, Elm!Tokens, Chan!Tokens, Elm!Starts, Chan!Starts, Elm!If, Chan!If,
   Elm!InitScript, Chan!InitScript, Elm!Initialise, Chan!Initialise, Elm!OpenRefused,
   Chan!OpenRefused, Elm!InitialiseRefused, Chan!InitialiseRefused, Elm!NeedsHeader,
   Chan!NeedsHeader, Elm!Write, Chan!Write, Elm!WriteEmpty, Chan!WriteEmpty,
   Elm!WriteClosed, Chan!WriteClosed, Elm!AfterRead, Chan!AfterRead, Elm!ReadQueued,
   Chan!ReadQueued, Elm!ReadWaits, Chan!ReadWaits, Elm!SetFilter, Chan!SetFilter,
   Elm!Close, Chan!Close, Elm!Command, Chan!Command, Elm!CloseClosed, Chan!CloseClosed,
   Elm!SetsHeader, Chan!SetsHeader, Elm!Programmed, Chan!Programmed, Elm!StepDone,
   Chan!StepDone, Elm!StepFails, Chan!StepFails, Elm!NoAnswer, Chan!NoAnswer, Elm!Text,
   Chan!Text, Elm!SendRaw, Chan!SendRaw, Elm!Closing, Chan!Closing, Elm!Queues,
   Chan!Queues, Elm!Accumulates, Chan!Accumulates, Elm!WriteBreaks, Chan!WriteBreaks,
   Elm!SendRawFails, Chan!SendRawFails, Elm!SendRawFailsUnseen,
   Chan!SendRawFailsUnseen, Elm!PromptAt, Chan!PromptAt, Elm!NoPrompt, Chan!NoPrompt,
   Elm!Fetch, Chan!Fetch, Elm!AfterPrompt, Chan!AfterPrompt, Elm!IsFrame, Chan!IsFrame,
   Elm!FramesOf, Chan!FramesOf, Elm!HasOk, Chan!HasOk, Elm!Answered, Chan!Answered,
   Elm!GetAnswer, Chan!GetAnswer, Elm!Quiet, Chan!Quiet, Elm!GiveUp, Chan!GiveUp,
   Elm!Finished, Chan!Finished, Elm!Takes, Chan!Takes, Elm!Carries, Chan!Carries,
   Elm!AdapterAnswers, Chan!AdapterAnswers, Elm!AdapterResets, Chan!AdapterResets,
   Elm!AdapterObeys, Chan!AdapterObeys, Elm!AdapterRejects, Chan!AdapterRejects,
   Elm!Transmits, Chan!Transmits, Elm!AdapterTransmits, Chan!AdapterTransmits,
   Elm!LoseToken, Chan!LoseToken

\* The adapter keeps no more frames than it has room for.
RoomLeft == \E S : collected \in Seq(S) /\ Len(collected) <= MaxFrames

LEMMA RoomStays == RoomLeft /\ [Next]_vars => RoomLeft'
<1>. SUFFICES ASSUME RoomLeft, [Next]_vars PROVE RoomLeft'
  OBVIOUS
<1>0. MaxFrames \in Nat
  BY ChannelAssumed DEF Chan!ElmAssumption
<1>1. PICK S : collected \in Seq(S) /\ Len(collected) <= MaxFrames
  BY DEF RoomLeft
<1>2. CASE UNCHANGED collected
  BY <1>1, <1>2 DEF RoomLeft
<1>3. CASE collected' = << >>
  BY <1>0, <1>3 DEF RoomLeft
<1>4. CASE AdapterHears
  <2>1. CASE collecting /\ Len(collected) < MaxFrames
    <3>1. collected' = Append(collected, Head(canwire))
      BY <1>4, <2>1 DEF AdapterHears
    <3>2. PICK T : collected' \in Seq(T) /\ Len(collected') = Len(collected) + 1
      BY <1>1, <3>1, AppendLen
    <3>3. Len(collected') <= MaxFrames
      BY <1>0, <1>1, <2>1, <3>2
    <3>. QED  BY <3>2, <3>3 DEF RoomLeft
  <2>2. CASE ~(collecting /\ Len(collected) < MaxFrames)
    BY <1>2, <1>4, <2>2 DEF AdapterHears
  <2>. QED  BY <2>1, <2>2
<1>5. AdapterHears \/ UNCHANGED collected \/ collected' = << >>
  BY DEF Next, Tester, Adapter, Connect, Thinks, WriteFrame, ReadFrames, Talks, GivesUp,
     ReadTimesOut, AdapterAnswers, AdapterSends, AdapterReports, EcuActs, LoseToken,
     Finished, vars, listening
<1>. QED  BY <1>2, <1>3, <1>4, <1>5

\* The actions of the stack that are none of the channel's leave its variables alone.
LEMMA ChannelSame ==
  ASSUME UNCHANGED <<channel, failures>>
  PROVE  UNCHANGED Elm!vars
BY DEF channel, Elm!vars, Elm!caller, Elm!channel, Elm!device

\* Each step of the stack is a step of Elm327Channel or none.
LEMMA ChannelSteps ==
  ASSUME RoomLeft, [Next]_vars
  PROVE  [Elm!Next]_(Elm!vars)
<1>1. CASE Connect
  BY <1>1 DEF Connect, Elm!Next, Elm!Caller
<1>2. CASE Thinks
  <2>1. UNCHANGED failures
    BY <1>2 DEF Thinks, Transport!Fetch, Transport!SendFirst, Transport!SendGetsFlow,
       Transport!SendConsecutive, Transport!RecvFirst, Transport!RecvMore,
       Transport!AssemblyTimesOut, Transport!luck
  <2>. QED  BY <1>2, <2>1, ChannelSame DEF Thinks
<1>3. CASE WriteFrame
  BY <1>3 DEF WriteFrame, Elm!Next, Elm!Caller
<1>4. CASE ReadFrames
  BY <1>4 DEF ReadFrames, Elm!Next, Elm!Caller
<1>5. CASE Talks
  BY <1>5 DEF Talks, Elm!Next, Elm!Caller
<1>6. CASE GivesUp
  BY <1>6 DEF GivesUp, Elm!Next, Elm!Caller
<1>7. CASE ReadTimesOut
  BY <1>7, ChannelSame DEF ReadTimesOut, Transport!ReadTimesOut
<1>8. CASE AdapterAnswers
  BY <1>8 DEF AdapterAnswers, Elm!Next, Elm!Device
<1>9. CASE AdapterSends \/ AdapterHears
  BY <1>9, ChannelSame DEF AdapterSends, AdapterHears
<1>10. CASE AdapterReports
  <2>1. Len(collected) \in 0..MaxFrames
    BY ChannelAssumed DEF RoomLeft, Chan!ElmAssumption
  <2>2. Elm!Transmits(Len(collected))
    BY <1>10 DEF AdapterReports
  <2>. QED  BY <2>1, <2>2 DEF Elm!Next, Elm!Device, Elm!AdapterTransmits
<1>11. CASE EcuActs
  <2>1. UNCHANGED failures
    BY <1>11 DEF EcuActs, Ecu!Ecu, Ecu!EcuHearsRequest, Ecu!EcuHearsConsecutive,
       Ecu!EcuHearsFlow, Ecu!EcuResumes, Ecu!EcuAnswers, Ecu!EcuSendsConsecutive, Ecu!luck
  <2>. QED  BY <1>11, <2>1, ChannelSame DEF EcuActs
<1>12. CASE LoseToken
  BY <1>12 DEF LoseToken, Elm!Next
<1>13. CASE UNCHANGED vars
  BY <1>13, ChannelSame DEF vars
<1>. QED  BY <1>1, <1>2, <1>3, <1>4, <1>5, <1>6, <1>7, <1>8, <1>9, <1>10, <1>11, <1>12, <1>13
         DEF Next, Tester, Adapter, Finished

\* The channel and its adapter behave in the stack as Elm327Channel says, which is
\* proved about every caller and every adapter: the transport is such a caller, and an
\* adapter that listens to the bus is such an adapter (elm327_channel.cpp:431-510).
THEOREM ImplementsChannel == Spec => Elm!Spec
<1>1. Init => Elm!Init /\ RoomLeft
  BY ChannelAssumed DEF Init, RoomLeft, Chan!ElmAssumption
<1>2. RoomLeft /\ [Next]_vars => [Elm!Next]_(Elm!vars)
  BY ChannelSteps
<1>. QED  BY <1>1, <1>2, RoomStays, PTL DEF Spec, Elm!Spec

\* What is proved about the order of its frames holds in the stack.
LEMMA ChannelOrdered == Spec => []Chan!EOrder
<1>1. [Elm!Next]_(Elm!vars) => [Chan!Next]_(Chan!vars)
  BY SameNext, SameVars
<1>2. Chan!Init => Chan!EOrder
  BY Chan!InitOrder, ChannelAssumed DEF Chan!ElmAssumption
<1>3. Chan!EOrder /\ [Chan!Next]_(Chan!vars) => Chan!EOrder'
  BY Chan!StepOrder, ChannelAssumed DEF Chan!ElmAssumption
<1>. QED  BY <1>1, <1>2, <1>3, SameInit, ImplementsChannel, PTL DEF Elm!Spec

-----------------------------------------------------------------------------
(* The frames in the channel.                                               *)

\* Those that a read() may still return.
InChannel == rx_queue_ \o (Chan!FramesOf(rx_accum_) \o Chan!FramesOf(stream))

LEMMA FramesAmong ==
  ASSUME NEW s \in Seq(Chan!Known)
  PROVE  /\ Chan!FramesOf(s) \in Seq(Chan!Frames) /\ Chan!FramesOf(s) \in Seq(Chan!Known)
         /\ Chan!FramesIn(Chan!FramesOf(s)) = Chan!FramesIn(s)
         /\ Chan!InTurn(s) => Chan!InTurn(Chan!FramesOf(s))
<1>0. Chan!ElmAssumption
  BY ChannelAssumed
<1>1. PICK t : t = Chan!FramesOf(s)
  OBVIOUS
<1>2. /\ t \in Seq(Chan!Frames) /\ \E pos : Chan!Places(t, s, pos)
      /\ \A i \in 1..Len(s) : Chan!IsFrame(s[i]) => \E k \in 1..Len(t) : t[k] = s[i]
  BY <1>0, <1>1, Chan!FramesOfFacts DEF Chan!ElmAssumption
<1>3. t \in Seq(Chan!Known)
  BY <1>0, <1>2, Chan!FramesKnown, SeqMonotonic DEF Chan!ElmAssumption
<1>4. Chan!FramesIn(t) \subseteq Chan!FramesIn(s) /\ (Chan!InTurn(s) => Chan!InTurn(t))
  BY <1>0, <1>2, <1>3, Chan!PartOrdered DEF Chan!ElmAssumption
<1>5. Chan!FramesIn(s) \subseteq Chan!FramesIn(t)
  BY <1>2 DEF Chan!FramesIn
<1>. QED  BY <1>1, <1>2, <1>3, <1>4, <1>5

LEMMA FrameOrder ==
  ASSUME NEW s \in Seq(Chan!Frames)
  PROVE  /\ \A i \in 1..Len(s) : s[i] \in Chan!Frames /\ s[i].cmd \in Nat /\ s[i].k \in Nat
         /\ Chan!FramesIn(s) = {s[i] : i \in 1..Len(s)} /\ s \in Seq(Chan!Known)
         /\ Chan!InTurn(s) <=> \A i, j \in 1..Len(s) : i < j => Chan!Before(s[i], s[j])
<1>0. Chan!ElmAssumption
  BY ChannelAssumed
<1>1. \A f \in Chan!Frames : Chan!IsFrame(f) /\ f.cmd \in Nat /\ f.k \in Nat
  BY <1>0, Chan!FrameIs DEF Chan!ElmAssumption
<1>2. \A i \in 1..Len(s) : s[i] \in Chan!Frames
  BY LenIs
<1>3. s \in Seq(Chan!Known)
  BY <1>0, Chan!FramesKnown, SeqMonotonic DEF Chan!ElmAssumption
<1>. QED  BY <1>1, <1>2, <1>3 DEF Chan!FramesIn, Chan!InTurn

\* Sequences that follow the same order thin each other as sets.
LEMMA OrderedThins ==
  ASSUME NEW s \in Seq(Chan!Frames), NEW t \in Seq(Chan!Frames), Chan!InTurn(s), Chan!InTurn(t),
         Chan!FramesIn(t) \subseteq Chan!FramesIn(s)
  PROVE  Thins(t, s)
<1>. DEFINE pos == [i \in 1..Len(t) |-> CHOOSE j \in 1..Len(s) : s[j] = t[i]]
<1>1. \A i \in 1..Len(t) : \E j \in 1..Len(s) : s[j] = t[i]
  BY FrameOrder
<1>2. \A i \in 1..Len(t) : pos[i] \in 1..Len(s) /\ s[pos[i]] = t[i]
  BY <1>1
<1>. HIDE DEF pos
<1>3. ASSUME NEW i \in 1..Len(t), NEW j \in 1..Len(t), i < j PROVE pos[i] < pos[j]
  <2>1. Chan!Before(t[i], t[j])
    BY <1>3, FrameOrder
  <2>2. /\ t[i].cmd \in Nat /\ t[i].k \in Nat /\ t[j].cmd \in Nat /\ t[j].k \in Nat
    BY FrameOrder
  <2>3. t[i] # t[j] /\ ~Chan!Before(t[j], t[i])
    BY <2>1, <2>2 DEF Chan!Before
  <2>4. pos[i] # pos[j] /\ ~(pos[j] < pos[i])
    BY <1>2, <2>3, FrameOrder
  <2>5. pos[i] \in Nat /\ pos[j] \in Nat
    BY <1>2, LenIs
  <2>. QED  BY <2>4, <2>5
<1>4. pos \in [1..Len(t) -> 1..Len(s)]
  BY <1>2 DEF pos
<1>. QED  BY <1>2, <1>3, <1>4 DEF Thins

\* What holds of a concatenation in order holds of its parts.
LEMMA PartsInTurn ==
  ASSUME NEW s \in Seq(Chan!Frames), NEW t \in Seq(Chan!Frames), Chan!InTurn(s \o t)
  PROVE  Chan!InTurn(s) /\ Chan!InTurn(t)
         /\ Chan!Ahead(Chan!FramesIn(s), Chan!FramesIn(t))
         /\ Chan!FramesIn(s) \cap Chan!FramesIn(t) = {}
<1>. DEFINE u == s \o t
            m == Len(s)
            n == Len(t)
<1>1. /\ u \in Seq(Chan!Frames) /\ Len(u) = m + n /\ m \in Nat /\ n \in Nat
      /\ (\A i \in 1..m : u[i] = s[i]) /\ \A i \in 1..n : u[m + i] = t[i]
  BY ConcatFacts
<1>2. \A i, j \in 1..Len(u) : i < j => Chan!Before(u[i], u[j])
  BY <1>1, FrameOrder
<1>. HIDE DEF u, m, n
<1>3. Chan!InTurn(s)
  <2>1. \A i, j \in 1..m : i < j => Chan!Before(s[i], s[j])
    BY <1>1, <1>2
  <2>. QED  BY <2>1, FrameOrder DEF m
<1>4. Chan!InTurn(t)
  <2>1. ASSUME NEW i \in 1..n, NEW j \in 1..n, i < j PROVE Chan!Before(t[i], t[j])
    <3>1. m + i \in 1..(m + n) /\ m + j \in 1..(m + n) /\ m + i < m + j
      BY <1>1, <2>1
    <3>. QED  BY <1>1, <1>2, <3>1
  <2>. QED  BY <2>1, FrameOrder DEF n
<1>5. ASSUME NEW i \in 1..m, NEW j \in 1..n PROVE Chan!Before(s[i], t[j]) /\ s[i] # t[j]
  <2>1. i \in 1..(m + n) /\ m + j \in 1..(m + n) /\ i < m + j
    BY <1>1
  <2>2. Chan!Before(s[i], t[j])
    BY <1>1, <1>2, <2>1
  <2>3. s[i].cmd \in Nat /\ s[i].k \in Nat
    BY FrameOrder DEF m
  <2>. QED  BY <2>2, <2>3 DEF Chan!Before
<1>6. Chan!FramesIn(s) = {s[i] : i \in 1..m} /\ Chan!FramesIn(t) = {t[i] : i \in 1..n}
  BY FrameOrder DEF m, n
<1>7. Chan!Ahead(Chan!FramesIn(s), Chan!FramesIn(t))
  BY <1>5, <1>6 DEF Chan!Ahead
<1>. QED  BY <1>3, <1>4, <1>5, <1>6, <1>7

\* What is left in a queue q and among the lines a and b, when t has been taken before.
LEMMA JoinedFrames ==
  ASSUME NEW t \in Seq(Chan!Frames), NEW q \in Seq(Chan!Frames),
         NEW a \in Seq(Chan!Known), NEW b \in Seq(Chan!Known),
         Chan!InTurn(t \o q), Chan!InTurn(a), Chan!InTurn(b),
         Chan!Ahead(Chan!FramesIn(t \o q), Chan!FramesIn(a)),
         Chan!Ahead(Chan!FramesIn(t \o q), Chan!FramesIn(b)),
         Chan!Ahead(Chan!FramesIn(a), Chan!FramesIn(b))
  PROVE  LET p == q \o (Chan!FramesOf(a) \o Chan!FramesOf(b)) IN
         /\ p \in Seq(Chan!Frames) /\ Chan!InTurn(t \o p)
         /\ Chan!FramesIn(t \o p)
              = Chan!FramesIn(t \o q) \cup Chan!FramesIn(a) \cup Chan!FramesIn(b)
<1>0. Chan!ElmAssumption
  BY ChannelAssumed
<1>1. PICK f, g : f = Chan!FramesOf(a) /\ g = Chan!FramesOf(b)
  OBVIOUS
<1>2. /\ f \in Seq(Chan!Frames) /\ f \in Seq(Chan!Known) /\ Chan!InTurn(f)
      /\ g \in Seq(Chan!Frames) /\ g \in Seq(Chan!Known) /\ Chan!InTurn(g)
      /\ Chan!FramesIn(f) = Chan!FramesIn(a) /\ Chan!FramesIn(g) = Chan!FramesIn(b)
  BY <1>1, FramesAmong
<1>3. PICK c : c = f \o g
  OBVIOUS
<1>4. c \in Seq(Chan!Frames)
  BY <1>2, <1>3, ConcatFacts
<1>5. /\ c \in Seq(Chan!Known) /\ Chan!InTurn(c)
      /\ Chan!FramesIn(c) = Chan!FramesIn(a) \cup Chan!FramesIn(b)
  BY <1>0, <1>2, <1>3, Chan!JoinedOrdered DEF Chan!ElmAssumption
<1>6. PICK r : r = t \o q
  OBVIOUS
<1>7. r \in Seq(Chan!Frames)
  BY <1>6, ConcatFacts
<1>8. r \in Seq(Chan!Known)
  BY <1>7, FrameOrder
<1>9. /\ Chan!InTurn(r \o c)
      /\ Chan!FramesIn(r \o c) = Chan!FramesIn(r) \cup Chan!FramesIn(c)
  <2>1. Chan!Ahead(Chan!FramesIn(r), Chan!FramesIn(c))
    BY <1>5, <1>6 DEF Chan!Ahead
  <2>2. /\ Chan!InTurn(r) /\ Chan!InTurn(c) /\ Chan!Ahead(Chan!FramesIn(r), Chan!FramesIn(c))
             => Chan!InTurn(r \o c)
        /\ Chan!FramesIn(r \o c) = Chan!FramesIn(r) \cup Chan!FramesIn(c)
    BY <1>0, <1>5, <1>8, Chan!JoinedOrdered DEF Chan!ElmAssumption
  <2>. QED  BY <1>5, <1>6, <2>1, <2>2, Zenon
<1>10. q \o c \in Seq(Chan!Frames) /\ t \o (q \o c) = r \o c
  <2>1. q \o c \in Seq(Chan!Frames)
    BY <1>4, ConcatFacts
  <2>2. (t \o q) \o c = t \o (q \o c)
    <3>1. Regroups(t, q, c)
      BY <1>4, Regroup
    <3>. QED  BY <3>1 DEF Regroups
  <2>. QED  BY <1>6, <2>1, <2>2, Zenon
<1>. QED  BY <1>1, <1>3, <1>5, <1>6, <1>9, <1>10

ChannelKnown ==
  /\ InChannel \in Seq(Chan!Frames) /\ taken \in Seq(Chan!Frames)
  /\ Chan!InTurn(taken \o InChannel)
  /\ Chan!FramesIn(taken \o InChannel) = Chan!FramesLeft
  /\ Chan!FramesLeft \subseteq Chan!FramesIn(emitted)
  /\ emitted \in Seq(Chan!Frames) /\ Chan!InTurn(emitted)

LEMMA ChannelIsKnown == Chan!EOrder => ChannelKnown
<1>. SUFFICES ASSUME Chan!EOrder PROVE ChannelKnown
  OBVIOUS
<1>1. /\ rx_queue_ \in Seq(Chan!Frames) /\ taken \in Seq(Chan!Frames)
      /\ emitted \in Seq(Chan!Frames)
      /\ rx_accum_ \in Seq(Chan!Known) /\ stream \in Seq(Chan!Known)
  BY DEF Chan!EOrder, Chan!EType, Chan!ChannelType, Chan!DeviceType
<1>2. PICK t \in Seq(Chan!Frames), q \in Seq(Chan!Frames), a \in Seq(Chan!Known),
           b \in Seq(Chan!Known) : t = taken /\ q = rx_queue_ /\ a = rx_accum_ /\ b = stream
  BY <1>1
<1>3. PICK p : p = InChannel
  OBVIOUS
<1>4. p = q \o (Chan!FramesOf(a) \o Chan!FramesOf(b))
  BY <1>2, <1>3 DEF InChannel
<1>5. /\ Chan!InTurn(t \o q) /\ Chan!InTurn(a) /\ Chan!InTurn(b)
      /\ Chan!Ahead(Chan!FramesIn(t \o q), Chan!FramesIn(a))
      /\ Chan!Ahead(Chan!FramesIn(t \o q), Chan!FramesIn(b))
      /\ Chan!Ahead(Chan!FramesIn(a), Chan!FramesIn(b))
      /\ Chan!FramesLeft = Chan!FramesIn(t \o q) \cup Chan!FramesIn(a) \cup Chan!FramesIn(b)
      /\ Chan!InTurn(emitted) /\ Chan!FramesLeft \subseteq Chan!FramesIn(emitted)
  BY <1>2 DEF Chan!EOrder, Chan!FramesOrdered, Chan!FramesLeft, Chan!Received
<1>6. /\ p \in Seq(Chan!Frames) /\ Chan!InTurn(t \o p)
      /\ Chan!FramesIn(t \o p)
           = Chan!FramesIn(t \o q) \cup Chan!FramesIn(a) \cup Chan!FramesIn(b)
  BY <1>4, <1>5, JoinedFrames
<1>. QED  BY <1>1, <1>2, <1>3, <1>5, <1>6 DEF ChannelKnown

LEMMA ChannelKnownThen == Chan!EOrder' => ChannelKnown'
BY ChannelIsKnown, PTL

\* A step that lets frames leave, or lose, but adds none.
LEMMA ChannelThins ==
  ASSUME Chan!EOrder, Chan!EOrder', Chan!FramesLeft' \subseteq Chan!FramesLeft,
         NEW r \in Seq(Chan!Frames), taken' = taken \o r
  PROVE  Thins(r \o InChannel', InChannel)
<1>1. PICK p, q, t : p = InChannel /\ q = InChannel' /\ t = taken
  OBVIOUS
<1>2. /\ p \in Seq(Chan!Frames) /\ t \in Seq(Chan!Frames) /\ Chan!InTurn(t \o p)
      /\ Chan!FramesIn(t \o p) = Chan!FramesLeft
  BY <1>1, ChannelIsKnown DEF ChannelKnown
<1>3. /\ q \in Seq(Chan!Frames) /\ Chan!InTurn(taken' \o q)
      /\ Chan!FramesIn(taken' \o q) = Chan!FramesLeft'
  BY <1>1, ChannelKnownThen DEF ChannelKnown
<1>4. PICK w : w = r \o q
  OBVIOUS
<1>5. w \in Seq(Chan!Frames) /\ taken' \o q = t \o w
  <2>1. (t \o r) \o q = t \o (r \o q)
    <3>1. Regroups(t, r, q)
      BY <1>2, <1>3, Regroup
    <3>. QED  BY <3>1 DEF Regroups
  <2>2. r \o q \in Seq(Chan!Frames)
    BY <1>3, ConcatFacts
  <2>. QED  BY <1>1, <1>4, <2>1, <2>2, Zenon
<1>6. Chan!InTurn(w) /\ Chan!FramesIn(t) \cap Chan!FramesIn(w) = {}
  BY <1>2, <1>3, <1>5, PartsInTurn
<1>7. Chan!InTurn(p)
  BY <1>2, PartsInTurn
<1>8. /\ Chan!FramesIn(t \o w) = Chan!FramesIn(t) \cup Chan!FramesIn(w)
      /\ Chan!FramesIn(t \o p) = Chan!FramesIn(t) \cup Chan!FramesIn(p)
  <2>1. t \in Seq(Chan!Known) /\ w \in Seq(Chan!Known) /\ p \in Seq(Chan!Known)
    BY <1>2, <1>5, FrameOrder
  <2>. QED  BY <2>1, ChannelAssumed, Chan!JoinedOrdered DEF Chan!ElmAssumption
<1>9. Chan!FramesIn(w) \subseteq Chan!FramesIn(p)
  BY <1>2, <1>3, <1>5, <1>6, <1>8
<1>10. Thins(w, p)
  BY <1>2, <1>5, <1>6, <1>7, <1>9, OrderedThins
<1>. QED  BY <1>1, <1>4, <1>10

-----------------------------------------------------------------------------
(* What the frames in the channel stand for.                                *)

\* The frame that a token stands for, when the tokens in e stand for the frames in r.
From(e, r, token) == r[CHOOSE i \in 1..Len(e) : e[i] = token]
Carried(e, r, s) == [i \in 1..Len(s) |-> From(e, r, s[i])]

\* The tokens of s are among those of e.
Among(s, e) == Chan!FramesIn(s) \subseteq Chan!FramesIn(e)
Brought(s) == Carried(emitted, reported, s)

LEMMA FromIs ==
  ASSUME NEW e \in Seq(Chan!Frames), Chan!InTurn(e), NEW r, NEW i \in 1..Len(e)
  PROVE  From(e, r, e[i]) = r[i]
<1>1. ASSUME NEW j \in 1..Len(e), e[j] = e[i] PROVE j = i
  <2>1. Len(e) \in Nat /\ i \in Nat /\ j \in Nat
    BY LenIs
  <2>2. ~Chan!Before(e[i], e[i])
    BY FrameOrder DEF Chan!Before
  <2>3. ~(i < j) /\ ~(j < i)
    BY <1>1, <2>2, FrameOrder
  <2>. QED  BY <2>1, <2>3
<1>. DEFINE c == CHOOSE j \in 1..Len(e) : e[j] = e[i]
<1>2. c \in 1..Len(e) /\ e[c] = e[i]
  OBVIOUS
<1>. HIDE DEF c
<1>3. c = i
  BY <1>1, <1>2
<1>. QED  BY <1>3 DEF From, c

LEMMA CarriedFacts ==
  ASSUME NEW S, NEW e \in Seq(Chan!Frames), Chan!InTurn(e), NEW r \in Seq(S), Len(r) = Len(e),
         NEW s \in Seq(Chan!Frames), Among(s, e)
  PROVE  /\ Carried(e, r, s) \in Seq(S) /\ Len(Carried(e, r, s)) = Len(s)
         /\ \A i \in 1..Len(s) : Carried(e, r, s)[i] = From(e, r, s[i])
         /\ \A i \in 1..Len(s) : From(e, r, s[i]) \in S
<1>1. Len(s) \in Nat /\ \A i \in 1..Len(r) : r[i] \in S
  BY LenIs
<1>2. ASSUME NEW i \in 1..Len(s) PROVE From(e, r, s[i]) \in S
  <2>1. PICK j \in 1..Len(e) : s[i] = e[j]
    BY FrameOrder DEF Among
  <2>2. From(e, r, s[i]) = r[j]
    BY <2>1, FromIs
  <2>. QED  BY <1>1, <2>2
<1>. DEFINE c == [i \in 1..Len(s) |-> From(e, r, s[i])]
<1>3. c \in Seq(S) /\ Len(c) = Len(s) /\ \A i \in 1..Len(s) : c[i] = From(e, r, s[i])
  <2>1. c \in [1..Len(s) -> S]
    BY <1>2
  <2>2. DOMAIN c = 1..Len(s)
    OBVIOUS
  <2>3. \A i \in 1..Len(s) : c[i] = From(e, r, s[i])
    OBVIOUS
  <2>. HIDE DEF c
  <2>4. c \in Seq(S)
    BY <1>1, <2>1
  <2>5. Len(c) = Len(s)
    BY <1>1, <2>2, <2>4
  <2>. QED  BY <2>3, <2>4, <2>5
<1>. QED  BY <1>2, <1>3 DEF Carried

LEMMA CarriedThins ==
  ASSUME NEW S, NEW e \in Seq(Chan!Frames), Chan!InTurn(e), NEW r \in Seq(S), Len(r) = Len(e),
         NEW s \in Seq(Chan!Frames), Among(s, e),
         NEW t \in Seq(Chan!Frames), Thins(t, s)
  PROVE  /\ Chan!FramesIn(t) \subseteq Chan!FramesIn(s) /\ Among(t, e)
         /\ Thins(Carried(e, r, t), Carried(e, r, s))
<1>1. PICK pos \in [1..Len(t) -> 1..Len(s)] :
        /\ \A i, j \in 1..Len(t) : i < j => pos[i] < pos[j]
        /\ \A i \in 1..Len(t) : t[i] = s[pos[i]]
  BY DEF Thins
<1>2. Chan!FramesIn(t) \subseteq Chan!FramesIn(s)
  <2>1. {t[i] : i \in 1..Len(t)} \subseteq {s[i] : i \in 1..Len(s)}
    BY <1>1
  <2>. QED  BY <2>1, FrameOrder
<1>3. PICK a, b : a = Carried(e, r, t) /\ b = Carried(e, r, s)
  OBVIOUS
<1>4. /\ Len(a) = Len(t) /\ \A i \in 1..Len(t) : a[i] = From(e, r, t[i])
      /\ Len(b) = Len(s) /\ \A i \in 1..Len(s) : b[i] = From(e, r, s[i])
  <2>1. Among(t, e)
    BY <1>2 DEF Among
  <2>2. Len(a) = Len(t) /\ \A i \in 1..Len(t) : a[i] = From(e, r, t[i])
    BY <1>3, <2>1, CarriedFacts
  <2>3. Len(b) = Len(s) /\ \A i \in 1..Len(s) : b[i] = From(e, r, s[i])
    BY <1>3, CarriedFacts
  <2>. QED  BY <2>2, <2>3
<1>5. \A i \in 1..Len(a) : a[i] = b[pos[i]]
  BY <1>1, <1>4
<1>6. Thins(a, b)
  BY <1>1, <1>4, <1>5 DEF Thins
<1>. QED  BY <1>2, <1>3, <1>6 DEF Among

LEMMA CarriedJoined ==
  ASSUME NEW S, NEW e \in Seq(Chan!Frames), Chan!InTurn(e), NEW r \in Seq(S), Len(r) = Len(e),
         NEW s \in Seq(Chan!Frames), Among(s, e),
         NEW t \in Seq(Chan!Frames), Among(t, e)
  PROVE  /\ s \o t \in Seq(Chan!Frames)
         /\ Chan!FramesIn(s \o t) = Chan!FramesIn(s) \cup Chan!FramesIn(t) /\ Among(s \o t, e)
         /\ Carried(e, r, s \o t) = Carried(e, r, s) \o Carried(e, r, t)
<1>1. PICK u : u = s \o t
  OBVIOUS
<1>2. /\ u \in Seq(Chan!Frames) /\ Len(u) = Len(s) + Len(t)
      /\ Len(s) \in Nat /\ Len(t) \in Nat
      /\ (\A i \in 1..Len(s) : u[i] = s[i]) /\ \A i \in 1..Len(t) : u[Len(s) + i] = t[i]
  BY <1>1, ConcatFacts
<1>3. Chan!FramesIn(u) = Chan!FramesIn(s) \cup Chan!FramesIn(t)
  <2>1. s \in Seq(Chan!Known) /\ t \in Seq(Chan!Known)
    BY FrameOrder
  <2>. QED  BY <1>1, <2>1, ChannelAssumed, Chan!JoinedOrdered DEF Chan!ElmAssumption
<1>4. PICK a, b, c : a = Carried(e, r, s) /\ b = Carried(e, r, t) /\ c = Carried(e, r, u)
  OBVIOUS
<1>5. a \in Seq(S) /\ Len(a) = Len(s) /\ \A i \in 1..Len(s) : a[i] = From(e, r, s[i])
  BY <1>4, CarriedFacts
<1>6. b \in Seq(S) /\ Len(b) = Len(t) /\ \A i \in 1..Len(t) : b[i] = From(e, r, t[i])
  BY <1>4, CarriedFacts
<1>7. c \in Seq(S) /\ Len(c) = Len(u) /\ \A i \in 1..Len(u) : c[i] = From(e, r, u[i])
  <2>1. u \in Seq(Chan!Frames) /\ Among(u, e)
    BY <1>2, <1>3 DEF Among
  <2>2. Carried(e, r, u) \in Seq(S) /\ Len(Carried(e, r, u)) = Len(u)
        /\ \A i \in 1..Len(u) : Carried(e, r, u)[i] = From(e, r, u[i])
    BY <2>1, CarriedFacts
  <2>. QED  BY <1>4, <2>2
<1>8. PICK d : d = a \o b
  OBVIOUS
<1>9. /\ d \in Seq(S) /\ Len(d) = Len(s) + Len(t)
      /\ (\A i \in 1..Len(s) : d[i] = a[i]) /\ \A i \in 1..Len(t) : d[Len(s) + i] = b[i]
  <2>1. a \in Seq(S) /\ b \in Seq(S)
    BY <1>5, <1>6
  <2>2. /\ d \in Seq(S) /\ Len(d) = Len(a) + Len(b)
        /\ (\A i \in 1..Len(a) : d[i] = a[i]) /\ \A i \in 1..Len(b) : d[Len(a) + i] = b[i]
    BY <1>8, <2>1, ConcatFacts
  <2>. QED  BY <1>5, <1>6, <2>2
<1>10. ASSUME NEW i \in 1..Len(c) PROVE c[i] = d[i]
  <2>1. CASE i \in 1..Len(s)
    BY <1>2, <1>5, <1>7, <1>9, <2>1
  <2>2. CASE \E k \in 1..Len(t) : i = Len(s) + k
    BY <1>2, <1>6, <1>7, <1>9, <2>2
  <2>3. i \in 1..(Len(s) + Len(t))
    BY <1>2, <1>7
  <2>. QED  BY <1>2, <2>1, <2>2, <2>3, TwoParts
<1>11. c = d
  BY <1>2, <1>7, <1>9, <1>10, SeqEqual
<1>. QED  BY <1>1, <1>2, <1>3, <1>4, <1>8, <1>11 DEF Among

LEMMA CarriedMore ==
  ASSUME NEW S, NEW e \in Seq(Chan!Frames), NEW r \in Seq(S), Len(r) = Len(e),
         NEW f \in Seq(Chan!Frames), NEW g \in Seq(S), Len(g) = Len(f), Chan!InTurn(e \o f),
         NEW s \in Seq(Chan!Frames), Among(s, e)
  PROVE  /\ Carried(e \o f, r \o g, s) = Carried(e, r, s)
         /\ Carried(e \o f, r \o g, f) = g
<1>. DEFINE m == Len(e)
            n == Len(f)
            d == e \o f
            q == r \o g
<1>1. /\ d \in Seq(Chan!Frames) /\ Joins(d, e, f) /\ m = Len(e) /\ n = Len(f)
      /\ q \in Seq(S) /\ Joins(q, r, g)
  BY JoinIs
<1>2. Chan!InTurn(d) /\ Chan!InTurn(e)
  BY PartsInTurn
<1>. HIDE DEF m, n, d, q
<1>3. /\ Len(d) = m + n /\ m \in Nat /\ n \in Nat
      /\ (\A i \in 1..m : d[i] = e[i]) /\ \A i \in 1..n : d[m + i] = f[i]
  BY <1>1 DEF Joins
<1>4. /\ Len(q) = m + n /\ Len(r) = m /\ Len(g) = n
      /\ (\A i \in 1..m : q[i] = r[i]) /\ \A i \in 1..n : q[m + i] = g[i]
  BY <1>1 DEF Joins
<1>5. ASSUME NEW i \in 1..Len(s) PROVE From(d, q, s[i]) = From(e, r, s[i])
  <2>1. PICK j \in 1..m : s[i] = e[j]
    BY <1>1, FrameOrder DEF Among
  <2>2. From(e, r, e[j]) = r[j]
    BY <1>1, <1>2, FromIs
  <2>3. j \in 1..Len(d) /\ d[j] = e[j] /\ q[j] = r[j]
    BY <1>3, <1>4
  <2>4. From(d, q, d[j]) = q[j]
    BY <1>1, <1>3, <1>2, <1>4, <2>3, FromIs
  <2>. QED  BY <2>1, <2>2, <2>3, <2>4
<1>6. Carried(d, q, s) = Carried(e, r, s)
  BY <1>5 DEF Carried
<1>7. ASSUME NEW i \in 1..n PROVE From(d, q, f[i]) = g[i]
  <2>1. m + i \in 1..Len(d) /\ d[m + i] = f[i] /\ q[m + i] = g[i]
    BY <1>3, <1>4
  <2>2. From(d, q, d[m + i]) = q[m + i]
    BY <1>1, <1>3, <1>2, <1>4, <2>1, FromIs
  <2>. QED  BY <2>1, <2>2
<1>8. Carried(d, q, f) = g
  <2>1. g = [i \in 1..n |-> g[i]]
    BY <1>4
  <2>2. Carried(d, q, f) = [i \in 1..n |-> From(d, q, f[i])]
    BY <1>1 DEF Carried
  <2>3. [i \in 1..n |-> From(d, q, f[i])] = [i \in 1..n |-> g[i]]
    BY <1>7, Zenon
  <2>. QED  BY <2>1, <2>2, <2>3
<1>. QED  BY <1>6, <1>8 DEF d, q

-----------------------------------------------------------------------------
(* The steps with which the adapter reports nothing.                        *)

Unreported == \/ Elm!Caller \/ Elm!AdapterResets \/ Elm!AdapterObeys \/ Elm!AdapterRejects
              \/ Elm!LoseToken

LEMMA SameUnreported == Unreported => Chan!Unreported
BY Zenon DEF Unreported, Chan!Unreported, Elm!Caller, Chan!Caller,
   Elm!OpNames, Chan!OpNames, Elm!AtCommands, Chan!AtCommands, Elm!Id, Chan!Id,
   Elm!NoId, Chan!NoId, Elm!caller, Chan!caller, Elm!channel, Chan!channel, Elm!device,
   Chan!device, Elm!vars, Chan!vars, Elm!Needs, Chan!Needs, Elm!Step, Chan!Step,
   Elm!Prompt, Chan!Prompt, Elm!Line, Chan!Line, Elm!Texts, Chan!Texts, Elm!Steps,
   Chan!Steps, Elm!Tokens, Chan!Tokens, Elm!Starts, Chan!Starts, Elm!If, Chan!If,
   Elm!InitScript, Chan!InitScript, Elm!Initialise, Chan!Initialise, Elm!OpenRefused,
   Chan!OpenRefused, Elm!InitialiseRefused, Chan!InitialiseRefused, Elm!NeedsHeader,
   Chan!NeedsHeader, Elm!Write, Chan!Write, Elm!WriteEmpty, Chan!WriteEmpty,
   Elm!WriteClosed, Chan!WriteClosed, Elm!AfterRead, Chan!AfterRead, Elm!ReadQueued,
   Chan!ReadQueued, Elm!ReadWaits, Chan!ReadWaits, Elm!SetFilter, Chan!SetFilter,
   Elm!Close, Chan!Close, Elm!Command, Chan!Command, Elm!CloseClosed, Chan!CloseClosed,
   Elm!SetsHeader, Chan!SetsHeader, Elm!Programmed, Chan!Programmed, Elm!StepDone,
   Chan!StepDone, Elm!StepFails, Chan!StepFails, Elm!NoAnswer, Chan!NoAnswer, Elm!Text,
   Chan!Text, Elm!SendRaw, Chan!SendRaw, Elm!Closing, Chan!Closing, Elm!Queues,
   Chan!Queues, Elm!Accumulates, Chan!Accumulates, Elm!WriteBreaks, Chan!WriteBreaks,
   Elm!SendRawFails, Chan!SendRawFails, Elm!SendRawFailsUnseen,
   Chan!SendRawFailsUnseen, Elm!PromptAt, Chan!PromptAt, Elm!NoPrompt, Chan!NoPrompt,
   Elm!Fetch, Chan!Fetch, Elm!AfterPrompt, Chan!AfterPrompt, Elm!IsFrame, Chan!IsFrame,
   Elm!FramesOf, Chan!FramesOf, Elm!HasOk, Chan!HasOk, Elm!Answered, Chan!Answered,
   Elm!GetAnswer, Chan!GetAnswer, Elm!Quiet, Chan!Quiet, Elm!GiveUp, Chan!GiveUp,
   Elm!Takes, Chan!Takes, Elm!Carries, Chan!Carries, Elm!AdapterAnswers,
   Chan!AdapterAnswers, Elm!AdapterResets, Chan!AdapterResets, Elm!AdapterObeys,
   Chan!AdapterObeys, Elm!AdapterRejects, Chan!AdapterRejects, Elm!LoseToken,
   Chan!LoseToken

\* The channel's operations are open(), write() and read().
LEMMA OpIs == Chan!EOrder => op \in {"idle", "open", "write", "read"}
BY DEF Chan!EOrder, Chan!EType, Chan!CallerType

\* They never empty the queue without handing it over.
LEMMA TakenGrows ==
  ASSUME Chan!EOrder, Unreported
  PROVE  \E r \in Seq(Chan!Frames) : taken' = taken \o r
<1>1. /\ rx_queue_ \in Seq(Chan!Frames) /\ taken \in Seq(Chan!Frames)
      /\ rx_accum_ \in Seq(Chan!Known)
  BY DEF Chan!EOrder, Chan!EType, Chan!ChannelType, Chan!DeviceType
<1>2. CASE taken' = taken
  <2>1. << >> \in Seq(Chan!Frames) /\ taken \o << >> = taken
    BY <1>1, JoinNone
  <2>. QED  BY <1>2, <2>1
<1>3. CASE taken' = taken \o rx_queue_
  BY <1>1, <1>3
<1>4. ~Elm!Closing
  BY OpIs DEF Elm!Closing
<1>5. CASE Elm!GetAnswer
  <2>1. PICK j \in 1..Len(rx_accum_) :
          \/ taken' = taken \o Elm!FramesOf(SubSeq(rx_accum_, 1, j - 1))
          \/ \E q : Elm!Queues(q)
    BY <1>5 DEF Elm!GetAnswer
  <2>2. CASE taken' = taken \o Elm!FramesOf(SubSeq(rx_accum_, 1, j - 1))
    <3>1. SubSeq(rx_accum_, 1, j - 1) \in Seq(Chan!Known)
      BY <1>1, Chan!AnswerLines, ChannelAssumed DEF Chan!ElmAssumption
    <3>2. Chan!FramesOf(SubSeq(rx_accum_, 1, j - 1)) \in Seq(Chan!Frames)
      BY <3>1, FramesAmong
    <3>3. Elm!FramesOf(SubSeq(rx_accum_, 1, j - 1)) = Chan!FramesOf(SubSeq(rx_accum_, 1, j - 1))
      BY DEF Elm!FramesOf, Chan!FramesOf, Elm!IsFrame, Chan!IsFrame
    <3>. QED  BY <2>2, <3>2, <3>3
  <2>3. CASE \E q : Elm!Queues(q)
    BY <1>2, <1>4, <2>3 DEF Elm!Queues
  <2>. QED  BY <2>1, <2>2, <2>3
<1>6. CASE Elm!Initialise \/ Elm!ReadQueued \/ Elm!CloseClosed
  BY <1>3, <1>6 DEF Elm!Initialise, Elm!ReadQueued, Elm!CloseClosed
<1>7. CASE Elm!SendRawFails \/ Elm!GiveUp
  BY <1>2, <1>4, <1>7 DEF Elm!SendRawFails, Elm!GiveUp, Elm!Queues
<1>8. CASE \/ Elm!OpenRefused \/ Elm!InitialiseRefused \/ Elm!Write \/ Elm!WriteEmpty
           \/ Elm!WriteClosed \/ Elm!ReadWaits \/ Elm!SetFilter \/ Elm!Command \/ Elm!Close
           \/ Elm!SendRaw \/ Elm!SendRawFailsUnseen \/ Elm!Fetch
  BY <1>2, <1>8 DEF Elm!OpenRefused, Elm!InitialiseRefused, Elm!Write, Elm!WriteEmpty,
     Elm!WriteClosed, Elm!ReadWaits, Elm!SetFilter, Elm!Command, Elm!Close, Elm!SendRaw,
     Elm!SendRawFailsUnseen, Elm!Fetch
<1>9. CASE Elm!AdapterResets \/ Elm!AdapterObeys \/ Elm!AdapterRejects \/ Elm!LoseToken
  BY <1>2, <1>9 DEF Elm!AdapterResets, Elm!AdapterObeys, Elm!AdapterRejects, Elm!LoseToken
<1>. QED  BY <1>5, <1>6, <1>7, <1>8, <1>9 DEF Unreported, Elm!Caller

\* The steps of the stack that are such steps of the channel.
Moves == \/ Connect \/ WriteFrame \/ ReadFrames \/ Talks \/ GivesUp \/ AdapterAnswers
         \/ LoseToken

LEMMA MovesChannel == Moves => Unreported /\ UNCHANGED <<emitted, reported>>
<1>1. CASE Connect
  BY <1>1 DEF Connect, Unreported, Elm!Caller, Elm!Initialise, listening
<1>2. CASE WriteFrame
  BY <1>2 DEF WriteFrame, Unreported, Elm!Caller, Elm!Write, Elm!WriteClosed, Elm!device,
     listening
<1>3. CASE ReadFrames
  BY <1>3 DEF ReadFrames, Unreported, Elm!Caller, Elm!ReadQueued, Elm!ReadWaits, Elm!device,
     listening
<1>4. CASE Talks
  BY <1>4 DEF Talks, Unreported, Elm!Caller, Elm!SendRaw, Elm!SendRawFails,
     Elm!SendRawFailsUnseen, Elm!Fetch, Elm!GetAnswer, Elm!device
<1>5. CASE GivesUp
  BY <1>5 DEF GivesUp, Unreported, Elm!Caller, Elm!GiveUp, Elm!device, listening
<1>6. CASE AdapterAnswers
  BY <1>6 DEF AdapterAnswers, Unreported, Elm!AdapterResets, Elm!AdapterObeys,
     Elm!AdapterRejects
<1>7. CASE LoseToken
  BY <1>7 DEF LoseToken, Unreported, Elm!LoseToken, listening
<1>. QED  BY <1>1, <1>2, <1>3, <1>4, <1>5, <1>6, <1>7 DEF Moves

LEMMA ReturnedIs ==
  ASSUME taken \in Seq(Chan!Frames), NEW r \in Seq(Chan!Frames), taken' = taken \o r
  PROVE  Returned = Carried(emitted, reported, r)
<1>1. PICK t : t = taken'
  OBVIOUS
<1>2. /\ Len(t) = Len(taken) + Len(r) /\ Len(taken) \in Nat /\ Len(r) \in Nat
      /\ \A i \in 1..Len(r) : t[Len(taken) + i] = r[i]
  BY <1>1, ConcatFacts
<1>3. Len(t) - Len(taken) = Len(r)
  BY <1>2
<1>4. [i \in 1..Len(r) |-> FrameOf(t[Len(taken) + i])]
        = [i \in 1..Len(r) |-> From(emitted, reported, r[i])]
  <2>1. \A x : FrameOf(x) = From(emitted, reported, x)
    BY DEF FrameOf, From
  <2>2. \A i \in 1..Len(r) : FrameOf(t[Len(taken) + i]) = From(emitted, reported, r[i])
    BY <1>2, <2>1
  <2>. QED  BY <2>2
<1>. QED  BY <1>1, <1>3, <1>4 DEF Returned, Carried

LEMMA MovesThin ==
  ASSUME Chan!EOrder, Chan!EOrder', Moves
  PROVE  \E r \in Seq(Chan!Frames) :
           /\ taken' = taken \o r /\ Thins(r \o InChannel', InChannel)
           /\ Returned = Carried(emitted, reported, r)
<1>1. PICK r \in Seq(Chan!Frames) : taken' = taken \o r
  BY TakenGrows, MovesChannel
<1>2. Chan!FramesLeft' \subseteq Chan!FramesLeft
  BY MovesChannel, SameUnreported, Chan!StepNarrows, ChannelAssumed DEF Chan!ElmAssumption
<1>3. Thins(r \o InChannel', InChannel)
  BY <1>1, <1>2, ChannelThins
<1>4. Returned = Carried(emitted, reported, r)
  BY <1>1, ReturnedIs DEF Chan!EOrder, Chan!EType, Chan!DeviceType
<1>. QED  BY <1>1, <1>3, <1>4

-----------------------------------------------------------------------------
(* The way between the transport and the ECU.                               *)

\* The frames on their way to the transport: those that read() has returned, those in
\* the channel, and those that the adapter has yet to report or to hear.
ToTester == inbox \o (Brought(InChannel) \o (collected \o canwire))

\* The frames on their way to the ECU: those on the bus, those in the payloads that the
\* adapter has yet to send, and the one that write() has not given it.
Unsent   == IF collecting THEN Tail(content) ELSE content

NotGiven == op = "idle" \/ (op = "write" /\ (Len(todo) > 1 \/ ~waiting))
Pending  == IF NotGiven THEN outbox ELSE << >>
ToEcu    == canbus \o (Unsent \o Pending)
Path == INSTANCE IsoTpSessionProofs
  WITH bus <- ToEcu, wire <- ToTester, lost <- failures,
       HwIsoTp <- {FALSE}, MaxForeign <- 0, MaxLost <- MaxFailures

LEMMA PathAssumed == Path!PaddingAssumption /\ Path!SessionAssumption
BY StackAssumption, ChannelAssumed DEF StackAssumption, Ecu!SessionAssumption,
   Path!SessionAssumption, Ecu!PaddingAssumption, Path!PaddingAssumption, Chan!ElmAssumption,
   Ecu!MaxLength, Path!MaxLength, Ecu!SnMod,
   Path!SnMod, Ecu!Cts, Path!Cts, Ecu!Wait, Path!Wait, Ecu!Overflow, Path!Overflow,
   Ecu!LetsAllThrough, Path!LetsAllThrough

-----------------------------------------------------------------------------
(* The types: the inductive invariant.                                      *)

FlightTypes ==
  /\ rx_buf_ \in Seq(Path!Inbound)
  /\ inbox \in Seq(Path!Inbound) /\ collected \in Seq(Path!Inbound)
  /\ canwire \in Seq(Path!Inbound) /\ reported \in Seq(Path!Inbound)
  /\ outbox \in Seq(Path!Outbound) /\ content \in Seq(Path!Outbound)
  /\ canbus \in Seq(Path!Outbound)

Traces == log \in Seq(Entry) /\ crossed \in Seq(Entry)

\* Where the frames can be: between two steps of the tester there is one in outbox, or
\* there are some in inbox, or neither; a payload in to_adapter has its frame in content.
Shape ==
  /\ Len(outbox) <= 1
  /\ op = "write" => outbox # << >>
  /\ op \in {"read", "open"} => outbox = << >>
  /\ op = "read" \/ outbox # << >> => inbox = << >>
  /\ ops = 0 => op = "idle" /\ outbox = << >> /\ inbox = << >>

Counted ==
  /\ Len(reported) = Len(emitted) /\ Len(content) = Count(to_adapter)
  /\ collecting \in BOOLEAN /\ silent \in BOOLEAN
  /\ collecting => /\ to_adapter # << >> /\ IsPayload(Head(to_adapter))
                   /\ Head(to_adapter).text = "whole"
  /\ op = "write" => \A i \in 1..Len(todo) : todo[i].cmd = "payload" <=> i = Len(todo)

SType == Path!TesterType /\ Path!EcuType /\ Path!LuckType /\ FlightTypes /\ Traces /\ Shape
         /\ Counted

\* A payload has its frame.
LEMMA ContentHead ==
  ASSUME Chan!EOrder, SType, to_adapter # << >>, IsPayload(Head(to_adapter))
  PROVE  /\ content # << >> /\ Head(content) \in Path!Outbound /\ Tail(content) \in Seq(Path!Outbound)
         /\ content = <<Head(content)>> \o Tail(content)
         /\ Len(Tail(content)) = Count(Tail(to_adapter))
<1>1. to_adapter \in Seq(Chan!Requests)
  BY DEF Chan!EOrder, Chan!EType, Chan!DeviceType
<1>2. Tail(to_adapter) \in Seq(Chan!Requests)
  BY <1>1
<1>3. Len(content) = Count(Tail(to_adapter)) + 1 /\ Count(Tail(to_adapter)) \in Nat
  BY <1>1, <1>2, CountTail, CountTyped DEF SType, Counted
<1>4. content \in Seq(Path!Outbound)
  BY DEF SType, FlightTypes
<1>5. content # << >>
  BY <1>3, <1>4
<1>. QED  BY <1>3, <1>4, <1>5

LEMMA UnsentTyped ==
  ASSUME Chan!EOrder, SType
  PROVE  Unsent \in Seq(Path!Outbound) /\ Pending \in Seq(Path!Outbound)
<1>1. CASE collecting
  BY <1>1, ContentHead DEF SType, FlightTypes, Counted, Unsent, Pending
<1>2. CASE ~collecting
  BY <1>2 DEF SType, FlightTypes, Unsent, Pending
<1>. QED  BY <1>1, <1>2

\* The frames in the channel stand for frames of the bus.
LEMMA BroughtTyped ==
  ASSUME Chan!EOrder, SType
  PROVE  /\ InChannel \in Seq(Chan!Frames) /\ Among(InChannel, emitted)
         /\ Brought(InChannel) \in Seq(Path!Inbound)
<1>1. PICK p : p = InChannel
  OBVIOUS
<1>2. /\ p \in Seq(Chan!Frames) /\ taken \in Seq(Chan!Frames) /\ emitted \in Seq(Chan!Frames)
      /\ Chan!InTurn(emitted)
      /\ Chan!FramesIn(taken \o p) \subseteq Chan!FramesIn(emitted)
  BY <1>1, ChannelIsKnown DEF ChannelKnown
<1>3. Among(p, emitted)
  <2>1. taken \in Seq(Chan!Known) /\ p \in Seq(Chan!Known)
    BY <1>2, FrameOrder
  <2>2. Chan!FramesIn(taken \o p) = Chan!FramesIn(taken) \cup Chan!FramesIn(p)
    BY <2>1, ChannelAssumed, Chan!JoinedOrdered DEF Chan!ElmAssumption
  <2>. QED  BY <1>2, <2>2 DEF Among
<1>4. reported \in Seq(Path!Inbound) /\ Len(reported) = Len(emitted)
  BY DEF SType, FlightTypes, Counted
<1>5. Carried(emitted, reported, p) \in Seq(Path!Inbound)
  BY <1>2, <1>3, <1>4, CarriedFacts
<1>. QED  BY <1>1, <1>2, <1>3, <1>5 DEF Brought

LEMMA PathTyped == Chan!EOrder /\ SType => Path!IType
<1>. SUFFICES ASSUME Chan!EOrder, SType PROVE Path!IType
  OBVIOUS
<1>1. ToTester \in Seq(Path!Inbound)
  <2>1. PICK a, b, c, d \in Seq(Path!Inbound) :
          a = inbox /\ b = Brought(InChannel) /\ c = collected /\ d = canwire
    BY BroughtTyped DEF SType, FlightTypes
  <2>2. a \o (b \o (c \o d)) \in Seq(Path!Inbound)
    OBVIOUS
  <2>. QED  BY <2>1, <2>2 DEF ToTester
<1>2. ToEcu \in Seq(Path!Outbound)
  <2>1. PICK a, b, c \in Seq(Path!Outbound) : a = canbus /\ b = Unsent /\ c = Pending
    BY UnsentTyped DEF SType, FlightTypes
  <2>2. a \o (b \o c) \in Seq(Path!Outbound)
    OBVIOUS
  <2>. QED  BY <2>1, <2>2 DEF ToEcu
<1>3. native = FALSE
  BY DEF SType, Path!LuckType
<1>4. Path!LinkType
  BY <1>1, <1>2, <1>3 DEF SType, FlightTypes, Path!LinkType
<1>. QED  BY <1>4 DEF SType, Path!IType

LEMMA PathTypedThen == Chan!EOrder' /\ SType' => Path!IType'
BY PathTyped, PTL

-----------------------------------------------------------------------------
(* The transport's own steps, and the ECU's, are steps of IsoTpSession.     *)

\* What the transport does is done at the ends of the way.
LEMMA ThinkLinks ==
  ASSUME Chan!EOrder, SType, Thinks
  PROVE  /\ op = "idle" /\ op' = "idle" /\ outbox = << >> /\ ops # 0
         /\ UNCHANGED <<channel, listening, canbus, canwire, crossed, ecu, silent, log, failures>>
         /\ inbox' = inbox => ToTester' = ToTester
         /\ outbox' = outbox => ToEcu' = ToEcu
         /\ \A f : outbox' = Append(outbox, f) => ToEcu' = Append(ToEcu, f) /\ Pending' = <<f>>
<1>1. /\ op = "idle" /\ outbox = << >> /\ ops # 0
      /\ UNCHANGED <<channel, listening, canbus, canwire, crossed, ecu, silent, log>>
  BY DEF Thinks, Idle
<1>2. op' = "idle" /\ ops' = ops
  BY <1>1 DEF channel
<1>3. UNCHANGED failures
  BY DEF Thinks, Transport!Fetch, Transport!SendFirst, Transport!SendGetsFlow,
     Transport!SendConsecutive, Transport!RecvFirst, Transport!RecvMore,
     Transport!AssemblyTimesOut, Transport!luck
<1>4. inbox' = inbox => ToTester' = ToTester
  BY <1>1 DEF ToTester, Brought, InChannel, channel, listening
<1>5. Pending = outbox /\ Pending' = outbox' /\ Unsent' = Unsent
  BY <1>1, <1>2 DEF Pending, NotGiven, Unsent, listening
<1>6. outbox' = outbox => ToEcu' = ToEcu
  BY <1>1, <1>5 DEF ToEcu
<1>7. ASSUME NEW f, outbox' = Append(outbox, f) PROVE ToEcu' = Append(ToEcu, f) /\ Pending' = <<f>>
  <2>1. Pending' = Append(<< >>, f) /\ Pending = << >>
    BY <1>1, <1>5, <1>7
  <2>2. canbus \in Seq(Path!Outbound) /\ Unsent \in Seq(Path!Outbound)
        /\ << >> \in Seq(Path!Outbound) /\ Append(<< >>, f) = <<f>>
    BY UnsentTyped DEF SType, FlightTypes
  <2>3. Unsent \o Append(<< >>, f) = Append(Unsent \o << >>, f)
    BY <2>2, JoinAny
  <2>4. Unsent \o << >> \in Seq(Path!Outbound)
    BY <2>2, JoinNone
  <2>5. canbus \o Append(Unsent \o << >>, f) = Append(canbus \o (Unsent \o << >>), f)
    BY <2>2, <2>4, JoinAny
  <2>. QED  BY <1>1, <1>5, <2>1, <2>2, <2>3, <2>5 DEF ToEcu
<1>. QED  BY <1>1, <1>2, <1>3, <1>4, <1>6, <1>7

LEMMA ThinksIsPath ==
  ASSUME Chan!EOrder, SType, Thinks
  PROVE  Path!Tester /\ (\/ outbox' = outbox
                         \/ \E f : outbox' = Append(outbox, f) /\ ToEcu' = Append(ToEcu, f))
                     /\ (inbox' = inbox \/ inbox' = << >>)
<1>1. CASE Transport!Fetch /\ inbox' = << >>
  <2>1. PICK k \in 1..Len(inbox) :
          /\ rx_buf_' = SubSeq(inbox, 1, k)
          /\ inbox' = SubSeq(inbox, k + 1, Len(inbox))
    BY <1>1 DEF Transport!Fetch
  <2>2. PICK a, b \in Seq(Path!Inbound) :
          /\ a = inbox /\ ToTester = a \o b
          /\ b = Brought(InChannel) \o (collected \o canwire)
    <3>1. Brought(InChannel) \o (collected \o canwire) \in Seq(Path!Inbound)
      <4>1. PICK b, c, d \in Seq(Path!Inbound) :
              b = Brought(InChannel) /\ c = collected /\ d = canwire
        BY BroughtTyped DEF SType, FlightTypes
      <4>2. b \o (c \o d) \in Seq(Path!Inbound)
        OBVIOUS
      <4>. QED  BY <4>1, <4>2
    <3>. QED  BY <3>1 DEF SType, FlightTypes, ToTester
  <2>3. k = Len(a) /\ k \in Nat
    <3>1. PICK n \in Nat : n = Len(a)
      BY LenIs
    <3>2. k \in 1..n /\ k \in Nat
      BY <2>1, <2>2, <3>1
    <3>3. k # n => Len(SubSeq(a, k + 1, n)) = n - k
      BY <3>1, <3>2
    <3>4. SubSeq(a, k + 1, n) = << >>
      BY <1>1, <2>1, <2>2, <3>1
    <3>5. k # n => n - k = 0
      BY <3>3, <3>4
    <3>. QED  BY <3>1, <3>2, <3>5
  <2>4. rx_buf_' = SubSeq(ToTester, 1, k) /\ b = SubSeq(ToTester, k + 1, Len(ToTester))
    <3>1. SubSeq(a, 1, k) = a
      BY <2>3
    <3>. QED  BY <2>1, <2>2, <2>3, <3>1, JoinSplit
  <2>5. ToTester' = b
    <3>1. ToTester' = << >> \o b
      BY <1>1, <2>2, ThinkLinks DEF ToTester, Brought, InChannel, channel, listening
    <3>. QED  BY <3>1, JoinNone
  <2>6. k \in 1..Len(ToTester)
    <3>1. Len(a \o b) = Len(a) + Len(b) /\ Len(b) \in Nat
      BY ConcatFacts
    <3>. QED  BY <2>1, <2>2, <2>3, <3>1
  <2>7. outbox' = outbox
    BY <1>1 DEF Transport!Fetch
  <2>8. Path!Fetch
    <3>1. \E i \in 1..Len(ToTester) : /\ rx_buf_' = SubSeq(ToTester, 1, i)
                                      /\ ToTester' = SubSeq(ToTester, i + 1, Len(ToTester))
      BY <2>4, <2>5, <2>6
    <3>2. ToEcu' = ToEcu /\ UNCHANGED ecu
      BY <2>7, ThinkLinks
    <3>. QED  BY <1>1, <3>1, <3>2 DEF Transport!Fetch, Path!Fetch, Transport!tester, Path!tester,
              Transport!luck, Path!luck, Transport!Matches, Path!Matches
  <2>. QED  BY <1>1, <2>7, <2>8 DEF Path!Tester
<1>2. CASE inbox' = inbox
  <2>0. ToTester' = ToTester /\ UNCHANGED ecu /\ (outbox' = outbox => ToEcu' = ToEcu)
        /\ \A f : outbox' = Append(outbox, f) => ToEcu' = Append(ToEcu, f)
    BY <1>2, ThinkLinks
  <2>1. CASE Transport!SendFirst
    BY <1>2, <2>0, <2>1 DEF Transport!SendFirst, Path!SendFirst, Transport!Part, Path!Part,
       Transport!SnMod, Path!SnMod, Transport!luck, Path!luck, Path!Tester
  <2>2. CASE Transport!SendConsecutive
    BY <1>2, <2>0, <2>2 DEF Transport!SendConsecutive, Path!SendConsecutive, Transport!Part,
       Path!Part, Transport!SnMod, Path!SnMod, Transport!luck, Path!luck, Path!Tester
  <2>3. CASE Transport!SendGetsFlow
    BY <1>2, <2>0, <2>3 DEF Transport!SendGetsFlow, Path!SendGetsFlow, Transport!Buffered,
       Path!Buffered, Transport!Take, Path!Take, Transport!Matches, Path!Matches,
       Transport!After, Path!After, Transport!LetsGo, Path!LetsGo, Transport!Fail, Path!Fail,
       Transport!Return, Path!Return, Transport!luck, Path!luck, Path!Tester,
       Transport!Cts, Path!Cts, Transport!Overflow, Path!Overflow
  <2>4. CASE Transport!RecvMore
    BY <1>2, <2>0, <2>4 DEF Transport!RecvMore, Path!RecvMore, Transport!Buffered,
       Path!Buffered, Transport!Take, Path!Take, Transport!Matches, Path!Matches,
       Transport!After, Path!After, Transport!Fail, Path!Fail, Transport!Return, Path!Return,
       Transport!InSequence, Path!InSequence, Transport!NextSn, Path!NextSn, Transport!SnMod,
       Path!SnMod, Transport!tester, Path!tester, Transport!luck, Path!luck, Path!Tester
  <2>5. CASE Transport!AssemblyTimesOut
    BY <1>2, <2>0, <2>5 DEF Transport!AssemblyTimesOut, Path!AssemblyTimesOut,
       Transport!TooEarly, Path!TooEarly, Transport!Fail, Path!Fail, Transport!Return,
       Path!Return, Path!Tester
  <2>6. CASE Transport!RecvFirst
    BY <1>2, <2>0, <2>6 DEF Transport!RecvFirst, Path!RecvFirst, Transport!Buffered,
       Path!Buffered, Transport!Take, Path!Take, Transport!Matches, Path!Matches,
       Transport!After, Path!After, Transport!Fail, Path!Fail, Transport!Return, Path!Return,
       Transport!Flow, Path!Flow, Transport!Cts, Path!Cts, Transport!luck, Path!luck, Path!Tester
  <2>7. \/ Transport!SendFirst \/ Transport!SendConsecutive \/ Transport!SendGetsFlow
        \/ Transport!RecvMore \/ Transport!AssemblyTimesOut \/ Transport!RecvFirst
        \/ Transport!Fetch /\ inbox' = << >>
    BY DEF Thinks
  <2>. QED  BY <1>1, <1>2, <2>1, <2>2, <2>3, <2>4, <2>5, <2>6, <2>7
<1>3. inbox' = inbox \/ (Transport!Fetch /\ inbox' = << >>)
  BY Zenon DEF Thinks, Transport!SendFirst, Transport!SendConsecutive, Transport!SendGetsFlow,
     Transport!RecvMore, Transport!AssemblyTimesOut, Transport!RecvFirst
<1>. QED  BY <1>1, <1>2, <1>3

\* What the ECU does is done at the other ends.
LEMMA EcuLinks ==
  ASSUME Chan!EOrder, SType, EcuActs
  PROVE  /\ UNCHANGED <<transport, silent, log, channel, listening, failures, early, native>>
         /\ canbus' = canbus => ToEcu' = ToEcu
         /\ canbus # << >> => /\ ToEcu # << >> /\ Head(ToEcu) = Head(canbus)
                              /\ canbus' = Tail(canbus) => ToEcu' = Tail(ToEcu)
         /\ canwire' = canwire => ToTester' = ToTester
         /\ \A f : canwire' = Append(canwire, f) => ToTester' = Append(ToTester, f)
<1>1. UNCHANGED <<transport, silent, log, channel, listening, failures, early, native>>
  BY DEF EcuActs, transport, Ecu!Ecu, Ecu!EcuHearsRequest, Ecu!EcuHearsConsecutive,
     Ecu!EcuHearsFlow, Ecu!EcuResumes, Ecu!EcuAnswers, Ecu!EcuSendsConsecutive, Ecu!luck,
     Ecu!tester
<1>2. Unsent' = Unsent /\ Pending' = Pending /\ inbox' = inbox /\ collected' = collected
      /\ Brought(InChannel)' = Brought(InChannel)
  BY <1>1 DEF Unsent, Pending, NotGiven, Brought, InChannel, transport, channel, listening
<1>3. PICK b, w : b = canbus' /\ w = canwire'
  OBVIOUS
<1>4. ToEcu' = b \o (Unsent \o Pending)
      /\ ToTester' = inbox \o (Brought(InChannel) \o (collected \o w))
  BY <1>2, <1>3 DEF ToEcu, ToTester
<1>5. PICK p : p = Unsent \o Pending
  OBVIOUS
<1>6. p \in Seq(Path!Outbound) /\ canbus \in Seq(Path!Outbound)
  BY <1>5, UnsentTyped, ConcatFacts DEF SType, FlightTypes
<1>7. ASSUME canbus # << >>
      PROVE  /\ ToEcu # << >> /\ Head(ToEcu) = Head(canbus)
             /\ canbus' = Tail(canbus) => ToEcu' = Tail(ToEcu)
  <2>1. PICK c \in Seq(Path!Outbound) : c = canbus
    BY <1>6
  <2>2. c \o p # << >> /\ Head(c \o p) = Head(c) /\ Tail(c \o p) = Tail(c) \o p
    BY <1>6, <1>7, <2>1, TailJoined
  <2>3. ToEcu = c \o p
    BY <1>5, <2>1 DEF ToEcu
  <2>4. ToEcu' = b \o p
    BY <1>4, <1>5
  <2>. QED  BY <1>3, <2>1, <2>2, <2>3, <2>4
<1>8. ASSUME NEW f, w = Append(canwire, f) PROVE ToTester' = Append(ToTester, f)
  <2>1. PICK i, c, d \in Seq(Path!Inbound) : i = inbox /\ c = collected /\ d = canwire
    BY DEF SType, FlightTypes
  <2>2. PICK q \in Seq(Path!Inbound) : q = Brought(InChannel)
    BY BroughtTyped
  <2>3. c \o Append(d, f) = Append(c \o d, f) /\ c \o d \in Seq(Path!Inbound)
    BY JoinAny, ConcatFacts
  <2>4. q \o Append(c \o d, f) = Append(q \o (c \o d), f) /\ q \o (c \o d) \in Seq(Path!Inbound)
    BY <2>3, JoinAny, ConcatFacts
  <2>5. i \o Append(q \o (c \o d), f) = Append(i \o (q \o (c \o d)), f)
    <3>1. PICK z \in Seq(Path!Inbound) : z = q \o (c \o d)
      BY <2>4
    <3>2. i \o Append(z, f) = Append(i \o z, f)
      BY JoinAny
    <3>. QED  BY <3>1, <3>2
  <2>. QED  BY <1>4, <1>8, <2>1, <2>2, <2>3, <2>4, <2>5, Zenon DEF ToTester
<1>. QED  BY <1>1, <1>3, <1>4, <1>7, <1>8 DEF ToEcu, ToTester

LEMMA EcuIsPath ==
  ASSUME Chan!EOrder, SType, EcuActs
  PROVE  Path!Ecu /\ (canwire' = canwire \/ \E f : canwire' = Append(canwire, f))
                  /\ (canbus' = canbus \/ (canbus # << >> /\ canbus' = Tail(canbus)))
<1>0. UNCHANGED <<transport, silent, log, channel, listening, failures, early, native>>
  BY EcuLinks
<1>1. /\ canbus' = canbus => ToEcu' = ToEcu
      /\ canbus # << >> => /\ ToEcu # << >> /\ Head(ToEcu) = Head(canbus)
                           /\ canbus' = Tail(canbus) => ToEcu' = Tail(ToEcu)
      /\ canwire' = canwire => ToTester' = ToTester
      /\ \A f : canwire' = Append(canwire, f) => ToTester' = Append(ToTester, f)
  BY EcuLinks
<1>2. CASE Ecu!EcuHearsRequest
  BY <1>1, <1>2 DEF Ecu!EcuHearsRequest, Path!EcuHearsRequest, Ecu!Flow, Path!Flow,
     Ecu!EcuThen, Path!EcuThen, Ecu!LetsAllThrough, Path!LetsAllThrough, Ecu!Cts, Path!Cts,
     Ecu!Wait, Path!Wait, Ecu!Overflow, Path!Overflow, Ecu!tester, Path!tester, Path!Ecu
<1>3. CASE Ecu!EcuHearsConsecutive
  BY <1>1, <1>3 DEF Ecu!EcuHearsConsecutive, Path!EcuHearsConsecutive, Ecu!Flow, Path!Flow,
     Ecu!SnMod, Path!SnMod, Ecu!Cts, Path!Cts, Ecu!tester, Path!tester, Ecu!luck, Path!luck,
     Path!Ecu
<1>4. CASE Ecu!EcuHearsFlow
  BY <1>1, <1>4 DEF Ecu!EcuHearsFlow, Path!EcuHearsFlow, Ecu!tester, Path!tester, Ecu!luck,
     Path!luck, Path!Ecu
<1>5. CASE Ecu!EcuResumes
  BY <1>1, <1>5 DEF Ecu!EcuResumes, Path!EcuResumes, Ecu!Flow, Path!Flow, Ecu!Cts, Path!Cts,
     Ecu!tester, Path!tester, Ecu!luck, Path!luck, Path!Ecu
<1>6. CASE Ecu!EcuAnswers
  BY <1>1, <1>6 DEF Ecu!EcuAnswers, Path!EcuAnswers, Ecu!Part, Path!Part, Ecu!RspFrames,
     Path!RspFrames, Ecu!SnMod, Path!SnMod, Ecu!tester, Path!tester, Ecu!luck, Path!luck,
     Path!Ecu
<1>7. CASE Ecu!EcuSendsConsecutive
  BY <1>1, <1>7 DEF Ecu!EcuSendsConsecutive, Path!EcuSendsConsecutive, Ecu!Part, Path!Part,
     Ecu!SnMod, Path!SnMod, Ecu!tester, Path!tester, Ecu!luck, Path!luck, Path!Ecu
<1>. QED  BY <1>2, <1>3, <1>4, <1>5, <1>6, <1>7 DEF EcuActs, Ecu!Ecu

-----------------------------------------------------------------------------
(* The types are kept: by what is not the channel's.                        *)

LEMMA SameFrames == Ecu!SessionFrame = Path!SessionFrame
BY DEF Ecu!SessionFrame, Path!SessionFrame, Ecu!Nibble, Path!Nibble, Ecu!Requests,
   Path!Requests, Ecu!SnMod, Path!SnMod

LEMMA FramesAre ==
  /\ Path!Inbound \subseteq Ecu!SessionFrame /\ Path!Outbound \subseteq Ecu!SessionFrame
  /\ Seq(Path!Inbound) \subseteq Seq(Ecu!SessionFrame)
  /\ Seq(Path!Outbound) \subseteq Seq(Ecu!SessionFrame)
<1>1. Path!Inbound \subseteq Ecu!SessionFrame /\ Path!Outbound \subseteq Ecu!SessionFrame
  BY SameFrames DEF Path!Inbound, Path!Outbound
<1>. QED  BY <1>1, SeqMonotonic

LEMMA SameRest ==
  ASSUME SType, Chan!EOrder',
         UNCHANGED <<req, pc, idx, total, out, expected_sn, answers, ecu, foreign, held, native>>,
         early' \in 0..MaxEarly
  PROVE  Path!TesterType' /\ Path!EcuType' /\ Path!LuckType'
<1>1. Path!TesterType'
  <2>1. UNCHANGED Path!tester
    BY DEF Path!tester
  <2>. QED  BY <2>1, Path!TesterSame, PathAssumed DEF SType, Path!SessionAssumption,
             Path!PaddingAssumption
<1>2. Path!EcuType'
  BY Path!EcuSame, PathAssumed DEF SType, Path!SessionAssumption, Path!PaddingAssumption
<1>3. failures' \in 0..MaxFailures
  BY DEF Chan!EOrder, Chan!EType, Chan!DeviceType
<1>. QED  BY <1>1, <1>2, <1>3 DEF SType, Path!LuckType

LEMMA ThinksTyped ==
  ASSUME Chan!EOrder, SType, Thinks
  PROVE  SType'
<1>1. Path!IType'
  <2>1. Path!IType
    BY PathTyped
  <2>2. Path!Next
    BY ThinksIsPath DEF Path!Next
  <2>3. Path!IType /\ [Path!Next]_(Path!vars) => Path!IType'
    BY Path!StepTyped, PathAssumed DEF Path!SessionAssumption, Path!PaddingAssumption
  <2>. QED  BY <2>1, <2>2, <2>3
<1>2. Path!TesterType' /\ Path!EcuType' /\ Path!LuckType' /\ rx_buf_' \in Seq(Path!Inbound)
      /\ ToEcu' \in Seq(Path!Outbound)
  BY <1>1 DEF Path!IType, Path!LinkType
<1>3. /\ op = "idle" /\ op' = "idle" /\ outbox = << >> /\ ops # 0
      /\ UNCHANGED <<channel, listening, canbus, canwire, crossed, ecu, silent, log, failures>>
  BY ThinkLinks
<1>4. CASE outbox' = outbox
  <2>1. FlightTypes'
    <3>1. inbox' \in Seq(Path!Inbound)
      <4>1. << >> \in Seq(Path!Inbound) /\ inbox \in Seq(Path!Inbound)
        BY DEF SType, FlightTypes
      <4>. QED  BY <4>1, ThinksIsPath
    <3>. QED  BY <1>2, <1>3, <1>4, <3>1 DEF SType, FlightTypes, listening
  <2>2. Traces' /\ Shape' /\ Counted'
    BY <1>3, <1>4 DEF SType, Traces, Shape, Counted, channel, listening
  <2>. QED  BY <1>2, <2>1, <2>2 DEF SType
<1>5. CASE \E f : outbox' = Append(outbox, f) /\ ToEcu' = Append(ToEcu, f)
  <2>1. PICK f : outbox' = Append(outbox, f) /\ ToEcu' = Append(ToEcu, f)
    BY <1>5
  <2>2. f \in Path!Outbound
    <3>1. ToEcu \in Seq(Path!Outbound)
      BY PathTyped DEF Path!IType, Path!LinkType
    <3>. QED  BY <1>2, <2>1, <3>1, LastIn
  <2>3. outbox' = <<f>> /\ outbox' \in Seq(Path!Outbound) /\ Len(outbox') <= 1
    BY <1>3, <2>1, <2>2
  <2>4. inbox = << >> /\ inbox' = inbox
    <3>1. ~Transport!Fetch
      <4>1. outbox' # outbox
        BY <1>3, <2>3
      <4>. QED  BY <4>1 DEF Transport!Fetch
    <3>. QED  BY <3>1 DEF Thinks, Transport!SendFirst, Transport!SendConsecutive,
              Transport!SendGetsFlow, Transport!RecvMore, Transport!AssemblyTimesOut,
              Transport!RecvFirst
  <2>5. FlightTypes'
    BY <1>2, <1>3, <2>3, <2>4 DEF SType, FlightTypes, listening
  <2>6. Traces' /\ Shape' /\ Counted'
    BY <1>3, <2>3, <2>4 DEF SType, Traces, Shape, Counted, channel, listening
  <2>. QED  BY <1>2, <2>5, <2>6 DEF SType
<1>. QED  BY <1>4, <1>5, ThinksIsPath

LEMMA EcuActsTyped ==
  ASSUME Chan!EOrder, SType, EcuActs
  PROVE  SType'
<1>1. Path!IType'
  <2>1. Path!IType
    BY PathTyped
  <2>2. Path!Next
    BY EcuIsPath DEF Path!Next
  <2>3. Path!IType /\ [Path!Next]_(Path!vars) => Path!IType'
    BY Path!StepTyped, PathAssumed DEF Path!SessionAssumption, Path!PaddingAssumption
  <2>. QED  BY <2>1, <2>2, <2>3
<1>2. Path!TesterType' /\ Path!EcuType' /\ Path!LuckType' /\ ToTester' \in Seq(Path!Inbound)
  BY <1>1 DEF Path!IType, Path!LinkType
<1>3. UNCHANGED <<transport, silent, log, channel, listening>>
  BY EcuLinks
<1>4. canbus \in Seq(Path!Outbound) /\ canwire \in Seq(Path!Inbound)
  BY DEF SType, FlightTypes
<1>5. canbus' \in Seq(Path!Outbound)
  <2>1. PICK c \in Seq(Path!Outbound) : c = canbus
    BY <1>4
  <2>2. canbus' = c \/ (c # << >> /\ canbus' = Tail(c))
    BY <2>1, EcuIsPath
  <2>3. c # << >> => Tail(c) \in Seq(Path!Outbound)
    BY <2>1
  <2>. QED  BY <2>2, <2>3
<1>6. PICK w : w = canwire'
  OBVIOUS
<1>7. w \in Seq(Path!Inbound)
      /\ SubSeq(w, Len(canwire) + 1, Len(w)) \in Seq(Path!Inbound)
  <2>1. w \in Seq(Path!Inbound)
    <3>1. CASE w = canwire
      BY <1>4, <3>1
    <3>2. ASSUME NEW f, w = Append(canwire, f) PROVE w \in Seq(Path!Inbound)
      <4>1. ToTester' = Append(ToTester, f)
        BY <1>6, <3>2, EcuLinks
      <4>2. ToTester \in Seq(Path!Inbound)
        BY PathTyped DEF Path!IType, Path!LinkType
      <4>3. f \in Path!Inbound
        BY <1>2, <4>1, <4>2, LastIn
      <4>. QED  BY <1>4, <3>2, <4>3
    <3>. QED  BY <1>6, <3>1, <3>2, EcuIsPath
  <2>2. Len(canwire) \in Nat /\ Len(w) \in Nat
    BY <1>4, <2>1, LenIs
  <2>. QED  BY <2>1, <2>2
<1>8. FlightTypes'
  BY <1>3, <1>5, <1>6, <1>7 DEF SType, FlightTypes, transport, listening
<1>9. Traces'
  <2>1. PICK n : n = SubSeq(w, Len(canwire) + 1, Len(w))
    OBVIOUS
  <2>2. n \in Seq(Ecu!SessionFrame) /\ crossed' = crossed \o Traced("RX", n)
    BY <1>6, <1>7, <2>1, FramesAre DEF EcuActs
  <2>3. Traced("RX", n) \in Seq(Entry)
    BY <2>2, TracedTyped DEF Directions
  <2>. QED  BY <1>3, <2>2, <2>3, ConcatFacts DEF SType, Traces
<1>10. Shape' /\ Counted'
  BY <1>3 DEF SType, Shape, Counted, transport, channel, listening
<1>. QED  BY <1>2, <1>8, <1>9, <1>10 DEF SType

\* A wait of the transport that ends is a failure of its request.
LEMMA ReadTimesOutIs ==
  ASSUME SType, ReadTimesOut
  PROVE  /\ Path!Fail /\ pc # "done" /\ rx_buf_' = << >> /\ op = "idle"
         /\ UNCHANGED <<inbox, outbox, channel, listening, canbus, canwire, crossed, ecu,
                        foreign, failures, held, native, log>>
         /\ early' \in 0..MaxEarly
<1>1. /\ Path!Fail /\ pc # "done" /\ rx_buf_' = << >> /\ op = "idle"
      /\ UNCHANGED <<inbox, outbox, channel, listening, canbus, canwire, crossed, ecu,
                     foreign, failures, held, native, log>>
  BY DEF ReadTimesOut, Idle, Transport!ReadTimesOut, Transport!Fail, Path!Fail,
     Transport!Return, Path!Return
<1>2. early \in 0..MaxEarly /\ MaxEarly \in Nat
  BY PathAssumed DEF SType, Path!LuckType, Path!SessionAssumption
<1>3. early' = early \/ (early < MaxEarly /\ early' = early + 1)
  BY DEF ReadTimesOut, Transport!ReadTimesOut, Transport!NothingComes, Transport!TooEarly
<1>. QED  BY <1>1, <1>2, <1>3

LEMMA ReadTimesOutTyped ==
  ASSUME Chan!EOrder, SType, ReadTimesOut
  PROVE  SType'
<1>1. /\ Path!Fail /\ pc # "done" /\ rx_buf_' = << >> /\ op = "idle"
      /\ UNCHANGED <<inbox, outbox, channel, listening, canbus, canwire, crossed, ecu,
                     foreign, failures, held, native, log>>
      /\ early' \in 0..MaxEarly
  BY ReadTimesOutIs
<1>2. Path!TesterType'
  BY <1>1, Path!FailTyped, PathAssumed DEF SType, Path!SessionAssumption,
     Path!PaddingAssumption
<1>3. Path!EcuType'
  BY <1>1, Path!EcuSame, PathAssumed DEF SType, Path!SessionAssumption,
     Path!PaddingAssumption
<1>4. Path!LuckType'
  BY <1>1 DEF SType, Path!LuckType
<1>5. FlightTypes' /\ Traces' /\ Shape'
  BY <1>1 DEF SType, FlightTypes, Traces, Shape, listening, channel
<1>6. Counted'
  <2>1. silent' = FALSE
    BY DEF ReadTimesOut
  <2>. QED  BY <1>1, <2>1 DEF SType, Counted, listening, channel
<1>. QED  BY <1>2, <1>3, <1>4, <1>5, <1>6 DEF SType

-----------------------------------------------------------------------------
(* The types are kept: by the channel's own steps.                          *)

\* What they do not touch.
LEMMA MovesStay ==
  ASSUME Moves
  PROVE  UNCHANGED <<req, pc, idx, total, out, expected_sn, answers, rx_buf_, collecting,
                     collected, reported, canbus, canwire, crossed, ecu, foreign, held,
                     native, early>>
BY DEF Moves, Connect, WriteFrame, ReadFrames, Talks, GivesUp, AdapterAnswers, LoseToken,
   transport, listening, can

\* What write() and read() say in the trace.
LEMMA MovesTrace ==
  ASSUME SType, Chan!EOrder, Moves
  PROVE  \/ inbox' = inbox /\ log' = log
         \/ /\ inbox' = inbox /\ op = "idle" /\ outbox # << >>
            /\ log' = log \o Traced("TX", outbox)
         \/ /\ inbox = << >> /\ inbox' = Returned /\ log' = log \o Traced("RX", Returned)
            /\ op' = "idle" \/ (op' = "read" /\ taken' = taken)
            /\ op \in {"idle", "read"} /\ outbox = << >>
<1>1. CASE Connect \/ GivesUp \/ AdapterAnswers \/ LoseToken
  BY <1>1 DEF Connect, GivesUp, AdapterAnswers, LoseToken, transport
<1>2. CASE WriteFrame
  <2>1. outbox # << >> /\ inbox' = inbox /\ log' = log \o Traced("TX", <<outbox[1]>>)
        /\ op = "idle"
    BY <1>2 DEF WriteFrame, WriteTraced, Idle
  <2>2. outbox = <<outbox[1]>>
    <3>1. outbox \in Seq(Path!Outbound) /\ Len(outbox) <= 1
      BY DEF SType, FlightTypes, Shape
    <3>. QED  BY <2>1, <3>1, OneOnly
  <2>. QED  BY <2>1, <2>2
<1>3. CASE ReadFrames
  <2>1. /\ op = "idle" /\ outbox = << >> /\ inbox = << >> /\ inbox' = Returned
        /\ log' = log \o Traced("RX", Returned)
    BY <1>3 DEF ReadFrames, ReadTraced, Idle
  <2>2. op' = op \/ (op' = "read" /\ taken' = taken)
    BY <1>3 DEF ReadFrames, Elm!ReadQueued, Elm!ReadWaits
  <2>. QED  BY <2>1, <2>2
<1>4. CASE Talks /\ op # "read"
  BY <1>4 DEF Talks
<1>5. CASE Talks /\ op = "read"
  <2>1. /\ inbox = << >> /\ outbox = << >> /\ inbox' = Returned
        /\ log' = log \o Traced("RX", Returned)
    BY <1>5 DEF Talks, SType, Shape, ReadTraced
  <2>2. todo = << >>
    BY <1>5 DEF Chan!EOrder, Chan!EType, Chan!CallerType
  <2>3. op' = "idle" \/ (op' = "read" /\ taken' = taken)
    BY <1>5, <2>2 DEF Talks, Elm!SendRaw, Elm!SendRawFails, Elm!SendRawFailsUnseen,
       Elm!WriteBreaks, Elm!Fetch, Elm!GetAnswer, Elm!caller
  <2>. QED  BY <1>5, <2>1, <2>3
<1>. QED  BY <1>1, <1>2, <1>3, <1>4, <1>5 DEF Moves

LEMMA NothingReturned ==
  ASSUME Chan!EOrder, taken' = taken
  PROVE  Returned = << >>
<1>1. taken \in Seq(Chan!Frames)
  BY DEF Chan!EOrder, Chan!EType, Chan!DeviceType
<1>2. << >> \in Seq(Chan!Frames) /\ taken' = taken \o << >>
  BY <1>1, JoinNone
<1>3. Returned = Carried(emitted, reported, << >>)
  BY <1>1, <1>2, ReturnedIs
<1>4. Len(<< >>) = 0
  OBVIOUS
<1>. QED  BY <1>3, <1>4 DEF Carried

LEMMA ReturnedTyped ==
  ASSUME Chan!EOrder, Chan!EOrder', SType, Moves
  PROVE  Returned \in Seq(Path!Inbound)
<1>1. PICK r \in Seq(Chan!Frames) :
        /\ Thins(r \o InChannel', InChannel) /\ Returned = Carried(emitted, reported, r)
  BY MovesThin
<1>2. PICK p : p = InChannel'
  OBVIOUS
<1>3. p \in Seq(Chan!Frames)
  BY <1>2, ChannelKnownThen DEF ChannelKnown
<1>4. r \o p \in Seq(Chan!Frames)
  BY <1>3, JoinIs
<1>5. /\ emitted \in Seq(Chan!Frames) /\ Chan!InTurn(emitted)
      /\ reported \in Seq(Path!Inbound) /\ Len(reported) = Len(emitted)
  BY ChannelIsKnown, Zenon DEF ChannelKnown, SType, FlightTypes, Counted
<1>6. InChannel \in Seq(Chan!Frames) /\ Among(InChannel, emitted)
  BY BroughtTyped
<1>7. Among(r \o p, emitted)
  BY <1>1, <1>2, <1>4, <1>5, <1>6, CarriedThins
<1>8. Thins(r, r \o p)
  BY <1>3, ThinBack
<1>9. Among(r, emitted)
  BY <1>4, <1>5, <1>7, <1>8, CarriedThins
<1>. QED  BY <1>1, <1>5, <1>9, CarriedFacts

LEMMA MovesTraces ==
  ASSUME Chan!EOrder, Chan!EOrder', SType, Moves
  PROVE  Traces' /\ inbox' \in Seq(Path!Inbound)
<1>1. Returned \in Seq(Path!Inbound) /\ Returned \in Seq(Ecu!SessionFrame)
  BY ReturnedTyped, FramesAre
<1>2. outbox \in Seq(Ecu!SessionFrame) /\ inbox \in Seq(Path!Inbound) /\ log \in Seq(Entry)
      /\ crossed \in Seq(Entry)
  BY FramesAre DEF SType, FlightTypes, Traces
<1>3. crossed' = crossed
  BY MovesStay
<1>4. Traced("TX", outbox) \in Seq(Entry) /\ Traced("RX", Returned) \in Seq(Entry)
  BY <1>1, <1>2, TracedTyped DEF Directions
<1>5. log \o Traced("TX", outbox) \in Seq(Entry) /\ log \o Traced("RX", Returned) \in Seq(Entry)
  BY <1>2, <1>4, ConcatFacts
<1>. QED  BY <1>1, <1>2, <1>3, <1>5, MovesTrace DEF Traces

\* The operations are carried out to their end.
LEMMA MovesOp ==
  ASSUME Chan!EOrder, SType, Moves
  PROVE  /\ \/ op' = op \/ op' = "idle"
            \/ op = "idle" /\ op' = "open" /\ ops = 0
            \/ op = "idle" /\ op' = "write" /\ outbox # << >>
            \/ op = "idle" /\ op' = "read" /\ outbox = << >> /\ inbox = << >>
         /\ outbox' = outbox \/ (outbox' = << >> /\ op' = "idle")
         /\ op' = "idle" /\ op # "idle" => outbox' = << >>
<1>1. CASE Connect
  BY <1>1 DEF Connect, Elm!Initialise, Elm!Starts, transport
<1>2. CASE WriteFrame
  BY <1>2 DEF WriteFrame, Idle, Elm!Write, Elm!WriteClosed, Elm!Starts
<1>3. CASE ReadFrames
  BY <1>3 DEF ReadFrames, Idle, Elm!ReadQueued, Elm!ReadWaits
<1>4. CASE Talks
  BY <1>4 DEF Talks, Elm!SendRaw, Elm!SendRawFails, Elm!SendRawFailsUnseen, Elm!Fetch,
     Elm!GetAnswer, Elm!NoAnswer, Elm!StepDone, Elm!StepFails, Elm!caller
<1>5. CASE GivesUp
  BY <1>5 DEF GivesUp, Elm!GiveUp, Elm!NoAnswer, Elm!StepDone, Elm!StepFails
<1>6. CASE AdapterAnswers \/ LoseToken
  BY <1>6 DEF AdapterAnswers, LoseToken, Elm!AdapterResets, Elm!AdapterObeys,
     Elm!AdapterRejects, Elm!LoseToken, Elm!caller, transport
<1>. QED  BY <1>1, <1>2, <1>3, <1>4, <1>5, <1>6 DEF Moves

LEMMA MovesStart ==
  ASSUME Chan!EOrder, SType, Moves
  PROVE  ops' # 0 \/ UNCHANGED <<ops, op, outbox, inbox>>
<1>1. ops \in Nat /\ (op = "idle" => ~waiting)
  BY ChannelAssumed DEF Chan!EOrder, Chan!EType, Chan!CallerType, Chan!ElmAssumption
<1>2. CASE Connect \/ WriteFrame \/ ReadFrames
  <2>1. ops' = ops + 1
    BY <1>2, Zenon DEF Connect, WriteFrame, ReadFrames, Elm!Initialise, Elm!Write,
       Elm!WriteClosed, Elm!ReadQueued, Elm!ReadWaits, Elm!Starts
  <2>. QED  BY <1>1, <2>1
<1>3. CASE Talks \/ GivesUp
  <2>1. op # "idle"
    BY <1>1, <1>3 DEF Talks, GivesUp, Elm!GiveUp
  <2>2. ops' = ops
    BY <1>3, Zenon DEF Talks, GivesUp, Elm!SendRaw, Elm!SendRawFails, Elm!SendRawFailsUnseen,
       Elm!Fetch, Elm!GetAnswer, Elm!GiveUp, Elm!caller
  <2>. QED  BY <2>1, <2>2 DEF SType, Shape
<1>4. CASE AdapterAnswers \/ LoseToken
  BY <1>4 DEF AdapterAnswers, LoseToken, transport, Elm!AdapterResets, Elm!AdapterObeys,
     Elm!AdapterRejects, Elm!LoseToken, Elm!caller
<1>. QED  BY <1>2, <1>3, <1>4 DEF Moves

LEMMA MovesShape ==
  ASSUME Chan!EOrder, SType, Moves
  PROVE  Shape'
<1>1. Len(outbox) <= 1 /\ Len(<< >>) <= 1
  BY DEF SType, Shape
<1>2. /\ \/ op' = op \/ op' = "idle"
         \/ op = "idle" /\ op' = "open" /\ outbox = << >>
         \/ op = "idle" /\ op' = "write" /\ outbox # << >>
         \/ op = "idle" /\ op' = "read" /\ outbox = << >> /\ inbox = << >>
      /\ outbox' = outbox \/ (outbox' = << >> /\ op' = "idle")
      /\ op' = "idle" /\ op # "idle" => outbox' = << >>
  BY MovesOp DEF SType, Shape
<1>3. \/ inbox' = inbox
      \/ inbox = << >> /\ outbox = << >> /\ (op' = "idle" \/ inbox' = << >>)
  BY MovesTrace, NothingReturned
<1>4. op' = "write" => outbox' # << >>
  BY <1>2 DEF SType, Shape
<1>5. op' \in {"read", "open"} => outbox' = << >>
  BY <1>2 DEF SType, Shape
<1>6. op' = "read" \/ outbox' # << >> => inbox' = << >>
  BY <1>2, <1>3 DEF SType, Shape
<1>7. ops' = 0 => op' = "idle" /\ outbox' = << >> /\ inbox' = << >>
  BY MovesStart DEF SType, Shape
<1>8. Len(outbox') <= 1
  BY <1>1, <1>2
<1>. QED  BY <1>4, <1>5, <1>6, <1>7, <1>8 DEF Shape

\* A command goes to the adapter, with its frame if it is a payload.
Given(x) ==
  /\ op # "idle" /\ todo # << >> /\ ~waiting /\ waiting' = TRUE
  /\ x \in Chan!Requests /\ x.step = Head(todo) /\ to_adapter' = Append(to_adapter, x)
  /\ content' = IF IsPayload(x) THEN content \o outbox ELSE content
  /\ UNCHANGED <<op, todo, outbox>>

\* The adapter has answered one.
IsAnswered ==
  /\ ~collecting /\ to_adapter # << >> /\ to_adapter' = Tail(to_adapter)
  /\ content' = IF IsPayload(Head(to_adapter)) THEN Tail(content) ELSE content
  /\ UNCHANGED <<op, todo, waiting, outbox>>

LEMMA MovesCommands ==
  ASSUME Chan!EOrder, Chan!EOrder', SType, Moves
  PROVE  \/ UNCHANGED <<to_adapter, content>>
         \/ \E x : Given(x)
         \/ IsAnswered
<1>1. to_adapter \in Seq(Chan!Requests) /\ Len(to_adapter) \in Nat
  BY DEF Chan!EOrder, Chan!EType, Chan!DeviceType
<1>2. CASE Connect \/ WriteFrame \/ ReadFrames \/ GivesUp \/ LoseToken
  BY <1>2 DEF Connect, WriteFrame, ReadFrames, GivesUp, LoseToken, listening, Elm!Initialise,
     Elm!Write, Elm!WriteClosed, Elm!ReadQueued, Elm!ReadWaits, Elm!GiveUp, Elm!LoseToken,
     Elm!device
<1>3. CASE Talks /\ Elm!SendRaw
  <2>1. PICK x : x = [step |-> Head(todo), cmd |-> given + 1,
                      text |-> Elm!Text(Head(todo).cmd)]
    OBVIOUS
  <2>2. x.step = Head(todo)
    BY <2>1
  <2>3. /\ op # "idle" /\ todo # << >> /\ ~waiting /\ waiting' = TRUE
        /\ to_adapter' = Append(to_adapter, x) /\ UNCHANGED <<op, todo, outbox>>
        /\ content' = IF Gives THEN content \o outbox ELSE content
    BY <1>3, <2>1 DEF Talks, Elm!SendRaw
  <2>4. x \in Chan!Requests
    <3>1. to_adapter' \in Seq(Chan!Requests)
      BY DEF Chan!EOrder, Chan!EType, Chan!DeviceType
    <3>. QED  BY <1>1, <2>3, <3>1, LastIn
  <2>5. Gives <=> IsPayload(x)
    <3>1. Len(to_adapter') = Len(to_adapter) + 1
      BY <1>1, <2>3, <2>4, AppendFacts
    <3>2. Len(to_adapter') > Len(to_adapter)
      BY <1>1, <3>1
    <3>. QED  BY <2>2, <2>3, <3>2 DEF Gives, IsPayload
  <2>. QED  BY <2>2, <2>3, <2>4, <2>5 DEF Given
<1>4. CASE Talks /\ ~Elm!SendRaw
  <2>1. to_adapter' = to_adapter
    BY <1>4 DEF Talks, Elm!SendRawFails, Elm!SendRawFailsUnseen, Elm!Fetch, Elm!GetAnswer,
       Elm!device
  <2>2. ~Gives
    BY <1>1, <2>1 DEF Gives
  <2>. QED  BY <1>4, <2>1, <2>2 DEF Talks
<1>5. CASE AdapterAnswers
  <2>1. /\ to_adapter # << >> /\ to_adapter' = Tail(to_adapter) /\ UNCHANGED <<op, todo, waiting>>
        /\ \/ Head(to_adapter).text # "whole"
           \/ Head(to_adapter).step.cmd \in Elm!AtCommands \cup Rejects \cup {"ATI"}
    BY <1>5 DEF AdapterAnswers, Elm!AdapterResets, Elm!AdapterObeys, Elm!AdapterRejects,
       Elm!Carries, Elm!Takes, Elm!caller, Elm!AtCommands
  <2>2. "payload" \notin Elm!AtCommands \cup Rejects \cup {"ATI"}
    BY ChannelAssumed DEF Chan!ElmAssumption, Elm!AtCommands, Chan!AtCommands
  <2>3. ~collecting
    BY <2>1, <2>2 DEF SType, Counted, IsPayload
  <2>. QED  BY <1>5, <2>1, <2>3 DEF AdapterAnswers, IsAnswered, IsPayload, transport
<1>. QED  BY <1>2, <1>3, <1>4, <1>5 DEF Moves

\* Only write() gives a payload, and last.
LEMMA GivenPayload ==
  ASSUME Chan!EOrder, SType, NEW x, Given(x), IsPayload(x)
  PROVE  op = "write" /\ Len(todo) = 1 /\ Len(outbox) = 1
<1>1. todo \in Seq(Chan!Steps) /\ Len(todo) \in Nat /\ Len(todo) > 0 /\ Head(todo) = todo[1]
  BY DEF Given, Chan!EOrder, Chan!EType, Chan!CallerType
<1>2. todo[1].cmd = "payload" /\ 1 \in 1..Len(todo)
  BY <1>1 DEF Given, IsPayload
<1>3. op = "write"
  BY <1>2 DEF Chan!EOrder, Chan!EType, Chan!CallerType, Chan!StepFits
<1>4. 1 = Len(todo)
  BY <1>2, <1>3 DEF SType, Counted
<1>5. outbox \in Seq(Path!Outbound) /\ Len(outbox) <= 1 /\ outbox # << >>
  BY <1>3 DEF SType, Shape, FlightTypes
<1>6. Len(outbox) = 1
  BY <1>5, OneOnly
<1>. QED  BY <1>3, <1>4, <1>6

LEMMA MovesContent ==
  ASSUME Chan!EOrder, Chan!EOrder', SType, Moves
  PROVE  /\ content' \in Seq(Path!Outbound) /\ Len(content') = Count(to_adapter')
         /\ collecting' => /\ to_adapter' # << >> /\ IsPayload(Head(to_adapter'))
                           /\ Head(to_adapter').text = "whole"
<1>1. /\ to_adapter \in Seq(Chan!Requests) /\ content \in Seq(Path!Outbound)
      /\ outbox \in Seq(Path!Outbound) /\ Len(content) = Count(to_adapter)
      /\ collecting => /\ to_adapter # << >> /\ IsPayload(Head(to_adapter))
                       /\ Head(to_adapter).text = "whole"
      /\ Len(content) \in Nat
  BY DEF Chan!EOrder, Chan!EType, Chan!DeviceType, SType, FlightTypes, Counted
<1>2. collecting' = collecting
  BY MovesStay
<1>3. CASE UNCHANGED <<to_adapter, content>>
  BY <1>1, <1>2, <1>3
<1>4. ASSUME NEW x, Given(x)
      PROVE  /\ content' \in Seq(Path!Outbound) /\ Len(content') = Count(to_adapter')
             /\ collecting' => /\ to_adapter' # << >> /\ IsPayload(Head(to_adapter'))
                               /\ Head(to_adapter').text = "whole"
  <2>1. x \in Chan!Requests /\ to_adapter' = Append(to_adapter, x)
        /\ content' = IF IsPayload(x) THEN content \o outbox ELSE content
    BY <1>4 DEF Given
  <2>2. Count(to_adapter') = Count(to_adapter) + (IF IsPayload(x) THEN 1 ELSE 0)
    BY <1>1, <2>1, CountAppend
  <2>3. collecting' => /\ to_adapter' # << >> /\ IsPayload(Head(to_adapter'))
                       /\ Head(to_adapter').text = "whole"
    <3>1. to_adapter # << >> => to_adapter' # << >> /\ Head(to_adapter') = Head(to_adapter)
      BY <1>1, <2>1
    <3>. QED  BY <1>1, <1>2, <3>1
  <2>4. CASE IsPayload(x)
    <3>1. Len(outbox) = 1
      BY <1>4, <2>4, GivenPayload
    <3>2. content \o outbox \in Seq(Path!Outbound)
          /\ Len(content \o outbox) = Len(content) + Len(outbox)
      BY <1>1, ConcatFacts
    <3>. QED  BY <1>1, <2>1, <2>2, <2>3, <2>4, <3>1, <3>2
  <2>5. CASE ~IsPayload(x)
    BY <1>1, <2>1, <2>2, <2>3, <2>5
  <2>. QED  BY <2>4, <2>5
<1>5. CASE IsAnswered
  <2>1. /\ ~collecting /\ to_adapter # << >> /\ to_adapter' = Tail(to_adapter)
        /\ content' = IF IsPayload(Head(to_adapter)) THEN Tail(content) ELSE content
    BY <1>5 DEF IsAnswered
  <2>2. CASE IsPayload(Head(to_adapter))
    BY <1>2, <2>1, <2>2, ContentHead
  <2>3. CASE ~IsPayload(Head(to_adapter))
    <3>1. Count(to_adapter) = Count(Tail(to_adapter)) + 0
      BY <1>1, <2>1, <2>3, CountTail
    <3>2. Tail(to_adapter) \in Seq(Chan!Requests)
      BY <1>1, <2>1
    <3>3. Count(Tail(to_adapter)) \in Nat
      BY <3>2, CountTyped
    <3>. QED  BY <1>1, <1>2, <2>1, <2>3, <3>1, <3>3
  <2>. QED  BY <2>2, <2>3
<1>. QED  BY <1>3, <1>4, <1>5, MovesCommands

\* The commands that an operation has still to give.
LEMMA MovesTodo ==
  ASSUME Chan!EOrder, SType, Moves, op' = "write"
  PROVE  \/ op = "write" /\ todo' = todo
         \/ op = "write" /\ todo # << >> /\ todo' = Tail(todo)
         \/ /\ op = "idle" /\ waiting' = waiting
            /\ \E id \in {TheId} :
                 todo' = Elm!If(Elm!NeedsHeader(id), <<[Elm!Step("ATSH", "ok") EXCEPT !.id = id]>>)
                           \o <<[Elm!Step("payload", "reply") EXCEPT !.id = id]>>
<1>1. op = "write" => todo # << >>
  BY DEF Chan!EOrder, Chan!EType, Chan!CallerType
<1>2. CASE WriteFrame
  <2>1. op = "idle" /\ (Elm!Write \/ Elm!WriteClosed)
    BY <1>2 DEF WriteFrame, Idle
  <2>. QED  BY <2>1 DEF Elm!Write, Elm!WriteClosed
<1>3. CASE Connect \/ ReadFrames
  BY <1>3 DEF Connect, ReadFrames, Idle, Elm!Initialise, Elm!ReadQueued, Elm!ReadWaits
<1>4. CASE Talks
  BY <1>1, <1>4 DEF Talks, Elm!SendRaw, Elm!SendRawFails, Elm!SendRawFailsUnseen, Elm!Fetch,
     Elm!GetAnswer, Elm!NoAnswer, Elm!StepDone, Elm!StepFails, Elm!caller
<1>5. CASE GivesUp
  BY <1>1, <1>5 DEF GivesUp, Elm!GiveUp, Elm!NoAnswer, Elm!StepDone, Elm!StepFails
<1>6. CASE AdapterAnswers \/ LoseToken
  BY <1>6 DEF AdapterAnswers, LoseToken, Elm!AdapterResets, Elm!AdapterObeys,
     Elm!AdapterRejects, Elm!LoseToken, Elm!caller
<1>. QED  BY <1>2, <1>3, <1>4, <1>5, <1>6 DEF Moves

LEMMA WriteScript ==
  ASSUME NEW id, NEW t,
         t = Elm!If(Elm!NeedsHeader(id), <<[Elm!Step("ATSH", "ok") EXCEPT !.id = id]>>)
               \o <<[Elm!Step("payload", "reply") EXCEPT !.id = id]>>
  PROVE  \A i \in 1..Len(t) : t[i].cmd = "payload" <=> i = Len(t)
<1>1. PICK p : p = [Elm!Step("payload", "reply") EXCEPT !.id = id]
  OBVIOUS
<1>2. PICK h : h = [Elm!Step("ATSH", "ok") EXCEPT !.id = id]
  OBVIOUS
<1>3. p.cmd = "payload" /\ h.cmd = "ATSH"
  BY <1>1, <1>2 DEF Elm!Step
<1>4. PICK b : b = <<p>>
  OBVIOUS
<1>5. CASE Elm!NeedsHeader(id)
  <2>1. t = <<h>> \o <<p>>
    BY <1>1, <1>2, <1>5 DEF Elm!If
  <2>2. IsTwo(<<h>> \o <<p>>, h, p)
    BY TwoOf
  <2>3. Len(t) = 2 /\ t[1] = h /\ t[2] = p
    BY <2>1, <2>2 DEF IsTwo
  <2>4. \A i \in 1..Len(t) : i = 1 \/ i = 2
    BY <2>3
  <2>. QED  BY <1>3, <2>3, <2>4
<1>6. CASE ~Elm!NeedsHeader(id)
  <2>1. t = << >> \o b
    BY <1>1, <1>4, <1>6 DEF Elm!If
  <2>2. b \in Seq({p}) /\ Len(b) = 1 /\ b[1] = p
    BY <1>4
  <2>3. Len(t) = 1 /\ t[1] = p
    BY <2>1, <2>2, JoinNone
  <2>4. \A i \in 1..Len(t) : i = 1
    BY <2>3
  <2>. QED  BY <1>3, <2>3, <2>4
<1>. QED  BY <1>5, <1>6

LEMMA MovesCounted ==
  ASSUME Chan!EOrder, Chan!EOrder', SType, Moves
  PROVE  Counted'
<1>1. Len(reported') = Len(emitted')
  BY MovesChannel DEF SType, Counted
<1>2. collecting' \in BOOLEAN
  BY MovesStay DEF SType, Counted
<1>3. silent' \in BOOLEAN
  <2>1. silent \in BOOLEAN
    BY DEF SType, Counted
  <2>2. silent' \in {silent, ~open_, TRUE} \cup BOOLEAN
    BY DEF Moves, Connect, WriteFrame, ReadFrames, Talks, GivesUp, AdapterAnswers, LoseToken
  <2>. QED  BY <2>1, <2>2
<1>4. ASSUME op' = "write"
      PROVE  \A i \in 1..Len(todo') : todo'[i].cmd = "payload" <=> i = Len(todo')
  <2>1. PICK t : t = todo'
    OBVIOUS
  <2>2. todo \in Seq(Chan!Steps)
    BY DEF Chan!EOrder, Chan!EType, Chan!CallerType
  <2>3. CASE op = "write" /\ t = todo
    BY <2>1, <2>3 DEF SType, Counted
  <2>4. CASE op = "write" /\ todo # << >> /\ t = Tail(todo)
    <3>1. Len(t) = Len(todo) - 1 /\ Len(todo) \in Nat /\ \A i \in 1..Len(t) : t[i] = todo[i + 1]
      BY <2>2, <2>4
    <3>2. \A i \in 1..Len(todo) : todo[i].cmd = "payload" <=> i = Len(todo)
      BY <2>4 DEF SType, Counted
    <3>3. ASSUME NEW i \in 1..Len(t) PROVE t[i].cmd = "payload" <=> i = Len(t)
      <4>1. i + 1 \in 1..Len(todo) /\ (i + 1 = Len(todo) <=> i = Len(t))
        BY <3>1
      <4>. QED  BY <3>1, <3>2, <4>1
    <3>. QED  BY <2>1, <3>3
  <2>5. CASE \E id \in {TheId} :
               t = Elm!If(Elm!NeedsHeader(id), <<[Elm!Step("ATSH", "ok") EXCEPT !.id = id]>>)
                     \o <<[Elm!Step("payload", "reply") EXCEPT !.id = id]>>
    BY <2>1, <2>5, WriteScript
  <2>. QED  BY <1>4, <2>1, <2>3, <2>4, <2>5, MovesTodo
<1>. QED  BY <1>1, <1>2, <1>3, <1>4, MovesContent DEF Counted

LEMMA MovesTyped ==
  ASSUME Chan!EOrder, Chan!EOrder', SType, Moves
  PROVE  SType'
<1>1. early' \in 0..MaxEarly
  BY MovesStay DEF SType, Path!LuckType
<1>2. Path!TesterType' /\ Path!EcuType' /\ Path!LuckType'
  BY <1>1, MovesStay, SameRest
<1>3. FlightTypes'
  <2>1. outbox' \in Seq(Path!Outbound)
    <3>1. << >> \in Seq(Path!Outbound) /\ outbox \in Seq(Path!Outbound)
      BY DEF SType, FlightTypes
    <3>. QED  BY <3>1, MovesOp
  <2>2. UNCHANGED <<rx_buf_, collected, canwire, reported, canbus>>
    BY MovesStay
  <2>3. inbox' \in Seq(Path!Inbound) /\ content' \in Seq(Path!Outbound)
    BY MovesTraces, MovesContent
  <2>. QED  BY <2>1, <2>2, <2>3 DEF SType, FlightTypes
<1>. QED  BY <1>2, <1>3, MovesTraces, MovesShape, MovesCounted DEF SType

-----------------------------------------------------------------------------
(* The types are kept: by the adapter.                                      *)

\* What stays as it is.
LEMMA TypedPart ==
  ASSUME SType, Chan!EOrder', UNCHANGED <<transport, silent, log, ecu, foreign, held, native>>,
         early' \in 0..MaxEarly, UNCHANGED <<op, todo, ops>>
  PROVE  /\ Path!TesterType' /\ Path!EcuType' /\ Path!LuckType' /\ Shape'
         /\ rx_buf_' \in Seq(Path!Inbound) /\ inbox' \in Seq(Path!Inbound)
         /\ outbox' \in Seq(Path!Outbound) /\ log' \in Seq(Entry) /\ silent' \in BOOLEAN
         /\ op' = "write" => \A i \in 1..Len(todo') : todo'[i].cmd = "payload" <=> i = Len(todo')
<1>1. UNCHANGED <<req, pc, idx, total, out, expected_sn, answers, rx_buf_, inbox, outbox>>
  BY DEF transport
<1>2. Path!TesterType' /\ Path!EcuType' /\ Path!LuckType'
  BY <1>1, SameRest
<1>3. Shape'
  BY <1>1 DEF SType, Shape
<1>. QED  BY <1>1, <1>2, <1>3 DEF SType, FlightTypes, Traces, Counted

LEMMA EarlyIs == SType => early \in 0..MaxEarly
BY DEF SType, Path!LuckType

LEMMA SendsTyped ==
  ASSUME Chan!EOrder, Chan!EOrder', SType, AdapterSends
  PROVE  SType'
<1>1. /\ to_adapter # << >> /\ IsPayload(Head(to_adapter)) /\ Head(to_adapter).text = "whole"
      /\ collecting' = TRUE /\ collected' = << >> /\ canbus' = Append(canbus, Head(content))
      /\ crossed' = crossed \o Traced("TX", <<Head(content)>>)
      /\ UNCHANGED <<transport, silent, log, channel, content, reported, canwire, ecu, foreign,
                     held, early, failures, native>>
  BY DEF AdapterSends, IsPayload
<1>2. /\ Path!TesterType' /\ Path!EcuType' /\ Path!LuckType' /\ Shape'
      /\ rx_buf_' \in Seq(Path!Inbound) /\ inbox' \in Seq(Path!Inbound)
      /\ outbox' \in Seq(Path!Outbound) /\ log' \in Seq(Entry) /\ silent' \in BOOLEAN
      /\ op' = "write" => \A i \in 1..Len(todo') : todo'[i].cmd = "payload" <=> i = Len(todo')
  <2>1. UNCHANGED <<op, todo, ops>>
    BY <1>1 DEF channel
  <2>. QED  BY <1>1, <2>1, TypedPart, EarlyIs
<1>3. PICK f \in Path!Outbound : f = Head(content)
  BY <1>1, ContentHead
<1>4. FlightTypes'
  <2>1. canbus \in Seq(Path!Outbound) /\ Append(canbus, f) \in Seq(Path!Outbound)
    BY DEF SType, FlightTypes
  <2>2. << >> \in Seq(Path!Inbound)
    OBVIOUS
  <2>3. canwire \in Seq(Path!Inbound) /\ reported \in Seq(Path!Inbound)
        /\ content \in Seq(Path!Outbound)
    BY DEF SType, FlightTypes
  <2>4. /\ canbus' \in Seq(Path!Outbound) /\ collected' \in Seq(Path!Inbound)
        /\ canwire' \in Seq(Path!Inbound) /\ reported' \in Seq(Path!Inbound)
        /\ content' \in Seq(Path!Outbound)
    BY <1>1, <1>3, <2>1, <2>2, <2>3
  <2>. QED  BY <1>2, <2>4 DEF FlightTypes
<1>5. Traces'
  <2>1. f \in Ecu!SessionFrame /\ <<f>> \in Seq(Ecu!SessionFrame)
    BY FramesAre
  <2>2. Traced("TX", <<f>>) \in Seq(Entry)
    BY <2>1, TracedTyped DEF Directions
  <2>3. crossed \in Seq(Entry)
    BY DEF SType, Traces
  <2>4. crossed \o Traced("TX", <<f>>) \in Seq(Entry)
    BY <2>2, <2>3, ConcatFacts
  <2>. QED  BY <1>1, <1>2, <1>3, <2>4 DEF Traces
<1>6. Counted'
  <2>1. to_adapter' = to_adapter /\ emitted' = emitted /\ reported' = reported /\ content' = content
    BY <1>1 DEF channel
  <2>. QED  BY <1>1, <1>2, <2>1 DEF SType, Counted
<1>. QED  BY <1>2, <1>4, <1>5, <1>6 DEF SType

LEMMA HearsTyped ==
  ASSUME Chan!EOrder, Chan!EOrder', SType, AdapterHears
  PROVE  SType'
<1>1. /\ canwire # << >> /\ canwire' = Tail(canwire)
      /\ collected' = collected \/ collected' = Append(collected, Head(canwire))
      /\ UNCHANGED <<transport, silent, log, channel, content, collecting, reported, canbus,
                     crossed, ecu, foreign, held, early, failures, native>>
  BY DEF AdapterHears
<1>2. /\ Path!TesterType' /\ Path!EcuType' /\ Path!LuckType' /\ Shape'
      /\ rx_buf_' \in Seq(Path!Inbound) /\ inbox' \in Seq(Path!Inbound)
      /\ outbox' \in Seq(Path!Outbound) /\ log' \in Seq(Entry) /\ silent' \in BOOLEAN
      /\ op' = "write" => \A i \in 1..Len(todo') : todo'[i].cmd = "payload" <=> i = Len(todo')
  <2>1. UNCHANGED <<op, todo, ops>>
    BY <1>1 DEF channel
  <2>. QED  BY <1>1, <2>1, TypedPart, EarlyIs
<1>3. canwire \in Seq(Path!Inbound) /\ collected \in Seq(Path!Inbound)
  BY DEF SType, FlightTypes
<1>4. canwire' \in Seq(Path!Inbound) /\ collected' \in Seq(Path!Inbound)
  <2>1. Tail(canwire) \in Seq(Path!Inbound) /\ Head(canwire) \in Path!Inbound
    BY <1>1, <1>3
  <2>. QED  BY <1>1, <1>3, <2>1, AppendFacts
<1>5. FlightTypes' /\ Traces'
  BY <1>1, <1>2, <1>4 DEF SType, FlightTypes, Traces
<1>6. Counted'
  BY <1>1, <1>2 DEF SType, Counted, channel
<1>. QED  BY <1>2, <1>5, <1>6 DEF SType

LEMMA ReportsIs ==
  ASSUME Chan!EOrder, RoomLeft, SType, AdapterReports
  PROVE  /\ collecting /\ collecting' = FALSE /\ to_adapter # << >>
         /\ to_adapter' = Tail(to_adapter) /\ content' = Tail(content)
         /\ reported' = reported \o collected /\ collected' = << >>
         /\ Chan!FramesFor(Len(collected)) \in Seq(Chan!Frames)
         /\ Len(Chan!FramesFor(Len(collected))) = Len(collected)
         /\ emitted' = emitted \o Chan!FramesFor(Len(collected))
         /\ Len(collected) \in 0..MaxFrames /\ Chan!Transmits(Len(collected))
         /\ early' \in 0..MaxEarly
         /\ UNCHANGED <<transport, silent, log, can, op, todo, waiting, ops, taken, rx_queue_,
                        rx_accum_, failures>>
<1>1. /\ collecting /\ collecting' = FALSE /\ content' = Tail(content)
      /\ reported' = reported \o collected /\ collected' = << >>
      /\ UNCHANGED <<transport, silent, log, can>>
      /\ Elm!Transmits(Len(collected))
      /\ early' = early \/ (early < MaxEarly /\ early' = early + 1)
  BY DEF AdapterReports, Ecu!TooEarly
<1>2. PICK n : n = Len(collected)
  OBVIOUS
<1>3. n \in 0..MaxFrames
  BY <1>2, ChannelAssumed DEF RoomLeft, Chan!ElmAssumption
<1>4. Chan!Transmits(n)
  BY <1>1, <1>2 DEF Elm!Transmits, Chan!Transmits, Elm!Takes, Chan!Takes, Elm!Line, Chan!Line,
     Elm!Prompt, Chan!Prompt, Elm!caller, Chan!caller, Elm!channel, Chan!channel
<1>5. /\ Chan!Takes({"payload"}, {"whole", "glued"})
      /\ Chan!FramesFor(n) \in Seq(Chan!Frames) /\ Len(Chan!FramesFor(n)) = n
      /\ emitted' = emitted \o Chan!FramesFor(n)
      /\ stream' = stream \o Chan!LinesFor(n) \o <<Chan!Prompt>>
      /\ UNCHANGED <<Chan!caller, Chan!channel, adapter, taken, failures>>
  <2>1. Chan!EType
    BY DEF Chan!EOrder
  <2>. QED  BY <1>3, <1>4, <2>1, Chan!TransmitsFacts, ChannelAssumed DEF Chan!ElmAssumption
<1>6. early' \in 0..MaxEarly
  <2>1. early \in 0..MaxEarly /\ MaxEarly \in Nat
    BY EarlyIs, PathAssumed DEF Path!SessionAssumption
  <2>. QED  BY <1>1, <2>1
<1>. QED  BY <1>1, <1>2, <1>3, <1>4, <1>5, <1>6 DEF Chan!Takes, Chan!caller, Chan!channel

LEMMA ReportsTyped ==
  ASSUME Chan!EOrder, Chan!EOrder', RoomLeft, SType, AdapterReports
  PROVE  SType'
<1>1. /\ collecting /\ collecting' = FALSE /\ to_adapter # << >>
      /\ to_adapter' = Tail(to_adapter) /\ content' = Tail(content)
      /\ reported' = reported \o collected /\ collected' = << >>
      /\ early' \in 0..MaxEarly
      /\ UNCHANGED <<transport, silent, log, can, op, todo, ops>>
  BY ReportsIs
<1>2. PICK e, f : /\ e = emitted /\ f = Chan!FramesFor(Len(collected))
                  /\ f \in Seq(Chan!Frames) /\ Len(f) = Len(collected) /\ emitted' = e \o f
  BY ReportsIs
<1>3. /\ Path!TesterType' /\ Path!EcuType' /\ Path!LuckType' /\ Shape'
      /\ rx_buf_' \in Seq(Path!Inbound) /\ inbox' \in Seq(Path!Inbound)
      /\ outbox' \in Seq(Path!Outbound) /\ log' \in Seq(Entry) /\ silent' \in BOOLEAN
      /\ op' = "write" => \A i \in 1..Len(todo') : todo'[i].cmd = "payload" <=> i = Len(todo')
  BY <1>1, TypedPart DEF can
<1>4. Tail(content) \in Seq(Path!Outbound) /\ Len(Tail(content)) = Count(Tail(to_adapter))
  <2>1. IsPayload(Head(to_adapter))
    BY <1>1 DEF SType, Counted
  <2>. QED  BY <1>1, <2>1, ContentHead
<1>5. /\ reported \in Seq(Path!Inbound) /\ collected \in Seq(Path!Inbound)
      /\ canbus \in Seq(Path!Outbound) /\ canwire \in Seq(Path!Inbound)
      /\ crossed \in Seq(Entry) /\ Len(reported) = Len(e)
  BY <1>2 DEF SType, FlightTypes, Traces, Counted
<1>6. reported \o collected \in Seq(Path!Inbound)
      /\ Len(reported \o collected) = Len(reported) + Len(collected)
  BY <1>5, ConcatFacts
<1>7. e \in Seq(Chan!Frames) /\ Len(e \o f) = Len(e) + Len(f)
  <2>1. e \in Seq(Chan!Frames)
    BY <1>2 DEF Chan!EOrder, Chan!EType, Chan!DeviceType
  <2>. QED  BY <1>2, <2>1, ConcatFacts
<1>8. FlightTypes'
  <2>1. << >> \in Seq(Path!Inbound)
    OBVIOUS
  <2>2. /\ reported' \in Seq(Path!Inbound) /\ collected' \in Seq(Path!Inbound)
        /\ content' \in Seq(Path!Outbound) /\ canbus' \in Seq(Path!Outbound)
        /\ canwire' \in Seq(Path!Inbound)
    BY <1>1, <1>4, <1>5, <1>6, <2>1 DEF can
  <2>. QED  BY <1>3, <2>2 DEF FlightTypes
<1>9. Traces'
  BY <1>1, <1>3, <1>5 DEF Traces, can
<1>10. Counted'
  <2>1. Len(reported') = Len(emitted')
    BY <1>1, <1>2, <1>5, <1>6, <1>7
  <2>. QED  BY <1>1, <1>3, <1>4, <2>1 DEF Counted
<1>. QED  BY <1>3, <1>8, <1>9, <1>10 DEF SType

-----------------------------------------------------------------------------
(* Type correctness.                                                        *)

LEMMA InitTyped == Init => SType /\ RoomLeft
<1>. SUFFICES ASSUME Init PROVE SType /\ RoomLeft
  OBVIOUS
<1>1. Transport!Init /\ Ecu!Init /\ Elm!Init
  BY DEF Init
<1>2. /\ silent = FALSE /\ log = << >> /\ content = << >> /\ collecting = FALSE
      /\ collected = << >> /\ reported = << >> /\ crossed = << >>
  BY DEF Init
<1>3. RoomLeft
  <2>1. MaxFrames \in Nat
    BY ChannelAssumed DEF Chan!ElmAssumption
  <2>. QED  BY <1>2, <2>1 DEF RoomLeft
<1>4. /\ op = "idle" /\ emitted = << >> /\ to_adapter = << >> /\ rx_queue_ = << >>
      /\ rx_accum_ = << >> /\ stream = << >>
  BY <1>1 DEF Elm!Init
<1>5. /\ rx_buf_ = << >> /\ inbox = << >> /\ outbox = << >> /\ canbus = << >> /\ canwire = << >>
  BY <1>1 DEF Transport!Init, Ecu!Init
<1>6. Path!TesterType
  BY <1>1, Path!Sizes, PathAssumed DEF Transport!Init, Path!TesterType, Path!Nibble,
     Path!SessionAssumption, Path!PaddingAssumption
<1>7. Path!EcuType /\ Path!LuckType
  BY <1>1, Path!Sizes, PathAssumed DEF Transport!Init, Ecu!Init, Path!EcuType, Path!LuckType,
     Path!SessionAssumption, Path!PaddingAssumption
<1>8. FlightTypes /\ Traces
  BY <1>2, <1>5 DEF FlightTypes, Traces
<1>9. Shape
  BY <1>4, <1>5 DEF Shape
<1>10. Counted
  BY <1>2, <1>4, CountNone DEF Counted
<1>. QED  BY <1>3, <1>6, <1>7, <1>8, <1>9, <1>10 DEF SType

LEMMA StutterTyped ==
  ASSUME SType, UNCHANGED vars
  PROVE  SType'
<1>1. UNCHANGED <<transport, silent, log, channel, listening, can, early, failures>>
  BY DEF vars
<1>2. UNCHANGED Path!tester /\ UNCHANGED <<ecu, native>>
  BY <1>1 DEF transport, can, Path!tester
<1>3. Path!TesterType' /\ Path!EcuType'
  BY <1>2, Path!TesterSame, Path!EcuSame, PathAssumed DEF SType, Path!SessionAssumption,
     Path!PaddingAssumption
<1>4. Path!LuckType'
  BY <1>1 DEF SType, Path!LuckType, can
<1>5. FlightTypes' /\ Traces'
  BY <1>1 DEF SType, FlightTypes, Traces, transport, listening, can
<1>6. Shape' /\ Counted'
  BY <1>1 DEF SType, Shape, Counted, transport, channel, listening
<1>. QED  BY <1>3, <1>4, <1>5, <1>6 DEF SType

\* The inductive invariant: the types, together with what the channel keeps by itself.
LEMMA StepTyped ==
  Chan!EOrder /\ Chan!EOrder' /\ SType /\ RoomLeft /\ [Next]_vars => SType' /\ RoomLeft'
<1>. SUFFICES ASSUME Chan!EOrder, Chan!EOrder', SType, RoomLeft, [Next]_vars
              PROVE  SType' /\ RoomLeft'
  OBVIOUS
<1>1. CASE Thinks
  BY <1>1, ThinksTyped, RoomStays
<1>2. CASE ReadTimesOut
  BY <1>2, ReadTimesOutTyped, RoomStays
<1>3. CASE Moves
  BY <1>3, MovesTyped, RoomStays
<1>4. CASE AdapterSends
  BY <1>4, SendsTyped, RoomStays
<1>5. CASE AdapterHears
  BY <1>5, HearsTyped, RoomStays
<1>6. CASE AdapterReports
  BY <1>6, ReportsTyped, RoomStays
<1>7. CASE EcuActs
  BY <1>7, EcuActsTyped, RoomStays
<1>8. CASE UNCHANGED vars
  BY <1>8, StutterTyped, RoomStays
<1>. QED  BY <1>1, <1>2, <1>3, <1>4, <1>5, <1>6, <1>7, <1>8
          DEF Next, Tester, Adapter, Moves, Finished

LEMMA TypesImply == Chan!EOrder /\ SType => TypeOK
<1>. SUFFICES ASSUME Chan!EOrder, SType PROVE TypeOK
  OBVIOUS
<1>1. Elm!TypeOK
  <2>1. Chan!TypeOK
    BY Chan!TypesImply, ChannelAssumed DEF Chan!ElmAssumption, Chan!EOrder
  <2>. QED  BY <2>1 DEF Chan!TypeOK, Elm!TypeOK, Elm!Steps, Chan!Steps, Elm!Tokens, Chan!Tokens,
            Elm!Frames, Chan!Frames, Elm!Texts, Chan!Texts, Elm!NoId, Chan!NoId, Elm!Id, Chan!Id,
            Elm!AtCommands, Chan!AtCommands, Elm!Needs, Chan!Needs, Elm!Line, Chan!Line,
            Elm!Prompt, Chan!Prompt, Elm!Starts, Chan!Starts
<1>2. /\ rx_buf_ \in Seq(Ecu!SessionFrame) /\ inbox \in Seq(Ecu!SessionFrame)
      /\ outbox \in Seq(Ecu!SessionFrame) /\ canbus \in Seq(Ecu!SessionFrame)
      /\ canwire \in Seq(Ecu!SessionFrame) /\ collected \in Seq(Ecu!SessionFrame)
      /\ reported \in Seq(Ecu!SessionFrame)
  BY FramesAre DEF SType, FlightTypes
<1>3. native = FALSE
  BY DEF SType, Path!LuckType
<1>4. /\ Path!SessionFrame = Ecu!SessionFrame /\ Transport!SessionFrame = Ecu!SessionFrame
      /\ Path!Nibble = Ecu!Nibble /\ Transport!Nibble = Ecu!Nibble
      /\ Path!Requests = Ecu!Requests /\ Transport!Requests = Ecu!Requests
      /\ Path!MaxLength = Ecu!MaxLength /\ Transport!MaxLength = Ecu!MaxLength
  BY SameFrames DEF Ecu!SessionFrame, Transport!SessionFrame, Ecu!Nibble, Path!Nibble,
     Transport!Nibble, Ecu!Requests, Path!Requests, Transport!Requests, Ecu!MaxLength,
     Path!MaxLength, Transport!MaxLength, Ecu!SnMod, Path!SnMod, Transport!SnMod
<1>5. Path!Result = Ecu!Result /\ Transport!Result = Ecu!Result
  BY <1>4 DEF Path!Result, Ecu!Result, Transport!Result
<1>6. Ecu!TypeOK
  BY <1>2, <1>3, <1>4, <1>5 DEF SType, Path!TesterType, Path!EcuType, Path!LuckType, Ecu!TypeOK
<1>7. Transport!TypeOK
  BY <1>2, <1>3, <1>4, <1>5 DEF SType, Path!TesterType, Path!LuckType, Transport!TypeOK
<1>8. Len(content) = Cardinality(Payloads)
  BY DEF SType, Counted, Count, PayloadsOf, IsPayload, Payloads
<1>9. log \in Seq([dir: Directions, frame: Ecu!SessionFrame])
      /\ crossed \in Seq([dir: Directions, frame: Ecu!SessionFrame])
  BY DEF SType, Traces, Entry
<1>10. Len(outbox) <= 1 /\ silent \in BOOLEAN /\ collecting \in BOOLEAN
  BY DEF SType, Shape, Counted
<1>. QED  BY <1>1, <1>2, <1>6, <1>7, <1>8, <1>9, <1>10 DEF TypeOK

LEMMA Typed == Spec => [](Chan!EOrder /\ SType /\ RoomLeft)
<1>1. Init => SType /\ RoomLeft
  BY InitTyped
<1>2. Chan!EOrder /\ Chan!EOrder' /\ SType /\ RoomLeft /\ [Next]_vars => SType' /\ RoomLeft'
  BY StepTyped
<1>. QED  BY <1>1, <1>2, ChannelOrdered, PTL DEF Spec

\* TypeOK holds in every reachable state: each payload that the adapter has been given
\* has one frame, and there is never more than one frame that write() has not given away.
THEOREM TypeCorrect == Spec => []TypeOK
<1>1. Chan!EOrder /\ SType /\ RoomLeft => TypeOK
  BY TypesImply
<1>. QED  BY <1>1, Typed, PTL

-----------------------------------------------------------------------------
(* On the way to the transport frames are lost, and none come.              *)

\* What a step of the channel takes out of it, and what it leaves there.
LEMMA MovesFrames ==
  ASSUME Chan!EOrder, Chan!EOrder', SType, Moves
  PROVE  /\ Returned \in Seq(Path!Inbound) /\ Brought(InChannel)' \in Seq(Path!Inbound)
         /\ Brought(InChannel) \in Seq(Path!Inbound)
         /\ Thins(Returned \o Brought(InChannel)', Brought(InChannel))
         /\ Thins(Brought(InChannel)', Brought(InChannel))
<1>1. PICK r \in Seq(Chan!Frames) :
        /\ Thins(r \o InChannel', InChannel) /\ Returned = Carried(emitted, reported, r)
  BY MovesThin
<1>2. PICK p, s : p = InChannel' /\ s = InChannel
  OBVIOUS
<1>3. p \in Seq(Chan!Frames) /\ Thins(r \o p, s)
  BY <1>1, <1>2, ChannelKnownThen DEF ChannelKnown
<1>4. r \o p \in Seq(Chan!Frames) /\ Thins(r, r \o p) /\ Thins(p, r \o p)
  BY <1>3, JoinIs, ThinBack, ThinFront
<1>5. /\ emitted \in Seq(Chan!Frames) /\ Chan!InTurn(emitted)
      /\ reported \in Seq(Path!Inbound) /\ Len(reported) = Len(emitted)
  BY ChannelIsKnown DEF ChannelKnown, SType, FlightTypes, Counted
<1>6. s \in Seq(Chan!Frames) /\ Among(s, emitted)
  BY <1>2, BroughtTyped
<1>7. /\ Among(r \o p, emitted)
      /\ Thins(Carried(emitted, reported, r \o p), Carried(emitted, reported, s))
  BY <1>3, <1>4, <1>5, <1>6, CarriedThins
<1>8. Among(r, emitted) /\ Among(p, emitted)
  BY <1>3, <1>4, <1>5, <1>7, CarriedThins
<1>9. PICK a, b, c : /\ a = Carried(emitted, reported, r) /\ b = Carried(emitted, reported, p)
                     /\ c = Carried(emitted, reported, s)
  OBVIOUS
<1>10. /\ a \in Seq(Path!Inbound) /\ b \in Seq(Path!Inbound) /\ c \in Seq(Path!Inbound)
       /\ Carried(emitted, reported, r \o p) = a \o b
  <2>1. a \in Seq(Path!Inbound)
    BY <1>5, <1>8, <1>9, CarriedFacts
  <2>2. b \in Seq(Path!Inbound)
    BY <1>3, <1>5, <1>8, <1>9, CarriedFacts
  <2>3. c \in Seq(Path!Inbound)
    BY <1>5, <1>6, <1>9, CarriedFacts
  <2>4. Carried(emitted, reported, r \o p)
          = Carried(emitted, reported, r) \o Carried(emitted, reported, p)
    BY <1>3, <1>5, <1>8, CarriedJoined
  <2>. QED  BY <1>9, <2>1, <2>2, <2>3, <2>4
<1>11. Thins(a \o b, c)
  BY <1>7, <1>9, <1>10
<1>12. Thins(b, c)
  BY <1>10, <1>11, ThinFront, ThinTwice, JoinIs
<1>13. Brought(InChannel)' = b /\ Brought(InChannel) = c /\ Returned = a
  <2>1. emitted' = emitted /\ reported' = reported
    BY MovesChannel
  <2>. QED  BY <1>1, <1>2, <1>9, <2>1 DEF Brought
<1>. QED  BY <1>10, <1>11, <1>12, <1>13

LEMMA MovesToTester ==
  ASSUME Chan!EOrder, Chan!EOrder', SType, SType', Moves
  PROVE  Thins(ToTester', ToTester)
<1>1. PICK a, b, c \in Seq(Path!Inbound) :
        a = Returned /\ b = Brought(InChannel)' /\ c = Brought(InChannel)
  BY MovesFrames
<1>2. Thins(a \o b, c) /\ Thins(b, c)
  BY <1>1, MovesFrames
<1>3. PICK i, r \in Seq(Path!Inbound) : i = inbox /\ r = collected \o canwire
  BY ConcatFacts DEF SType, FlightTypes
<1>4. collected' \o canwire' = r
  BY <1>3, MovesStay
<1>5. ToTester = i \o (c \o r) /\ ToTester' = inbox' \o (b \o r)
  <2>1. PICK x, y, z : x = inbox' /\ y = collected' /\ z = canwire'
    OBVIOUS
  <2>2. ToTester' = x \o (b \o (y \o z))
    BY <1>1, <2>1 DEF ToTester
  <2>. QED  BY <1>1, <1>3, <1>4, <2>1, <2>2 DEF ToTester
<1>6. CASE inbox' = inbox
  <2>1. b \o r \in Seq(Path!Inbound) /\ c \o r \in Seq(Path!Inbound) /\ Thins(b \o r, c \o r)
    BY <1>1, <1>2, <1>3, ThinWithRest, JoinIs
  <2>2. Thins(i \o (b \o r), i \o (c \o r))
    BY <1>3, <2>1, ThinBehind
  <2>. QED  BY <1>3, <1>5, <1>6, <2>2
<1>7. CASE inbox = << >> /\ inbox' = Returned
  <2>1. a \o b \in Seq(Path!Inbound) /\ c \o r \in Seq(Path!Inbound)
        /\ (a \o b) \o r = a \o (b \o r) /\ i \o (c \o r) = c \o r
    <3>1. Regroups(a, b, r)
      BY Regroup
    <3>2. PICK u \in Seq(Path!Inbound) : u = c \o r
      BY JoinIs
    <3>3. a \o b \in Seq(Path!Inbound)
      BY JoinIs
    <3>4. i \o u = u
      BY <1>3, <1>7, JoinNone
    <3>. QED  BY <3>1, <3>2, <3>3, <3>4 DEF Regroups
  <2>2. Thins((a \o b) \o r, c \o r)
    BY <1>1, <1>2, <1>3, <2>1, ThinWithRest
  <2>. QED  BY <1>1, <1>5, <1>7, <2>1, <2>2
<1>. QED  BY <1>6, <1>7, MovesTrace

-----------------------------------------------------------------------------
(* On the way to the ECU they are lost too.                                 *)

\* write() waits for the answer to its payload until it has one or gives up.
LEMMA WaitingStays ==
  ASSUME Moves, waiting, op = "write", op' = "write", todo' = todo, todo # << >>,
         todo \in Seq(Chan!Steps)
  PROVE  waiting'
<1>1. todo # Tail(todo)
  <2>1. PICK t \in Seq(Chan!Steps) : t = todo
    OBVIOUS
  <2>2. PICK m, n : m = Len(Tail(t)) /\ n = Len(t)
    OBVIOUS
  <2>3. m = n - 1 /\ n \in Nat
    BY <2>1, <2>2
  <2>4. m # n
    BY <2>3
  <2>. QED  BY <2>1, <2>2, <2>4
<1>2. CASE Connect \/ WriteFrame \/ ReadFrames
  BY <1>2 DEF Connect, WriteFrame, ReadFrames, Idle, Elm!Initialise, Elm!Starts
<1>3. CASE Talks
  BY <1>1, <1>3 DEF Talks, Elm!SendRaw, Elm!SendRawFails, Elm!SendRawFailsUnseen, Elm!WriteBreaks,
     Elm!Fetch, Elm!GetAnswer, Elm!StepDone, Elm!StepFails, Elm!caller
<1>4. CASE GivesUp
  BY <1>1, <1>4 DEF GivesUp, Elm!GiveUp, Elm!NoAnswer, Elm!StepDone, Elm!StepFails
<1>5. CASE AdapterAnswers \/ LoseToken
  BY <1>5 DEF AdapterAnswers, LoseToken, Elm!AdapterResets, Elm!AdapterObeys,
     Elm!AdapterRejects, Elm!LoseToken, Elm!caller
<1>. QED  BY <1>2, <1>3, <1>4, <1>5 DEF Moves

\* A frame is given to the adapter once.
LEMMA MovesPending ==
  ASSUME Chan!EOrder, Chan!EOrder', SType, SType', Moves
  PROVE  Pending' = Pending \/ Pending' = << >>
<1>1. outbox' = outbox \/ outbox' = << >>
  BY MovesOp
<1>2. CASE NotGiven
  BY <1>1, <1>2 DEF Pending
<1>3. CASE op' # "write" /\ ~NotGiven
  <2>1. op' = "idle" => outbox' = << >>
    BY <1>3, MovesOp DEF NotGiven
  <2>. QED  BY <1>3, <2>1 DEF Pending, NotGiven
<1>4. CASE op' = "write" /\ ~NotGiven
  <2>1. op = "write" /\ waiting /\ ~(Len(todo) > 1)
    <3>1. op = "write"
      BY <1>4, MovesOp DEF NotGiven
    <3>2. waiting \in BOOLEAN
      BY DEF Chan!EOrder, Chan!EType, Chan!CallerType
    <3>. QED  BY <1>4, <3>1, <3>2 DEF NotGiven
  <2>2. /\ todo \in Seq(Chan!Steps) /\ todo # << >> /\ todo' # << >>
    BY <1>4, <2>1 DEF Chan!EOrder, Chan!EType, Chan!CallerType
  <2>3. todo' = todo
    <3>1. Tail(todo) = << >>
      <4>1. Len(todo) \in Nat /\ Len(todo) <= 1
        BY <2>1, <2>2
      <4>2. Tail(todo) \in Seq(Chan!Steps) /\ Len(Tail(todo)) = Len(todo) - 1
        BY <2>2
      <4>3. Len(todo) # 0
        BY <2>2
      <4>4. Len(Tail(todo)) = 0
        BY <4>1, <4>2, <4>3
      <4>5. PICK t \in Seq(Chan!Steps) : t = Tail(todo)
        BY <4>2
      <4>6. Len(t) = 0
        BY <4>4, <4>5
      <4>7. t = << >>
        BY <4>6
      <4>. QED  BY <4>5, <4>7
    <3>. QED  BY <1>4, <2>1, <2>2, <3>1, MovesTodo
  <2>4. waiting'
    BY <1>4, <2>1, <2>2, <2>3, WaitingStays
  <2>5. ~NotGiven'
    BY <1>4, <2>1, <2>3, <2>4 DEF NotGiven
  <2>. QED  BY <2>5 DEF Pending
<1>. QED  BY <1>2, <1>3, <1>4

\* What the channel has of the frames for the ECU.
Kept == Unsent \o Pending

LEMMA KeptTyped ==
  ASSUME Chan!EOrder, SType
  PROVE  Kept \in Seq(Path!Outbound)
BY UnsentTyped, JoinIs DEF Kept

KeptKnown == /\ Kept \in Seq(Path!Outbound) /\ Unsent \in Seq(Path!Outbound)
             /\ Pending \in Seq(Path!Outbound)

LEMMA KeptIsKnown == Chan!EOrder /\ SType => KeptKnown
BY KeptTyped, UnsentTyped DEF KeptKnown

LEMMA KeptKnownThen == Chan!EOrder' /\ SType' => KeptKnown'
BY KeptIsKnown, PTL

LEMMA KeptTypedThen ==
  ASSUME Chan!EOrder', SType'
  PROVE  Kept' \in Seq(Path!Outbound) /\ Unsent' \in Seq(Path!Outbound)
         /\ Pending' \in Seq(Path!Outbound)
BY KeptKnownThen DEF KeptKnown

LEMMA MovesKept ==
  ASSUME Chan!EOrder, Chan!EOrder', SType, SType', Moves
  PROVE  Thins(Kept', Kept)
<1>1. PICK u, v, p, q \in Seq(Path!Outbound) :
        u = Unsent /\ v = Unsent' /\ p = Pending /\ q = Pending'
  BY UnsentTyped, KeptTypedThen
<1>2. Kept = u \o p /\ Kept' = v \o q
  BY <1>1 DEF Kept
<1>3. collecting' = collecting
  BY MovesStay
<1>4. Thins(q, p)
  BY <1>1, MovesPending, ThinSame, ThinNone
<1>5. CASE Thins(v, u)
  BY <1>2, <1>4, <1>5, ThinJoined
<1>6. CASE UNCHANGED <<to_adapter, content>>
  <2>1. v = u
    BY <1>1, <1>3, <1>6 DEF Unsent
  <2>. QED  BY <1>5, <2>1, ThinSame
<1>7. CASE IsAnswered
  <2>1. content \in Seq(Path!Outbound)
    BY DEF SType, FlightTypes
  <2>2. ~collecting /\ u = content /\ v = content'
    BY <1>1, <1>3, <1>7 DEF Unsent, IsAnswered
  <2>3. CASE IsPayload(Head(to_adapter))
    <3>1. content # << >> /\ content' = Tail(content)
      BY <1>7, <2>3, ContentHead DEF IsAnswered
    <3>. QED  BY <1>5, <2>1, <2>2, <3>1, ThinTail
  <2>4. CASE ~IsPayload(Head(to_adapter))
    <3>1. v = u
      BY <1>7, <2>2, <2>4 DEF IsAnswered
    <3>. QED  BY <1>5, <3>1, ThinSame
  <2>. QED  BY <2>3, <2>4
<1>8. ASSUME NEW x, Given(x) PROVE Thins(Kept', Kept)
  <2>1. CASE ~IsPayload(x)
    <3>1. v = u
      BY <1>1, <1>3, <1>8, <2>1 DEF Unsent, Given
    <3>. QED  BY <1>5, <3>1, ThinSame
  <2>2. CASE IsPayload(x)
    <3>1. op = "write" /\ Len(todo) = 1 /\ ~waiting /\ waiting' /\ UNCHANGED <<op, todo, outbox>>
          /\ content' = content \o outbox
      BY <1>8, <2>2, GivenPayload DEF Given
    <3>2. p = outbox /\ q = << >>
      <4>1. NotGiven
        BY <3>1 DEF NotGiven
      <4>2. ~NotGiven'
        <5>1. op' = "write" /\ waiting' /\ Len(todo') = 1
          BY <3>1
        <5>. QED  BY <5>1 DEF NotGiven
      <4>. QED  BY <1>1, <4>1, <4>2 DEF Pending
    <3>3. PICK c \in Seq(Path!Outbound) : c = content
      BY DEF SType, FlightTypes
    <3>4. v = u \o p
      <4>1. CASE collecting
        <5>1. u = Tail(c) /\ v = Tail(c \o p)
          BY <1>1, <1>3, <3>1, <3>2, <3>3, <4>1 DEF Unsent
        <5>2. c # << >>
          BY <3>3, <4>1, ContentHead DEF SType, Counted
        <5>. QED  BY <5>1, <5>2, TailJoined
      <4>2. CASE ~collecting
        BY <1>1, <1>3, <3>1, <3>2, <3>3, <4>2 DEF Unsent
      <4>. QED  BY <4>1, <4>2
    <3>5. Kept' = Kept
      BY <1>2, <3>2, <3>4, JoinNone
    <3>. QED  BY <3>5, KeptTyped, ThinSame
  <2>. QED  BY <2>1, <2>2
<1>. QED  BY <1>6, <1>7, <1>8, MovesCommands

LEMMA MovesToEcu ==
  ASSUME Chan!EOrder, Chan!EOrder', SType, SType', Moves
  PROVE  Thins(ToEcu', ToEcu)
<1>1. PICK k, l \in Seq(Path!Outbound) : k = Kept /\ l = Kept'
  BY KeptTyped, KeptTypedThen
<1>2. canbus' = canbus /\ canbus \in Seq(Path!Outbound)
  BY MovesStay DEF SType, FlightTypes
<1>3. ToEcu = canbus \o k /\ ToEcu' = canbus \o l
  BY <1>1, <1>2 DEF ToEcu, Kept
<1>4. Thins(l, k)
  BY <1>1, MovesKept
<1>. QED  BY <1>2, <1>3, <1>4, ThinBehind

-----------------------------------------------------------------------------
(* The adapter passes the frames on.                                        *)

\* The frames that it reports stand behind those that are in the channel.
LEMMA ReportsFrames ==
  ASSUME Chan!EOrder, Chan!EOrder', RoomLeft, SType, AdapterReports
  PROVE  /\ Brought(InChannel) \in Seq(Path!Inbound)
         /\ Brought(InChannel)' \in Seq(Path!Inbound)
         /\ Thins(Brought(InChannel)', Brought(InChannel) \o collected)
<1>1. PICK p, s, t, e, f, r : /\ p = InChannel' /\ s = InChannel /\ t = taken /\ e = emitted
                              /\ f = Chan!FramesFor(Len(collected)) /\ r = reported
  OBVIOUS
<1>2. /\ f \in Seq(Chan!Frames) /\ Len(f) = Len(collected) /\ emitted' = e \o f
      /\ taken' = t /\ reported' = r \o collected
  BY <1>1, ReportsIs
<1>3. /\ s \in Seq(Chan!Frames) /\ t \in Seq(Chan!Frames) /\ Chan!InTurn(t \o s)
      /\ Chan!FramesIn(t \o s) = Chan!FramesLeft /\ e \in Seq(Chan!Frames) /\ Chan!InTurn(e)
  BY <1>1, ChannelIsKnown DEF ChannelKnown
<1>4. /\ p \in Seq(Chan!Frames) /\ Chan!InTurn(t \o p) /\ Chan!InTurn(e \o f)
      /\ Chan!FramesIn(t \o p) = Chan!FramesLeft'
  BY <1>1, <1>2, ChannelKnownThen DEF ChannelKnown
<1>5. Chan!FramesLeft' \subseteq Chan!FramesLeft \cup Chan!FramesIn(f)
  BY <1>1, ReportsIs, Chan!TransmitsOrder, ChannelAssumed DEF Chan!ElmAssumption
<1>6. Among(s, e) /\ r \in Seq(Path!Inbound) /\ Len(r) = Len(e) /\ collected \in Seq(Path!Inbound)
  BY <1>1, BroughtTyped DEF SType, FlightTypes, Counted
<1>7. s \o f \in Seq(Chan!Frames) /\ Chan!InTurn(s \o f)
      /\ Chan!FramesIn(s \o f) = Chan!FramesIn(s) \cup Chan!FramesIn(f)
  <2>1. s \in Seq(Chan!Known) /\ f \in Seq(Chan!Known)
    BY <1>2, <1>3, FrameOrder
  <2>2. Chan!InTurn(s) /\ Chan!InTurn(f) /\ Chan!Ahead(Chan!FramesIn(e), Chan!FramesIn(f))
    BY <1>2, <1>3, <1>4, PartsInTurn
  <2>3. Chan!Ahead(Chan!FramesIn(s), Chan!FramesIn(f))
    BY <1>6, <2>2 DEF Among, Chan!Ahead
  <2>4. /\ Chan!FramesIn(s \o f) = Chan!FramesIn(s) \cup Chan!FramesIn(f)
        /\ Chan!InTurn(s \o f)
    BY <2>1, <2>2, <2>3, ChannelAssumed, Chan!JoinedOrdered DEF Chan!ElmAssumption
  <2>. QED  BY <1>2, <1>3, <2>4, JoinIs
<1>8. Chan!FramesIn(p) \subseteq Chan!FramesIn(s) \cup Chan!FramesIn(f) /\ Chan!InTurn(p)
  <2>1. t \in Seq(Chan!Known) /\ s \in Seq(Chan!Known) /\ p \in Seq(Chan!Known)
    BY <1>3, <1>4, FrameOrder
  <2>2. /\ Chan!FramesIn(t \o s) = Chan!FramesIn(t) \cup Chan!FramesIn(s)
        /\ Chan!FramesIn(t \o p) = Chan!FramesIn(t) \cup Chan!FramesIn(p)
    BY <2>1, ChannelAssumed, Chan!JoinedOrdered DEF Chan!ElmAssumption
  <2>3. Chan!FramesIn(t) \cap Chan!FramesIn(p) = {} /\ Chan!InTurn(p)
    BY <1>3, <1>4, PartsInTurn
  <2>. QED  BY <1>3, <1>4, <1>5, <2>2, <2>3
<1>9. Thins(p, s \o f)
  BY <1>4, <1>7, <1>8, OrderedThins
<1>10. /\ e \o f \in Seq(Chan!Frames) /\ r \o collected \in Seq(Path!Inbound)
       /\ Len(r \o collected) = Len(e \o f)
       /\ Chan!FramesIn(e \o f) = Chan!FramesIn(e) \cup Chan!FramesIn(f)
  <2>1. e \in Seq(Chan!Known) /\ f \in Seq(Chan!Known)
    BY <1>2, <1>3, FrameOrder
  <2>2. Chan!FramesIn(e \o f) = Chan!FramesIn(e) \cup Chan!FramesIn(f)
    BY <2>1, ChannelAssumed, Chan!JoinedOrdered DEF Chan!ElmAssumption
  <2>3. PICK c \in Seq(Path!Inbound) : c = collected
    BY <1>6
  <2>4. r \o c \in Seq(Path!Inbound) /\ Len(r \o c) = Len(r) + Len(c)
    BY <1>6, <2>3, ConcatFacts
  <2>5. e \o f \in Seq(Chan!Frames) /\ Len(e \o f) = Len(e) + Len(f)
    BY <1>2, <1>3, ConcatFacts
  <2>6. Len(r) = Len(e) /\ Len(c) = Len(f)
    BY <1>2, <1>6, <2>3
  <2>. QED  BY <2>2, <2>3, <2>4, <2>5, <2>6
<1>11. PICK d, q : d = e \o f /\ q = r \o collected
  OBVIOUS
<1>12. /\ d \in Seq(Chan!Frames) /\ Chan!InTurn(d) /\ q \in Seq(Path!Inbound) /\ Len(q) = Len(d)
       /\ Among(s, d) /\ Among(f, d) /\ Among(s \o f, d)
  BY <1>4, <1>6, <1>7, <1>10, <1>11 DEF Among
<1>13. /\ Among(p, d) /\ Thins(Carried(d, q, p), Carried(d, q, s \o f))
  BY <1>4, <1>7, <1>9, <1>12, CarriedThins
<1>14. Carried(d, q, s \o f) = Carried(d, q, s) \o Carried(d, q, f)
  BY <1>2, <1>3, <1>12, CarriedJoined
<1>15. Carried(d, q, s) = Carried(e, r, s) /\ Carried(d, q, f) = collected
  BY <1>2, <1>3, <1>4, <1>6, <1>11, CarriedMore
<1>16. Carried(d, q, p) \in Seq(Path!Inbound) /\ Carried(e, r, s) \in Seq(Path!Inbound)
  BY <1>3, <1>4, <1>6, <1>12, <1>13, CarriedFacts
<1>17. Brought(InChannel)' = Carried(d, q, p) /\ Brought(InChannel) = Carried(e, r, s)
  BY <1>1, <1>2, <1>11 DEF Brought
<1>. QED  BY <1>13, <1>14, <1>15, <1>16, <1>17

LEMMA ReportsLinks ==
  ASSUME Chan!EOrder, Chan!EOrder', RoomLeft, SType, SType', AdapterReports
  PROVE  Thins(ToTester', ToTester) /\ ToEcu' = ToEcu
<1>1. /\ collecting /\ collecting' = FALSE /\ content' = Tail(content) /\ collected' = << >>
      /\ UNCHANGED <<inbox, outbox, canbus, canwire, op, todo, waiting>>
  BY ReportsIs DEF transport, can
<1>2. ToEcu' = ToEcu
  BY <1>1 DEF ToEcu, Unsent, Pending, NotGiven
<1>3. PICK a, b, c, i, w \in Seq(Path!Inbound) :
        /\ a = Brought(InChannel)' /\ b = Brought(InChannel) /\ c = collected /\ i = inbox
        /\ w = canwire
  BY ReportsFrames DEF SType, FlightTypes
<1>4. Thins(a, b \o c)
  BY <1>3, ReportsFrames
<1>5. ToTester = i \o (b \o (c \o w)) /\ ToTester' = i \o (a \o w)
  <2>1. << >> \o w = w
    BY JoinNone
  <2>. QED  BY <1>1, <1>3, <2>1 DEF ToTester
<1>6. /\ (b \o c) \o w = b \o (c \o w) /\ b \o c \in Seq(Path!Inbound)
      /\ a \o w \in Seq(Path!Inbound) /\ (b \o c) \o w \in Seq(Path!Inbound)
  <2>1. PICK u \in Seq(Path!Inbound) : u = b \o c
    BY JoinIs
  <2>2. Regroups(b, c, w)
    BY Regroup
  <2>3. u \o w \in Seq(Path!Inbound) /\ a \o w \in Seq(Path!Inbound)
    BY JoinIs
  <2>. QED  BY <2>1, <2>2, <2>3 DEF Regroups
<1>7. Thins(a \o w, (b \o c) \o w)
  BY <1>4, <1>6, ThinWithRest
<1>8. Thins(i \o (a \o w), i \o ((b \o c) \o w))
  BY <1>6, <1>7, ThinBehind
<1>. QED  BY <1>2, <1>5, <1>6, <1>8

\* A frame on the bus is collected or missed.
LEMMA HearsTail ==
  ASSUME SType, AdapterHears
  PROVE  /\ Thins(collected' \o canwire', collected \o canwire)
         /\ collected \o canwire \in Seq(Path!Inbound)
         /\ collected' \o canwire' \in Seq(Path!Inbound)
<1>1. PICK c, w \in Seq(Path!Inbound) : c = collected /\ w = canwire
  BY DEF SType, FlightTypes
<1>2. w # << >> /\ canwire' = Tail(w) /\ (collected' = c \/ collected' = Append(c, Head(w)))
  BY <1>1 DEF AdapterHears
<1>3. PICK h \in Path!Inbound, t \in Seq(Path!Inbound) :
        h = Head(w) /\ t = Tail(w) /\ w = <<h>> \o t /\ <<h>> \in Seq(Path!Inbound)
  <2>1. Head(w) \in Path!Inbound /\ Tail(w) \in Seq(Path!Inbound) /\ w = <<Head(w)>> \o Tail(w)
    BY <1>2
  <2>2. PICK h, t : h = Head(w) /\ t = Tail(w)
    OBVIOUS
  <2>3. h \in Path!Inbound /\ t \in Seq(Path!Inbound) /\ w = <<h>> \o t
    BY <2>1, <2>2
  <2>4. <<h>> \in Seq(Path!Inbound)
    BY <2>3
  <2>. QED  BY <2>2, <2>3, <2>4
<1>4. CASE collected' = c
  <2>1. Thins(t, w)
    BY <1>2, <1>3, ThinTail
  <2>. QED  BY <1>1, <1>2, <1>3, <1>4, <2>1, ThinBehind, JoinIs
<1>5. CASE collected' = Append(c, Head(w))
  <2>1. Append(c, h) = c \o <<h>> /\ Append(c, h) \in Seq(Path!Inbound)
    OBVIOUS
  <2>2. (c \o <<h>>) \o t = c \o (<<h>> \o t)
    <3>1. Regroups(c, <<h>>, t)
      BY <1>3, Regroup
    <3>. QED  BY <3>1 DEF Regroups
  <2>3. collected' \o canwire' = c \o w
    BY <1>2, <1>3, <1>5, <2>1, <2>2
  <2>. QED  BY <1>1, <2>3, ThinSame, JoinIs
<1>. QED  BY <1>2, <1>4, <1>5

LEMMA HearsLinks ==
  ASSUME Chan!EOrder, SType, AdapterHears
  PROVE  Thins(ToTester', ToTester) /\ ToEcu' = ToEcu
<1>1. UNCHANGED <<inbox, outbox, channel, content, collecting, reported, canbus>>
  BY DEF AdapterHears, transport
<1>2. ToEcu' = ToEcu
  BY <1>1 DEF ToEcu, Unsent, Pending, NotGiven, channel
<1>3. PICK b, i, s, t \in Seq(Path!Inbound) :
        /\ b = Brought(InChannel) /\ i = inbox
        /\ s = collected \o canwire /\ t = collected' \o canwire'
  BY BroughtTyped, HearsTail DEF SType, FlightTypes
<1>4. Brought(InChannel)' = b
  BY <1>1, <1>3 DEF Brought, InChannel, channel
<1>5. ToTester = i \o (b \o s) /\ ToTester' = i \o (b \o t)
  <2>1. PICK x, y : x = collected' /\ y = canwire'
    OBVIOUS
  <2>2. ToTester' = i \o (b \o (x \o y))
    BY <1>1, <1>3, <1>4, <2>1 DEF ToTester
  <2>. QED  BY <1>3, <2>1, <2>2 DEF ToTester
<1>6. Thins(t, s)
  BY <1>3, HearsTail
<1>7. b \o t \in Seq(Path!Inbound) /\ b \o s \in Seq(Path!Inbound) /\ Thins(b \o t, b \o s)
  BY <1>6, ThinBehind, JoinIs
<1>. QED  BY <1>2, <1>5, <1>7, ThinBehind

LEMMA SendsLinks ==
  ASSUME Chan!EOrder, SType, AdapterSends
  PROVE  Thins(ToTester', ToTester) /\ ToEcu' = ToEcu
<1>1. /\ ~collecting /\ collecting' = TRUE /\ to_adapter # << >> /\ IsPayload(Head(to_adapter))
      /\ collected' = << >> /\ canbus' = Append(canbus, Head(content))
      /\ UNCHANGED <<inbox, outbox, channel, content, reported, canwire>>
  BY DEF AdapterSends, IsPayload, transport
<1>2. PICK b, i, c, w \in Seq(Path!Inbound) :
        /\ b = Brought(InChannel) /\ i = inbox /\ c = collected /\ w = canwire
  BY BroughtTyped DEF SType, FlightTypes
<1>3. Brought(InChannel)' = b
  BY <1>1, <1>2 DEF Brought, InChannel, channel
<1>4. ToTester = i \o (b \o (c \o w)) /\ ToTester' = i \o (b \o w)
  <2>1. << >> \o w = w
    BY JoinNone
  <2>. QED  BY <1>1, <1>2, <1>3, <2>1 DEF ToTester
<1>5. Thins(w, c \o w) /\ c \o w \in Seq(Path!Inbound)
  BY ThinFront, JoinIs
<1>6. b \o w \in Seq(Path!Inbound) /\ b \o (c \o w) \in Seq(Path!Inbound)
      /\ Thins(b \o w, b \o (c \o w))
  BY <1>5, ThinBehind, JoinIs
<1>7. Thins(ToTester', ToTester)
  BY <1>4, <1>6, ThinBehind
<1>8. PICK k, p, t \in Seq(Path!Outbound), h \in Path!Outbound :
        /\ k = canbus /\ p = Pending /\ t = Tail(content) /\ h = Head(content)
        /\ content = <<h>> \o t /\ <<h>> \in Seq(Path!Outbound)
  <2>1. Head(content) \in Path!Outbound /\ Tail(content) \in Seq(Path!Outbound)
        /\ content = <<Head(content)>> \o Tail(content)
    BY <1>1, ContentHead
  <2>2. <<Head(content)>> \in Seq(Path!Outbound)
    BY <2>1
  <2>. QED  BY <2>1, <2>2, UnsentTyped DEF SType, FlightTypes
<1>9. Pending' = p /\ Unsent = <<h>> \o t /\ Unsent' = t
  BY <1>1, <1>8 DEF Pending, NotGiven, Unsent, channel
<1>10. ToEcu = k \o ((<<h>> \o t) \o p) /\ ToEcu' = Append(k, h) \o (t \o p)
  <2>1. PICK x, y, z : x = canbus' /\ y = Unsent' /\ z = Pending'
    OBVIOUS
  <2>2. ToEcu' = x \o (y \o z)
    BY <2>1 DEF ToEcu
  <2>. QED  BY <1>1, <1>8, <1>9, <2>1, <2>2 DEF ToEcu
<1>11. ToEcu' = ToEcu
  <2>1. Append(k, h) = k \o <<h>>
    OBVIOUS
  <2>2. PICK g \in Seq(Path!Outbound) : g = <<h>>
    BY <1>8
  <2>3. PICK u \in Seq(Path!Outbound) : u = t \o p
    BY JoinIs
  <2>4. Regroups(g, t, p) /\ Regroups(k, g, u)
    BY Regroup
  <2>5. (g \o t) \o p = g \o u /\ (k \o g) \o u = k \o (g \o u)
    BY <2>3, <2>4 DEF Regroups
  <2>. QED  BY <1>10, <2>1, <2>2, <2>3, <2>5
<1>. QED  BY <1>7, <1>11

-----------------------------------------------------------------------------
(* No response is used twice or after a later one.                          *)

\* The stack is never an adapter with ISO-TP of its own.
LEMMA NeverNative == SType => Path!NativeOnly
BY DEF SType, Path!LuckType, Path!NativeOnly

LEMMA NeverNativeThen == SType' => Path!NativeOnly'
BY NeverNative, PTL

\* Frames that are lost on the way leave the others in order.
LEMMA LinksOrdered ==
  ASSUME Chan!EOrder, Chan!EOrder', SType, SType', Path!Ordered,
         UNCHANGED <<req, pc, idx, total, out, expected_sn, answers, rx_buf_, ecu>>,
         Thins(ToTester', ToTester), Thins(ToEcu', ToEcu)
  PROVE  Path!Ordered' /\ Path!Outcome
<1>1. PICK b, s, t \in Seq(Path!Inbound) : b = rx_buf_ /\ s = ToTester /\ t = ToTester'
  BY PathTyped, PathTypedThen DEF Path!IType, Path!LinkType
<1>2. Thins(b \o t, b \o s)
  BY <1>1, ThinBehind
<1>3. Path!Flight = b \o s /\ Path!Flight' = b \o t
  BY <1>1 DEF Path!Flight
<1>4. Path!Thins(Path!Flight', Path!Flight) /\ Path!Thins(ToEcu', ToEcu)
  BY <1>2, <1>3 DEF Path!Thins, Thins
<1>5. UNCHANGED <<Path!tester, ecu>>
  BY DEF Path!tester
<1>. QED  BY <1>4, <1>5, Path!ThinOrdered, PathAssumed DEF Path!SessionAssumption,
          Path!PaddingAssumption

LEMMA ReadTimesOutOrdered ==
  ASSUME Chan!EOrder, Chan!EOrder', SType, SType', Path!Ordered, ReadTimesOut
  PROVE  Path!Ordered' /\ Path!Outcome
<1>1. /\ Path!Fail /\ pc # "done" /\ rx_buf_' = << >>
      /\ UNCHANGED <<inbox, outbox, channel, listening, canbus, canwire, ecu>>
  BY ReadTimesOutIs
<1>2. ToTester' = ToTester /\ ToEcu' = ToEcu
  BY <1>1 DEF ToTester, ToEcu, Brought, InChannel, Unsent, Pending, NotGiven, channel, listening
<1>3. Path!IType /\ Path!IType'
  BY PathTyped, PathTypedThen
<1>4. PICK b, s \in Seq(Path!Inbound) : b = rx_buf_ /\ s = ToTester
  BY <1>3 DEF Path!IType, Path!LinkType
<1>5. Path!Flight = b \o s /\ Path!Flight' = s
  BY <1>1, <1>2, <1>4, JoinNone DEF Path!Flight
<1>6. Path!Thins(Path!Flight', Path!Flight)
  <2>1. Thins(s, b \o s)
    BY ThinFront
  <2>. QED  BY <1>5, <2>1 DEF Path!Thins, Thins
<1>7. Path!Ordered' /\ Path!Used' = Path!Used
  BY <1>1, <1>2, <1>3, <1>6, Path!FailOrdered, PathAssumed DEF Path!SessionAssumption,
     Path!PaddingAssumption
<1>. QED  BY <1>1, <1>7 DEF Path!Outcome

LEMMA PathSteps ==
  ASSUME Chan!EOrder, Chan!EOrder', SType, SType', RoomLeft, Path!Ordered, [Next]_vars
  PROVE  Path!Ordered' /\ Path!Outcome
<1>1. CASE Thinks \/ EcuActs
  <2>1. Path!Next
    BY <1>1, ThinksIsPath, EcuIsPath DEF Path!Next
  <2>2. Path!IType /\ Path!IType' /\ Path!NativeOnly
    BY PathTyped, PathTypedThen, NeverNative
  <2>. QED  BY <2>1, <2>2, Path!StepOrdered, PathAssumed DEF Path!SessionAssumption,
            Path!PaddingAssumption
<1>2. CASE ReadTimesOut
  BY <1>2, ReadTimesOutOrdered
<1>3. CASE Moves
  <2>1. UNCHANGED <<req, pc, idx, total, out, expected_sn, answers, rx_buf_, ecu>>
    BY <1>3, MovesStay
  <2>. QED  BY <1>3, <2>1, MovesToTester, MovesToEcu, LinksOrdered
<1>4. CASE AdapterSends \/ AdapterHears \/ AdapterReports \/ UNCHANGED vars
  <2>1. UNCHANGED <<req, pc, idx, total, out, expected_sn, answers, rx_buf_, ecu>>
    <3>1. CASE AdapterReports
      BY <3>1, ReportsIs DEF transport, can
    <3>. QED  BY <1>4, <3>1 DEF AdapterSends, AdapterHears, vars, transport, can
  <2>2. ToEcu' \in Seq(Path!Outbound) /\ ToTester' \in Seq(Path!Inbound)
    BY PathTypedThen DEF Path!IType, Path!LinkType
  <2>3. Thins(ToEcu', ToEcu') /\ Thins(ToTester', ToTester')
    BY <2>2, ThinSame
  <2>4. CASE UNCHANGED vars
    <3>1. ToTester' = ToTester /\ ToEcu' = ToEcu
      BY <2>4 DEF vars, transport, channel, listening, can, ToTester, ToEcu, Brought, InChannel,
         Unsent, Pending, NotGiven
    <3>. QED  BY <2>1, <2>3, <3>1, LinksOrdered
  <2>5. CASE AdapterSends \/ AdapterHears \/ AdapterReports
    <3>1. Thins(ToTester', ToTester) /\ ToEcu' = ToEcu
      BY <2>5, SendsLinks, HearsLinks, ReportsLinks
    <3>. QED  BY <2>1, <2>3, <3>1, LinksOrdered
  <2>. QED  BY <1>4, <2>4, <2>5
<1>. QED  BY <1>1, <1>2, <1>3, <1>4 DEF Next, Tester, Adapter, Moves, Finished

\* The inductive invariant, and what a step makes of the request in progress.
LEMMA StepInOrder ==
  /\ Chan!EOrder /\ Chan!EOrder' /\ SType /\ SType' /\ RoomLeft /\ Path!IOrder /\ [Next]_vars
  => [Path!order!Next]_(Path!order!vars) /\ Path!IOrder'
<1>. SUFFICES ASSUME Chan!EOrder, Chan!EOrder', SType, SType', RoomLeft, Path!IOrder, [Next]_vars
              PROVE  [Path!order!Next]_(Path!order!vars) /\ Path!IOrder'
  OBVIOUS
<1>1. Path!Ordered' /\ Path!Outcome
  BY PathSteps DEF Path!IOrder
<1>2. Path!IType' /\ Path!NativeOnly'
  BY PathTypedThen, NeverNativeThen
<1>. QED  BY <1>1, <1>2, Path!OutcomeInOrder, PathAssumed DEF Path!SessionAssumption,
          Path!PaddingAssumption

LEMMA InitInOrder == Init => Path!order!Init /\ Path!IOrder
<1>. SUFFICES ASSUME Init PROVE Path!order!Init /\ Path!IOrder
  OBVIOUS
<1>1. Transport!Init /\ Ecu!Init /\ Elm!Init /\ content = << >> /\ collecting = FALSE
      /\ collected = << >>
  BY DEF Init
<1>2. outbox = << >> /\ inbox = << >> /\ canbus = << >> /\ canwire = << >> /\ op = "idle"
      /\ rx_queue_ = << >> /\ rx_accum_ = << >> /\ stream = << >>
  BY <1>1 DEF Transport!Init, Ecu!Init, Elm!Init
<1>3. << >> \o << >> = << >>
  OBVIOUS
<1>4. ToEcu = << >>
  BY <1>1, <1>2, <1>3 DEF ToEcu, Unsent, Pending
<1>5. ToTester = << >>
  <2>1. Chan!FramesOf(<< >>) = << >>
    <3>1. << >> \in Seq(Chan!Known) /\ Len(<< >>) = 0
      OBVIOUS
    <3>2. \A i \in 1..Len(<< >>) : ~Chan!IsFrame(<< >>[i])
      BY <3>1
    <3>. QED  BY <3>1, <3>2, Chan!FramesOfFacts, ChannelAssumed DEF Chan!ElmAssumption
  <2>2. InChannel = << >>
    BY <1>2, <1>3, <2>1 DEF InChannel
  <2>3. Brought(<< >>) = << >>
    <3>1. Len(<< >>) = 0
      OBVIOUS
    <3>. QED  BY <3>1 DEF Brought, Carried
  <2>. QED  BY <1>1, <1>2, <1>3, <2>2, <2>3 DEF ToTester
<1>6. Path!Init
  BY <1>1, <1>4, <1>5 DEF Transport!Init, Ecu!Init, Path!Init
<1>. QED  BY <1>6, Path!InitInOrder, PathAssumed DEF Path!SessionAssumption,
          Path!PaddingAssumption

LEMMA SameOrder ==
  /\ Path!order!Init <=> Transport!order!Init
  /\ [Path!order!Next]_(Path!order!vars) <=> [Transport!order!Next]_(Transport!order!vars)
<1>1. /\ Path!Used = Transport!Used /\ Path!Used' = Transport!Used'
      /\ Path!Failures(Len(answers) + 1) = Transport!Failures(Len(answers) + 1)
      /\ Path!Failures(Len(answers) + 1)' = Transport!Failures(Len(answers) + 1)'
  BY DEF Path!Used, Transport!Used, Path!Sources, Transport!Sources, Path!Min, Transport!Min,
     Path!Failures, Transport!Failures
<1>2. /\ Path!Max(Path!Used \cup {0}) = Transport!Max(Transport!Used \cup {0})
      /\ Path!Max(Path!Used \cup {0})' = Transport!Max(Transport!Used \cup {0})'
      /\ Path!Cardinality(Path!Failures(Len(answers) + 1))
           = Transport!Cardinality(Transport!Failures(Len(answers) + 1))
      /\ Path!Cardinality(Path!Failures(Len(answers) + 1))'
           = Transport!Cardinality(Transport!Failures(Len(answers) + 1))'
  <2>1. \A S : Path!Max(S) = Transport!Max(S)
    BY DEF Path!Max, Transport!Max
  <2>2. \A S : Path!Cardinality(S) = Transport!Cardinality(S)
    BY DEF Path!Cardinality, Transport!Cardinality
  <2>. QED  BY <1>1, <2>1, <2>2
<1>3. Path!order!Init <=> Transport!order!Init
  BY <1>2 DEF Path!order!Init, Transport!order!Init
<1>4. Path!order!Fail <=> Transport!order!Fail
  BY <1>2 DEF Path!order!Fail, Transport!order!Fail
<1>5. Path!order!Succeed <=> Transport!order!Succeed
  BY <1>2 DEF Path!order!Succeed, Transport!order!Succeed
<1>6. (UNCHANGED Path!order!vars) <=> UNCHANGED Transport!order!vars
  BY <1>2 DEF Path!order!vars, Transport!order!vars
<1>. QED  BY <1>3, <1>4, <1>5, <1>6 DEF Path!order!Next, Transport!order!Next

\* The stack implements AnswerOrder: whatever the stream and the adapter lose, however
\* late the answers come, and although write() does not say that a frame was not sent,
\* no response is used twice, or after a later one, or before its request (isotp.cpp:55,
\* 248-255, elm327_channel.cpp:225-252, 431-510).
THEOREM ImplementsAnswerOrder == Spec => AnsweredInOrder
<1>1. Chan!EOrder /\ Chan!EOrder' /\ SType /\ SType' /\ RoomLeft /\ Path!IOrder /\ [Next]_vars
        => [Path!order!Next]_(Path!order!vars) /\ Path!IOrder'
  BY StepInOrder
<1>2. Init => Path!order!Init /\ Path!IOrder
  BY InitInOrder
<1>3. /\ Path!order!Init <=> Transport!order!Init
      /\ [Path!order!Next]_(Path!order!vars) <=> [Transport!order!Next]_(Transport!order!vars)
  BY SameOrder
<1>. QED  BY <1>1, <1>2, <1>3, Typed, PTL DEF Spec, AnsweredInOrder, Transport!AnsweredInOrder,
          Transport!order!Spec

-----------------------------------------------------------------------------
(* No frame goes to the ECU that is not in the trace.                       *)

\* What write() has yet to trace.
Untraced == IF op = "idle" THEN outbox ELSE << >>
TxCrossed == Only("TX", crossed) \o Traced("TX", Kept)
TxLog     == Only("TX", log) \o Traced("TX", Untraced)

\* What has gone to the ECU, and what the channel has for it, is in the trace or is the
\* frame that the transport writes next.
TxTraced == Thins(TxCrossed, TxLog)

LEMMA OutSession == Seq(Path!Outbound) \subseteq Seq(Ecu!SessionFrame)
BY FramesAre

LEMMA InSession == Seq(Path!Inbound) \subseteq Seq(Ecu!SessionFrame)
BY FramesAre

LEMMA UntracedTyped ==
  ASSUME SType
  PROVE  Untraced \in Seq(Path!Outbound)
<1>1. << >> \in Seq(Path!Outbound)
  OBVIOUS
<1>. QED  BY <1>1 DEF SType, FlightTypes, Untraced

LEMMA TxTyped ==
  ASSUME Chan!EOrder, SType
  PROVE  /\ Only("TX", crossed) \in Seq(Entry) /\ Only("TX", log) \in Seq(Entry)
         /\ Traced("TX", Kept) \in Seq(Entry) /\ Traced("TX", Untraced) \in Seq(Entry)
         /\ TxCrossed \in Seq(Entry) /\ TxLog \in Seq(Entry)
<1>1. crossed \in Seq(Entry) /\ log \in Seq(Entry)
  BY DEF SType, Traces
<1>2. Kept \in Seq(Ecu!SessionFrame) /\ Untraced \in Seq(Ecu!SessionFrame)
  BY KeptTyped, UntracedTyped, OutSession
<1>3. PICK a, b, c, d \in Seq(Entry) :
        /\ a = Only("TX", crossed) /\ b = Only("TX", log)
        /\ c = Traced("TX", Kept) /\ d = Traced("TX", Untraced)
  BY <1>1, <1>2, OnlyTyped, TracedTyped DEF Directions
<1>4. a \o c \in Seq(Entry) /\ b \o d \in Seq(Entry)
  BY JoinIs
<1>. QED  BY <1>3, <1>4 DEF TxCrossed, TxLog

TxKnown ==
  /\ Only("TX", crossed) \in Seq(Entry) /\ Only("TX", log) \in Seq(Entry)
  /\ Traced("TX", Kept) \in Seq(Entry) /\ Traced("TX", Untraced) \in Seq(Entry)
  /\ TxCrossed \in Seq(Entry) /\ TxLog \in Seq(Entry)
  /\ Untraced \in Seq(Ecu!SessionFrame)

LEMMA TxIsKnown == Chan!EOrder /\ SType => TxKnown
BY TxTyped, UntracedTyped, OutSession DEF TxKnown

LEMMA TxKnownThen == Chan!EOrder' /\ SType' => TxKnown'
BY TxIsKnown, PTL

LEMMA TxTypedThen ==
  ASSUME Chan!EOrder', SType'
  PROVE  /\ Only("TX", crossed') \in Seq(Entry) /\ Only("TX", log') \in Seq(Entry)
         /\ Traced("TX", Kept)' \in Seq(Entry) /\ Traced("TX", Untraced)' \in Seq(Entry)
         /\ TxCrossed' \in Seq(Entry) /\ TxLog' \in Seq(Entry)
         /\ Untraced' \in Seq(Ecu!SessionFrame)
BY TxKnownThen DEF TxKnown

\* A frame that is not written is not given up either, or it is written.
LEMMA MovesWritten ==
  ASSUME Chan!EOrder, SType, Moves
  PROVE  \/ Untraced = << >>
         \/ log' = log /\ Untraced' = Untraced
         \/ Untraced = outbox /\ log' = log \o Traced("TX", outbox)
<1>1. CASE Connect
  BY <1>1 DEF Connect, SType, Shape, Untraced
<1>2. CASE WriteFrame
  <2>1. outbox # << >> /\ log' = log \o Traced("TX", <<outbox[1]>>) /\ op = "idle"
    BY <1>2 DEF WriteFrame, WriteTraced, Idle
  <2>2. outbox = <<outbox[1]>>
    <3>1. outbox \in Seq(Path!Outbound) /\ Len(outbox) <= 1
      BY DEF SType, FlightTypes, Shape
    <3>. QED  BY <2>1, <3>1, OneOnly
  <2>. QED  BY <2>1, <2>2 DEF Untraced
<1>3. CASE ReadFrames
  BY <1>3 DEF ReadFrames, Untraced
<1>4. CASE Talks \/ GivesUp
  <2>1. op # "idle"
    BY <1>4 DEF Talks, GivesUp, Elm!GiveUp, Chan!EOrder, Chan!EType, Chan!CallerType
  <2>. QED  BY <2>1 DEF Untraced
<1>5. CASE AdapterAnswers \/ LoseToken
  <2>1. UNCHANGED <<op, outbox, log>>
    BY <1>5 DEF AdapterAnswers, LoseToken, Elm!AdapterResets, Elm!AdapterObeys,
       Elm!AdapterRejects, Elm!LoseToken, Elm!caller, transport
  <2>. QED  BY <2>1 DEF Untraced
<1>. QED  BY <1>1, <1>2, <1>3, <1>4, <1>5 DEF Moves

LEMMA MovesTxLog ==
  ASSUME Chan!EOrder, Chan!EOrder', SType, SType', Moves
  PROVE  Thins(TxLog, TxLog')
<1>1. PICK b, y, z \in Seq(Entry) :
        b = Only("TX", log) /\ y = Traced("TX", Untraced) /\ z = Traced("TX", Untraced)'
  BY TxTyped, TxTypedThen
<1>2. PICK c \in Seq(Entry) : c = Only("TX", log')
  BY TxTypedThen
<1>3. TxLog = b \o y /\ TxLog' = c \o z
  BY <1>1, <1>2 DEF TxLog
<1>4. log \in Seq(Entry) /\ outbox \in Seq(Ecu!SessionFrame) /\ "TX" \in Directions
      /\ "RX" \in Directions
  BY OutSession DEF SType, Traces, FlightTypes, Directions
<1>5. Thins(b, c)
  <2>1. CASE log' = log
    BY <1>1, <1>2, <2>1, ThinSame
  <2>2. CASE log' = log \o Traced("TX", outbox)
    <3>1. PICK o \in Seq(Ecu!SessionFrame) : o = outbox
      BY <1>4
    <3>2. PICK u \in Seq(Entry) : u = Traced("TX", o)
      BY <1>4, TracedTyped
    <3>3. OnlyGrows("TX", "TX", log, Traced("TX", o))
      BY <1>4, OnlyTraced
    <3>4. c = b \o u
      BY <1>1, <1>2, <2>2, <3>1, <3>2, <3>3 DEF OnlyGrows
    <3>. QED  BY <3>4, ThinBack
  <2>3. CASE log' = log \o Traced("RX", Returned)
    <3>1. Returned \in Seq(Ecu!SessionFrame)
      BY ReturnedTyped, InSession
    <3>2. PICK u \in Seq(Ecu!SessionFrame) : u = Returned
      BY <3>1
    <3>3. OnlyGrows("TX", "RX", log, Traced("RX", u))
      BY <1>4, OnlyTraced
    <3>4. c = b
      BY <1>1, <1>2, <2>3, <3>2, <3>3 DEF OnlyGrows
    <3>. QED  BY <3>4, ThinSame
  <2>. QED  BY <2>1, <2>2, <2>3, MovesTrace
<1>6. CASE Untraced = << >>
  <2>1. y = << >>
    BY <1>1, <1>6, TracedNone
  <2>. QED  BY <1>3, <1>5, <2>1, ThinJoined, ThinNone
<1>7. CASE log' = log /\ Untraced' = Untraced
  <2>1. y = z
    BY <1>1, <1>7
  <2>. QED  BY <1>3, <1>5, <2>1, ThinJoined, ThinSame
<1>8. CASE Untraced = outbox /\ log' = log \o Traced("TX", outbox)
  <2>1. c = b \o y
    <3>1. PICK o \in Seq(Ecu!SessionFrame) : o = outbox
      BY <1>4
    <3>2. OnlyGrows("TX", "TX", log, Traced("TX", o))
      BY <1>4, OnlyTraced
    <3>. QED  BY <1>1, <1>2, <1>8, <3>1, <3>2 DEF OnlyGrows
  <2>. QED  BY <1>3, <2>1, ThinBack, JoinIs
<1>. QED  BY <1>6, <1>7, <1>8, MovesWritten

LEMMA MovesTx ==
  ASSUME Chan!EOrder, Chan!EOrder', SType, SType', Moves, TxTraced
  PROVE  TxTraced'
<1>1. PICK a, x, w \in Seq(Entry) :
        a = Only("TX", crossed) /\ x = Traced("TX", Kept) /\ w = Traced("TX", Kept)'
  BY TxTyped, TxTypedThen
<1>2. TxCrossed = a \o x /\ TxCrossed' = a \o w
  <2>1. crossed' = crossed
    BY MovesStay
  <2>. QED  BY <1>1, <2>1 DEF TxCrossed
<1>3. Thins(w, x)
  <2>1. PICK k, l \in Seq(Path!Outbound) : k = Kept /\ l = Kept' /\ Thins(l, k)
    BY KeptTyped, KeptTypedThen, MovesKept
  <2>2. Thins(Traced("TX", l), Traced("TX", k))
    BY <2>1, OutSession, TracedThins DEF Directions
  <2>. QED  BY <1>1, <2>1, <2>2
<1>4. Thins(TxCrossed', TxCrossed)
  BY <1>2, <1>3, ThinBehind
<1>5. Thins(TxCrossed, TxLog) /\ Thins(TxLog, TxLog')
  BY MovesTxLog DEF TxTraced
<1>6. PICK p, q, r, s \in Seq(Entry) :
        p = TxCrossed' /\ q = TxCrossed /\ r = TxLog /\ s = TxLog'
  BY TxTyped, TxTypedThen
<1>7. Thins(p, s)
  BY <1>4, <1>5, <1>6, ThinTwice
<1>. QED  BY <1>6, <1>7 DEF TxTraced

\* The adapter sends what the channel has given it.
LEMMA SendsTx ==
  ASSUME Chan!EOrder, SType, AdapterSends, TxTraced
  PROVE  TxTraced'
<1>1. /\ ~collecting /\ collecting' = TRUE /\ to_adapter # << >> /\ IsPayload(Head(to_adapter))
      /\ crossed' = crossed \o Traced("TX", <<Head(content)>>)
      /\ UNCHANGED <<outbox, channel, content, log>>
  BY DEF AdapterSends, IsPayload, transport
<1>2. PICK p, t \in Seq(Path!Outbound), h \in Path!Outbound :
        /\ p = Pending /\ t = Tail(content) /\ h = Head(content)
        /\ content = <<h>> \o t /\ <<h>> \in Seq(Path!Outbound)
  <2>1. Head(content) \in Path!Outbound /\ Tail(content) \in Seq(Path!Outbound)
        /\ content = <<Head(content)>> \o Tail(content)
    BY <1>1, ContentHead
  <2>2. <<Head(content)>> \in Seq(Path!Outbound)
    BY <2>1
  <2>. QED  BY <2>1, <2>2, UnsentTyped
<1>3. Pending' = p /\ Unsent = <<h>> \o t /\ Unsent' = t
  BY <1>1, <1>2 DEF Pending, NotGiven, Unsent, channel
<1>4. PICK k \in Seq(Path!Outbound) : k = t \o p /\ Kept' = k /\ Kept = <<h>> \o k
  <2>1. t \o p \in Seq(Path!Outbound) /\ (<<h>> \o t) \o p = <<h>> \o (t \o p)
    BY <1>2, JoinIs, JoinThree
  <2>. QED  BY <1>2, <1>3, <2>1 DEF Kept
<1>5. k \in Seq(Ecu!SessionFrame) /\ <<h>> \in Seq(Ecu!SessionFrame) /\ "TX" \in Directions
      /\ crossed \in Seq(Entry)
  BY <1>2, <1>4, OutSession DEF Directions, SType, Traces
<1>6. PICK a, x, y \in Seq(Entry) :
        a = Only("TX", crossed) /\ x = Traced("TX", <<h>>) /\ y = Traced("TX", k)
  BY <1>5, OnlyTyped, TracedTyped
<1>7. Traced("TX", Kept) = x \o y
  BY <1>4, <1>5, <1>6, TracedJoined
<1>8. Only("TX", crossed') = a \o x
  <2>1. OnlyGrows("TX", "TX", crossed, Traced("TX", <<h>>))
    BY <1>5, OnlyTraced
  <2>. QED  BY <1>1, <1>2, <1>6, <2>1 DEF OnlyGrows
<1>9. TxCrossed = a \o (x \o y)
  BY <1>6, <1>7 DEF TxCrossed
<1>10. TxCrossed' = (a \o x) \o y
  BY <1>4, <1>6, <1>8 DEF TxCrossed
<1>11. TxCrossed' = TxCrossed
  <2>1. Regroups(a, x, y)
    BY Regroup
  <2>. QED  BY <1>9, <1>10, <2>1 DEF Regroups
<1>12. TxLog' = TxLog
  BY <1>1 DEF TxLog, Untraced, channel
<1>. QED  BY <1>11, <1>12 DEF TxTraced

\* What the transport writes next is new in both.
LEMMA ThinksTx ==
  ASSUME Chan!EOrder, SType, Thinks, TxTraced
  PROVE  TxTraced'
<1>1. /\ op = "idle" /\ op' = "idle" /\ outbox = << >>
      /\ UNCHANGED <<channel, listening, crossed, log>>
      /\ outbox' = outbox \/ \E f : outbox' = Append(outbox, f) /\ Pending' = <<f>>
  BY ThinkLinks, ThinksIsPath
<1>2. Unsent' = Unsent /\ Pending = outbox /\ Pending' = outbox' /\ Untraced = outbox
      /\ Untraced' = outbox'
  BY <1>1 DEF Unsent, Pending, NotGiven, Untraced, channel, listening
<1>3. CASE outbox' = outbox
  BY <1>1, <1>2, <1>3 DEF TxTraced, TxCrossed, TxLog, Kept
<1>4. CASE \E f : outbox' = Append(outbox, f) /\ Pending' = <<f>>
  <2>1. PICK f : outbox' = <<f>>
    BY <1>2, <1>4
  <2>2. SType'
    BY ThinksTyped
  <2>3. <<f>> \in Seq(Path!Outbound)
    <3>1. outbox' \in Seq(Path!Outbound)
      BY <2>2 DEF SType, FlightTypes
    <3>. QED  BY <2>1, <3>1
  <2>4. PICK u, g \in Seq(Path!Outbound) : u = Unsent /\ g = <<f>>
    BY <2>3, UnsentTyped
  <2>5. Kept = u /\ Kept' = u \o g /\ Untraced = << >> /\ Untraced' = g
    BY <1>1, <1>2, <2>1, <2>4, JoinNone DEF Kept
  <2>6. u \in Seq(Ecu!SessionFrame) /\ g \in Seq(Ecu!SessionFrame) /\ "TX" \in Directions
    BY OutSession DEF Directions
  <2>7. PICK a, b, x, y \in Seq(Entry) :
          /\ a = Only("TX", crossed) /\ b = Only("TX", log)
          /\ x = Traced("TX", u) /\ y = Traced("TX", g)
    BY <2>6, TxTyped, TracedTyped
  <2>8. TxCrossed = a \o x /\ TxLog = b
    BY <2>5, <2>7, TracedNone, JoinNone DEF TxCrossed, TxLog
  <2>9. Traced("TX", u \o g) = x \o y
    BY <2>6, <2>7, TracedJoined
  <2>10. TxCrossed' = a \o (x \o y) /\ TxLog' = b \o y
    BY <1>1, <2>5, <2>7, <2>9 DEF TxCrossed, TxLog
  <2>11. a \o (x \o y) = (a \o x) \o y /\ a \o x \in Seq(Entry)
    <3>1. Regroups(a, x, y)
      BY Regroup
    <3>. QED  BY <3>1, JoinIs DEF Regroups
  <2>12. Thins(a \o x, b)
    BY <2>8 DEF TxTraced
  <2>13. Thins((a \o x) \o y, b \o y)
    BY <2>11, <2>12, ThinWithRest
  <2>. QED  BY <2>10, <2>11, <2>13 DEF TxTraced
<1>. QED  BY <1>1, <1>3, <1>4

\* What the ECU puts on the bus has crossed it.
LEMMA EcuCrossed ==
  ASSUME Chan!EOrder, SType, EcuActs
  PROVE  \E n \in Seq(Path!Inbound) : /\ canwire' = canwire \o n
                                      /\ crossed' = crossed \o Traced("RX", n)
<1>1. PICK w \in Seq(Path!Inbound) : w = canwire
  BY DEF SType, FlightTypes
<1>2. SType'
  BY EcuActsTyped
<1>3. PICK v \in Seq(Path!Inbound) : v = canwire'
  BY <1>2 DEF SType, FlightTypes
<1>4. crossed' = crossed \o Traced("RX", SubSeq(v, Len(w) + 1, Len(v)))
  BY <1>1, <1>3 DEF EcuActs
<1>5. PICK n \in Seq(Path!Inbound) : v = w \o n
  <2>1. CASE canwire' = canwire
    <3>1. << >> \in Seq(Path!Inbound) /\ v = w \o << >>
      BY <1>1, <1>3, <2>1, JoinNone
    <3>. QED  BY <3>1
  <2>2. ASSUME NEW f, canwire' = Append(canwire, f)
        PROVE  \E n \in Seq(Path!Inbound) : v = w \o n
    <3>1. f \in Path!Inbound
      BY <1>1, <1>3, <2>2, LastIn
    <3>2. <<f>> \in Seq(Path!Inbound) /\ v = w \o <<f>>
      BY <1>1, <1>3, <2>2, <3>1, JoinOne
    <3>. QED  BY <3>2
  <2>. QED  BY <2>1, <2>2, EcuIsPath
<1>6. SubSeq(v, Len(w) + 1, Len(v)) = n
  BY <1>5, JoinSplit
<1>. QED  BY <1>1, <1>3, <1>4, <1>5, <1>6

LEMMA TxSteps ==
  ASSUME Chan!EOrder, Chan!EOrder', SType, SType', RoomLeft, TxTraced, [Next]_vars
  PROVE  TxTraced'
<1>1. CASE Thinks
  BY <1>1, ThinksTx
<1>2. CASE Moves
  BY <1>2, MovesTx
<1>3. CASE AdapterSends
  BY <1>3, SendsTx
<1>4. CASE AdapterHears \/ ReadTimesOut \/ UNCHANGED vars
  <2>1. UNCHANGED <<op, todo, waiting, outbox, log, crossed, content, collecting>>
    <3>1. CASE ReadTimesOut
      BY <3>1, ReadTimesOutIs DEF channel, listening
    <3>. QED  BY <1>4, <3>1 DEF AdapterHears, vars, transport, channel, listening, can
  <2>. QED  BY <2>1 DEF TxTraced, TxCrossed, TxLog, Kept, Unsent, Pending, NotGiven, Untraced
<1>5. CASE AdapterReports
  <2>1. /\ collecting /\ collecting' = FALSE /\ content' = Tail(content)
        /\ UNCHANGED <<op, todo, waiting, outbox, log, crossed>>
    BY <1>5, ReportsIs DEF transport, can
  <2>. QED  BY <2>1 DEF TxTraced, TxCrossed, TxLog, Kept, Unsent, Pending, NotGiven, Untraced
<1>6. CASE EcuActs
  <2>1. UNCHANGED <<op, todo, waiting, outbox, log, content, collecting>>
    BY <1>6, EcuLinks DEF transport, channel, listening
  <2>2. Only("TX", crossed') = Only("TX", crossed)
    <3>1. PICK n \in Seq(Path!Inbound) : crossed' = crossed \o Traced("RX", n)
      BY <1>6, EcuCrossed
    <3>2. n \in Seq(Ecu!SessionFrame) /\ crossed \in Seq(Entry) /\ "RX" \in Directions
      BY InSession DEF SType, Traces, Directions
    <3>3. OnlyGrows("TX", "RX", crossed, Traced("RX", n))
      BY <3>2, OnlyTraced
    <3>. QED  BY <3>1, <3>3 DEF OnlyGrows
  <2>. QED  BY <2>1, <2>2 DEF TxTraced, TxCrossed, TxLog, Kept, Unsent, Pending, NotGiven,
            Untraced
<1>. QED  BY <1>1, <1>2, <1>3, <1>4, <1>5, <1>6 DEF Next, Tester, Adapter, Moves, Finished

-----------------------------------------------------------------------------
(* No frame is in the trace that did not come from the ECU.                 *)

\* What is on its way to the transport.
Coming == Brought(InChannel) \o (collected \o canwire)
RxLog == Only("RX", log) \o Traced("RX", Coming)

\* What has come to the transport, and then what is on its way, is of what the ECU has
\* put on the bus.
RxTraced == Thins(RxLog, Only("RX", crossed))

LEMMA ComingTyped ==
  ASSUME Chan!EOrder, SType
  PROVE  Coming \in Seq(Path!Inbound) /\ collected \o canwire \in Seq(Path!Inbound)
<1>1. PICK b, c, w \in Seq(Path!Inbound) :
        b = Brought(InChannel) /\ c = collected /\ w = canwire
  BY BroughtTyped DEF SType, FlightTypes
<1>2. c \o w \in Seq(Path!Inbound) /\ b \o (c \o w) \in Seq(Path!Inbound)
  BY <1>1, JoinIs
<1>. QED  BY <1>1, <1>2 DEF Coming

LEMMA RxTyped ==
  ASSUME Chan!EOrder, SType
  PROVE  /\ Only("RX", log) \in Seq(Entry) /\ Only("RX", crossed) \in Seq(Entry)
         /\ Traced("RX", Coming) \in Seq(Entry) /\ RxLog \in Seq(Entry)
<1>1. PICK b, c, d \in Seq(Entry) :
        b = Only("RX", log) /\ c = Only("RX", crossed) /\ d = Traced("RX", Coming)
  BY ComingTyped, InSession, OnlyTyped, TracedTyped DEF SType, Traces, Directions
<1>2. b \o d \in Seq(Entry)
  BY JoinIs
<1>. QED  BY <1>1, <1>2 DEF RxLog

RxKnown == /\ Only("RX", crossed) \in Seq(Entry) /\ RxLog \in Seq(Entry)
           /\ Coming \in Seq(Path!Inbound)

LEMMA RxIsKnown == Chan!EOrder /\ SType => RxKnown
BY RxTyped, ComingTyped DEF RxKnown

LEMMA RxKnownThen == Chan!EOrder' /\ SType' => RxKnown'
BY RxIsKnown, PTL

LEMMA RxTypedThen ==
  ASSUME Chan!EOrder', SType'
  PROVE  /\ Only("RX", crossed') \in Seq(Entry) /\ RxLog' \in Seq(Entry)
         /\ Coming' \in Seq(Path!Inbound)
BY RxKnownThen DEF RxKnown

\* What is not on its way any more has been lost.
LEMMA ComingThins ==
  ASSUME Chan!EOrder, Chan!EOrder', SType, SType', RxTraced, Thins(Coming', Coming),
         log' = log, crossed' = crossed
  PROVE  RxTraced'
<1>1. PICK s, t \in Seq(Path!Inbound) : s = Coming /\ t = Coming'
  BY ComingTyped, RxTypedThen
<1>2. "RX" \in Directions /\ s \in Seq(Ecu!SessionFrame) /\ t \in Seq(Ecu!SessionFrame)
  BY InSession DEF Directions
<1>3. PICK b, c, x, y \in Seq(Entry) :
        /\ b = Only("RX", log) /\ c = Only("RX", crossed)
        /\ x = Traced("RX", s) /\ y = Traced("RX", t)
  BY <1>2, RxTyped, TracedTyped
<1>4. Thins(y, x)
  BY <1>1, <1>2, <1>3, TracedThins
<1>5. RxLog = b \o x /\ RxLog' = b \o y /\ Only("RX", crossed') = c
  BY <1>1, <1>3 DEF RxLog
<1>6. b \o x \in Seq(Entry) /\ b \o y \in Seq(Entry) /\ Thins(b \o y, b \o x)
  BY <1>4, ThinBehind, JoinIs
<1>7. Thins(b \o x, c)
  BY <1>3, <1>5 DEF RxTraced
<1>8. Thins(b \o y, c)
  BY <1>6, <1>7, ThinTwice
<1>. QED  BY <1>5, <1>8 DEF RxTraced

LEMMA MovesRx ==
  ASSUME Chan!EOrder, Chan!EOrder', SType, SType', Moves, RxTraced
  PROVE  RxTraced'
<1>1. PICK r, p, q, w \in Seq(Path!Inbound) :
        /\ r = Returned /\ p = Brought(InChannel)' /\ q = Brought(InChannel)
        /\ w = collected \o canwire /\ Thins(r \o p, q) /\ Thins(p, q)
  BY MovesFrames, ComingTyped
<1>2. Coming = q \o w /\ Coming' = p \o w
  <2>1. PICK x, y : x = collected' /\ y = canwire'
    OBVIOUS
  <2>2. x = collected /\ y = canwire
    BY <2>1, MovesStay
  <2>3. Coming' = p \o (x \o y)
    BY <1>1, <2>1 DEF Coming
  <2>. QED  BY <1>1, <2>2, <2>3 DEF Coming
<1>3. Thins(p \o w, q \o w)
  BY <1>1, ThinWithRest
<1>4. crossed' = crossed /\ log \in Seq(Entry)
  BY MovesStay DEF SType, Traces
<1>5. CASE log' = log
  BY <1>2, <1>3, <1>4, <1>5, ComingThins
<1>6. CASE log' = log \o Traced("TX", outbox)
  <2>1. outbox \in Seq(Ecu!SessionFrame) /\ "TX" \in Directions /\ "RX" \in Directions
    BY OutSession DEF SType, FlightTypes, Directions
  <2>2. Only("RX", log') = Only("RX", log)
    <3>1. OnlyGrows("RX", "TX", log, Traced("TX", outbox))
      BY <1>4, <2>1, OnlyTraced
    <3>. QED  BY <1>6, <3>1 DEF OnlyGrows
  <2>3. PICK x, y, b, c \in Seq(Entry) :
          /\ x = Traced("RX", q \o w) /\ y = Traced("RX", p \o w)
          /\ b = Only("RX", log) /\ c = Only("RX", crossed) /\ Thins(y, x)
    <3>1. q \o w \in Seq(Path!Inbound) /\ p \o w \in Seq(Path!Inbound)
      BY JoinIs
    <3>2. q \o w \in Seq(Ecu!SessionFrame) /\ p \o w \in Seq(Ecu!SessionFrame)
      BY <3>1, InSession
    <3>. QED  BY <1>3, <2>1, <3>2, RxTyped, TracedTyped, TracedThins
  <2>4. RxLog = b \o x /\ RxLog' = b \o y
    BY <1>2, <2>2, <2>3 DEF RxLog
  <2>5. Thins(b \o y, b \o x) /\ b \o x \in Seq(Entry) /\ b \o y \in Seq(Entry)
    BY <2>3, ThinBehind, JoinIs
  <2>6. Thins(b \o x, c)
    BY <2>3, <2>4 DEF RxTraced
  <2>7. Thins(b \o y, c)
    BY <2>5, <2>6, ThinTwice
  <2>. QED  BY <1>4, <2>3, <2>4, <2>7 DEF RxTraced
<1>7. CASE log' = log \o Traced("RX", Returned)
  <2>1. /\ r \in Seq(Ecu!SessionFrame) /\ p \in Seq(Ecu!SessionFrame)
        /\ q \in Seq(Ecu!SessionFrame) /\ w \in Seq(Ecu!SessionFrame) /\ "RX" \in Directions
    BY InSession DEF Directions
  <2>2. PICK b, c, x \in Seq(Entry) :
          b = Only("RX", log) /\ c = Only("RX", crossed) /\ x = Traced("RX", r)
    BY <2>1, RxTyped, TracedTyped
  <2>3. Only("RX", log') = b \o x
    <3>1. OnlyGrows("RX", "RX", log, Traced("RX", r))
      BY <1>4, <2>1, OnlyTraced
    <3>. QED  BY <1>1, <1>7, <2>2, <3>1 DEF OnlyGrows
  <2>4. PICK pw, qw \in Seq(Ecu!SessionFrame) : pw = p \o w /\ qw = q \o w
    BY <2>1, JoinIs
  <2>5. PICK y, z \in Seq(Entry) : y = Traced("RX", pw) /\ z = Traced("RX", qw)
    BY <2>1, TracedTyped
  <2>6. RxLog = b \o z /\ RxLog' = (b \o x) \o y
    BY <1>2, <2>2, <2>3, <2>4, <2>5 DEF RxLog
  <2>7. x \o y = Traced("RX", r \o pw) /\ r \o pw \in Seq(Ecu!SessionFrame)
    BY <2>1, <2>2, <2>4, <2>5, TracedJoined, JoinIs
  <2>8. Thins(r \o pw, qw)
    <3>1. r \o p \in Seq(Path!Inbound) /\ (r \o p) \o w = r \o (p \o w)
      <4>1. Regroups(r, p, w)
        BY Regroup
      <4>. QED  BY <4>1, JoinIs DEF Regroups
    <3>2. Thins((r \o p) \o w, q \o w)
      BY <1>1, <3>1, ThinWithRest
    <3>. QED  BY <2>4, <3>1, <3>2
  <2>9. Thins(x \o y, z) /\ x \o y \in Seq(Entry)
    BY <2>1, <2>5, <2>7, <2>8, TracedThins, JoinIs
  <2>10. (b \o x) \o y = b \o (x \o y)
    <3>1. Regroups(b, x, y)
      BY Regroup
    <3>. QED  BY <3>1 DEF Regroups
  <2>11. Thins(b \o (x \o y), b \o z) /\ b \o (x \o y) \in Seq(Entry) /\ b \o z \in Seq(Entry)
    BY <2>9, ThinBehind, JoinIs
  <2>12. Thins(b \o z, c)
    BY <2>2, <2>6 DEF RxTraced
  <2>13. Thins(b \o (x \o y), c)
    BY <2>11, <2>12, ThinTwice
  <2>. QED  BY <1>4, <2>2, <2>6, <2>10, <2>13 DEF RxTraced
<1>. QED  BY <1>5, <1>6, <1>7, MovesTrace

\* What the ECU puts on the bus is on its way from there.
LEMMA EcuRx ==
  ASSUME Chan!EOrder, SType, EcuActs, RxTraced
  PROVE  RxTraced'
<1>1. PICK n \in Seq(Path!Inbound) :
        canwire' = canwire \o n /\ crossed' = crossed \o Traced("RX", n)
  BY EcuCrossed
<1>2. PICK b, c, w \in Seq(Path!Inbound) :
        b = Brought(InChannel) /\ c = collected /\ w = canwire
  BY BroughtTyped DEF SType, FlightTypes
<1>3. Brought(InChannel)' = b /\ collected' = c /\ log' = log
  BY <1>2, EcuLinks DEF Brought, InChannel, channel, listening
<1>4. PICK m \in Seq(Path!Inbound) : m = b \o (c \o w) /\ Coming = m /\ Coming' = m \o n
  <2>0. PICK u \in Seq(Path!Inbound) : u = c \o w
    BY JoinIs
  <2>1. b \o u \in Seq(Path!Inbound) /\ c \o (w \o n) = u \o n
    <3>1. Regroups(c, w, n)
      BY Regroup
    <3>. QED  BY <2>0, <3>1, JoinIs DEF Regroups
  <2>2. b \o (u \o n) = (b \o u) \o n
    <3>1. Regroups(b, u, n)
      BY Regroup
    <3>. QED  BY <3>1 DEF Regroups
  <2>3. Coming' = b \o (c \o (w \o n))
    <3>1. PICK v : v = canwire'
      OBVIOUS
    <3>2. Coming' = b \o (c \o v)
      BY <1>3, <3>1 DEF Coming
    <3>. QED  BY <1>1, <1>2, <3>1, <3>2
  <2>. QED  BY <1>2, <2>0, <2>1, <2>2, <2>3 DEF Coming
<1>5. /\ n \in Seq(Ecu!SessionFrame) /\ m \in Seq(Ecu!SessionFrame) /\ "RX" \in Directions
      /\ crossed \in Seq(Entry)
  BY InSession DEF Directions, SType, Traces
<1>6. PICK l, d, x, y \in Seq(Entry) :
        /\ l = Only("RX", log) /\ d = Only("RX", crossed)
        /\ x = Traced("RX", m) /\ y = Traced("RX", n)
  BY <1>5, RxTyped, TracedTyped
<1>7. Traced("RX", m \o n) = x \o y /\ Only("RX", crossed') = d \o y
  <2>1. Traced("RX", m \o n) = x \o y
    BY <1>5, <1>6, TracedJoined
  <2>2. OnlyGrows("RX", "RX", crossed, Traced("RX", n))
    BY <1>5, OnlyTraced
  <2>. QED  BY <1>1, <1>6, <2>1, <2>2 DEF OnlyGrows
<1>8. RxLog = l \o x /\ RxLog' = l \o (x \o y)
  BY <1>3, <1>4, <1>6, <1>7 DEF RxLog
<1>9. l \o (x \o y) = (l \o x) \o y /\ l \o x \in Seq(Entry)
  <2>1. Regroups(l, x, y)
    BY Regroup
  <2>. QED  BY <2>1, JoinIs DEF Regroups
<1>10. Thins(l \o x, d)
  BY <1>6, <1>8 DEF RxTraced
<1>11. Thins((l \o x) \o y, d \o y)
  BY <1>9, <1>10, ThinWithRest
<1>. QED  BY <1>7, <1>8, <1>9, <1>11 DEF RxTraced

LEMMA RxSteps ==
  ASSUME Chan!EOrder, Chan!EOrder', SType, SType', RoomLeft, RxTraced, [Next]_vars
  PROVE  RxTraced'
<1>1. CASE EcuActs
  BY <1>1, EcuRx
<1>2. CASE Moves
  BY <1>2, MovesRx
<1>3. CASE AdapterSends \/ AdapterHears
  <2>1. /\ UNCHANGED <<channel, reported, log>> /\ Only("RX", crossed') = Only("RX", crossed)
        /\ Thins(collected' \o canwire', collected \o canwire)
    <3>1. CASE AdapterHears
      BY <3>1, HearsTail DEF AdapterHears
    <3>2. CASE AdapterSends
      <4>1. /\ collected' = << >> /\ canwire' = canwire
            /\ crossed' = crossed \o Traced("TX", <<Head(content)>>)
            /\ UNCHANGED <<channel, reported, log>> /\ to_adapter # << >>
            /\ IsPayload(Head(to_adapter))
        BY <3>2 DEF AdapterSends, IsPayload
      <4>2. <<Head(content)>> \in Seq(Ecu!SessionFrame) /\ crossed \in Seq(Entry)
            /\ "TX" \in Directions
        <5>1. Head(content) \in Ecu!SessionFrame
          BY <4>1, ContentHead, FramesAre
        <5>. QED  BY <5>1 DEF SType, Traces, Directions
      <4>3. Only("RX", crossed') = Only("RX", crossed)
        <5>1. OnlyGrows("RX", "TX", crossed, Traced("TX", <<Head(content)>>))
          BY <4>2, OnlyTraced
        <5>. QED  BY <4>1, <5>1 DEF OnlyGrows
      <4>4. PICK c, w \in Seq(Path!Inbound) : c = collected /\ w = canwire
        BY DEF SType, FlightTypes
      <4>5. << >> \o w = w /\ Thins(w, c \o w)
        BY JoinNone, ThinFront
      <4>. QED  BY <4>1, <4>3, <4>4, <4>5
    <3>. QED  BY <1>3, <3>1, <3>2
  <2>2. PICK b, s, t \in Seq(Path!Inbound) :
          b = Brought(InChannel) /\ s = collected \o canwire /\ t = collected' \o canwire'
    <3>1. collected' \o canwire' \in Seq(Path!Inbound)
      <4>1. PICK x, y \in Seq(Path!Inbound) : x = collected' /\ y = canwire'
        BY DEF SType, FlightTypes
      <4>2. x \o y \in Seq(Path!Inbound)
        BY JoinIs
      <4>. QED  BY <4>1, <4>2
    <3>. QED  BY <3>1, BroughtTyped, ComingTyped
  <2>3. Coming = b \o s /\ Coming' = b \o t
    <3>1. Brought(InChannel)' = b
      BY <2>1, <2>2 DEF Brought, InChannel, channel
    <3>2. PICK x, y : x = collected' /\ y = canwire'
      OBVIOUS
    <3>3. Coming' = b \o (x \o y)
      BY <3>1, <3>2 DEF Coming
    <3>. QED  BY <2>2, <3>2, <3>3 DEF Coming
  <2>4. Thins(Coming', Coming)
    BY <2>1, <2>2, <2>3, ThinBehind
  <2>5. PICK p, q \in Seq(Path!Inbound) : p = Coming' /\ q = Coming /\ Thins(p, q)
    BY <2>4, ComingTyped, RxTypedThen
  <2>6. PICK l, d, x, y \in Seq(Entry) :
          /\ l = Only("RX", log) /\ d = Only("RX", crossed)
          /\ x = Traced("RX", q) /\ y = Traced("RX", p) /\ Thins(y, x)
    BY <2>5, RxTyped, InSession, TracedTyped, TracedThins DEF Directions
  <2>7. RxLog = l \o x /\ RxLog' = l \o y /\ Only("RX", crossed') = d
    BY <2>1, <2>5, <2>6 DEF RxLog
  <2>8. Thins(l \o y, l \o x) /\ l \o y \in Seq(Entry) /\ l \o x \in Seq(Entry)
    BY <2>6, ThinBehind, JoinIs
  <2>9. Thins(l \o x, d)
    BY <2>6, <2>7 DEF RxTraced
  <2>10. Thins(l \o y, d)
    BY <2>8, <2>9, ThinTwice
  <2>. QED  BY <2>7, <2>10 DEF RxTraced
<1>4. CASE AdapterReports
  <2>1. collected' = << >> /\ UNCHANGED <<log, crossed, canwire>>
    BY <1>4, ReportsIs DEF can
  <2>2. PICK a, b, c, w \in Seq(Path!Inbound) :
          /\ a = Brought(InChannel)' /\ b = Brought(InChannel) /\ c = collected /\ w = canwire
          /\ Thins(a, b \o c)
    BY <1>4, ReportsFrames DEF SType, FlightTypes
  <2>3. Coming = b \o (c \o w) /\ Coming' = a \o w
    <3>1. << >> \o w = w
      BY JoinNone
    <3>. QED  BY <2>1, <2>2, <3>1 DEF Coming
  <2>4. (b \o c) \o w = b \o (c \o w) /\ b \o c \in Seq(Path!Inbound)
    BY JoinThree, JoinIs
  <2>5. Thins(a \o w, (b \o c) \o w)
    BY <2>2, <2>4, ThinWithRest
  <2>. QED  BY <2>1, <2>3, <2>4, <2>5, ComingThins
<1>5. CASE Thinks \/ ReadTimesOut \/ UNCHANGED vars
  <2>1. UNCHANGED <<channel, listening, canwire, crossed, log>>
    BY <1>5, ThinkLinks, ReadTimesOutIs DEF vars, can
  <2>. QED  BY <2>1 DEF RxTraced, RxLog, Coming, Brought, InChannel, channel, listening
<1>. QED  BY <1>1, <1>2, <1>3, <1>4, <1>5 DEF Next, Tester, Adapter, Moves, Finished

-----------------------------------------------------------------------------
(* The trace.                                                               *)

LEMMA InitTraced == Init => TxTraced /\ RxTraced
<1>. SUFFICES ASSUME Init PROVE TxTraced /\ RxTraced
  OBVIOUS
<1>1. Transport!Init /\ Ecu!Init /\ Elm!Init /\ content = << >> /\ collecting = FALSE
      /\ collected = << >> /\ log = << >> /\ crossed = << >>
  BY DEF Init
<1>2. outbox = << >> /\ canwire = << >> /\ op = "idle" /\ rx_queue_ = << >>
      /\ rx_accum_ = << >> /\ stream = << >>
  BY <1>1 DEF Transport!Init, Ecu!Init, Elm!Init
<1>3. << >> \o << >> = << >> /\ << >> \in Seq(Entry) /\ Len(<< >>) = 0
  OBVIOUS
<1>4. Kept = << >> /\ Untraced = << >>
  BY <1>1, <1>2, <1>3 DEF Kept, Unsent, Pending, Untraced
<1>5. Coming = << >>
  <2>1. << >> \in Seq(Chan!Known) /\ \A i \in 1..Len(<< >>) : ~Chan!IsFrame(<< >>[i])
    BY <1>3
  <2>2. Chan!FramesOf(<< >>) = << >>
    BY <2>1, Chan!FramesOfFacts, ChannelAssumed DEF Chan!ElmAssumption
  <2>3. InChannel = << >>
    BY <1>2, <1>3, <2>2 DEF InChannel
  <2>4. Brought(<< >>) = << >>
    BY <1>3 DEF Brought, Carried
  <2>. QED  BY <1>1, <1>2, <1>3, <2>3, <2>4 DEF Coming
<1>6. TxCrossed = << >> /\ TxLog = << >> /\ RxLog = << >> /\ Only("RX", crossed) = << >>
  BY <1>1, <1>3, <1>4, <1>5, TracedNone, OnlyNone DEF TxCrossed, TxLog, RxLog
<1>. QED  BY <1>3, <1>6, ThinNone DEF TxTraced, RxTraced

LEMMA StepTraced ==
  /\ Chan!EOrder /\ Chan!EOrder' /\ SType /\ SType' /\ RoomLeft /\ TxTraced /\ RxTraced
  /\ [Next]_vars
  => TxTraced' /\ RxTraced'
BY TxSteps, RxSteps

\* A frame that is not in the trace yet is not on the bus yet either.
LEMMA TxComplete ==
  ASSUME Chan!EOrder, SType, TxTraced
  PROVE  Within(Only("TX", crossed), Only("TX", log))
<1>1. PICK a, b \in Seq(Entry) : a = Only("TX", crossed) /\ b = Only("TX", log)
  BY TxTyped
<1>2. CASE Untraced = << >>
  <2>1. PICK x \in Seq(Entry) : x = Traced("TX", Kept)
    BY TxTyped
  <2>2. a \o x \in Seq(Entry) /\ Thins(a, a \o x)
    BY ThinBack, JoinIs
  <2>3. Thins(a \o x, b)
    <3>1. Thins(a \o x, b \o << >>)
      BY <1>1, <1>2, <2>1, TracedNone DEF TxTraced, TxCrossed, TxLog
    <3>. QED  BY <3>1, JoinNone
  <2>4. Thins(a, b)
    BY <2>2, <2>3, ThinTwice
  <2>. QED  BY <1>1, <2>4, ThinIsWithin
<1>3. CASE Untraced # << >>
  <2>1. op = "idle" /\ outbox # << >> /\ Untraced = outbox /\ Pending = outbox
    BY <1>3 DEF Untraced, Pending, NotGiven
  <2>2. PICK f \in Path!Outbound : outbox = <<f>> /\ <<f>> \in Seq(Path!Outbound)
    <3>1. outbox \in Seq(Path!Outbound) /\ Len(outbox) <= 1
      BY DEF SType, FlightTypes, Shape
    <3>2. Len(outbox) = 1 /\ outbox = <<outbox[1]>>
      BY <2>1, <3>1, OneOnly
    <3>3. outbox[1] \in Path!Outbound
      BY <3>1, <3>2
    <3>. QED  BY <3>1, <3>2, <3>3
  <2>3. PICK u \in Seq(Path!Outbound) : u = Unsent
    BY UnsentTyped
  <2>4. /\ u \in Seq(Ecu!SessionFrame) /\ <<f>> \in Seq(Ecu!SessionFrame) /\ "TX" \in Directions
        /\ Kept = u \o <<f>> /\ Untraced = <<f>>
    BY <2>1, <2>2, <2>3, OutSession DEF Directions, Kept
  <2>5. PICK x, y \in Seq(Entry), e \in Entry :
          x = Traced("TX", u) /\ y = Traced("TX", <<f>>) /\ y = <<e>>
    <3>1. PICK z \in Seq(Entry) : z = Traced("TX", <<f>>)
      BY <2>4, TracedTyped
    <3>2. Len(z) = 1
      BY <2>4, <3>1, TracedTyped
    <3>3. z # << >> /\ z[1] \in Entry
      <4>1. Len(<< >>) # Len(z) /\ 1 \in 1..Len(z)
        BY <3>2
      <4>2. \A i \in 1..Len(z) : z[i] \in Entry
        BY LenIs
      <4>3. z # << >>
        BY ONLY <4>1
      <4>. QED  BY <4>1, <4>2, <4>3
    <3>4. z = <<z[1]>>
      BY <3>2, <3>3, OneOnly
    <3>. QED  BY <2>4, <3>1, <3>3, <3>4, TracedTyped
  <2>6. TxCrossed = a \o (x \o y) /\ TxLog = b \o y
    BY <1>1, <2>4, <2>5, TracedJoined DEF TxCrossed, TxLog
  <2>7. PICK c \in Seq(Entry) : c = a \o x /\ Thins(a, c)
    BY ThinBack, JoinIs
  <2>8. TxCrossed = c \o y
    <3>1. Regroups(a, x, y)
      BY Regroup
    <3>. QED  BY <2>6, <2>7, <3>1 DEF Regroups
  <2>9. c \o <<e>> = Append(c, e) /\ b \o <<e>> = Append(b, e)
    BY JoinOne
  <2>10. Thins(Append(c, e), Append(b, e))
    BY <2>5, <2>6, <2>8, <2>9 DEF TxTraced
  <2>11. Thins(c, b)
    BY <2>10, ThinBeforeLast
  <2>12. Thins(a, b)
    BY <2>7, <2>11, ThinTwice
  <2>. QED  BY <1>1, <2>12, ThinIsWithin
<1>. QED  BY <1>2, <1>3

\* What is on its way is not in the trace yet.
LEMMA RxComplete ==
  ASSUME Chan!EOrder, SType, RxTraced
  PROVE  Within(Only("RX", log), Only("RX", crossed))
<1>1. PICK b, c, d \in Seq(Entry) :
        b = Only("RX", log) /\ c = Only("RX", crossed) /\ d = Traced("RX", Coming)
  BY RxTyped
<1>2. b \o d \in Seq(Entry) /\ Thins(b, b \o d)
  BY ThinBack, JoinIs
<1>3. Thins(b \o d, c)
  BY <1>1 DEF RxTraced, RxLog
<1>4. Thins(b, c)
  BY <1>2, <1>3, ThinTwice
<1>. QED  BY <1>1, <1>4, ThinIsWithin

LEMMA TracedIsComplete == Chan!EOrder /\ SType /\ TxTraced /\ RxTraced => TraceComplete
BY TxComplete, RxComplete DEF TraceComplete

\* Whatever the stream and the adapter lose, and whichever write() fails, the trace holds
\* every frame that the tester has put on the bus, in order, and no frame from the bus
\* that was not there, or twice, or out of order (frame_trace.cpp:16-30): the frame is
\* written before the channel has it, and the channel neither makes up a frame nor
\* reorders those that it was given.
THEOREM TraceIsComplete == Spec => []TraceComplete
<1>1. Init => TxTraced /\ RxTraced
  BY InitTraced
<1>2. /\ Chan!EOrder /\ Chan!EOrder' /\ SType /\ SType' /\ RoomLeft /\ TxTraced /\ RxTraced
      /\ [Next]_vars
      => TxTraced' /\ RxTraced'
  BY StepTraced
<1>3. Chan!EOrder /\ SType /\ TxTraced /\ RxTraced => TraceComplete
  BY TracedIsComplete
<1>. QED  BY <1>1, <1>2, <1>3, Typed, PTL DEF Spec
=============================================================================
