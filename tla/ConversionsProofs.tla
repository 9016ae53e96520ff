------------------------- MODULE ConversionsProofs -------------------------
(***************************************************************************)
(* Proofs about Conversions: the clock is exact; the ECU reads in a request *)
(* what the call meant, for every argument; a frame comes back from its     *)
(* line, and a line that was cut loses data only.                           *)
(***************************************************************************)
EXTENDS Conversions, Positional, SequenceTheorems, WellFoundedInduction, TLAPS

-----------------------------------------------------------------------------
(* Recursive functions on the naturals.                                     *)

\* The smallest of a set of numbers: what replaces an induction over them.
LEMMA SmallestOf ==
  ASSUME NEW T \in SUBSET Nat, T # {}
  PROVE  \E n \in T : \A m \in T : n <= m
<1>1. IsWellFoundedOn(OpToRel(<, Nat), Nat)
  BY NatLessThanWellFounded
<1>2. PICK x \in T : \A y \in T : ~ (<<y, x>> \in OpToRel(<, Nat))
  BY <1>1, WFMin
<1>3. ASSUME NEW y \in T PROVE x <= y
  <2>1. x \in Nat /\ y \in Nat
    OBVIOUS
  <2>2. ~ (<<y, x>> \in OpToRel(<, Nat))
    BY <1>2
  <2>3. ~(y < x)
    BY <2>1, <2>2 DEF OpToRel
  <2>. QED  BY <2>1, <2>3
<1>. QED  BY <1>3

\* f is what base becomes in up to n steps; a step is a function of the number and of
\* how many steps there have been.
Steps(f, n, base, step) ==
  f = [i \in 0..n |-> IF i = 0 THEN base ELSE step[<<f[i - 1], i>>]]

StepFunctions == [Nat \X Nat -> Nat]

\* One step more.
LEMMA StepMore ==
  ASSUME NEW n \in Nat, NEW base \in Nat, NEW step \in StepFunctions,
         NEW f, Steps(f, n, base, step)
  PROVE  \E g : Steps(g, n + 1, base, step)
<1>. DEFINE g == [i \in 0..(n + 1) |-> IF i = n + 1 THEN step[<<f[n], n + 1>>] ELSE f[i]]
<1>1. ASSUME NEW i \in 0..(n + 1)
      PROVE  g[i] = IF i = 0 THEN base ELSE step[<<g[i - 1], i>>]
  <2>1. CASE i = n + 1
    <3>1. g[i - 1] = f[n] /\ i # 0
      BY <2>1
    <3>. QED  BY <2>1, <3>1
  <2>2. CASE i # n + 1
    <3>1. i \in 0..n /\ (i # 0 => i - 1 \in 0..(n + 1) /\ i - 1 # n + 1)
      BY <2>2
    <3>2. f[i] = IF i = 0 THEN base ELSE step[<<f[i - 1], i>>]
      BY <3>1 DEF Steps
    <3>3. g[i] = f[i] /\ (i # 0 => g[i - 1] = f[i - 1])
      BY <2>2, <3>1
    <3>. QED  BY <3>2, <3>3
  <2>. QED  BY <2>1, <2>2
<1>2. g = [i \in 0..(n + 1) |-> g[i]]
  OBVIOUS
<1>. HIDE DEF g
<1>3. Steps(g, n + 1, base, step)
  BY <1>1, <1>2 DEF Steps
<1>. QED  BY <1>3

LEMMA StepsExist ==
  ASSUME NEW len \in Nat, NEW base \in Nat, NEW step \in StepFunctions
  PROVE  \E f : Steps(f, len, base, step)
<1>. DEFINE T == {n \in Nat : ~ \E f : Steps(f, n, base, step)}
<1>1. SUFFICES ASSUME T # {} PROVE FALSE
  OBVIOUS
<1>2. PICK n \in T : \A m \in T : n <= m
  BY <1>1, SmallestOf
<1>3. CASE n = 0
  <2>1. Steps([i \in 0..0 |-> base], 0, base, step)
    BY DEF Steps
  <2>. QED  BY <1>3, <2>1
<1>4. CASE n > 0
  <2>1. n - 1 \in Nat /\ ~(n <= n - 1) /\ (n - 1) + 1 = n
    BY <1>4
  <2>2. PICK f : Steps(f, n - 1, base, step)
    BY <1>2, <2>1
  <2>3. \E g : Steps(g, (n - 1) + 1, base, step)
    BY <2>1, <2>2, StepMore
  <2>. QED  BY <2>1, <2>3
<1>. QED  BY <1>3, <1>4

LEMMA StepsTyped ==
  ASSUME NEW n \in Nat, NEW base \in Nat, NEW step \in StepFunctions,
         NEW f, Steps(f, n, base, step), NEW k \in 0..n
  PROVE  f[k] \in Nat
<1>. DEFINE T == {i \in 0..n : f[i] \notin Nat}
<1>1. SUFFICES ASSUME T # {} PROVE FALSE
  OBVIOUS
<1>2. PICK i \in T : \A j \in T : i <= j
  <2>1. T \in SUBSET Nat
    OBVIOUS
  <2>. HIDE DEF T
  <2>. QED  BY <1>1, <2>1, SmallestOf
<1>3. f[i] = IF i = 0 THEN base ELSE step[<<f[i - 1], i>>]
  BY DEF Steps
<1>4. CASE i = 0
  BY <1>3, <1>4
<1>5. CASE i # 0
  <2>1. i \in Nat /\ i - 1 \in 0..n /\ ~(i <= i - 1)
    BY <1>5
  <2>2. f[i - 1] \in Nat
    BY <1>2, <2>1
  <2>. QED  BY <1>3, <1>5, <2>1, <2>2 DEF StepFunctions
<1>. QED  BY <1>4, <1>5

\* However many steps are taken, the first are the same.
LEMMA StepsAgree ==
  ASSUME NEW m \in Nat, NEW n \in Nat, m <= n, NEW base, NEW step,
         NEW f, Steps(f, m, base, step), NEW g, Steps(g, n, base, step)
  PROVE  g[m] = f[m]
<1>. DEFINE T == {i \in 0..m : g[i] # f[i]}
<1>1. SUFFICES ASSUME T # {} PROVE FALSE
  BY <1>1
<1>2. PICK k \in T : \A i \in T : k <= i
  <2>1. T \in SUBSET Nat
    OBVIOUS
  <2>. HIDE DEF T
  <2>. QED  BY <1>1, <2>1, SmallestOf
<1>3. k \in 0..m /\ k \in 0..n
  OBVIOUS
<1>4. /\ f[k] = IF k = 0 THEN base ELSE step[<<f[k - 1], k>>]
      /\ g[k] = IF k = 0 THEN base ELSE step[<<g[k - 1], k>>]
  BY <1>3 DEF Steps
<1>5. CASE k = 0
  BY <1>4, <1>5
<1>6. CASE k # 0
  <2>1. k - 1 \in 0..m /\ ~(k <= k - 1)
    BY <1>3, <1>6
  <2>2. g[k - 1] = f[k - 1]
    BY <1>2, <2>1
  <2>. QED  BY <1>4, <1>6, <2>2
<1>. QED  BY <1>5, <1>6

\* Hence there is one function for any number of steps.
LEMMA StepsForever ==
  ASSUME NEW base \in Nat, NEW step \in StepFunctions
  PROVE  \E f : f = [i \in Nat |-> IF i = 0 THEN base ELSE step[<<f[i - 1], i>>]]
<1>. DEFINE upto(n) == CHOOSE f : Steps(f, n, base, step)
            f == [i \in Nat |-> upto(i)[i]]
<1>1. ASSUME NEW n \in Nat PROVE Steps(upto(n), n, base, step)
  BY StepsExist
<1>. HIDE DEF upto
<1>2. ASSUME NEW i \in Nat PROVE f[i] = IF i = 0 THEN base ELSE step[<<f[i - 1], i>>]
  <2>1. Steps(upto(i), i, base, step)
    BY <1>1
  <2>2. upto(i)[i] = IF i = 0 THEN base ELSE step[<<upto(i)[i - 1], i>>]
    <3>1. i \in 0..i
      OBVIOUS
    <3>. QED  BY <2>1, <3>1 DEF Steps
  <2>3. CASE i = 0
    BY <2>2, <2>3
  <2>4. CASE i # 0
    <3>1. i - 1 \in Nat /\ i - 1 <= i
      BY <2>4
    <3>2. upto(i)[i - 1] = upto(i - 1)[i - 1]
      BY <1>1, <2>1, <3>1, StepsAgree
    <3>. QED  BY <2>2, <2>4, <3>1, <3>2
  <2>. QED  BY <2>3, <2>4
<1>3. f = [i \in Nat |-> f[i]]
  OBVIOUS
<1>. HIDE DEF f
<1>4. f = [i \in Nat |-> IF i = 0 THEN base ELSE step[<<f[i - 1], i>>]]
  BY <1>2, <1>3
<1>. QED  BY <1>4

-----------------------------------------------------------------------------
(* Numbers and their digits.                                                *)

Radix == {16, 256}

\* Digits are taken off one by one.
LEMMA ShiftedBy ==
  ASSUME NEW v \in Nat, NEW r \in Radix
  PROVE  /\ Shifted(v, 0, r) = v
         /\ \A k \in Nat : /\ Shifted(v, k, r) \in Nat
                           /\ Shifted(v, k + 1, r) = Shifted(v, k, r) \div r
<1>. DEFINE step == [p \in Nat \X Nat |-> p[1] \div r]
<1>1. step \in StepFunctions
  <2>1. ASSUME NEW p \in Nat \X Nat PROVE p[1] \div r \in Nat
    BY DEF Radix
  <2>. QED  BY <2>1 DEF StepFunctions
<1>2. \A a, i \in Nat : step[<<a, i>>] = a \div r
  OBVIOUS
<1>. HIDE DEF step
<1>3. PICK g : g = [i \in Nat |-> IF i = 0 THEN v ELSE step[<<g[i - 1], i>>]]
  BY <1>1, StepsForever
<1>4. ASSUME NEW k \in Nat PROVE g[k] \in Nat
  <2>. DEFINE f == [i \in 0..k |-> g[i]]
  <2>1. ASSUME NEW i \in 0..k PROVE f[i] = IF i = 0 THEN v ELSE step[<<f[i - 1], i>>]
    <3>1. i \in Nat /\ (i # 0 => i - 1 \in 0..k)
      OBVIOUS
    <3>2. g[i] = IF i = 0 THEN v ELSE step[<<g[i - 1], i>>]
      BY <1>3, <3>1
    <3>. QED  BY <3>1, <3>2
  <2>2. f = [i \in 0..k |-> f[i]]
    OBVIOUS
  <2>. HIDE DEF f
  <2>3. Steps(f, k, v, step)
    BY <2>1, <2>2 DEF Steps
  <2>4. f[k] \in Nat
    BY <1>1, <2>3, StepsTyped
  <2>. QED  BY <2>4 DEF f
<1>5. g = [i \in Nat |-> IF i = 0 THEN v ELSE g[i - 1] \div r]
  <2>1. ASSUME NEW i \in Nat PROVE g[i] = IF i = 0 THEN v ELSE g[i - 1] \div r
    <3>1. g[i] = IF i = 0 THEN v ELSE step[<<g[i - 1], i>>]
      BY <1>3
    <3>2. CASE i # 0
      <4>1. i - 1 \in Nat /\ g[i - 1] \in Nat
        BY <1>4, <3>2
      <4>. QED  BY <1>2, <3>1, <3>2, <4>1
    <3>. QED  BY <3>1, <3>2
  <2>. QED  BY <1>3, <2>1
<1>6. PICK h : /\ h = [i \in Nat |-> IF i = 0 THEN v ELSE h[i - 1] \div r]
               /\ \A k : Shifted(v, k, r) = h[k]
  BY <1>5 DEF Shifted
<1>7. ASSUME NEW k \in Nat
      PROVE h[k + 1] = h[k] \div r
  <2>1. k + 1 \in Nat /\ k + 1 # 0 /\ (k + 1) - 1 = k
    OBVIOUS
  <2>2. h[k + 1] = IF k + 1 = 0 THEN v ELSE h[(k + 1) - 1] \div r
    BY <1>6, <2>1
  <2>. QED  BY <2>1, <2>2
<1>8. h[0] = v
  BY <1>6
<1>9. ASSUME NEW k \in Nat PROVE h[k] \in Nat
  <2>. DEFINE T == {i \in Nat : h[i] \notin Nat}
  <2>1. SUFFICES ASSUME T # {} PROVE FALSE
    OBVIOUS
  <2>2. PICK i \in T : \A j \in T : i <= j
    BY <2>1, SmallestOf
  <2>3. CASE i = 0
    BY <1>8, <2>3
  <2>4. CASE i # 0
    <3>1. i - 1 \in Nat /\ ~(i <= i - 1) /\ (i - 1) + 1 = i
      BY <2>4
    <3>2. h[i - 1] \in Nat
      BY <2>2, <3>1
    <3>3. h[i] = h[i - 1] \div r
      BY <1>7, <3>1
    <3>4. h[i - 1] \div r \in Nat
      BY <3>2 DEF Radix
    <3>. QED  BY <3>3, <3>4
  <2>. QED  BY <2>3, <2>4
<1>. QED  BY <1>6, <1>7, <1>8, <1>9

\* Numbers are read digit by digit.
LEMMA ValueRead ==
  ASSUME NEW r \in Radix, NEW n \in Nat, NEW d \in [1..n -> Nat], Len(d) = n
  PROVE  \E f : /\ f[0] = 0 /\ ValueOf(d, r) = f[n]
                /\ \A i \in 1..n : f[i] = f[i - 1] * r + d[i]
<1>. DEFINE step == [p \in Nat \X Nat |-> p[1] * r + (IF p[2] \in 1..n THEN d[p[2]] ELSE 0)]
<1>1. step \in StepFunctions
  <2>1. ASSUME NEW p \in Nat \X Nat
        PROVE p[1] * r + (IF p[2] \in 1..n THEN d[p[2]] ELSE 0) \in Nat
    <3>1. p[1] \in Nat /\ (IF p[2] \in 1..n THEN d[p[2]] ELSE 0) \in Nat
      OBVIOUS
    <3>2. p[1] * r \in Nat
      BY <3>1 DEF Radix
    <3>. QED  BY <3>1, <3>2
  <2>. QED  BY <2>1 DEF StepFunctions
<1>2. \A a \in Nat, i \in 1..n : step[<<a, i>>] = a * r + d[i]
  OBVIOUS
<1>. HIDE DEF step
<1>3. PICK g : Steps(g, n, 0, step)
  BY <1>1, StepsExist
<1>4. \A i \in 0..n : g[i] \in Nat
  BY <1>1, <1>3, StepsTyped
<1>5. g = [i \in 0..n |-> IF i = 0 THEN 0 ELSE g[i - 1] * r + d[i]]
  <2>1. ASSUME NEW i \in 0..n PROVE g[i] = IF i = 0 THEN 0 ELSE g[i - 1] * r + d[i]
    <3>1. g[i] = IF i = 0 THEN 0 ELSE step[<<g[i - 1], i>>]
      BY <1>3 DEF Steps
    <3>2. CASE i # 0
      <4>1. i \in 1..n /\ i - 1 \in 0..n
        BY <3>2
      <4>2. g[i - 1] \in Nat
        BY <1>4, <4>1
      <4>. QED  BY <1>2, <3>1, <3>2, <4>1, <4>2
    <3>. QED  BY <3>1, <3>2
  <2>2. g = [i \in 0..n |-> g[i]]
    BY <1>3 DEF Steps
  <2>. QED  BY <2>1, <2>2
<1>6. PICK h : /\ h = [i \in 0..n |-> IF i = 0 THEN 0 ELSE h[i - 1] * r + d[i]]
               /\ ValueOf(d, r) = h[n]
  BY <1>5 DEF ValueOf
<1>7. ASSUME NEW i \in 1..n PROVE h[i] = h[i - 1] * r + d[i]
  <2>1. i \in 0..n /\ i # 0
    OBVIOUS
  <2>. QED  BY <1>6, <2>1
<1>8. h[0] = 0
  BY <1>6
<1>. QED  BY <1>6, <1>7, <1>8

\* A number with no more than n digits is read as it was spelled.
LEMMA ReadAsSpelled ==
  ASSUME NEW r \in Radix, NEW v \in Nat, NEW n \in Nat, Shifted(v, n, r) = 0
  PROVE  ValueOf(Spelled(v, n, r), r) = v
<1>. DEFINE d == Spelled(v, n, r)
            s(k) == Shifted(v, k, r)
<1>1. /\ s(0) = v
      /\ \A k \in Nat : s(k) \in Nat /\ s(k + 1) = s(k) \div r
  BY ShiftedBy
<1>2. d \in [1..n -> Nat] /\ Len(d) = n /\ \A p \in 1..n : d[p] = s(n - p) % r
  <2>1. ASSUME NEW p \in 1..n PROVE s(n - p) % r \in Nat
    <3>1. n - p \in Nat
      OBVIOUS
    <3>2. s(n - p) \in Nat
      BY <1>1, <3>1
    <3>. HIDE DEF s
    <3>. QED  BY <3>2 DEF Radix
  <2>. QED  BY <2>1 DEF Spelled
<1>3. s(n) = 0
  OBVIOUS
<1>. HIDE DEF d, s
<1>4. PICK f : /\ f[0] = 0 /\ ValueOf(d, r) = f[n]
               /\ \A i \in 1..n : f[i] = f[i - 1] * r + d[i]
  <2>1. \A e \in [1..n -> Nat] : Len(e) = n =>
          \E f : /\ f[0] = 0 /\ ValueOf(e, r) = f[n]
                 /\ \A i \in 1..n : f[i] = f[i - 1] * r + e[i]
    BY ValueRead
  <2>2. d \in [1..n -> Nat] /\ Len(d) = n
    BY <1>2, Zenon
  <2>. QED  BY <2>1, <2>2, Zenon
<1>. DEFINE T == {i \in 0..n : f[i] # s(n - i)}
<1>5. SUFFICES ASSUME T # {} PROVE FALSE
  <2>1. n \in 0..n /\ n - n = 0
    OBVIOUS
  <2>2. f[n] = s(0)
    BY <1>5, <2>1
  <2>. QED  BY <1>1, <1>4, <2>2 DEF d
<1>6. PICK i \in T : \A j \in T : i <= j
  <2>1. T \in SUBSET Nat
    OBVIOUS
  <2>. HIDE DEF T
  <2>. QED  BY <1>5, <2>1, SmallestOf
<1>7. CASE i = 0
  <2>1. f[i] = 0 /\ n - i = n
    BY <1>4, <1>7
  <2>. QED  BY <1>3, <2>1
<1>8. CASE i # 0
  <2>1. i \in 1..n /\ i - 1 \in 0..n /\ ~(i <= i - 1) /\ n - i \in Nat /\ n - (i - 1) = (n - i) + 1
    BY <1>8
  <2>2. f[i - 1] = s((n - i) + 1)
    BY <1>6, <2>1
  <2>3. f[i] = (s(n - i) \div r) * r + (s(n - i) % r)
    <3>1. f[i] = f[i - 1] * r + d[i] /\ d[i] = s(n - i) % r
      BY <1>2, <1>4, <2>1
    <3>2. f[i - 1] = s(n - i) \div r
      BY <1>1, <2>1, <2>2
    <3>. QED  BY <3>1, <3>2
  <2>4. s(n - i) \in Nat
    BY <1>1, <2>1
  <2>5. s(n - i) = (s(n - i) \div r) * r + (s(n - i) % r)
    BY <2>4 DEF Radix
  <2>. QED  BY <2>3, <2>5
<1>. QED  BY <1>7, <1>8

\* Every digit is one.
LEMMA SpelledTyped ==
  ASSUME NEW r \in Radix, NEW v \in Nat, NEW n \in Nat
  PROVE  Spelled(v, n, r) \in Seq(0..(r - 1)) /\ Len(Spelled(v, n, r)) = n
<1>1. ASSUME NEW p \in 1..n PROVE Shifted(v, n - p, r) % r \in 0..(r - 1)
  <2>1. n - p \in Nat
    OBVIOUS
  <2>2. PICK s \in Nat : s = Shifted(v, n - p, r)
    BY <2>1, ShiftedBy
  <2>3. s % r \in 0..(r - 1)
    BY DEF Radix
  <2>. QED  BY <2>2, <2>3
<1>. QED  BY <1>1 DEF Spelled

-----------------------------------------------------------------------------
(* Requests.                                                                *)

LEMMA RequestsAssumed == Requests!RequestsAssumption
BY ConversionsAssumption

LEMMA RequestDigits ==
  ASSUME NEW v, NEW n, NEW d
  PROVE  /\ Requests!Shifted(v, n, 256) = Shifted(v, n, 256)
         /\ Requests!ValueOf(d, 256) = ValueOf(d, 256)
BY DEF Requests!Shifted, Shifted, Requests!ValueOf, ValueOf

\* push_be() writes n bytes, whatever n.
LEMMA PushBeTyped ==
  ASSUME NEW v \in Nat, NEW n \in Nat, NEW wraps \in BOOLEAN
  PROVE  /\ Requests!PushBe(v, n, wraps) \in Seq(Requests!Byte)
         /\ Len(Requests!PushBe(v, n, wraps)) = n
<1>1. ASSUME NEW p \in 1..n PROVE Requests!ByteAt(v, n - p, wraps) \in Requests!Byte
  <2>1. n - p \in Nat /\ (n - p) % 8 \in Nat
    OBVIOUS
  <2>2. PICK s \in Nat : s = Requests!ShiftedRight(v, (n - p) % 8)
    BY <2>1, ShiftedBy, RequestDigits DEF Requests!ShiftedRight, Radix
  <2>. QED  BY <2>2 DEF Requests!ByteAt, Requests!Byte
<1>. QED  BY <1>1 DEF Requests!PushBe

\* As long as the value fits, the ECU reads in them what it was.
LEMMA PushBeRead ==
  ASSUME NEW v \in Nat, NEW n \in Nat, NEW wraps \in BOOLEAN, Requests!Fits(v, n)
  PROVE  Requests!Number(Requests!PushBe(v, n, wraps)) = v
<1>1. n <= 8 /\ Shifted(v, n, 256) = 0
  BY RequestDigits DEF Requests!Fits, Requests!ShiftedRight
<1>2. ASSUME NEW p \in 1..n PROVE Requests!ByteAt(v, n - p, wraps) = Shifted(v, n - p, 256) % 256
  <2>1. n - p < 8 /\ (n - p) % 8 = n - p
    BY <1>1
  <2>. QED  BY <2>1, RequestDigits DEF Requests!ByteAt, Requests!ShiftedRight
<1>3. Requests!PushBe(v, n, wraps) = Spelled(v, n, 256)
  BY <1>2 DEF Requests!PushBe, Spelled
<1>4. ValueOf(Spelled(v, n, 256), 256) = v
  BY <1>1, ReadAsSpelled DEF Radix
<1>. QED  BY <1>3, <1>4, RequestDigits DEF Requests!Number

\* A sequence with something in front of it.
LEMMA InFront ==
  ASSUME NEW S, NEW a \in S, NEW s \in Seq(S)
  PROVE  /\ <<a>> \o s \in Seq(S) /\ <<a>> \o s # << >>
         /\ (<<a>> \o s)[1] = a /\ Tail(<<a>> \o s) = s
<1>1. <<a>> \in Seq(S) /\ Len(<<a>>) = 1 /\ <<a>>[1] = a
  OBVIOUS
<1>2. /\ <<a>> \o s \in Seq(S) /\ Len(<<a>> \o s) = 1 + Len(s)
      /\ \A i \in 1..(1 + Len(s)) : (<<a>> \o s)[i] = IF i <= 1 THEN <<a>>[i] ELSE s[i - 1]
  BY <1>1, ConcatProperties
<1>3. Len(s) \in Nat
  OBVIOUS
<1>. PICK t \in Seq(S) : t = <<a>> \o s
  BY <1>2
<1>4. /\ Len(t) = 1 + Len(s) /\ t[1] = a /\ \A i \in 1..Len(s) : t[i + 1] = s[i]
  <2>1. ASSUME NEW i \in 1..Len(s) PROVE t[i + 1] = s[i]
    <3>1. i + 1 \in 1..(1 + Len(s)) /\ ~(i + 1 <= 1) /\ (i + 1) - 1 = i
      BY <1>3
    <3>. QED  BY <1>2, <3>1
  <2>2. 1 \in 1..(1 + Len(s))
    BY <1>3
  <2>. QED  BY <1>1, <1>2, <2>1, <2>2
<1>5. Tail(t) \in Seq(S) /\ Len(Tail(t)) = Len(s) /\ \A i \in 1..Len(s) : Tail(t)[i] = s[i]
  BY <1>3, <1>4
<1>6. Tail(t) = s
  BY <1>5, SeqEqual
<1>. QED  BY <1>4, <1>6, <1>3

\* The two parts of a sequence.
LEMMA TwoFields ==
  ASSUME NEW S, NEW s \in Seq(S), NEW t \in Seq(S)
  PROVE  /\ s \o t \in Seq(S) /\ Len(s \o t) = Len(s) + Len(t)
         /\ SubSeq(s \o t, 1, Len(s)) = s
         /\ SubSeq(s \o t, Len(s) + 1, Len(s) + Len(t)) = t
<1>1. PICK a \in Nat, b \in Nat : a = Len(s) /\ b = Len(t)
  OBVIOUS
<1>2. PICK u : u = s \o t
  OBVIOUS
<1>3. /\ u \in Seq(S) /\ Len(u) = a + b
      /\ \A i \in 1..(a + b) : u[i] = IF i <= a THEN s[i] ELSE t[i - a]
  BY <1>1, <1>2, ConcatProperties
<1>4. SubSeq(u, 1, a) = s
  <2>1. /\ SubSeq(u, 1, a) \in Seq(S) /\ Len(SubSeq(u, 1, a)) = a
        /\ \A i \in 1..a : SubSeq(u, 1, a)[i] = u[i]
    BY <1>1, <1>3
  <2>2. \A i \in 1..a : u[i] = s[i]
    BY <1>1, <1>3
  <2>. QED  BY <1>1, <2>1, <2>2, SeqEqual
<1>5. SubSeq(u, a + 1, a + b) = t
  <2>1. /\ SubSeq(u, a + 1, a + b) \in Seq(S) /\ Len(SubSeq(u, a + 1, a + b)) = b
        /\ \A i \in 1..b : SubSeq(u, a + 1, a + b)[i] = u[a + i]
    BY <1>1, <1>3
  <2>2. ASSUME NEW i \in 1..b PROVE u[a + i] = t[i]
    <3>1. a + i \in 1..(a + b) /\ ~(a + i <= a) /\ (a + i) - a = i
      BY <1>1
    <3>. QED  BY <1>3, <3>1
  <2>. QED  BY <1>1, <2>1, <2>2, SeqEqual
<1>. QED  BY <1>1, <1>2, <1>3, <1>4, <1>5

\* Services other than SecurityAccess have a number of their own.
LEMMA OwnNumber ==
  ASSUME NEW op \in DOMAIN Requests!SidOf \ {"read_vin", "request_seed", "send_key"}, NEW p
  PROVE  Requests!OpOf(Requests!SidOf[op], p) = op
<1>. DEFINE Ops == {"diagnostic_session", "stop_diagnostic_session", "tester_present",
                    "read_data_by_id", "read_ecu_identification", "read_dtcs_uds",
                    "read_dtcs_kwp", "clear_dtcs_uds", "start_routine_kwp",
                    "routine_results_kwp", "stop_routine_kwp", "io_control_kwp",
                    "read_memory_by_address", "request_upload", "request_download",
                    "transfer_data", "request_transfer_exit"}
<1>1. DOMAIN Requests!SidOf \ {"read_vin", "request_seed", "send_key"} = Ops
  BY DEF Requests!SidOf
<1>2. /\ op \in Ops /\ Requests!SidOf[op] # 39
      /\ Requests!SidOf["request_seed"] = 39 /\ Requests!SidOf["send_key"] = 39
  BY <1>1 DEF Requests!SidOf
<1>3. ASSUME NEW other \in Ops, Requests!SidOf[other] = Requests!SidOf[op] PROVE other = op
  BY <1>2, <1>3 DEF Requests!SidOf
<1>. HIDE DEF Ops
<1>4. ASSUME NEW other \in DOMAIN Requests!SidOf \ {"read_vin"},
             Requests!SidOf[other] = Requests!SidOf[op]
      PROVE  other = op
  BY <1>1, <1>2, <1>3, <1>4
<1>5. (CHOOSE o \in DOMAIN Requests!SidOf \ {"read_vin"} : Requests!SidOf[o] = Requests!SidOf[op])
        = op
  BY <1>4
<1>. QED  BY <1>2, <1>5 DEF Requests!OpOf

\* The bytes of a request are the service and the parameters.
Says(c, wraps) == <<Requests!SidOf[c.op]>> \o Requests!Params(c, wraps)

LEMMA ServiceNumbers ==
  ASSUME NEW c \in Requests!Calls
  PROVE  c.op \in DOMAIN Requests!SidOf /\ Requests!SidOf[c.op] \in Requests!Byte
<1>1. c.op \in DOMAIN Requests!SidOf
  BY DEF Requests!Calls, Requests!SidOf, Requests!Bare, Requests!OneByte, Requests!WithData,
         Requests!Memory
<1>. QED  BY <1>1 DEF Requests!SidOf, Requests!Byte

\* The calls with one argument, and those with data after it.
WithArg == {"diagnostic_session", "read_ecu_identification", "routine_results_kwp",
            "request_seed"}
WithBoth == {"start_routine_kwp", "stop_routine_kwp", "io_control_kwp", "transfer_data",
             "send_key"}

\* p is the bytes after the service number.
ParamsAre(c, p, wraps) ==
  /\ c.op \in Requests!Bare => p = Requests!BareParams(c.op)
  /\ c.op = "read_dtcs_uds" => p = <<2, c.arg>>
  /\ c.op \in WithArg => p = <<c.arg>>
  /\ c.op \in WithBoth => p = <<c.arg>> \o c.data
  /\ c.op = "read_data_by_id" => p = Requests!DidBytes(c.did)
  /\ c.op = "request_transfer_exit" => p = c.data
  /\ c.op \in Requests!Memory => p = Requests!MemoryParams(c, wraps)

LEMMA ParamsOf ==
  ASSUME NEW c, NEW wraps
  PROVE  ParamsAre(c, Requests!Params(c, wraps), wraps)
<1>. PICK op, params : op = c.op /\ params = Requests!Params(c, wraps)
  OBVIOUS
<1>. SUFFICES ParamsAre(c, params, wraps)
  OBVIOUS
<1>. USE DEF ParamsAre
<1>. USE DEF Requests!Params, WithArg, WithBoth, Requests!Bare, Requests!OneByte, Requests!WithData,
             Requests!Memory
<1>1. CASE op \in Requests!Bare
  BY <1>1
<1>2. CASE op = "read_dtcs_uds"
  BY <1>2
<1>3. CASE op \in WithArg
  BY <1>3
<1>4. CASE op \in WithBoth
  BY <1>4
<1>5. CASE op = "read_data_by_id"
  BY <1>5
<1>6. CASE op = "request_transfer_exit"
  BY <1>6
<1>7. CASE op \in Requests!Memory
  BY <1>7
<1>. QED  BY <1>1, <1>2, <1>3, <1>4, <1>5, <1>6, <1>7

\* What a call consists of.
IsBare(c)   == c.op \in Requests!Bare /\ c = [op |-> c.op]
IsByte(c)   == /\ c.op \in {"read_dtcs_uds"} \cup WithArg /\ c.arg \in Requests!Byte
               /\ c = [op |-> c.op, arg |-> c.arg]
               /\ c.op = "request_seed" => c.arg % 2 = 1
IsData(c)   == /\ c.op \in WithBoth /\ c.arg \in Requests!Byte /\ c.data \in Seq(Requests!Byte)
               /\ c = [op |-> c.op, arg |-> c.arg, data |-> c.data]
               /\ c.op = "send_key" => c.arg % 2 = 0
IsDid(c)    == /\ c.op = "read_data_by_id" /\ c.did \in Nat /\ c.did < 65536
               /\ c = [op |-> c.op, did |-> c.did]
IsExit(c)   == /\ c.op = "request_transfer_exit" /\ c.data \in Seq(Requests!Byte)
               /\ c = [op |-> c.op, data |-> c.data]
IsMemory(c) == /\ c.op \in Requests!Memory /\ c.format \in Requests!Byte
               /\ c.op = "read_memory_by_address" => c.format = 0
               /\ c.address \in Nat /\ c.size \in Nat
               /\ c.addr_bytes \in 0..15 /\ c.len_bytes \in 0..15
               /\ c = [op |-> c.op, format |-> c.format, address |-> c.address,
                       size |-> c.size, addr_bytes |-> c.addr_bytes, len_bytes |-> c.len_bytes]

LEMMA CallKinds ==
  ASSUME NEW c \in Requests!Calls
  PROVE  IsBare(c) \/ IsByte(c) \/ IsData(c) \/ IsDid(c) \/ IsExit(c) \/ IsMemory(c)
<1>. USE RequestsAssumed DEF Requests!RequestsAssumption
<1>1. CASE c \in [op: Requests!Bare]
  BY <1>1 DEF IsBare
<1>2. CASE c \in [op: Requests!OneByte, arg: Args]
  <2>1. c.op \in Requests!OneByte /\ c.arg \in Args /\ c = [op |-> c.op, arg |-> c.arg]
    BY <1>2
  <2>2. c.op \in {"read_dtcs_uds"} \cup WithArg /\ c.op # "request_seed"
    BY <2>1, SMT DEF WithArg, Requests!OneByte
  <2>. QED  BY <2>1, <2>2, SMT DEF IsByte
<1>3. CASE c \in [op: {"request_seed"}, arg: Requests!Odd]
  <2>1. /\ c.op = "request_seed" /\ c.arg \in Requests!Odd
        /\ c = [op |-> c.op, arg |-> c.arg]
    BY <1>3
  <2>2. c.arg \in Requests!Byte /\ c.arg % 2 = 1
    BY <2>1 DEF Requests!Odd
  <2>3. c.op \in WithArg
    BY <2>1 DEF WithArg
  <2>. QED  BY <2>1, <2>2, <2>3, SMT DEF IsByte
<1>4. CASE c \in [op: Requests!WithData, arg: Args, data: Data]
  BY <1>4 DEF IsData, WithArg, WithBoth, Requests!WithData
<1>5. CASE c \in [op: {"send_key"}, arg: {a + 1 : a \in Requests!Odd \ {255}}, data: Data]
  <2>1. /\ c.op = "send_key" /\ c.data \in Data
        /\ c = [op |-> c.op, arg |-> c.arg, data |-> c.data]
    BY <1>5
  <2>2. PICK a \in Requests!Odd \ {255} : c.arg = a + 1
    BY <1>5
  <2>3. c.arg \in Requests!Byte /\ c.arg % 2 = 0
    BY <2>2 DEF Requests!Odd, Requests!Byte
  <2>. QED  BY <2>1, <2>3 DEF IsData, WithArg, WithBoth
<1>6. CASE c \in [op: {"read_data_by_id"}, did: Dids]
  BY <1>6 DEF IsDid
<1>7. CASE c \in [op: {"request_transfer_exit"}, data: Data]
  BY <1>7 DEF IsExit
<1>8. CASE c \in [op: {"read_memory_by_address"}, format: {0}, address: Addresses, size: Sizes,
                  addr_bytes: Widths, len_bytes: Widths]
  <2>1. /\ c.op = "read_memory_by_address" /\ c.format = 0
        /\ c.address \in Addresses /\ c.size \in Sizes
        /\ c.addr_bytes \in Widths /\ c.len_bytes \in Widths
        /\ c = [op |-> c.op, format |-> c.format, address |-> c.address, size |-> c.size,
                addr_bytes |-> c.addr_bytes, len_bytes |-> c.len_bytes]
    BY <1>8, SMT
  <2>2. c.op \in Requests!Memory /\ c.format \in Requests!Byte
    BY <2>1, SMT DEF Requests!Memory, Requests!Byte
  <2>. QED  BY <2>1, <2>2, SMT DEF IsMemory
<1>9. CASE c \in [op: Requests!Memory \ {"read_memory_by_address"}, format: Args,
                  address: Addresses, size: Sizes, addr_bytes: Widths, len_bytes: Widths]
  <2>1. /\ c.op \in Requests!Memory \ {"read_memory_by_address"} /\ c.format \in Args
        /\ c.address \in Addresses /\ c.size \in Sizes
        /\ c.addr_bytes \in Widths /\ c.len_bytes \in Widths
        /\ c = [op |-> c.op, format |-> c.format, address |-> c.address, size |-> c.size,
                addr_bytes |-> c.addr_bytes, len_bytes |-> c.len_bytes]
    BY <1>9, SMT
  <2>. QED  BY <2>1, SMT DEF IsMemory
<1>. QED  BY <1>1, <1>2, <1>3, <1>4, <1>5, <1>6, <1>7, <1>8, <1>9 DEF Requests!Calls

\* The fields of a request that is about memory.
Fields(c, wraps) == Requests!PushBe(c.address, c.addr_bytes, wraps)
                      \o Requests!PushBe(c.size, c.len_bytes, wraps)

Format(c) == Requests!FormatId(c.addr_bytes, c.len_bytes)

LEMMA MemoryTyped ==
  ASSUME NEW c, IsMemory(c), NEW wraps \in BOOLEAN
  PROVE  /\ Fields(c, wraps) \in Seq(Requests!Byte) /\ Format(c) \in Requests!Byte
         /\ Requests!MemoryParams(c, wraps)
              = IF c.op = "read_memory_by_address"
                THEN <<Format(c)>> \o Fields(c, wraps)
                ELSE <<c.format>> \o (<<Format(c)>> \o Fields(c, wraps))
<1>1. PICK a, s, f, d :
        /\ a = Requests!PushBe(c.address, c.addr_bytes, wraps)
        /\ s = Requests!PushBe(c.size, c.len_bytes, wraps)
        /\ f = Format(c) /\ d = c.format
  OBVIOUS
<1>2. a \in Seq(Requests!Byte) /\ s \in Seq(Requests!Byte)
  <2>1. /\ c.address \in Nat /\ c.size \in Nat /\ c.addr_bytes \in Nat /\ c.len_bytes \in Nat
    BY DEF IsMemory
  <2>. QED  BY <1>1, <2>1, PushBeTyped
<1>3. f \in Requests!Byte /\ d \in Requests!Byte
  BY <1>1 DEF IsMemory, Format, Requests!FormatId, Requests!Byte
<1>4. a \o s \in Seq(Requests!Byte) /\ a \o s = Fields(c, wraps)
  BY <1>1, <1>2, TwoFields DEF Fields
<1>5. (<<f>> \o a) \o s = <<f>> \o (a \o s)
  BY <1>2, <1>3, ConcatAssociative, InFront
<1>6. (<< >> \o <<f>>) \o a = <<f>> \o a /\ << >> \o <<f>> = <<f>>
  BY <1>3
<1>7. ((<<d>> \o <<f>>) \o a) \o s = <<d>> \o (<<f>> \o (a \o s))
  <2>1. /\ <<d>> \in Seq(Requests!Byte) /\ <<f>> \in Seq(Requests!Byte)
        /\ <<f>> \o a \in Seq(Requests!Byte)
    BY <1>2, <1>3, InFront
  <2>2. (<<d>> \o <<f>>) \o a = <<d>> \o (<<f>> \o a)
    BY <1>2, <2>1, ConcatAssociative
  <2>3. (<<d>> \o (<<f>> \o a)) \o s = <<d>> \o ((<<f>> \o a) \o s)
    BY <1>2, <2>1, ConcatAssociative
  <2>. QED  BY <1>5, <2>2, <2>3
<1>8. Requests!MemoryParams(c, wraps)
        = IF c.op = "read_memory_by_address" THEN ((<< >> \o <<f>>) \o a) \o s
          ELSE ((<<d>> \o <<f>>) \o a) \o s
  BY <1>1 DEF Requests!MemoryParams, Format
<1>. QED  BY <1>1, <1>3, <1>4, <1>5, <1>6, <1>7, <1>8

\* Every request is a sequence of bytes.
LEMMA ParamsTyped ==
  ASSUME NEW c \in Requests!Calls, NEW wraps \in BOOLEAN
  PROVE  Requests!Params(c, wraps) \in Seq(Requests!Byte)
<1>. PICK p : p = Requests!Params(c, wraps)
  OBVIOUS
<1>0. ParamsAre(c, p, wraps)
  BY ParamsOf
<1>1. CASE IsBare(c)
  <2>1. c.op \in Requests!Bare /\ p = Requests!BareParams(c.op)
    BY <1>0, <1>1, SMT DEF IsBare, ParamsAre
  <2>2. PICK op : op = c.op
    OBVIOUS
  <2>. DEFINE present == <<0>>
              vin     == <<241, 144>>
              dtcs    == <<0, 255, 0>>
              clear   == <<255, 255, 255>>
  <2>3. p \in {present, vin, dtcs, clear, << >>}
    BY <2>1, <2>2 DEF Requests!BareParams
  <2>4. {0, 144, 241, 255} \subseteq Requests!Byte
    BY DEF Requests!Byte
  <2>5. << >> \in Seq(Requests!Byte)
    OBVIOUS
  <2>6. present \in Seq(Requests!Byte) /\ vin \in Seq(Requests!Byte)
    BY <2>4
  <2>7. dtcs \in Seq(Requests!Byte) /\ clear \in Seq(Requests!Byte)
    BY <2>4
  <2>. HIDE DEF present, vin, dtcs, clear
  <2>8. p \in Seq(Requests!Byte)
    BY <2>3, <2>5, <2>6, <2>7, Zenon
  <2>. QED  BY <2>8
<1>2. CASE IsByte(c)
  <2>1. c.arg \in Requests!Byte /\ (p = <<2, c.arg>> \/ p = <<c.arg>>)
    BY <1>0, <1>2, SMT DEF IsByte, ParamsAre
  <2>2. PICK arg \in Requests!Byte : arg = c.arg
    BY <2>1
  <2>3. 2 \in Requests!Byte
    BY DEF Requests!Byte
  <2>4. <<2, arg>> \in Seq(Requests!Byte) /\ <<arg>> \in Seq(Requests!Byte)
    BY <2>3
  <2>. QED  BY <2>1, <2>2, <2>4
<1>3. CASE IsData(c)
  <2>1. c.arg \in Requests!Byte /\ c.data \in Seq(Requests!Byte) /\ p = <<c.arg>> \o c.data
    BY <1>0, <1>3, SMT DEF IsData, ParamsAre
  <2>. QED  BY <2>1, InFront
<1>4. CASE IsDid(c)
  <2>1. PICK did \in Nat : did = c.did /\ did < 65536
    BY <1>4, SMT DEF IsDid
  <2>2. p = <<did \div 256, did % 256>>
    <3>1. p = Requests!DidBytes(c.did)
      BY <1>0, <1>4, SMT DEF IsDid, ParamsAre
    <3>. QED  BY <2>1, <3>1, SMT DEF Requests!DidBytes
  <2>3. did \div 256 \in 0..255 /\ did % 256 \in 0..255
    BY <2>1, SMT
  <2>. QED  BY <2>2, <2>3, SMT DEF Requests!Byte
<1>5. CASE IsExit(c)
  BY <1>0, <1>5, SMT DEF IsExit, ParamsAre
<1>6. CASE IsMemory(c)
  <2>1. p = Requests!MemoryParams(c, wraps) /\ c.format \in Requests!Byte
    BY <1>0, <1>6, SMT DEF IsMemory, ParamsAre
  <2>2. Format(c) \in Requests!Byte /\ <<Format(c)>> \o Fields(c, wraps) \in Seq(Requests!Byte)
    BY <1>6, MemoryTyped, InFront
  <2>3. <<c.format>> \o (<<Format(c)>> \o Fields(c, wraps)) \in Seq(Requests!Byte)
    BY <2>1, <2>2, InFront
  <2>. QED  BY <1>6, <2>1, <2>2, <2>3, MemoryTyped
<1>. QED  BY <1>1, <1>2, <1>3, <1>4, <1>5, <1>6, CallKinds

\* What the ECU hears, by the service op and the bytes p that follow it.
HeardIs(h, op, p) ==
  /\ op \in Requests!Bare => h = [op |-> op]
  /\ op = "read_dtcs_uds" => h = [op |-> op, arg |-> p[2]]
  /\ op \in WithArg => h = [op |-> op, arg |-> p[1]]
  /\ op \in WithBoth => h = [op |-> op, arg |-> p[1], data |-> Tail(p)]
  /\ op = "read_data_by_id" => h = [op |-> op, did |-> Requests!Number(p)]
  /\ op = "request_transfer_exit" => h = [op |-> op, data |-> p]
  /\ op = "read_memory_by_address" => h = Requests!HeardMemory(op, 0, p[1], Tail(p))
  /\ op \in Requests!Memory \ {"read_memory_by_address"}
       => h = Requests!HeardMemory(op, p[1], p[2], Tail(Tail(p)))

LEMMA HeardOf ==
  ASSUME NEW op, NEW p, Tail(pdu) = p, Requests!OpOf(pdu[1], p) = op
  PROVE  HeardIs(Requests!Heard, op, p)
<1>. PICK h : h = Requests!Heard
  OBVIOUS
<1>. SUFFICES HeardIs(h, op, p)
  OBVIOUS
<1>0. h = CASE op \in Requests!Bare              -> [op |-> op]
            [] op = "read_dtcs_uds"     -> [op |-> op, arg |-> p[2]]
            [] op \in (Requests!OneByte \ {"read_dtcs_uds"}) \cup {"request_seed"}
                                        -> [op |-> op, arg |-> p[1]]
            [] op \in Requests!WithData \cup {"send_key"}
                                        -> [op |-> op, arg |-> p[1], data |-> Tail(p)]
            [] op = "read_data_by_id"   -> [op |-> op, did |-> Requests!Number(p)]
            [] op = "request_transfer_exit" -> [op |-> op, data |-> p]
            [] op = "read_memory_by_address" -> Requests!HeardMemory(op, 0, p[1], Tail(p))
            [] OTHER -> Requests!HeardMemory(op, p[1], p[2], Tail(Tail(p)))
  BY Zenon DEF Requests!Heard
<1>. USE DEF HeardIs, WithArg, WithBoth, Requests!Bare, Requests!OneByte, Requests!WithData,
             Requests!Memory
<1>1. CASE op \in Requests!Bare
  BY <1>0, <1>1, SMT
<1>2. CASE op = "read_dtcs_uds"
  BY <1>0, <1>2, SMT
<1>3. CASE op \in WithArg
  BY <1>0, <1>3, SMT
<1>4. CASE op \in WithBoth
  BY <1>0, <1>4, SMT
<1>5. CASE op = "read_data_by_id"
  BY <1>0, <1>5, SMT
<1>6. CASE op = "request_transfer_exit"
  BY <1>0, <1>6, SMT
<1>7. CASE op = "read_memory_by_address"
  BY <1>0, <1>7, SMT
<1>8. CASE op \in Requests!Memory \ {"read_memory_by_address"}
  BY <1>0, <1>8, SMT
<1>. QED  BY <1>1, <1>2, <1>3, <1>4, <1>5, <1>6, <1>7, <1>8, SMT

\* The ECU knows the service; to it read_vin() is a read_data_by_id().
LEMMA OpHeard ==
  ASSUME NEW c \in Requests!Calls, NEW p, NEW wraps, ParamsAre(c, p, wraps)
  PROVE  Requests!OpOf(Requests!SidOf[c.op], p)
           = IF c.op = "read_vin" THEN "read_data_by_id" ELSE c.op
<1>. PICK op : op = c.op
  OBVIOUS
<1>0. /\ "read_data_by_id" \in DOMAIN Requests!SidOf
      /\ Requests!SidOf["read_vin"] = Requests!SidOf["read_data_by_id"]
      /\ Requests!SidOf["request_seed"] = 39 /\ Requests!SidOf["send_key"] = 39
  BY DEF Requests!SidOf
<1>1. CASE op \notin {"read_vin", "request_seed", "send_key"}
  BY <1>1, OwnNumber, ServiceNumbers
<1>2. CASE op = "read_vin"
  <2>1. "read_data_by_id" \in DOMAIN Requests!SidOf \ {"read_vin", "request_seed", "send_key"}
    BY <1>0
  <2>2. Requests!OpOf(Requests!SidOf["read_data_by_id"], p) = "read_data_by_id"
    BY <2>1, OwnNumber
  <2>. QED  BY <1>0, <1>2, <2>2
<1>3. CASE op = "request_seed"
  <2>0. ~IsBare(c) /\ ~IsData(c) /\ ~IsMemory(c) /\ ~IsDid(c) /\ ~IsExit(c)
    <3>1. op \notin Requests!Bare /\ op \notin WithBoth /\ op \notin Requests!Memory
      BY <1>3, SMT DEF Requests!Bare, WithBoth, Requests!Memory
    <3>. QED  BY <1>3, <3>1 DEF IsBare, IsData, IsDid, IsExit, IsMemory
  <2>1. IsByte(c)
    BY <2>0, CallKinds
  <2>2. PICK arg \in Requests!Byte : arg = c.arg /\ arg % 2 = 1
    BY <1>3, <2>1, SMT DEF IsByte
  <2>3. p = <<arg>>
    BY <1>3, <2>2, SMT DEF ParamsAre, WithArg
  <2>4. p[1] = arg
    BY <2>3
  <2>. QED  BY <1>0, <1>3, <2>2, <2>4 DEF Requests!OpOf
<1>4. CASE op = "send_key"
  <2>0. ~IsBare(c) /\ ~IsByte(c) /\ ~IsMemory(c) /\ ~IsDid(c) /\ ~IsExit(c)
    <3>1. /\ op \notin Requests!Bare /\ op \notin {"read_dtcs_uds"} \cup WithArg
          /\ op \notin Requests!Memory
      BY <1>4, SMT DEF Requests!Bare, WithArg, Requests!Memory
    <3>. QED  BY <1>4, <3>1 DEF IsBare, IsByte, IsDid, IsExit, IsMemory
  <2>1. IsData(c)
    BY <2>0, CallKinds
  <2>2. PICK arg \in Requests!Byte, data \in Seq(Requests!Byte) :
          arg = c.arg /\ data = c.data /\ arg % 2 = 0
    BY <1>4, <2>1, SMT DEF IsData
  <2>3. p = <<arg>> \o data
    BY <1>4, <2>2, SMT DEF ParamsAre, WithBoth
  <2>4. p[1] = arg
    BY <2>2, <2>3, InFront
  <2>. QED  BY <1>0, <1>4, <2>2, <2>4 DEF Requests!OpOf
<1>. QED  BY <1>1, <1>2, <1>3, <1>4

\* Two bytes are read as the identifier that they were made of.
LEMMA DidRead ==
  ASSUME NEW did \in Nat, did < 65536
  PROVE  Requests!Number(<<did \div 256, did % 256>>) = did
<1>. PICK a, b, r : a = did \div 256 /\ b = did % 256 /\ r = 256
  OBVIOUS
<1>1. a \in 0..255 /\ b \in 0..255 /\ r \in Radix /\ a \div 256 = 0 /\ a % 256 = a
  BY SMT DEF Radix
<1>2. Shifted(did, 0, r) = did /\ Shifted(did, 1, r) = a /\ Shifted(did, 2, r) = 0
  <2>1. /\ Shifted(did, 0, r) = did
        /\ Shifted(did, 0 + 1, r) = Shifted(did, 0, r) \div r
        /\ Shifted(did, 1 + 1, r) = Shifted(did, 1, r) \div r
    <3>1. 0 \in Nat /\ 1 \in Nat
      OBVIOUS
    <3>2. \A k \in Nat : Shifted(did, k + 1, r) = Shifted(did, k, r) \div r
      BY <1>1, ShiftedBy, SMT
    <3>3. Shifted(did, 0, r) = did
      BY <1>1, ShiftedBy, SMT
    <3>. QED  BY <3>1, <3>2, <3>3, SMT
  <2>2. 0 + 1 = 1 /\ 1 + 1 = 2
    OBVIOUS
  <2>. QED  BY <1>1, <2>1, <2>2, SMT
<1>3. Spelled(did, 2, r) = <<a, b>>
  <2>1. PICK s : s = Spelled(did, 2, r)
    OBVIOUS
  <2>2. s = [p \in 1..2 |-> Shifted(did, 2 - p, r) % r]
    BY <2>1, SMT DEF Spelled
  <2>3. s[1] = a /\ s[2] = b
    <3>1. 2 - 1 = 1 /\ 2 - 2 = 0 /\ 1 \in 1..2 /\ 2 \in 1..2
      OBVIOUS
    <3>2. s[1] = Shifted(did, 1, r) % r /\ s[2] = Shifted(did, 0, r) % r
      BY <2>2, <3>1, SMT
    <3>. QED  BY <1>1, <1>2, <3>2, SMT
  <2>4. s \in Seq(Nat) /\ Len(s) = 2
    <3>1. \A p \in 1..2 : p = 1 \/ p = 2
      OBVIOUS
    <3>2. a \in Nat /\ b \in Nat
      BY <1>1, SMT
    <3>3. \A p \in 1..2 : s[p] \in Nat
      BY <2>3, <3>1, <3>2, SMT
    <3>. QED  BY <2>2, <3>3, SMT
  <2>5. <<a, b>> \in Seq(Nat) /\ Len(<<a, b>>) = 2
    BY <1>1, SMT
  <2>6. \A i \in 1..2 : s[i] = <<a, b>>[i]
    BY <2>3, SMT
  <2>. QED  BY <2>1, <2>4, <2>5, <2>6, SeqEqual, SMT
<1>4. ValueOf(Spelled(did, 2, r), r) = did
  BY <1>1, <1>2, ReadAsSpelled, SMT
<1>. QED  BY <1>3, <1>4, RequestDigits, SMT DEF Requests!Number

\* The ECU cuts the fields by the format identifier.
LEMMA MemoryHeard ==
  ASSUME NEW c, IsMemory(c), NEW wraps \in BOOLEAN, NEW op, op = c.op, NEW format, format = c.format,
         Requests!Fits(c.address, c.addr_bytes), Requests!Fits(c.size, c.len_bytes)
  PROVE  Requests!HeardMemory(op, format, Format(c), Fields(c, wraps)) = c
<1>1. PICK address, size, m, n :
        address = c.address /\ size = c.size /\ m = c.addr_bytes /\ n = c.len_bytes
  OBVIOUS
<1>2. address \in Nat /\ size \in Nat /\ m \in 0..15 /\ n \in 0..15 /\ m \in Nat /\ n \in Nat
  BY <1>1 DEF IsMemory
<1>3. c = [op |-> op, format |-> format, address |-> address, size |-> size,
           addr_bytes |-> m, len_bytes |-> n]
  <2>1. c = [op |-> c.op, format |-> c.format, address |-> c.address,
             size |-> c.size, addr_bytes |-> c.addr_bytes, len_bytes |-> c.len_bytes]
    BY Zenon DEF IsMemory
  <2>. QED  BY <1>1, <2>1, Zenon
<1>4. PICK a, s : a = Requests!PushBe(address, m, wraps) /\ s = Requests!PushBe(size, n, wraps)
  OBVIOUS
<1>5. a \in Seq(Requests!Byte) /\ s \in Seq(Requests!Byte) /\ Len(a) = m /\ Len(s) = n
  BY <1>2, <1>4, PushBeTyped
<1>6. Requests!Number(a) = address /\ Requests!Number(s) = size
  <2>1. Requests!Fits(address, m) /\ Requests!Fits(size, n)
    BY <1>1
  <2>2. Requests!Number(Requests!PushBe(address, m, wraps)) = address
    BY <1>2, <2>1, PushBeRead, Zenon
  <2>3. Requests!Number(Requests!PushBe(size, n, wraps)) = size
    BY <1>2, <2>1, PushBeRead, Zenon
  <2>. QED  BY <1>4, <2>2, <2>3, Zenon
<1>7. PICK f : f = a \o s
  OBVIOUS
<1>8. Len(f) = m + n /\ SubSeq(f, 1, m) = a /\ SubSeq(f, m + 1, m + n) = s
  <2>1. /\ Len(a \o s) = Len(a) + Len(s) /\ SubSeq(a \o s, 1, Len(a)) = a
        /\ SubSeq(a \o s, Len(a) + 1, Len(a) + Len(s)) = s
    <3>1. a \in Seq(Requests!Byte) /\ s \in Seq(Requests!Byte)
      BY <1>5
    <3>. QED  BY <3>1, TwoFields
  <2>. QED  BY <1>5, <1>7, <2>1
<1>9. PICK id : id = Format(c) /\ id % 16 = m /\ id \div 16 = n
  <2>1. Format(c) = ((n % 16) * 16) + (m % 16)
    BY <1>1, Zenon DEF Format, Requests!FormatId
  <2>2. /\ (((n % 16) * 16) + (m % 16)) % 16 = m
        /\ (((n % 16) * 16) + (m % 16)) \div 16 = n
    BY <1>2, SMT
  <2>. QED  BY <2>1, <2>2
<1>10. f = Fields(c, wraps)
  BY <1>1, <1>4, <1>7, Zenon DEF Fields
<1>11. PICK h : h = Requests!HeardMemory(op, format, id, f)
  OBVIOUS
<1>12. h = [op |-> op, format |-> format,
            address |-> Requests!Number(SubSeq(f, 1, m)),
            size |-> Requests!Number(SubSeq(f, m + 1, m + n)),
            addr_bytes |-> m, len_bytes |-> Len(f) - m]
  BY <1>9, <1>11, Zenon DEF Requests!HeardMemory
<1>13. Len(f) - m = n
  BY <1>2, <1>8
<1>14. h = c
  BY <1>3, <1>6, <1>8, <1>12, <1>13, Zenon
<1>. QED  BY <1>9, <1>10, <1>11, <1>14, Zenon

\* Every request that can be said is understood.
LEMMA HeardAsMeant ==
  ASSUME NEW c \in Requests!Calls, NEW wraps \in BOOLEAN, call = c, pdu = Says(c, wraps),
         Requests!Sayable
  PROVE  Requests!Heard = Requests!Meant
<1>. PICK p \in Seq(Requests!Byte) : p = Requests!Params(c, wraps)
  BY ParamsTyped
<1>. PICK op, h : op = c.op /\ h = Requests!Heard
  OBVIOUS
<1>0. ParamsAre(c, p, wraps)
  BY ParamsOf
<1>1. pdu[1] = Requests!SidOf[c.op] /\ Tail(pdu) = p
  BY ServiceNumbers, InFront DEF Says
<1>2. Requests!OpOf(pdu[1], p) = IF op = "read_vin" THEN "read_data_by_id" ELSE op
  BY <1>0, <1>1, OpHeard
<1>3. op # "read_vin" => Requests!Meant = c
  BY SMT DEF Requests!Meant
<1>4. op # "read_vin" => HeardIs(h, op, p)
  BY <1>1, <1>2, HeardOf
<1>. SUFFICES h = Requests!Meant
  OBVIOUS
<1>5. CASE op = "read_vin"
  <2>1. HeardIs(h, "read_data_by_id", p)
    BY <1>1, <1>2, <1>5, HeardOf
  <2>2. p = <<241, 144>>
    BY <1>0, <1>5, SMT DEF ParamsAre, Requests!Bare, Requests!BareParams
  <2>3. 241 = 61840 \div 256 /\ 144 = 61840 % 256 /\ 61840 \in Nat /\ 61840 < 65536
    BY SMT
  <2>4. Requests!Number(p) = 61840
    BY <2>2, <2>3, DidRead, SMT
  <2>5. Requests!Meant = [op |-> "read_data_by_id", did |-> 61840]
    BY <1>5, SMT DEF Requests!Meant
  <2>. QED  BY <2>1, <2>4, <2>5, SMT DEF HeardIs
<1>6. CASE op # "read_vin" /\ IsBare(c)
  <2>1. op \in Requests!Bare /\ c = [op |-> op]
    BY <1>6, SMT DEF IsBare
  <2>. QED  BY <1>3, <1>4, <1>6, <2>1, SMT DEF HeardIs
<1>7. CASE op # "read_vin" /\ IsByte(c)
  <2>1. PICK arg \in Requests!Byte :
          arg = c.arg /\ op \in {"read_dtcs_uds"} \cup WithArg /\ c = [op |-> op, arg |-> arg]
    BY <1>7, SMT DEF IsByte
  <2>2. CASE op = "read_dtcs_uds"
    <3>1. p = <<2, arg>>
      BY <1>0, <2>1, <2>2, SMT DEF ParamsAre
    <3>2. h = [op |-> op, arg |-> p[2]]
      BY <1>4, <1>7, <2>2, SMT DEF HeardIs
    <3>. QED  BY <1>3, <1>7, <2>1, <3>1, <3>2, SMT
  <2>3. CASE op \in WithArg
    <3>1. p = <<arg>>
      BY <1>0, <2>1, <2>3, SMT DEF ParamsAre
    <3>2. h = [op |-> op, arg |-> p[1]]
      BY <1>4, <1>7, <2>3, SMT DEF HeardIs
    <3>. QED  BY <1>3, <1>7, <2>1, <3>1, <3>2, SMT
  <2>. QED  BY <2>1, <2>2, <2>3, SMT
<1>8. CASE op # "read_vin" /\ IsData(c)
  <2>1. PICK arg \in Requests!Byte, data \in Seq(Requests!Byte) :
          /\ arg = c.arg /\ data = c.data /\ op \in WithBoth
          /\ c = [op |-> op, arg |-> arg, data |-> data]
    BY <1>8, SMT DEF IsData
  <2>2. p = <<arg>> \o data
    BY <1>0, <2>1, SMT DEF ParamsAre
  <2>3. p[1] = arg /\ Tail(p) = data
    BY <2>1, <2>2, InFront
  <2>4. h = [op |-> op, arg |-> p[1], data |-> Tail(p)]
    BY <1>4, <1>8, <2>1, SMT DEF HeardIs
  <2>. QED  BY <1>3, <1>8, <2>1, <2>3, <2>4, Zenon
<1>9. CASE op # "read_vin" /\ IsDid(c)
  <2>1. PICK did \in Nat : /\ did = c.did /\ did < 65536 /\ op = "read_data_by_id"
                           /\ c = [op |-> op, did |-> did]
    BY <1>9, SMT DEF IsDid
  <2>2. p = <<did \div 256, did % 256>>
    BY <1>0, <2>1, SMT DEF ParamsAre, Requests!DidBytes
  <2>3. Requests!Number(p) = did
    BY <2>1, <2>2, DidRead, SMT
  <2>4. h = [op |-> op, did |-> Requests!Number(p)]
    BY <1>4, <1>9, <2>1, SMT DEF HeardIs
  <2>. QED  BY <1>3, <1>9, <2>1, <2>3, <2>4, SMT
<1>10. CASE op # "read_vin" /\ IsExit(c)
  <2>1. op = "request_transfer_exit" /\ c = [op |-> op, data |-> c.data]
    BY <1>10, SMT DEF IsExit
  <2>2. p = c.data
    BY <1>0, <2>1, SMT DEF ParamsAre
  <2>3. h = [op |-> op, data |-> p]
    BY <1>4, <1>10, <2>1, SMT DEF HeardIs
  <2>. QED  BY <1>3, <1>10, <2>1, <2>2, <2>3, SMT
<1>11. CASE op # "read_vin" /\ IsMemory(c)
  <2>1. PICK format \in Requests!Byte :
          /\ format = c.format /\ op \in Requests!Memory
          /\ op = "read_memory_by_address" => format = 0
    BY <1>11, SMT DEF IsMemory
  <2>2. PICK id \in Requests!Byte, f \in Seq(Requests!Byte) : id = Format(c) /\ f = Fields(c, wraps)
    BY <1>11, MemoryTyped
  <2>3. p = IF op = "read_memory_by_address" THEN <<id>> \o f ELSE <<format>> \o (<<id>> \o f)
    <3>1. p = Requests!MemoryParams(c, wraps)
      BY <1>0, <2>1, SMT DEF ParamsAre
    <3>. QED  BY <1>11, <2>1, <2>2, <3>1, MemoryTyped
  <2>4. Requests!HeardMemory(op, format, id, f) = c
    <3>1. Requests!Fits(c.address, c.addr_bytes) /\ Requests!Fits(c.size, c.len_bytes)
      BY <2>1, SMT DEF Requests!Sayable
    <3>. QED  BY <1>11, <2>1, <2>2, <3>1, MemoryHeard
  <2>5. /\ <<id>> \o f \in Seq(Requests!Byte)
        /\ (<<id>> \o f)[1] = id /\ Tail(<<id>> \o f) = f
    BY <2>2, InFront
  <2>6. CASE op = "read_memory_by_address"
    <3>1. h = Requests!HeardMemory(op, 0, p[1], Tail(p))
      BY <1>4, <1>11, <2>6, SMT DEF HeardIs
    <3>2. p[1] = id /\ Tail(p) = f
      BY <2>3, <2>5, <2>6, Zenon
    <3>3. format = 0
      BY <2>1, <2>6, Zenon
    <3>. QED  BY <1>3, <1>11, <2>4, <3>1, <3>2, <3>3, Zenon
  <2>7. CASE op # "read_memory_by_address"
    <3>1. h = Requests!HeardMemory(op, p[1], p[2], Tail(Tail(p)))
      BY <1>4, <1>11, <2>1, <2>7, SMT DEF HeardIs
    <3>2. PICK q \in Seq(Requests!Byte) : q = <<id>> \o f /\ q # << >>
      BY <2>2, InFront
    <3>3. p = <<format>> \o q /\ p[1] = format /\ Tail(p) = q
      BY <2>3, <2>7, <3>2, InFront
    <3>4. p[2] = q[1]
      BY <3>2, <3>3
    <3>5. Tail(Tail(p)) = f /\ p[2] = id
      BY <2>5, <3>2, <3>3, <3>4, Zenon
    <3>. QED  BY <1>3, <1>11, <2>4, <3>1, <3>3, <3>5, Zenon
  <2>. QED  BY <2>6, <2>7
<1>. QED  BY <1>5, <1>6, <1>7, <1>8, <1>9, <1>10, <1>11, CallKinds

\* Between calls nothing is left; a request says what was called; and read_vin() has
\* nothing, or an identifier cut short, or the number.
RInv ==
  /\ call \in Requests!Calls \cup {Requests!None}
  /\ call = Requests!None => pdu = << >> /\ result = << >>
  /\ call # Requests!None => \E wraps \in BOOLEAN : pdu = Says(call, wraps)
  /\ result # << >> => call.op = "read_vin" /\ (result = <<241>> \/ result \in Data)

\* The identifier is in front of the number.
LEMMA VinStripped ==
  ASSUME NEW d \in Seq(Requests!Byte)
  PROVE  Requests!Stripped(<<241, 144>> \o d) = d
<1>1. PICK v \in Seq(Requests!Byte) : v = <<241, 144>> /\ Len(v) = 2
  <2>1. 241 \in Requests!Byte /\ 144 \in Requests!Byte
    BY SMT DEF Requests!Byte
  <2>2. PICK a \in Requests!Byte, b \in Requests!Byte : a = 241 /\ b = 144
    BY <2>1
  <2>3. <<a, b>> \in Seq(Requests!Byte) /\ Len(<<a, b>>) = 2
    OBVIOUS
  <2>. QED  BY <2>2, <2>3, Zenon
<1>2. PICK n \in Nat : n = Len(d)
  OBVIOUS
<1>3. PICK w \in Seq(Requests!Byte) : w = v \o d /\ Len(w) = 2 + n /\ SubSeq(w, 2 + 1, 2 + n) = d
  <2>1. /\ v \o d \in Seq(Requests!Byte) /\ Len(v \o d) = Len(v) + Len(d)
        /\ SubSeq(v \o d, Len(v) + 1, Len(v) + Len(d)) = d
    BY TwoFields
  <2>2. Len(v) = 2 /\ Len(d) = n
    BY <1>1, <1>2, Zenon
  <2>3. /\ v \o d \in Seq(Requests!Byte) /\ Len(v \o d) = 2 + n
        /\ SubSeq(v \o d, 2 + 1, 2 + n) = d
    BY ONLY <2>1, <2>2
  <2>. QED  BY <2>3, Zenon
<1>4. 2 + 1 = 3 /\ 2 + n >= 2
  OBVIOUS
<1>5. Requests!Stripped(w) = SubSeq(w, 3, Len(w))
  BY <1>3, <1>4 DEF Requests!Stripped
<1>6. Requests!Stripped(w) = d
  <2>1. Requests!Stripped(w) = SubSeq(w, 2 + 1, 2 + n)
    BY <1>3, <1>4, <1>5, Zenon
  <2>. QED  BY <1>3, <2>1, Zenon
<1>7. w = <<241, 144>> \o d
  BY <1>1, <1>3, SMT
<1>. QED  BY <1>6, <1>7, SMT

LEMMA NoneIsNoCall == Requests!None \notin Requests!Calls /\ Requests!None.op # "read_vin"
<1>1. Requests!None.op = "none"
  BY DEF Requests!None
<1>2. "none" \notin DOMAIN Requests!SidOf
  BY DEF Requests!SidOf
<1>. QED  BY <1>1, <1>2, ServiceNumbers, SMT

LEMMA RequestStep ==
  ASSUME RInv, Requests!Next
  PROVE  RInv'
<1>1. CASE Requests!Ask
  <2>1. PICK c \in Requests!Calls, wraps \in BOOLEAN : call' = c /\ pdu' = Says(c, wraps)
    BY <1>1, Zenon DEF Requests!Ask, Says
  <2>2. result = << >> /\ result' = << >>
    BY <1>1, Zenon DEF Requests!Ask, RInv
  <2>. QED  BY <2>1, <2>2, NoneIsNoCall, Zenon DEF RInv
<1>2. CASE Requests!VinAnswered
  <2>1. PICK data \in {<< >>, <<241>>} \cup {<<241, 144>> \o d : d \in Data} :
          result' = Requests!Stripped(data)
    BY <1>2, Zenon DEF Requests!VinAnswered
  <2>2. result' = << >> \/ result' = <<241>> \/ result' \in Data
    <3>1. CASE data = << >> \/ data = <<241>>
      <4>1. Len(<< >>) = 0 /\ Len(<<241>>) = 1
        OBVIOUS
      <4>2. ~(Len(data) >= 2)
        BY <3>1, <4>1
      <4>. QED  BY <2>1, <3>1, <4>2, Zenon DEF Requests!Stripped
    <3>2. ASSUME NEW d \in Data, data = <<241, 144>> \o d PROVE result' \in Data
      <4>1. d \in Seq(Requests!Byte)
        BY RequestsAssumed DEF Requests!RequestsAssumption
      <4>. QED  BY <2>1, <3>2, <4>1, VinStripped
    <3>. QED  BY <2>1, <3>1, <3>2
  <2>3. call.op = "read_vin" /\ call' = call /\ pdu' = pdu
    BY <1>2, Zenon DEF Requests!VinAnswered
  <2>4. call # Requests!None
    BY <2>3, NoneIsNoCall, Zenon
  <2>. QED  BY <2>2, <2>3, <2>4, Zenon DEF RInv
<1>3. CASE Requests!Return
  BY <1>3, Zenon DEF Requests!Return, RInv
<1>. QED  BY <1>1, <1>2, <1>3 DEF Requests!Next

LEMMA RequestsInvariance == Requests!Spec => []RInv
<1>1. Requests!Init => RInv
  BY Zenon DEF Requests!Init, RInv
<1>2. RInv /\ UNCHANGED Requests!vars => RInv'
  BY Zenon DEF Requests!vars, RInv
<1>. QED  BY <1>1, <1>2, RequestStep, PTL DEF Requests!Spec

\* What each part does is what its own specification says, whatever the others do.
LEMMA PartsAreThemselves == ConvSpec => Spec /\ Requests!Spec /\ Lines!Spec
<1>1. ConvInit => Init /\ Requests!Init /\ Lines!Init
  BY Zenon DEF ConvInit
<1>2. [ConvNext]_<<clock, request, line>>
        => [Next]_vars /\ [Requests!Next]_(Requests!vars) /\ [Lines!Next]_(Lines!vars)
  BY Zenon DEF ConvNext, NoClock, NoRequest, NoLine, clock, request, line, Requests!vars,
     Lines!vars
<1>. QED  BY <1>1, <1>2, PTL DEF ConvSpec, Spec, Requests!Spec, Lines!Spec

\* The ECU reads in every request what the call meant, as long as address and size fit
\* their fields, and no two wrappers build the same PDU (uds_client.cpp:121-315).
THEOREM RequestsAreUnderstood == ConvSpec => []Understood
<1>1. RInv => Understood
  <2>. SUFFICES ASSUME RInv, call # Requests!None, Requests!Sayable
                PROVE  Requests!Heard = Requests!Meant
    BY Zenon DEF Understood, Requests!Understood
  <2>1. PICK c \in Requests!Calls, wraps \in BOOLEAN : call = c /\ pdu = Says(c, wraps)
    BY Zenon DEF RInv
  <2>. QED  BY <2>1, HeardAsMeant
<1>. QED  BY <1>1, PartsAreThemselves, RequestsInvariance, PTL

\* read_vin() returns the number that the ECU sent, without the identifier
\* (uds_client.cpp:163-165).
THEOREM VinIsWhole == ConvSpec => []VinWhole
<1>1. RInv => VinWhole
  <2>. SUFFICES ASSUME RInv, call.op = "read_vin", Len(result) > 1 PROVE result \in Data
    BY Zenon DEF VinWhole, Requests!VinWhole
  <2>1. Len(<< >>) = 0 /\ Len(<<241>>) = 1 /\ ~(0 > 1) /\ ~(1 > 1)
    OBVIOUS
  <2>2. result # << >>
    BY <2>1, Zenon
  <2>3. result # <<241>>
    BY <2>1, Zenon
  <2>. QED  BY <2>2, <2>3, Zenon DEF RInv
<1>. QED  BY <1>1, PartsAreThemselves, RequestsInvariance, PTL

-----------------------------------------------------------------------------
(* Lines.                                                                   *)

LEMMA LinesAssumed == Lines!LinesAssumption
BY ConversionsAssumption

LEMMA LineDigits ==
  ASSUME NEW v, NEW n, NEW d
  PROVE  /\ Lines!Shifted(v, n, 16) = Shifted(v, n, 16)
         /\ Lines!Digits(v, n) = Spelled(v, n, 16)
         /\ Lines!Number(d) = ValueOf(d, 16)
<1>1. Lines!ValueOf(d, 16) = ValueOf(d, 16)
  BY DEF Lines!ValueOf, ValueOf
<1>2. \A k : Lines!Shifted(v, k, 16) = Shifted(v, k, 16)
  BY DEF Lines!Shifted, Shifted
<1>3. Lines!Spelled(v, n, 16) = Spelled(v, n, 16)
  BY <1>2 DEF Lines!Spelled, Spelled
<1>. QED  BY <1>1, <1>2, <1>3 DEF Lines!Digits, Lines!Number

LEMMA MinOfTwo ==
  ASSUME NEW a \in Nat, NEW b \in Nat
  PROVE  Lines!Min({a, b}) = IF a <= b THEN a ELSE b
<1>. DEFINE m == IF a <= b THEN a ELSE b
<1>1. m \in {a, b} /\ \A y \in {a, b} : m <= y
  OBVIOUS
<1>2. ASSUME NEW x \in {a, b}, \A y \in {a, b} : x <= y PROVE x = m
  BY <1>2
<1>. HIDE DEF m
<1>3. (CHOOSE x \in {a, b} : \A y \in {a, b} : x <= y) = m
  BY <1>1, <1>2
<1>. QED  BY <1>3 DEF Lines!Min, m

LEMMA MaxIs ==
  ASSUME NEW T \in SUBSET Nat, NEW m \in T, \A i \in T : i <= m
  PROVE  Lines!Max(T) = m
<1>1. ASSUME NEW x \in T, \A y \in T : x >= y PROVE x = m
  <2>1. x \in Nat /\ m \in Nat /\ x >= m /\ x <= m
    BY <1>1
  <2>. QED  BY <2>1
<1>2. \A y \in T : m >= y
  OBVIOUS
<1>3. (CHOOSE x \in T : \A y \in T : x >= y) = m
  BY <1>1, <1>2
<1>. QED  BY <1>3 DEF Lines!Max

\* The largest of a set of numbers that has a bound.
LEMMA MaxOf ==
  ASSUME NEW n \in Nat, NEW T \in SUBSET (0..n), T # {}
  PROVE  Lines!Max(T) \in T
<1>. DEFINE U == {j \in 0..n : n - j \in T}
<1>1. U # {} /\ U \in SUBSET Nat
  <2>1. PICK i \in T : TRUE
    OBVIOUS
  <2>2. n - i \in 0..n /\ n - (n - i) = i
    OBVIOUS
  <2>. QED  BY <2>1, <2>2
<1>2. PICK j \in U : \A k \in U : j <= k
  <2>. HIDE DEF U
  <2>. QED  BY <1>1, SmallestOf
<1>3. ASSUME NEW i \in T PROVE i <= n - j
  <2>1. i \in 0..n /\ n - i \in 0..n /\ n - (n - i) = i
    OBVIOUS
  <2>2. n - i \in U
    BY <2>1
  <2>3. j <= n - i
    BY <1>2, <2>2
  <2>. QED  BY <2>1, <2>3
<1>4. n - j \in T /\ T \in SUBSET Nat
  OBVIOUS
<1>. QED  BY <1>3, <1>4, MaxIs

\* What is left of a number that is small enough after n digits, and after more.
LEMMA NothingLeft ==
  ASSUME NEW v \in Nat, NEW n \in Nat, Shifted(v, n, 16) = 0
  PROVE  Shifted(v, n + 1, 16) = 0
<1>1. Shifted(v, n + 1, 16) = Shifted(v, n, 16) \div 16
  BY ShiftedBy DEF Radix
<1>. QED  BY <1>1

\* An id of 11 bits has three digits, one of 29 bits eight at most.
LEMMA IdsFit ==
  ASSUME NEW v \in Nat
  PROVE  /\ v <= Lines!MaxStandardId => /\ Shifted(v, 3, 16) = 0 /\ Shifted(v, 4, 16) = 0
                         /\ Shifted(v, 5, 16) = 0 /\ Shifted(v, 6, 16) = 0
                         /\ Shifted(v, 7, 16) = 0
         /\ v <= Lines!MaxExtendedId => Shifted(v, 8, 16) = 0
<1>. DEFINE s(k) == Shifted(v, k, 16)
<1>1. s(0) = v /\ \A k \in Nat : s(k) \in Nat /\ s(k + 1) = s(k) \div 16
  BY ShiftedBy DEF Radix
<1>. HIDE DEF s
<1>2. /\ s(1) = s(0) \div 16 /\ s(2) = s(1) \div 16 /\ s(3) = s(2) \div 16
      /\ s(4) = s(3) \div 16 /\ s(5) = s(4) \div 16 /\ s(6) = s(5) \div 16
      /\ s(7) = s(6) \div 16 /\ s(8) = s(7) \div 16
  <2>1. /\ s(0 + 1) = s(0) \div 16 /\ s(1 + 1) = s(1) \div 16 /\ s(2 + 1) = s(2) \div 16
        /\ s(3 + 1) = s(3) \div 16 /\ s(4 + 1) = s(4) \div 16 /\ s(5 + 1) = s(5) \div 16
        /\ s(6 + 1) = s(6) \div 16 /\ s(7 + 1) = s(7) \div 16
    BY <1>1
  <2>. QED  BY <2>1
<1>3. /\ s(0) \in Nat /\ s(1) \in Nat /\ s(2) \in Nat /\ s(3) \in Nat /\ s(4) \in Nat
      /\ s(5) \in Nat /\ s(6) \in Nat /\ s(7) \in Nat
  BY <1>1
<1>4. CASE v <= Lines!MaxStandardId
  <2>1. s(3) = 0
    <3>1. s(1) <= 127
      BY <1>1, <1>2, <1>3, <1>4, SMT DEF Lines!MaxStandardId
    <3>2. s(2) <= 7
      BY <1>2, <1>3, <3>1, SMT
    <3>. QED  BY <1>2, <1>3, <3>2, SMT
  <2>2. s(4) = 0 /\ s(5) = 0 /\ s(6) = 0 /\ s(7) = 0 /\ s(8) = 0
    BY <1>2, <2>1, SMT
  <2>. QED  BY <2>1, <2>2 DEF s
<1>5. CASE v <= Lines!MaxExtendedId
  <2>1. s(4) <= 8191
    BY <1>1, <1>2, <1>3, <1>5, SMT DEF Lines!MaxExtendedId
  <2>2. s(8) = 0
    BY <1>2, <1>3, <2>1, SMT
  <2>3. v <= Lines!MaxStandardId => /\ s(3) = 0 /\ s(4) = 0 /\ s(5) = 0 /\ s(6) = 0 /\ s(7) = 0
    BY <1>4 DEF s
  <2>. QED  BY <2>2, <2>3 DEF s
<1>6. v <= Lines!MaxStandardId \/ v <= Lines!MaxExtendedId \/ (~(v <= Lines!MaxStandardId) /\ ~(v <= Lines!MaxExtendedId))
  OBVIOUS
<1>. QED  BY <1>4, <1>5, <1>6

\* The values of a byte.
Octet == 0..255

\* A frame of those put into lines that a controller sends.
ClassicFrame(f) ==
  /\ f \in CanFrames /\ Lines!Classic(f)

LEMMA FrameParts ==
  ASSUME NEW f, ClassicFrame(f)
  PROVE  /\ f.id \in Nat /\ f.dlc \in 0..8 /\ f.data \in Seq(Octet)
         /\ Len(f.data) <= f.dlc
         /\ f.data # << >> => f.data[Len(f.data)] # 0
         /\ f = [id |-> f.id, type |-> f.type, dlc |-> f.dlc, data |-> f.data]
         /\ \/ f.type = "Standard" /\ f.id <= Lines!MaxStandardId
            \/ f.type = "Extended" /\ f.id <= Lines!MaxExtendedId
<1>1. f \in Lines!CanFrame /\ (f.data # << >> => f.data[Len(f.data)] # 0)
  BY LinesAssumed, Zenon DEF ClassicFrame, Lines!LinesAssumption
<1>2. /\ f.id \in Nat /\ f.dlc \in Octet /\ f.data \in Seq(Octet)
      /\ f = [id |-> f.id, type |-> f.type, dlc |-> f.dlc, data |-> f.data]
  BY <1>1, SMT DEF Lines!CanFrame, Octet
<1>3. f.type \in {"Standard", "Extended"} /\ Lines!Validates(f)
  BY Zenon DEF ClassicFrame, Lines!Classic
<1>4. Lines!MaxDlc(f.type) = 8
  BY <1>3, SMT DEF Lines!MaxDlc
<1>5. f.dlc <= 8 /\ Len(f.data) <= f.dlc
  BY <1>3, <1>4, SMT DEF Lines!Validates
<1>6. \/ f.type = "Standard" /\ f.id <= Lines!MaxStandardId
      \/ f.type = "Extended" /\ f.id <= Lines!MaxExtendedId
  BY <1>3, SMT DEF Lines!Validates, Lines!IdPasses
<1>7. f.dlc \in 0..8
  <2>1. PICK n \in Octet : n = f.dlc
    BY <1>2, Zenon
  <2>2. n <= 8
    BY <1>5, <2>1, Zenon
  <2>3. n \in 0..8
    BY <2>2, SMT DEF Octet
  <2>. QED  BY <2>1, <2>3, Zenon
<1>. QED  BY <1>1, <1>2, <1>5, <1>6, <1>7, Zenon

\* The digits of a frame's id.
IdOf(f) == Lines!IdDigits(f.id, f.type = "Extended")

\* An id of 11 bits is printed with three digits, one of 29 bits with eight.
LEMMA IdSpelled ==
  ASSUME NEW f, ClassicFrame(f)
  PROVE  \E n \in {3, 8} : /\ IdOf(f) = Spelled(f.id, n, 16) /\ Shifted(f.id, n, 16) = 0
                           /\ f.type = IF n = 3 THEN "Standard" ELSE "Extended"
<1>. PICK id \in Nat : id = f.id
  BY FrameParts
<1>. DEFINE T(room) == {room} \cup {n \in 1..8 : n = 1 \/ Lines!Shifted(id, n - 1, 16) > 0}
<1>1. CASE f.type = "Standard" /\ id <= Lines!MaxStandardId
  <2>1. ASSUME NEW n \in T(3) PROVE n <= 3
    <3>1. CASE n \in {4, 5, 6, 7, 8}
      <4>1. n = 1 \/ Shifted(id, n - 1, 16) > 0
        BY <3>1, LineDigits
      <4>2. n - 1 \in {3, 4, 5, 6, 7} /\ n # 1
        BY <3>1
      <4>3. Shifted(id, n - 1, 16) = 0
        BY <1>1, <4>2, IdsFit
      <4>. QED  BY <4>1, <4>2, <4>3
    <3>. QED  BY <3>1
  <2>2. 3 \in T(3) /\ T(3) \in SUBSET Nat
    OBVIOUS
  <2>3. Lines!Max(T(3)) = 3
    <3>. HIDE DEF T
    <3>. QED  BY <2>1, <2>2, MaxIs
  <2>4. IdOf(f) = Lines!Digits(id, Lines!Max(T(3)))
    BY <1>1 DEF IdOf, Lines!IdDigits
  <2>5. IdOf(f) = Spelled(id, 3, 16)
    BY <2>3, <2>4, LineDigits
  <2>6. Shifted(id, 3, 16) = 0
    BY <1>1, IdsFit
  <2>. QED  BY <1>1, <2>5, <2>6
<1>2. CASE f.type = "Extended" /\ id <= Lines!MaxExtendedId
  <2>1. \A n \in T(8) : n <= 8
    OBVIOUS
  <2>2. 8 \in T(8) /\ T(8) \in SUBSET Nat
    OBVIOUS
  <2>3. Lines!Max(T(8)) = 8
    <3>. HIDE DEF T
    <3>. QED  BY <2>1, <2>2, MaxIs
  <2>4. IdOf(f) = Lines!Digits(id, Lines!Max(T(8)))
    BY <1>2 DEF IdOf, Lines!IdDigits
  <2>5. IdOf(f) = Spelled(id, 8, 16)
    BY <2>3, <2>4, LineDigits
  <2>6. Shifted(id, 8, 16) = 0
    BY <1>2, IdsFit
  <2>. QED  BY <1>2, <2>5, <2>6
<1>. QED  BY <1>1, <1>2, FrameParts

\* And is read as it was.
LEMMA IdRead ==
  ASSUME NEW f, ClassicFrame(f)
  PROVE  /\ IdOf(f) \in Seq(Nat) /\ Len(IdOf(f)) \in 1..8 /\ 1 <= Len(IdOf(f))
         /\ Lines!Number(IdOf(f)) = f.id /\ Lines!TypeOf(IdOf(f)) = f.type
<1>. PICK id \in Nat : id = f.id
  BY FrameParts
<1>1. PICK n \in {3, 8} : /\ IdOf(f) = Spelled(id, n, 16) /\ Shifted(id, n, 16) = 0
                          /\ f.type = IF n = 3 THEN "Standard" ELSE "Extended"
  BY IdSpelled
<1>2. PICK d : d = IdOf(f)
  OBVIOUS
<1>3. d \in Seq(Nat) /\ Len(d) = n
  <2>1. d \in Seq(0..(16 - 1)) /\ Len(d) = n
    <3>1. 16 \in Radix /\ n \in Nat
      BY DEF Radix
    <3>2. /\ Spelled(id, n, 16) \in Seq(0..(16 - 1))
          /\ Len(Spelled(id, n, 16)) = n
      BY <3>1, SpelledTyped
    <3>. QED  BY <1>1, <1>2, <3>2, Zenon
  <2>2. 0..(16 - 1) \subseteq Nat
    OBVIOUS
  <2>. QED  BY <2>1, <2>2, SeqMonotonic
<1>4. Lines!Number(d) = id
  <2>1. ValueOf(Spelled(id, n, 16), 16) = id
    BY <1>1, ReadAsSpelled DEF Radix
  <2>. QED  BY <1>1, <1>2, <2>1, LineDigits
<1>5. Lines!TypeOf(d) = f.type
  <2>1. CASE n = 8
    BY <1>1, <1>3, <2>1 DEF Lines!TypeOf
  <2>2. CASE n = 3
    <3>1. id <= Lines!MaxStandardId /\ Lines!MaxStandardId \in Nat
      BY <1>1, <2>2, FrameParts DEF Lines!MaxStandardId
    <3>2. ~(id > Lines!MaxStandardId)
      BY <3>1
    <3>. QED  BY <1>1, <1>3, <1>4, <2>2, <3>2 DEF Lines!TypeOf
  <2>. QED  BY <2>1, <2>2
<1>. QED  BY <1>2, <1>3, <1>4, <1>5

\* A byte is two digits.
LEMMA ByteRead ==
  ASSUME NEW b \in Octet
  PROVE  /\ Lines!Digits(b, 2) \in Seq(Nat) /\ Len(Lines!Digits(b, 2)) = 2
         /\ Lines!Number(Lines!Digits(b, 2)) = b
<1>. b \in Nat /\ 16 \in Radix
  BY DEF Radix, Octet
<1>1. PICK d : d = Lines!Digits(b, 2) /\ d = Spelled(b, 2, 16)
  BY LineDigits
<1>2. d \in Seq(Nat) /\ Len(d) = 2
  <2>1. d \in Seq(0..(16 - 1)) /\ Len(d) = 2
    <3>1. 2 \in Nat
      OBVIOUS
    <3>2. /\ Spelled(b, 2, 16) \in Seq(0..(16 - 1))
          /\ Len(Spelled(b, 2, 16)) = 2
      BY <3>1, SpelledTyped, Zenon
    <3>. QED  BY <1>1, <3>2, Zenon
  <2>2. 0..(16 - 1) \subseteq Nat
    OBVIOUS
  <2>. QED  BY <2>1, <2>2, SeqMonotonic
<1>3. Shifted(b, 2, 16) = 0
  <2>1. /\ Shifted(b, 0, 16) = b
        /\ \A k \in Nat : /\ Shifted(b, k, 16) \in Nat
                          /\ Shifted(b, k + 1, 16) = Shifted(b, k, 16) \div 16
    BY ShiftedBy
  <2>2. Shifted(b, 0 + 1, 16) = b \div 16 /\ Shifted(b, 1 + 1, 16) = Shifted(b, 1, 16) \div 16
    BY <2>1
  <2>. QED  BY <2>2 DEF Octet
<1>4. Lines!Number(d) = b
  <2>1. ValueOf(Spelled(b, 2, 16), 16) = b
    BY <1>3, ReadAsSpelled
  <2>. QED  BY <1>1, <2>1, LineDigits
<1>. QED  BY <1>1, <1>2, <1>4

\* A line is the id and a word for every byte.
LEMMA LineParts ==
  ASSUME ~SplitIds, NEW f, ClassicFrame(f)
  PROVE  /\ Lines!Bytes(f) \in Seq(Octet) /\ Len(Lines!Bytes(f)) = f.dlc
         /\ \A i \in 1..f.dlc : Lines!Bytes(f)[i] = IF i <= Len(f.data) THEN f.data[i] ELSE 0
         /\ Lines!Line(f) \in Seq(Seq(Nat)) /\ Len(Lines!Line(f)) = 1 + f.dlc
         /\ Lines!Line(f)[1] = IdOf(f)
         /\ \A i \in 1..f.dlc : Lines!Line(f)[i + 1] = Lines!Digits(Lines!Bytes(f)[i], 2)
<1>. PICK n \in Nat, data \in Seq(Octet) : n = f.dlc /\ n <= 8 /\ data = f.data
  BY FrameParts
<1>1. Lines!Min({n, 8}) = n
  <2>1. n \in Nat /\ 8 \in Nat /\ n <= 8
    OBVIOUS
  <2>. QED  BY <2>1, MinOfTwo
<1>2. Lines!Bytes(f) = [i \in 1..n |-> IF i <= Len(data) THEN data[i] ELSE 0]
  BY <1>1 DEF Lines!Bytes
<1>3. PICK bytes \in Seq(Octet) :
        /\ bytes = Lines!Bytes(f) /\ Len(bytes) = n
        /\ \A i \in 1..n : bytes[i] = IF i <= Len(data) THEN data[i] ELSE 0
  <2>1. ASSUME NEW i \in 1..n PROVE (IF i <= Len(data) THEN data[i] ELSE 0) \in Octet
    <3>1. 0 \in Octet
      BY DEF Octet
    <3>2. i <= Len(data) => data[i] \in Octet
      OBVIOUS
    <3>. QED  BY <3>1, <3>2
  <2>. DEFINE b == [i \in 1..n |-> IF i <= Len(data) THEN data[i] ELSE 0]
  <2>2. b \in Seq(Octet) /\ Len(b) = n
    BY <2>1
  <2>3. \A i \in 1..n : b[i] = IF i <= Len(data) THEN data[i] ELSE 0
    OBVIOUS
  <2>. HIDE DEF b
  <2>4. b = Lines!Bytes(f)
    BY <1>2 DEF b
  <2>. QED  BY <2>2, <2>3, <2>4, Zenon
<1>4. PICK words \in Seq(Seq(Nat)) :
        /\ words = Lines!Words(bytes) /\ Len(words) = n
        /\ \A i \in 1..n : words[i] = Lines!Digits(bytes[i], 2)
  <2>1. ASSUME NEW i \in 1..n PROVE Lines!Digits(bytes[i], 2) \in Seq(Nat)
    <3>1. bytes[i] \in Octet
      BY <1>3
    <3>. QED  BY <3>1, ByteRead
  <2>. DEFINE w == [i \in 1..n |-> Lines!Digits(bytes[i], 2)]
  <2>2. w \in Seq(Seq(Nat)) /\ Len(w) = n
    <3>1. w \in [1..n -> Seq(Nat)]
      BY <2>1, Zenon
    <3>. HIDE DEF w
    <3>. QED  BY <3>1, SMT
  <2>3. \A i \in 1..n : w[i] = Lines!Digits(bytes[i], 2)
    OBVIOUS
  <2>4. w = Lines!Words(bytes)
    BY <1>3 DEF Lines!Words
  <2>. HIDE DEF w
  <2>. QED  BY <2>2, <2>3, <2>4, Zenon
<1>5. Lines!IdWords(f) = <<IdOf(f)>>
  BY Zenon DEF Lines!IdWords, IdOf
<1>6. Lines!Line(f) = <<IdOf(f)>> \o words
  BY <1>3, <1>4, <1>5, Zenon DEF Lines!Line
<1>7. PICK d \in Seq(Nat) : d = IdOf(f)
  BY IdRead
<1>8. /\ <<d>> \o words \in Seq(Seq(Nat)) /\ Len(<<d>> \o words) = 1 + n
      /\ (<<d>> \o words)[1] = d
      /\ \A i \in 1..n : (<<d>> \o words)[i + 1] = words[i]
  <2>1. <<d>> \in Seq(Seq(Nat)) /\ Len(<<d>>) = 1 /\ <<d>>[1] = d /\ Len(words) = n
    BY <1>4
  <2>2. /\ <<d>> \o words \in Seq(Seq(Nat)) /\ Len(<<d>> \o words) = 1 + n
        /\ \A i \in 1..(1 + n) : (<<d>> \o words)[i] = IF i <= 1 THEN <<d>>[i] ELSE words[i - 1]
    BY <2>1, ConcatProperties
  <2>3. 1 \in 1..(1 + n) /\ 1 <= 1
    OBVIOUS
  <2>4. \A i \in 1..n : i + 1 \in 1..(1 + n) /\ ~(i + 1 <= 1) /\ (i + 1) - 1 = i
    OBVIOUS
  <2>. PICK w : w = <<d>> \o words
    OBVIOUS
  <2>. QED  BY <2>1, <2>2, <2>3, <2>4
<1>. QED  BY <1>3, <1>4, <1>6, <1>7, <1>8, Zenon

\* Without the zeros at its end, data is no longer than it was.
LEMMA TrimmedShorter ==
  ASSUME NEW bytes \in Seq(Nat)
  PROVE  /\ Lines!Trimmed(bytes) \in Seq(Nat)
         /\ Len(Lines!Trimmed(bytes)) <= Len(bytes)
<1>. PICK n \in Nat : n = Len(bytes)
  OBVIOUS
<1>. DEFINE T == {0} \cup {i \in 1..n : bytes[i] # 0}
<1>1. T \in SUBSET (0..n) /\ T # {}
  OBVIOUS
<1>2. PICK m \in 0..n : m = Lines!Max(T)
  <2>. HIDE DEF T
  <2>. QED  BY <1>1, MaxOf
<1>3. Lines!Trimmed(bytes) = SubSeq(bytes, 1, m)
  BY <1>2 DEF Lines!Trimmed
<1>4. SubSeq(bytes, 1, m) \in Seq(Nat) /\ Len(SubSeq(bytes, 1, m)) = m
  OBVIOUS
<1>. QED  BY <1>3, <1>4

\* The data of a frame are its bytes without the zeros that its line has at the end.
LEMMA DataTrimmed ==
  ASSUME ~SplitIds, NEW f, ClassicFrame(f)
  PROVE  Lines!Trimmed(Lines!Bytes(f)) = f.data
<1>. PICK n \in Nat, data \in Seq(Octet) :
       /\ n = f.dlc /\ data = f.data /\ Len(data) <= n
       /\ data # << >> => data[Len(data)] # 0
  BY FrameParts
<1>1. PICK bytes \in Seq(Octet) :
        /\ bytes = Lines!Bytes(f) /\ Len(bytes) = n
        /\ \A i \in 1..n : bytes[i] = IF i <= Len(data) THEN data[i] ELSE 0
  BY LineParts
<1>2. PICK m \in 0..n : m = Len(data)
  OBVIOUS
<1>. DEFINE T == {0} \cup {i \in 1..n : bytes[i] # 0}
<1>3. \A i \in T : i <= m
  BY <1>1, <1>2
<1>4. m \in T
  <2>1. CASE m = 0
    BY <2>1
  <2>2. CASE m # 0
    <3>1. data # << >> /\ m \in 1..n /\ m <= Len(data)
      BY <1>2, <2>2
    <3>2. bytes[m] # 0
      BY <1>1, <1>2, <3>1
    <3>. QED  BY <3>1, <3>2
  <2>. QED  BY <2>1, <2>2
<1>5. T \in SUBSET Nat
  OBVIOUS
<1>6. Lines!Max(T) = m
  <2>. HIDE DEF T
  <2>. QED  BY <1>3, <1>4, <1>5, MaxIs
<1>7. Lines!Trimmed(bytes) = SubSeq(bytes, 1, m)
  BY <1>1, <1>6 DEF Lines!Trimmed
<1>8. SubSeq(bytes, 1, m) = data
  <2>1. /\ SubSeq(bytes, 1, m) \in Seq(Octet) /\ Len(SubSeq(bytes, 1, m)) = m
        /\ \A i \in 1..m : SubSeq(bytes, 1, m)[i] = bytes[i]
    BY <1>1
  <2>2. \A i \in 1..m : bytes[i] = data[i]
    BY <1>1, <1>2
  <2>. QED  BY <1>2, <2>1, <2>2, SeqEqual
<1>. QED  BY <1>1, <1>7, <1>8

\* As many words of a line as there are left are read as they were printed.
LEMMA BeginningRead ==
  ASSUME ~SplitIds, NEW f, ClassicFrame(f), NEW k \in 1..f.dlc, NEW t \in Seq(Seq(Nat)),
         Len(t) = 1 + k, \A i \in 1..(1 + k) : t[i] = Lines!Line(f)[i]
  PROVE  Lines!Parse(t) = [id |-> f.id, type |-> f.type, dlc |-> k,
                           data |-> Lines!Trimmed(SubSeq(Lines!Bytes(f), 1, k))]
<1>. PICK n : n = f.dlc
  OBVIOUS
<1>0. n \in Nat /\ k \in 1..8 /\ k <= n
  <2>1. PICK j : j = k
    OBVIOUS
  <2>2. n \in 0..8 /\ j \in 1..n
    BY <2>1, FrameParts, Zenon
  <2>3. n \in Nat /\ j \in 1..8 /\ j <= n
    BY ONLY <2>2
  <2>. QED  BY <2>1, <2>3, Zenon
<1>1. PICK bytes \in Seq(Octet) : bytes = Lines!Bytes(f) /\ Len(bytes) = n
  BY LineParts
<1>2. Lines!Line(f)[1] = IdOf(f) /\ \A i \in 1..n : Lines!Line(f)[i + 1] = Lines!Digits(bytes[i], 2)
  BY <1>1, LineParts, Zenon
<1>3. t[1] = IdOf(f) /\ \A i \in 1..k : t[i + 1] = Lines!Digits(bytes[i], 2)
  <2>1. 1 \in 1..(1 + k) /\ \A i \in 1..k : i \in 1..n /\ i + 1 \in 1..(1 + k)
    BY <1>0
  <2>. QED  BY <1>2, <2>1, Zenon
<1>4. PICK words \in Seq(Seq(Nat)) :
        /\ words = Lines!Read(t) /\ Len(words) = k
        /\ \A i \in 1..k : words[i] = Lines!Digits(bytes[i], 2)
  <2>1. Lines!Min({Len(t), 9}) = 1 + k
    <3>1. 1 + k \in Nat /\ 9 \in Nat /\ 1 + k <= 9
      BY <1>0
    <3>2. Lines!Min({1 + k, 9}) = IF 1 + k <= 9 THEN 1 + k ELSE 9
      BY <3>1, MinOfTwo, Zenon
    <3>. QED  BY <3>1, <3>2, Zenon
  <2>2. Lines!Read(t) = SubSeq(t, 2, 1 + k)
    BY <2>1, Zenon DEF Lines!Read
  <2>3. /\ SubSeq(t, 2, 1 + k) \in Seq(Seq(Nat)) /\ Len(SubSeq(t, 2, 1 + k)) = k
        /\ \A i \in 1..k : SubSeq(t, 2, 1 + k)[i] = t[i + 1]
    BY <1>0
  <2>. QED  BY <1>3, <2>2, <2>3, Zenon
<1>5. ASSUME NEW i \in 1..k
      PROVE  ~Lines!NotAByte(words[i]) /\ Lines!Number(words[i]) = bytes[i]
  <2>1. bytes[i] \in Octet
    BY <1>0, <1>1
  <2>2. words[i] = Lines!Digits(bytes[i], 2)
    BY <1>4
  <2>. QED  BY <2>1, <2>2, ByteRead DEF Lines!NotAByte
<1>6. [i \in 1..k |-> Lines!Number(words[i])] = SubSeq(bytes, 1, k)
  <2>1. SubSeq(bytes, 1, k) = [i \in 1..k |-> bytes[i]]
    BY <1>0, <1>1
  <2>. QED  BY <1>5, <2>1, Zenon
<1>7. Len(t[1]) \in 1..8 /\ Lines!Number(t[1]) = f.id /\ Lines!TypeOf(t[1]) = f.type
  BY <1>3, IdRead, Zenon
<1>8. ~(Len(t) < 2)
  BY <1>0
<1>9. Lines!Parse(t) = [id |-> Lines!Number(t[1]), type |-> Lines!TypeOf(t[1]),
                        dlc |-> Len(words),
                        data |-> Lines!Trimmed([i \in 1..Len(words) |-> Lines!Number(words[i])])]
  BY <1>4, <1>5, <1>7, <1>8, Zenon DEF Lines!Parse
<1>. QED  BY <1>1, <1>4, <1>6, <1>7, <1>9, Zenon

\* What is left of a line: whole words, and of the last one its beginning.
IsCut(t, l) ==
  /\ t \in Seq(Seq(Nat)) /\ Len(t) <= Len(l)
  /\ \A i \in 1..Len(t) :
       /\ i < Len(t) => t[i] = l[i]
       /\ 1 <= Len(t[i]) /\ Len(t[i]) <= Len(l[i])
       /\ \A j \in 1..Len(t[i]) : t[i][j] = l[i][j]

\* A sequence without its last element, and with another.
LEMMA FrontParts ==
  ASSUME NEW S, NEW s \in Seq(S), NEW m \in Nat, m = Len(s), m >= 1
  PROVE  /\ SubSeq(s, 1, m - 1) \in Seq(S) /\ Len(SubSeq(s, 1, m - 1)) = m - 1
         /\ \A i \in 1..(m - 1) : SubSeq(s, 1, m - 1)[i] = s[i]
OBVIOUS

LEMMA LastReplaced ==
  ASSUME NEW S, NEW s \in Seq(S), NEW m \in Nat, m = Len(s), m >= 1, NEW x \in S
  PROVE  /\ [s EXCEPT ![m] = x] \in Seq(S) /\ Len([s EXCEPT ![m] = x]) = m
         /\ \A i \in 1..m : [s EXCEPT ![m] = x][i] = IF i = m THEN x ELSE s[i]
<1>1. m \in 1..m /\ m \in 1..Len(s)
  OBVIOUS
<1>. QED  BY <1>1, ExceptSeq

LEMMA OneLess ==
  ASSUME NEW n \in Nat, n >= 2, NEW q \in Nat
  PROVE  1 <= n - 1 /\ (n <= q => n - 1 <= q) /\ \A j \in 1..(n - 1) : j \in 1..n
OBVIOUS

\* A cut of a line stays one when its last digit is lost.
LEMMA CutOnce ==
  ASSUME NEW t, NEW l \in Seq(Seq(Nat)), IsCut(t, l), t # << >>
  PROVE  IsCut(IF Len(Lines!Last(t)) = 1 THEN Lines!Front(t)
               ELSE [t EXCEPT ![Len(t)] = Lines!Front(@)], l)
<1>. PICK m \in Nat : m = Len(t) /\ m >= 1 /\ t \in Seq(Seq(Nat)) /\ m <= Len(l)
  BY DEF IsCut
<1>1. ASSUME NEW i \in 1..m
      PROVE  /\ i < m => t[i] = l[i]
             /\ 1 <= Len(t[i]) /\ Len(t[i]) <= Len(l[i])
             /\ \A j \in 1..Len(t[i]) : t[i][j] = l[i][j]
  BY Zenon DEF IsCut
<1>2. CASE Len(t[m]) = 1
  <2>1. PICK u \in Seq(Seq(Nat)) : /\ u = SubSeq(t, 1, m - 1) /\ Len(u) = m - 1
                                   /\ \A i \in 1..(m - 1) : u[i] = t[i]
    <3>1. /\ SubSeq(t, 1, m - 1) \in Seq(Seq(Nat)) /\ Len(SubSeq(t, 1, m - 1)) = m - 1
          /\ \A i \in 1..(m - 1) : SubSeq(t, 1, m - 1)[i] = t[i]
      BY FrontParts
    <3>. QED  BY <3>1, Zenon
  <2>2. IsCut(u, l)
    <3>1. Len(u) <= Len(l)
      BY <2>1
    <3>2. ASSUME NEW i \in 1..Len(u)
          PROVE  /\ i < Len(u) => u[i] = l[i]
                 /\ 1 <= Len(u[i]) /\ Len(u[i]) <= Len(l[i])
                 /\ \A j \in 1..Len(u[i]) : u[i][j] = l[i][j]
      <4>1. i \in 1..(m - 1) /\ i \in 1..m /\ i < m
        BY <2>1
      <4>2. u[i] = t[i]
        BY <2>1, <4>1
      <4>. QED  BY <1>1, <4>1, <4>2, Zenon
    <3>. QED  BY <3>1, <3>2, Zenon DEF IsCut
  <2>3. Lines!Front(t) = u /\ Lines!Last(t) = t[m]
    BY <2>1 DEF Lines!Front, Lines!Last
  <2>. QED  BY <1>2, <2>2, <2>3, Zenon
<1>3. CASE Len(t[m]) # 1
  <2>1. PICK w \in Seq(Nat), n \in Nat : w = t[m] /\ n = Len(w) /\ n >= 2
    <3>1. m \in 1..m /\ t[m] \in Seq(Nat)
      OBVIOUS
    <3>2. 1 <= Len(t[m])
      BY <1>1, <3>1, Zenon
    <3>3. ASSUME NEW k \in Nat, k # 1, 1 <= k PROVE k >= 2
      BY <3>3
    <3>4. Len(t[m]) \in Nat
      BY <3>1
    <3>. QED  BY <1>3, <3>1, <3>2, <3>3, <3>4, Zenon
  <2>2. PICK x \in Seq(Nat) : /\ x = SubSeq(w, 1, n - 1) /\ Len(x) = n - 1
                              /\ \A j \in 1..(n - 1) : x[j] = w[j]
    <3>1. n >= 1
      BY <2>1
    <3>2. /\ SubSeq(w, 1, n - 1) \in Seq(Nat) /\ Len(SubSeq(w, 1, n - 1)) = n - 1
          /\ \A i \in 1..(n - 1) : SubSeq(w, 1, n - 1)[i] = w[i]
      <4>1. w \in Seq(Nat) /\ n \in Nat /\ n = Len(w) /\ n >= 1
        BY <2>1, <3>1, Zenon
      <4>. QED  BY <4>1, FrontParts, Zenon
    <3>. QED  BY <3>2, Zenon
  <2>3. x = Lines!Front(t[m])
    BY <2>1, <2>2, Zenon DEF Lines!Front
  <2>4. PICK u \in Seq(Seq(Nat)) :
          /\ u = [t EXCEPT ![m] = x] /\ Len(u) = m
          /\ \A i \in 1..m : u[i] = IF i = m THEN x ELSE t[i]
    <3>1. /\ [t EXCEPT ![m] = x] \in Seq(Seq(Nat)) /\ Len([t EXCEPT ![m] = x]) = m
          /\ \A i \in 1..m : [t EXCEPT ![m] = x][i] = IF i = m THEN x ELSE t[i]
      BY LastReplaced
    <3>. QED  BY <3>1, Zenon
  <2>5. [t EXCEPT ![Len(t)] = Lines!Front(@)] = u
    BY <2>3, <2>4
  <2>6. IsCut(u, l)
    <3>1. Len(u) <= Len(l)
      BY <2>4
    <3>2. ASSUME NEW i \in 1..m
          PROVE  /\ i < m => u[i] = l[i]
                 /\ 1 <= Len(u[i]) /\ Len(u[i]) <= Len(l[i])
                 /\ \A j \in 1..Len(u[i]) : u[i][j] = l[i][j]
      <4>1. CASE i # m
        <5>1. u[i] = t[i]
          BY <2>4, <4>1
        <5>. QED  BY <1>1, <5>1, Zenon
      <4>2. CASE i = m
        <5>1. u[i] = x /\ ~(i < m)
          BY <2>4, <4>2
        <5>2. n <= Len(l[i]) /\ \A j \in 1..n : w[j] = l[i][j]
          BY <1>1, <2>1, <4>2, Zenon
        <5>3. PICK q \in Nat : q = Len(l[i])
          OBVIOUS
        <5>4. 1 <= n - 1 /\ (n <= q => n - 1 <= q) /\ \A j \in 1..(n - 1) : j \in 1..n
          BY <2>1, OneLess, Zenon
        <5>5. 1 <= Len(x) /\ Len(x) <= Len(l[i])
          BY <2>2, <5>2, <5>3, <5>4, Zenon
        <5>6. \A j \in 1..Len(x) : x[j] = l[i][j]
          BY <2>2, <5>2, <5>4, Zenon
        <5>. QED  BY <5>1, <5>5, <5>6, Zenon
      <4>. QED  BY <4>1, <4>2
    <3>. QED  BY <2>4, <3>1, <3>2, Zenon DEF IsCut
  <2>7. Lines!Last(t) = t[m]
    BY Zenon DEF Lines!Last
  <2>. QED  BY <1>3, <2>5, <2>6, <2>7, Zenon
<1>. QED  BY <1>2, <1>3

\* The whole line is the longest cut.
LEMMA LineIsCut ==
  ASSUME ~SplitIds, NEW f, ClassicFrame(f)
  PROVE  IsCut(Lines!Line(f), Lines!Line(f))
<1>. PICK n \in Nat, l \in Seq(Seq(Nat)) :
       /\ n = f.dlc /\ l = Lines!Line(f) /\ Len(l) = 1 + n /\ l[1] = IdOf(f)
       /\ \A i \in 1..n : l[i + 1] = Lines!Digits(Lines!Bytes(f)[i], 2)
  <2>1. f.dlc \in 0..8
    BY FrameParts, Zenon
  <2>2. f.dlc \in Nat
    BY <2>1
  <2>. QED  BY <2>2, LineParts, Zenon
<1>1. ASSUME NEW i \in 1..(1 + n) PROVE 1 <= Len(l[i])
  <2>1. CASE i = 1
    <3>1. 1 <= Len(l[1])
      BY IdRead, Zenon
    <3>. QED  BY <2>1, <3>1, Zenon
  <2>2. CASE i # 1
    <3>1. i - 1 \in 1..n /\ (i - 1) + 1 = i
      BY <2>2
    <3>2. Lines!Bytes(f)[i - 1] \in Octet
      <4>1. Lines!Bytes(f) \in Seq(Octet) /\ Len(Lines!Bytes(f)) = n
        BY LineParts, Zenon
      <4>. QED  BY <3>1, <4>1
    <3>3. l[i] = Lines!Digits(Lines!Bytes(f)[i - 1], 2)
      BY <3>1
    <3>4. Len(l[i]) = 2
      BY <3>2, <3>3, ByteRead, Zenon
    <3>. QED  BY <3>4
  <2>. QED  BY <2>1, <2>2
<1>2. ASSUME NEW i \in 1..Len(l) PROVE Len(l[i]) <= Len(l[i]) /\ i \in 1..(1 + n)
  <2>1. Len(l[i]) \in Nat
    OBVIOUS
  <2>. QED  BY <2>1
<1>3. Len(l) <= Len(l)
  OBVIOUS
<1>. QED  BY <1>1, <1>2, <1>3, Zenon DEF IsCut

\* The text is what is left of the frame's line, and what was read is its reading.
LInv ==
  /\ frame \in CanFrames \cup {Lines!NoFrame}
  /\ frame = Lines!NoFrame => text = << >> /\ parsed = Lines!NoFrame
  /\ Lines!Classic(frame) => /\ IsCut(text, Lines!Line(frame))
                             /\ parsed = Lines!NoFrame \/ parsed = Lines!Parse(text)

LEMMA NoFrameIsNotClassic == ~Lines!Classic(Lines!NoFrame)
BY DEF Lines!Classic, Lines!NoFrame

LEMMA NotTheAbsence == Lines!NoFrame \notin CanFrames
BY LinesAssumed, Zenon DEF Lines!LinesAssumption

LEMMA LinesStep ==
  ASSUME ~SplitIds, LInv, Lines!Next
  PROVE  LInv'
<1>1. CASE Lines!PrintLine
  <2>1. /\ frame' \in CanFrames /\ text' = Lines!Line(frame')
        /\ parsed = Lines!NoFrame /\ parsed' = Lines!NoFrame
    BY <1>1, Zenon DEF Lines!PrintLine, LInv
  <2>2. Lines!Classic(frame') => IsCut(text', Lines!Line(frame'))
    BY <2>1, LineIsCut, Zenon DEF ClassicFrame
  <2>3. frame' # Lines!NoFrame
    BY <2>1, NotTheAbsence, Zenon
  <2>. QED  BY <2>1, <2>2, <2>3, Zenon DEF LInv
<1>2. CASE Lines!LoseDigit
  <2>1. /\ text # << >> /\ parsed = Lines!NoFrame
        /\ text' = IF Len(Lines!Last(text)) = 1 THEN Lines!Front(text)
                   ELSE [text EXCEPT ![Len(text)] = Lines!Front(@)]
        /\ frame' = frame /\ parsed' = parsed
    BY <1>2, Zenon DEF Lines!LoseDigit
  <2>2. frame # Lines!NoFrame /\ frame \in CanFrames
    BY <2>1, Zenon DEF LInv
  <2>3. ASSUME Lines!Classic(frame) PROVE IsCut(text', Lines!Line(frame))
    <3>1. Lines!Line(frame) \in Seq(Seq(Nat))
      BY <2>2, <2>3, LineParts, Zenon DEF ClassicFrame
    <3>2. IsCut(text, Lines!Line(frame))
      BY <2>3, Zenon DEF LInv
    <3>. QED  BY <2>1, <3>1, <3>2, CutOnce, Zenon
  <2>. QED  BY <2>1, <2>2, <2>3, Zenon DEF LInv
<1>3. CASE Lines!ParseLine
  <2>1. text # << >> /\ parsed' = Lines!Parse(text) /\ frame' = frame /\ text' = text
    BY <1>3, Zenon DEF Lines!ParseLine
  <2>. QED  BY <2>1, Zenon DEF LInv
<1>4. CASE Lines!Forget
  <2>1. frame' = Lines!NoFrame /\ text' = << >> /\ parsed' = Lines!NoFrame
    BY <1>4, Zenon DEF Lines!Forget
  <2>. QED  BY <2>1, NoFrameIsNotClassic, Zenon DEF LInv
<1>. QED  BY <1>1, <1>2, <1>3, <1>4, Zenon DEF Lines!Next

LEMMA LinesInvariance == ASSUME ~SplitIds PROVE Lines!Spec => []LInv
<1>1. Lines!Init => LInv
  BY NoFrameIsNotClassic, Zenon DEF Lines!Init, LInv
<1>2. LInv /\ UNCHANGED Lines!vars => LInv'
  BY Zenon DEF Lines!vars, LInv
<1>3. LInv /\ [Lines!Next]_(Lines!vars) => LInv'
  BY <1>2, LinesStep
<1>. QED  BY <1>1, <1>3, PTL DEF Lines!Spec

\* A frame with data comes back from its line as it was, whatever its id and its
\* bytes, from an adapter that leaves a 29-bit id in one piece
\* (elm327_channel.cpp:111-116, 162-202, frame_trace.cpp:36-52).
THEOREM LinesReadBack == ASSUME ~SplitIds PROVE ConvSpec => []ReadsBack
<1>1. LInv => ReadsBack
  <2>. SUFFICES ASSUME LInv, Lines!Classic(frame), frame.dlc > 0
                PROVE  Lines!Parse(Lines!Line(frame)) = frame
    BY Zenon DEF ReadsBack, Lines!ReadsBack
  <2>1. ClassicFrame(frame)
    BY NoFrameIsNotClassic, Zenon DEF LInv, ClassicFrame
  <2>2. PICK n : n = frame.dlc
    OBVIOUS
  <2>3. n \in 0..8
    BY <2>1, <2>2, FrameParts, Zenon
  <2>4. n \in 1..n
    BY <2>2, <2>3
  <2>5. PICK bytes \in Seq(Octet) : bytes = Lines!Bytes(frame) /\ Len(bytes) = n
    BY <2>1, <2>2, LineParts, Zenon
  <2>6. SubSeq(bytes, 1, n) = bytes
    BY <2>5
  <2>7. Lines!Trimmed(bytes) = frame.data
    BY <2>1, <2>5, DataTrimmed, Zenon
  <2>8. Lines!Parse(Lines!Line(frame)) = [id |-> frame.id, type |-> frame.type, dlc |-> n,
                                          data |-> Lines!Trimmed(SubSeq(bytes, 1, n))]
    <3>1. Lines!Line(frame) \in Seq(Seq(Nat)) /\ Len(Lines!Line(frame)) = 1 + n
      BY <2>1, <2>2, LineParts, Zenon
    <3>. QED  BY <2>1, <2>2, <2>4, <2>5, <3>1, BeginningRead, Zenon
  <2>9. frame = [id |-> frame.id, type |-> frame.type, dlc |-> n, data |-> frame.data]
    BY <2>1, <2>2, FrameParts, Zenon
  <2>. QED  BY <2>6, <2>7, <2>8, <2>9, Zenon
<1>. QED  BY <1>1, PartsAreThemselves, LinesInvariance, PTL

\* What is read in the beginning of a line is a frame that could have been sent.
LEMMA BeginningValid ==
  ASSUME ~SplitIds, NEW f, ClassicFrame(f), NEW k \in Nat, k <= f.dlc,
         NEW p, p = [id |-> f.id, type |-> f.type, dlc |-> k,
                     data |-> Lines!Trimmed(SubSeq(Lines!Bytes(f), 1, k))]
  PROVE  Lines!Validates(p) /\ Lines!IsValidId(p.id, p.type)
<1>. PICK n : n = f.dlc
  OBVIOUS
<1>1. n \in 0..8 /\ k <= n
  BY FrameParts, Zenon
<1>2. PICK bytes \in Seq(Nat) : bytes = Lines!Bytes(f) /\ Len(bytes) = n
  <2>1. Octet \subseteq Nat
    BY DEF Octet
  <2>2. Seq(Octet) \subseteq Seq(Nat)
    BY <2>1, SeqMonotonic, Zenon
  <2>. QED  BY <2>2, LineParts, Zenon
<1>3. SubSeq(bytes, 1, k) \in Seq(Nat) /\ Len(SubSeq(bytes, 1, k)) = k
  BY <1>1, <1>2
<1>4. Len(p.data) <= k
  BY <1>2, <1>3, TrimmedShorter, Zenon
<1>5. p.id = f.id /\ p.type = f.type /\ p.dlc = k
  OBVIOUS
<1>6. \/ f.type = "Standard" /\ f.id <= Lines!MaxStandardId
      \/ f.type = "Extended" /\ f.id <= Lines!MaxExtendedId
  BY FrameParts, Zenon
<1>7. Lines!MaxDlc(f.type) = 8 /\ k <= 8
  BY <1>1, <1>6, SMT DEF Lines!MaxDlc
<1>8. Lines!IdPasses(p)
  BY <1>5, <1>6 DEF Lines!IdPasses
<1>9. Lines!IsValidId(f.id, f.type)
  BY <1>6 DEF Lines!IsValidId, Lines!MaxIdOf
<1>. QED  BY <1>4, <1>5, <1>7, <1>8, <1>9, Zenon DEF Lines!Validates

\* A line that has lost its end is refused or read as a frame with fewer bytes, and
\* never with another id or with bytes that were not sent
\* (elm327_channel.cpp:186-199, can_frame.cpp:25-76).
THEOREM CutLinesLoseOnly == ASSUME ~SplitIds PROVE ConvSpec => []CutLosesOnly
<1>1. LInv => CutLosesOnly
  <2>. SUFFICES ASSUME LInv, Lines!Classic(frame), parsed # Lines!NoFrame
                PROVE  /\ parsed.id = frame.id /\ parsed.type = frame.type
                       /\ parsed.dlc <= frame.dlc
                       /\ parsed.data = Lines!Trimmed(SubSeq(Lines!Bytes(frame), 1, parsed.dlc))
                       /\ Lines!Validates(parsed) /\ Lines!IsValidId(parsed.id, parsed.type)
    BY Zenon DEF CutLosesOnly, Lines!CutLosesOnly
  <2>1. ClassicFrame(frame)
    BY NoFrameIsNotClassic, Zenon DEF LInv, ClassicFrame
  <2>2. parsed = Lines!Parse(text) /\ IsCut(text, Lines!Line(frame))
    BY Zenon DEF LInv
  <2>3. PICK n \in Nat, k \in Nat :
          k + 1 = Len(text) /\ 1 <= k /\ k <= n /\ n = frame.dlc /\ n <= 8
    <3>1. ~(Len(text) < 2)
      BY <2>2, Zenon DEF Lines!Parse
    <3>2. PICK n : n = frame.dlc
      OBVIOUS
    <3>3. n \in 0..8 /\ Len(Lines!Line(frame)) = 1 + n
      BY <2>1, <3>2, FrameParts, LineParts, Zenon
    <3>4. text \in Seq(Seq(Nat)) /\ Len(text) <= 1 + n
      BY <2>2, <3>3, Zenon DEF IsCut
    <3>5. PICK m \in Nat : m = Len(text)
      BY <3>4
    <3>6. n \in Nat /\ m - 1 \in Nat /\ (m - 1) + 1 = m /\ 1 <= m - 1 /\ m - 1 <= n /\ n <= 8
      BY <3>1, <3>3, <3>4, <3>5
    <3>. QED  BY <3>2, <3>5, <3>6, Zenon
  <2>4. text \in Seq(Seq(Nat)) /\ Len(text) = 1 + k
    <3>1. k + 1 = 1 + k
      OBVIOUS
    <3>. QED  BY <2>2, <2>3, <3>1, Zenon DEF IsCut
  <2>5. text[1 + k] = Lines!Line(frame)[1 + k]
    <3>1. PICK v \in Seq(Nat) : v = text[1 + k]
      <4>1. text[1 + k] \in Seq(Nat)
        BY <2>4
      <4>. QED  BY <4>1, Zenon
    <3>2. PICK w \in Seq(Nat) : w = Lines!Line(frame)[1 + k] /\ Len(w) = 2
      <4>1. k \in 1..n /\ k + 1 = 1 + k
        BY <2>3
      <4>2. Lines!Line(frame)[1 + k] = Lines!Digits(Lines!Bytes(frame)[k], 2)
        BY <2>1, <2>3, <4>1, LineParts, Zenon
      <4>3. Lines!Bytes(frame) \in Seq(Octet) /\ Len(Lines!Bytes(frame)) = n
        BY <2>1, <2>3, LineParts, Zenon
      <4>4. Lines!Bytes(frame)[k] \in Octet
        BY <4>1, <4>3
      <4>. QED  BY <4>2, <4>4, ByteRead, Zenon
    <3>3. \A j \in 1..Len(v) : v[j] = w[j]
      <4>1. 1 + k \in 1..Len(text)
        BY <2>4
      <4>. QED  BY <2>2, <3>1, <3>2, <4>1, Zenon DEF IsCut
    <3>4. Len(v) = 2
      <4>1. Lines!Min({Len(text), 9}) = 1 + k
        <5>1. 1 + k \in Nat /\ 9 \in Nat /\ 1 + k <= 9
          BY <2>3
        <5>2. Lines!Min({1 + k, 9}) = IF 1 + k <= 9 THEN 1 + k ELSE 9
          BY <5>1, MinOfTwo, Zenon
        <5>. QED  BY <2>4, <5>1, <5>2, Zenon
      <4>2. Lines!Read(text) = SubSeq(text, 2, 1 + k)
        BY <4>1, Zenon DEF Lines!Read
      <4>3. /\ Len(SubSeq(text, 2, 1 + k)) = k /\ k \in 1..k
            /\ SubSeq(text, 2, 1 + k)[k] = text[1 + k]
        BY <2>3, <2>4
      <4>4. ~Lines!NotAByte(Lines!Read(text)[k])
        <5>1. k \in 1..Len(Lines!Read(text))
          BY <4>2, <4>3, Zenon
        <5>2. ~ \E i \in 1..Len(Lines!Read(text)) : Lines!NotAByte(Lines!Read(text)[i])
          BY <2>2, Zenon DEF Lines!Parse
        <5>. QED  BY <5>1, <5>2, Zenon
      <4>. QED  BY <3>1, <4>2, <4>3, <4>4, Zenon DEF Lines!NotAByte
    <3>5. v = w
      BY <3>2, <3>3, <3>4, SeqEqual, Zenon
    <3>. QED  BY <3>1, <3>2, <3>5, Zenon
  <2>6. ASSUME NEW i \in 1..(1 + k) PROVE text[i] = Lines!Line(frame)[i]
    <3>1. CASE i = 1 + k
      BY <2>5, <3>1, Zenon
    <3>2. CASE i # 1 + k
      <4>1. i \in 1..Len(text) /\ i < Len(text)
        BY <2>4, <3>2
      <4>. QED  BY <2>2, <4>1, Zenon DEF IsCut
    <3>. QED  BY <3>1, <3>2, Zenon
  <2>7. parsed = [id |-> frame.id, type |-> frame.type, dlc |-> k,
                  data |-> Lines!Trimmed(SubSeq(Lines!Bytes(frame), 1, k))]
    <3>1. k \in 1..frame.dlc
      <4>1. k \in 1..n
        BY <2>3
      <4>. QED  BY <2>3, <4>1, Zenon
    <3>. QED  BY <2>1, <2>2, <2>4, <2>6, <3>1, BeginningRead, Zenon
  <2>8. Lines!Validates(parsed) /\ Lines!IsValidId(parsed.id, parsed.type)
    BY <2>1, <2>3, <2>7, BeginningValid, Zenon
  <2>9. parsed.id = frame.id /\ parsed.type = frame.type /\ parsed.dlc = k
        /\ parsed.data = Lines!Trimmed(SubSeq(Lines!Bytes(frame), 1, k))
    BY <2>7, SMT
  <2>. QED  BY <2>3, <2>8, <2>9, Zenon
<1>. QED  BY <1>1, PartsAreThemselves, LinesInvariance, PTL

-----------------------------------------------------------------------------
(* The proof that Exact holds for every width of the counters.              *)

\* What the caller keeps is the time, cut in two.
IInv ==
  /\ TypeOK
  /\ Exact
  /\ true_us = rollover * Wrap + prev_ts

\* A product is smaller only if the other factor is.
LEMMA SmallerFactor ==
  ASSUME NEW a \in Nat, NEW b \in Nat, NEW w \in Nat \ {0}, a * w < b * w
  PROVE  a < b
<1>1. SUFFICES ASSUME b <= a PROVE FALSE
  OBVIOUS
<1>2. PICK c \in Nat : a = b + c
  <2>1. a - b \in Nat /\ a = b + (a - b)
    BY <1>1
  <2>. QED  BY <2>1
<1>3. a * w = b * w + c * w
  BY <1>2
<1>4. c * w >= 0 /\ b * w \in Int /\ c * w \in Int
  OBVIOUS
<1>. QED  BY <1>3, <1>4

\* A frame moves the parts by its gap, with one rollover at most.
LEMMA FrameStep ==
  ASSUME IInv, NEW gap \in 0..MaxGap, Frame(gap)
  PROVE  IInv'
<1>. USE TimestampAssumption DEF IInv, TypeOK, Exact
<1>1. gap \in Nat /\ gap < Wrap /\ rollover * Wrap \in Nat
  OBVIOUS
<1>2. true_us' = true_us + gap /\ true_us' \in 0..MaxTime
  BY <1>1 DEF Frame
<1>3. CASE prev_ts + gap < Wrap
  <2>1. prev_ts' = prev_ts + gap /\ rollover' = rollover
    BY <1>1, <1>3 DEF Frame, Raw, RolledOver
  <2>. QED  BY <1>1, <1>2, <1>3, <2>1 DEF Frame, Raw
<1>4. CASE Wrap <= prev_ts + gap
  <2>1. prev_ts' = prev_ts + gap - Wrap /\ prev_ts' < prev_ts /\ prev_ts' \in 0..(Wrap - 1)
    BY <1>1, <1>4 DEF Frame, Raw
  <2>2. rollover' = (rollover + 1) % RolloverWrap
    BY <2>1 DEF Frame, RolledOver
  <2>3. (rollover + 1) * Wrap = rollover * Wrap + Wrap
    OBVIOUS
  <2>4. true_us' = (rollover + 1) * Wrap + prev_ts'
    BY <1>1, <1>2, <2>1, <2>3
  <2>5. (rollover + 1) * Wrap < RolloverWrap * Wrap
    BY <1>1, <1>2, <2>1, <2>3, <2>4
  <2>6. rollover + 1 < RolloverWrap
    BY <2>5, SmallerFactor
  <2>7. rollover' = rollover + 1
    BY <2>2, <2>6
  <2>8. extended' = rollover' * Wrap + prev_ts'
    BY DEF Frame
  <2>. QED  BY <1>1, <1>2, <2>1, <2>4, <2>6, <2>7, <2>8
<1>. QED  BY <1>1, <1>3, <1>4

\* In every behaviour prev_ts and the rollover counter together are the true time
\* (timestamp.h:28-36).
THEOREM Invariance == Spec => []IInv
<1>. USE TimestampAssumption
<1>1. Init => IInv
  BY DEF Init, IInv, TypeOK, Exact
<1>2. IInv /\ [Next]_vars => IInv'
  <2>. SUFFICES ASSUME IInv, [Next]_vars PROVE IInv'
    OBVIOUS
  <2>1. ASSUME NEW gap \in 0..MaxGap, Frame(gap) PROVE IInv'
    BY <2>1, FrameStep
  <2>2. CASE UNCHANGED vars
    BY <2>2 DEF vars, IInv, TypeOK, Exact
  <2>. QED  BY <2>1, <2>2 DEF Next, SessionEnds
<1>. QED  BY <1>1, <1>2, PTL DEF Spec

\* The extended timestamp is the true time, for counters of any width, as long as
\* no gap between frames reaches a whole turn and the session is shorter than the
\* rollover counter allows (timestamp.h:28-36).
THEOREM ExtendedIsExact == Spec => []Exact
BY Invariance, PTL DEF IInv

\* The extended timestamp never decreases (timestamp.h:22).
THEOREM ExtendedIsMonotonic == Spec => Monotonic
<1>1. IInv /\ IInv' /\ [Next]_vars => [extended' >= extended]_vars
  <2>. SUFFICES ASSUME IInv, IInv', [Next]_vars PROVE extended' >= extended
    OBVIOUS
  <2>1. extended = true_us /\ extended' = true_us' /\ true_us \in Nat
    BY TimestampAssumption DEF IInv, TypeOK, Exact
  <2>2. ASSUME NEW gap \in 0..MaxGap, Frame(gap) PROVE true_us' = true_us + gap
    BY <2>2 DEF Frame
  <2>3. CASE UNCHANGED vars
    BY <2>1, <2>3 DEF vars
  <2>. QED  BY TimestampAssumption, <2>1, <2>2, <2>3 DEF Next, SessionEnds
<1>. QED  BY <1>1, Invariance, PTL DEF Spec, Monotonic
=============================================================================
