----------------------------- MODULE SandboxProofs -----------------------------
(***************************************************************************)
(* Proof that an answer is the beginning of the output, for any streams,   *)
(* any cap and any program.                                                *)
(***************************************************************************)
EXTENDS Sandbox, SequenceTheorems, TLAPS

\* Bytes of a stream that are no longer to be written.
Passed(s) == printed[s] - Len(left[s])

\* The bytes of p are those that follow the first m.
Follows(p, m) == \A i \in 1..Len(p) : p[i] = m + i

\* A buffer with the beginning of a stream.
Beginning(b) == \A i \in 1..Len(b) : b[i] = i

\* A buffer b after a write of which k bytes are kept.
After(b, p, k) == b \o SubSeq(p, 1, k)

\* What is left is the end of what was printed, and the buffer has the beginning of
\* what was passed, as far as it fits.
StreamInv(s) ==
    /\ Len(left[s]) <= printed[s]
    /\ Follows(left[s], Passed(s))
    /\ Len(buf[s]) = Least(Passed(s), outputCap)
    /\ Beginning(buf[s])

\* A program that exits by itself has printed what it began to print.
EndInv ==
    /\ how = "exit0" => \A s \in Streams : left[s] = <<>>
    /\ stage = "answered" =>
         answer = IF how = "exit0" THEN [ok |-> TRUE, out |-> buf] ELSE Nothing

SandboxInv == TypeOK /\ EndInv /\ \A s \in Streams : StreamInv(s)

-----------------------------------------------------------------------------

\* A sequence of bytes has a length, and numbers in its places.
LEMMA BytesAreNumbers ==
    ASSUME NEW p \in Bytes
    PROVE  Len(p) \in Nat /\ \A i \in 1..Len(p) : p[i] \in 1..MaxPrinted
<1> DEFINE S == 1..MaxPrinted
<1>1. p \in Seq(S)
  BY DEF Bytes
<1> HIDE DEF S
<1>2. Len(p) \in Nat /\ \A i \in 1..Len(p) : p[i] \in S
  BY <1>1, LenProperties, ElementOfSeq
<1> QED BY <1>2 DEF S

\* The bytes of a sequence from the a-th to the k-th.
LEMMA PartOfBytes ==
    ASSUME NEW p \in Bytes, NEW a \in Nat \ {0}, NEW k \in Nat, a <= k + 1, k <= Len(p)
    PROVE  /\ SubSeq(p, a, k) \in Bytes /\ Len(SubSeq(p, a, k)) = k + 1 - a
           /\ \A i \in 1..k + 1 - a : SubSeq(p, a, k)[i] = p[a + i - 1]
<1> DEFINE S == 1..MaxPrinted
<1>1. p \in Seq(S) /\ Len(p) \in Nat /\ \A i \in 1..Len(p) : p[i] \in S
  BY BytesAreNumbers DEF Bytes
<1> HIDE DEF S
<1>2. a \in Int /\ k \in Int /\ \A i \in a..k : p[i] \in S
  BY <1>1
<1>3. /\ SubSeq(p, a, k) \in Seq(S)
      /\ Len(SubSeq(p, a, k)) = IF a <= k THEN k - a + 1 ELSE 0
      /\ \A i \in 1..k - a + 1 : SubSeq(p, a, k)[i] = p[a + i - 1]
  BY ONLY <1>2, SubSeqProperties
<1>4. k + 1 - a = (IF a <= k THEN k - a + 1 ELSE 0) /\ k + 1 - a = k - a + 1
  OBVIOUS
<1> QED BY <1>3, <1>4 DEF S, Bytes

\* How much of n bytes is kept after m, under a cap.
LEMMA CapArithmetic ==
    ASSUME NEW m \in Nat, NEW n \in Nat, NEW cap \in Nat,
           NEW l \in Nat, l = Least(m, cap), NEW k \in Nat, k = Least(n, cap - l)
    PROVE  /\ l <= cap /\ k <= n
           /\ l + k = Least(m + n, cap) /\ (k > 0 => l = m)
           /\ l = cap => Least(m + n, cap) = cap
           /\ l < cap => Least(m + k, cap) = Least(m + n, cap)
  BY DEF Least

\* A write that follows the bytes passed so far extends a buffer with the beginning of
\* them to the beginning of all of them.
LEMMA BufferKeeps ==
    ASSUME NEW b \in Bytes, NEW p \in Bytes, NEW k \in Nat, NEW m \in Nat, NEW cap \in Nat,
           Beginning(b), Follows(p, m), Len(b) = Least(m, cap),
           k = Least(Len(p), cap - Len(b))
    PROVE  /\ After(b, p, k) \in Bytes /\ Beginning(After(b, p, k))
           /\ Len(After(b, p, k)) = Least(m + Len(p), cap)
<1> DEFINE c == After(b, p, k)
<1>0. PICK l \in Nat, n \in Nat : l = Len(b) /\ n = Len(p)
  BY BytesAreNumbers
<1>1. /\ l = Len(b) /\ n = Len(p)
      /\ \A i \in 1..l : b[i] = i
      /\ \A i \in 1..n : p[i] = m + i
  BY <1>0 DEF Beginning, Follows
<1>2. k <= n /\ l + k = Least(m + n, cap) /\ (k > 0 => l = m)
  <2>1. l = Least(m, cap) /\ k = Least(n, cap - l)
    BY <1>1
  <2> QED BY ONLY <2>1, CapArithmetic
<1>3. PICK q \in Bytes : q = SubSeq(p, 1, k) /\ Len(q) = k /\ \A i \in 1..k : q[i] = p[i]
  <2>1. 1 \in Nat \ {0} /\ 1 <= k + 1 /\ k <= Len(p)
    BY <1>1, <1>2
  <2>2. /\ SubSeq(p, 1, k) \in Bytes /\ Len(SubSeq(p, 1, k)) = k + 1 - 1
        /\ \A i \in 1..k + 1 - 1 : SubSeq(p, 1, k)[i] = p[1 + i - 1]
    BY ONLY <2>1, PartOfBytes
  <2> DEFINE q == SubSeq(p, 1, k)
  <2> HIDE DEF q
  <2>3. q \in Bytes /\ Len(q) = k /\ \A i \in 1..k : q[i] = p[i]
    <3>1. q \in Bytes /\ Len(q) = k + 1 - 1 /\ \A i \in 1..k + 1 - 1 : q[i] = p[1 + i - 1]
      BY <2>2 DEF q
    <3> QED BY ONLY <3>1
  <2> QED BY <2>3 DEF q
<1>4. /\ c \in Bytes /\ Len(c) = l + k
      /\ \A i \in 1..l + k : c[i] = IF i <= l THEN b[i] ELSE q[i - l]
  <2> DEFINE S == 1..MaxPrinted
  <2>1. b \in Seq(S) /\ q \in Seq(S)
    BY DEF Bytes
  <2> HIDE DEF S
  <2>2. /\ b \o q \in Seq(S) /\ Len(b \o q) = Len(b) + Len(q)
        /\ \A i \in 1..Len(b) + Len(q) : (b \o q)[i] = IF i <= Len(b) THEN b[i] ELSE q[i - Len(b)]
    BY ONLY <2>1, ConcatProperties
  <2>3. c = b \o q
    BY <1>3 DEF After
  <2> HIDE DEF c
  <2> QED BY <1>1, <1>3, <2>2, <2>3 DEF S, Bytes
<1> HIDE DEF c
<1>5. ASSUME NEW i \in 1..l + k PROVE c[i] = i
  <2>1. CASE i <= l
    BY <1>1, <1>2, <1>4, <2>1
  <2>2. CASE i > l
    <3>1. i - l \in 1..k /\ i - l \in 1..n /\ k > 0 /\ ~(i <= l)
      BY ONLY <1>2, <2>2
    <3>2. q[i - l] = m + (i - l)
      BY <1>1, <1>3, <3>1
    <3>3. m + (i - l) = i
      BY <1>2, <3>1
    <3> QED BY <1>4, <3>1, <3>2, <3>3
  <2> QED BY <1>1, <2>1, <2>2
<1>6. c \in Bytes /\ Len(c) = Least(m + Len(p), cap) /\ \A i \in 1..Len(c) : c[i] = i
  BY <1>1, <1>2, <1>4, <1>5
<1> QED BY <1>6 DEF c, Beginning

\* A sequence is its bytes.
LEMMA IsBeginning ==
    ASSUME NEW n \in Nat, NEW b \in Bytes, Len(b) = n, \A i \in 1..n : b[i] = i
    PROVE  b = [i \in 1..n |-> i]
<1>1. b \in [1..n -> 1..MaxPrinted]
  BY LenProperties DEF Bytes
<1> QED BY <1>1

\* Numbering what is printed gives a sequence of bytes.
LEMMA Numbered ==
    ASSUME SandboxBounds, NEW m \in Nat, NEW n \in Nat, m + n <= MaxPrinted,
           NEW p, p = [i \in 1..n |-> m + i]
    PROVE  p \in Bytes /\ Len(p) = n /\ \A i \in 1..n : p[i] = m + i
<1>1. p \in [1..n -> 1..MaxPrinted]
  BY DEF SandboxBounds
<1>2. p \in Seq(1..MaxPrinted)
  BY <1>1, SeqDef
<1>3. DOMAIN p = 1..n /\ Len(p) \in Nat /\ DOMAIN p = 1..Len(p)
  BY <1>1, <1>2, LenProperties
<1> QED BY <1>2, <1>3 DEF Bytes

\* The empty sequence has no bytes.
LEMMA NoBytes == <<>> \in Bytes /\ Len(<<>>) = 0
  BY EmptySeq DEF Bytes

\* Nothing is printed at first.
LEMMA SandboxInit == SandboxBounds /\ Init => SandboxInv
<1> SUFFICES ASSUME SandboxBounds, Init PROVE SandboxInv
  OBVIOUS
<1>1. TypeOK
  <2>1. Nothing \in [ok : BOOLEAN, out : [Streams -> Bytes]]
    BY NoBytes DEF Nothing
  <2>2. done \in BOOLEAN
    BY Zenon DEF Init
  <2> QED BY <2>1, <2>2, NoBytes DEF Init, TypeOK, Ends, SandboxBounds
<1>2. EndInv
  BY DEF Init, EndInv
<1>3. ASSUME NEW s \in Streams PROVE StreamInv(s)
  <2>1. left[s] = <<>> /\ buf[s] = <<>> /\ printed[s] = 0
    BY DEF Init
  <2>2. Least(0, outputCap) = 0 /\ 0 - 0 = 0
    BY DEF Least, SandboxBounds
  <2> QED BY <2>1, <2>2, NoBytes DEF StreamInv, Passed, Follows, Beginning
<1> QED BY <1>1, <1>2, <1>3 DEF SandboxInv

-----------------------------------------------------------------------------

\* Steps that write nothing.
LEMMA RunStep ==
    SandboxBounds /\ SandboxInv /\ (Begin \/ Exit \/ Trap \/ Expire \/ Close \/ Answer) => SandboxInv'
<1> SUFFICES ASSUME SandboxBounds, SandboxInv,
                    Begin \/ Exit \/ Trap \/ Expire \/ Close \/ Answer
             PROVE  SandboxInv'
  OBVIOUS
<1>1. UNCHANGED <<buf, left, printed>>
  BY DEF Begin, Exit, Trap, Expire, Close, Answer, End
<1>2. \A s \in Streams : StreamInv(s)'
  BY <1>1 DEF SandboxInv, StreamInv, Passed
<1>3. TypeOK'
  <2> USE DEF SandboxInv, TypeOK, Ends
  <2>1. CASE Begin
    BY <1>1, <2>1 DEF Begin
  <2>2. CASE Exit \/ Trap \/ Close
    BY <1>1, <2>2 DEF Exit, Trap, Close, End
  <2>3. CASE Expire
    <3>1. done' \in BOOLEAN
      BY <2>3, Zenon DEF Expire
    <3> QED BY <1>1, <2>3, <3>1 DEF Expire
  <2>4. CASE Answer
    <3>1. [ok |-> TRUE, out |-> buf] \in [ok : BOOLEAN, out : [Streams -> Bytes]]
      OBVIOUS
    <3>2. Nothing \in [ok : BOOLEAN, out : [Streams -> Bytes]]
      BY NoBytes DEF Nothing
    <3>3. answer' \in [ok : BOOLEAN, out : [Streams -> Bytes]]
      BY <2>4, <3>1, <3>2, Zenon DEF Answer
    <3> QED BY <1>1, <2>4, <3>3 DEF Answer
  <2> QED BY <2>1, <2>2, <2>3, <2>4
<1>4. EndInv'
  <2> USE DEF EndInv
  <2>1. CASE Begin \/ Trap \/ Close \/ Expire
    BY <1>1, <2>1 DEF SandboxInv, TypeOK, Begin, Trap, Close, Expire, End
  <2>2. CASE Exit
    BY <1>1, <2>2 DEF SandboxInv, Exit, End
  <2>3. CASE Answer
    BY <1>1, <2>3 DEF SandboxInv, Answer, Succeeds
  <2> QED BY <2>1, <2>2, <2>3
<1> QED BY <1>2, <1>3, <1>4 DEF SandboxInv

\* The program begins to print.
LEMMA EmitStep ==
    ASSUME SandboxBounds, SandboxInv, NEW s \in Streams, NEW n \in 1..MaxPrint, Emit(s, n)
    PROVE  SandboxInv'
<1> USE DEF SandboxInv, SandboxBounds
<1>1. /\ stage = "run" /\ UNCHANGED <<stage, done, how, buf, answer>>
      /\ printed' = [printed EXCEPT ![s] = printed[s] + n]
      /\ left' = [left EXCEPT ![s] = [i \in 1..n |-> printed[s] + i]]
      /\ printed[s] + n <= MaxPrinted
  BY DEF Emit
<1>2. left = [t \in Streams |-> <<>>]
  BY DEF Emit
<1>3. printed[s] \in Nat /\ n \in Nat /\ \A t \in Streams : Len(left[t]) = 0
  BY <1>2, NoBytes DEF TypeOK
<1>4. PICK p \in Bytes : /\ p = [i \in 1..n |-> printed[s] + i]
                         /\ Len(p) = n /\ \A i \in 1..n : p[i] = printed[s] + i
  <2> DEFINE p == [i \in 1..n |-> printed[s] + i]
  <2>1. p \in Bytes /\ Len(p) = n /\ \A i \in 1..n : p[i] = printed[s] + i
    BY <1>1, <1>3, Numbered
  <2>2. p = [i \in 1..n |-> printed[s] + i]
    OBVIOUS
  <2> HIDE DEF p
  <2> QED BY <2>1, <2>2
<1>5. left' = [left EXCEPT ![s] = p]
  BY <1>1, <1>4
<1>6. TypeOK'
  BY <1>1, <1>3, <1>5 DEF TypeOK
<1>7. EndInv'
  BY <1>1 DEF EndInv, TypeOK
<1>8. ASSUME NEW t \in Streams PROVE StreamInv(t)'
  <2>1. StreamInv(t)
    OBVIOUS
  <2>2. CASE t = s
    <3>1. left'[t] = p /\ printed'[t] = printed[s] + n /\ buf'[t] = buf[s]
      BY <1>1, <1>5, <2>2 DEF TypeOK
    <3> QED BY <1>3, <1>4, <2>1, <2>2, <3>1 DEF StreamInv, Passed, Follows, Beginning
  <2>3. CASE t # s
    <3>1. left'[t] = left[t] /\ printed'[t] = printed[t] /\ buf'[t] = buf[t]
      BY <1>1, <1>5, <2>3 DEF TypeOK
    <3> QED BY <2>1, <3>1 DEF StreamInv, Passed, Follows, Beginning
  <2> QED BY <2>2, <2>3
<1> QED BY <1>6, <1>7, <1>8

\* A call of Write, after which the program has the rest left, or nothing.
LEMMA WriteStep ==
    ASSUME SandboxBounds, SandboxInv, NEW s \in Streams, Repeat(s) \/ Ignore(s)
    PROVE  SandboxInv'
<1> USE DEF SandboxInv
<1>1. PICK p \in Bytes, b \in Bytes : p = left[s] /\ b = buf[s]
  BY DEF TypeOK
<1>2. PICK n \in Nat, l \in Nat, cap \in Nat : n = Len(p) /\ l = Len(b) /\ cap = outputCap
  BY BytesAreNumbers DEF SandboxBounds
<1>3. PICK m \in Nat : printed[s] = m + n /\ m = Passed(s)
  <2>1. printed[s] \in Nat /\ n <= printed[s] /\ Passed(s) = printed[s] - n
    BY <1>1, <1>2 DEF TypeOK, StreamInv, Passed
  <2> QED BY ONLY <2>1
<1>4. l = Least(m, cap) /\ Beginning(b)
  BY <1>1, <1>2, <1>3 DEF StreamInv
<1>5. Follows(p, m)
  BY <1>1, <1>3 DEF StreamInv
<1>6. PICK k \in Nat : k = Least(n, cap - l)
  <2>1. l <= cap
    BY ONLY <1>4 DEF Least
  <2>2. Least(n, cap - l) \in Nat
    BY ONLY <2>1 DEF Least
  <2> QED BY <2>2
<1>7. PICK c \in Bytes : c = After(b, p, k) /\ Len(c) = Least(m + n, cap) /\ Beginning(c)
  <2>1. Len(b) = Least(m, cap) /\ k = Least(Len(p), cap - Len(b))
    BY <1>2, <1>4, <1>6
  <2>2. /\ After(b, p, k) \in Bytes /\ Beginning(After(b, p, k))
        /\ Len(After(b, p, k)) = Least(m + Len(p), cap)
    <3>1. Beginning(b)
      BY ONLY <1>4
    <3>2. Follows(p, m)
      BY ONLY <1>5
    <3> QED BY ONLY <3>1, <3>2, <2>1, BufferKeeps
  <2> QED BY <1>2, <2>2
<1>8. /\ stage = "run" /\ UNCHANGED <<stage, done, how, printed, answer>>
      /\ buf' = [buf EXCEPT ![s] = c]
  <2>1. /\ stage = "run" /\ UNCHANGED <<stage, done, how, printed, answer>>
        /\ buf' = [buf EXCEPT ![s] = buf[s] \o Keeps(s, left[s])]
    BY DEF Repeat, Ignore, Write
  <2>2. Keeps(s, left[s]) = SubSeq(p, 1, k)
    BY <1>1, <1>2, <1>6 DEF Keeps, Room
  <2> QED BY <1>1, <1>7, <2>1, <2>2 DEF After
<1>9. PICK q \in Bytes, r \in Nat :
        /\ left' = [left EXCEPT ![s] = q] /\ r <= n /\ Len(q) = n - r
        /\ \A i \in 1..n - r : q[i] = m + r + i
        /\ Least(m + r, cap) = Least(m + n, cap)
  <2>1. CASE Ignore(s)
    <3>1. left' = [left EXCEPT ![s] = <<>>]
      BY <2>1 DEF Ignore
    <3>2. n <= n /\ n - n = 0 /\ \A i \in 1..n - n : <<>>[i] = m + n + i
      OBVIOUS
    <3> QED BY <3>1, <3>2, NoBytes
  <2>2. CASE Repeat(s)
    <3>1. PICK r \in Nat : r <= n /\ r = Reports(s, p) /\ Least(m + r, cap) = Least(m + n, cap)
      <4>1. Reports(s, p) = IF cap - l = 0 THEN n ELSE k
        BY <1>1, <1>2, <1>6 DEF Reports, Room
      <4>2. /\ l <= cap /\ k <= n
            /\ l < cap => Least(m + k, cap) = Least(m + n, cap)
        <5>1. l = Least(m, cap) /\ k = Least(n, cap - l)
          BY <1>4, <1>6
        <5> QED BY ONLY <5>1 DEF Least
      <4>3. CASE l = cap
        BY <4>1, <4>3
      <4>4. CASE l < cap
        BY <4>1, <4>2, <4>4
      <4> QED BY ONLY <4>2, <4>3, <4>4
    <3> DEFINE q == SubSeq(p, r + 1, n)
    <3>2. q \in Bytes /\ Len(q) = n - r /\ \A i \in 1..n - r : q[i] = p[r + i]
      <4>1. r + 1 \in Nat \ {0} /\ r + 1 <= n + 1 /\ n <= Len(p)
        BY <1>2, <3>1
      <4>2. /\ q \in Bytes /\ Len(q) = n + 1 - (r + 1)
            /\ \A i \in 1..n + 1 - (r + 1) : q[i] = p[r + 1 + i - 1]
        BY ONLY <4>1, PartOfBytes
      <4> HIDE DEF q
      <4> QED BY ONLY <4>2
    <3>3. left' = [left EXCEPT ![s] = q]
      <4>1. left' = [left EXCEPT ![s] = SubSeq(left[s], Reports(s, left[s]) + 1, Len(left[s]))]
        BY <2>2 DEF Repeat
      <4> QED BY <1>1, <1>2, <3>1, <4>1
    <3> HIDE DEF q
    <3>4. ASSUME NEW i \in 1..n - r PROVE q[i] = m + r + i
      <4>1. r + i \in 1..n /\ m + (r + i) = m + r + i
        BY <3>1
      <4> QED BY <1>2, <1>5, <3>2, <4>1 DEF Follows
    <3> QED BY <3>1, <3>2, <3>3, <3>4
  <2> QED BY <2>1, <2>2
<1>10. TypeOK'
  <2>1. Len(c) <= outputCap
    <3>1. Least(m + n, cap) <= cap
      BY DEF Least
    <3> QED BY <1>2, <1>7, <3>1
  <2> QED BY <1>8, <1>9, <2>1 DEF TypeOK
<1>11. EndInv'
  BY <1>8 DEF EndInv, TypeOK
<1>12. ASSUME NEW t \in Streams PROVE StreamInv(t)'
  <2>1. StreamInv(t)
    OBVIOUS
  <2>2. CASE t = s
    <3>1. left'[t] = q /\ printed'[t] = m + n /\ buf'[t] = c
      BY <1>3, <1>8, <1>9, <2>2 DEF TypeOK
    <3>2. Passed(t)' = m + r /\ Len(q) <= m + n
      BY <1>9, <3>1 DEF Passed
    <3>3. /\ Follows(q, m + r)
          /\ Len(c) = Least(m + r, outputCap)
      BY <1>2, <1>7, <1>9 DEF Follows
    <3> QED BY <1>7, <3>1, <3>2, <3>3 DEF StreamInv, Follows, Beginning
  <2>3. CASE t # s
    <3>1. left'[t] = left[t] /\ printed'[t] = printed[t] /\ buf'[t] = buf[t]
      BY <1>8, <1>9, <2>3 DEF TypeOK
    <3> QED BY <2>1, <3>1 DEF StreamInv, Passed, Follows, Beginning
  <2> QED BY <2>2, <2>3
<1> QED BY <1>10, <1>11, <1>12

\* Every step keeps the invariant.
LEMMA SandboxStep == SandboxBounds /\ SandboxInv /\ [Next]_vars => SandboxInv'
<1> SUFFICES ASSUME SandboxBounds, SandboxInv, [Next]_vars PROVE SandboxInv'
  OBVIOUS
<1>1. CASE Begin \/ Exit \/ Trap \/ Expire \/ Close \/ Answer
  BY <1>1, RunStep
<1>2. CASE \E s \in Streams : Repeat(s) \/ Ignore(s) \/ (\E n \in 1..MaxPrint : Emit(s, n))
  BY <1>2, WriteStep, EmitStep
<1>3. CASE UNCHANGED vars
  BY <1>3 DEF vars, SandboxInv, TypeOK, EndInv, StreamInv, Passed
<1> QED BY <1>1, <1>2, <1>3 DEF Next

\* The invariant always holds.
LEMMA SandboxInvariant == SandboxBounds => (Spec => []SandboxInv)
<1> SUFFICES ASSUME SandboxBounds PROVE Spec => []SandboxInv
  OBVIOUS
<1>1. Init => SandboxInv
  BY SandboxInit
<1>2. SandboxInv /\ [Next]_vars => SandboxInv'
  BY SandboxStep
<1> QED BY <1>1, <1>2, PTL DEF Spec

\* The sandbox's state has its type: no buffer ever holds more than the cap.
THEOREM SandboxTypes == SandboxBounds => (Spec => []TypeOK)
<1>1. SandboxInv => TypeOK
  BY DEF SandboxInv
<1> QED BY <1>1, SandboxInvariant, PTL

\* The answer to an execution is, on each stream, the longest beginning of what the
\* program printed that fits, if the program came to its end, and else nothing, however
\* its writes meet the cap and whatever it does about short writes (cappedBuffer, run).
THEOREM AnswersAreBeginnings == SandboxBounds => (Spec => []AnswerIsBeginning)
<1> SUFFICES ASSUME SandboxBounds PROVE Spec => []AnswerIsBeginning
  OBVIOUS
<1>1. SandboxInv => AnswerIsBeginning
  <2> SUFFICES ASSUME SandboxInv, stage = "answered"
               PROVE  IF how = "exit0"
                      THEN /\ answer.ok
                           /\ \A s \in Streams :
                                answer.out[s] = [i \in 1..Least(printed[s], outputCap) |-> i]
                      ELSE answer = Nothing
    BY DEF AnswerIsBeginning
  <2>1. CASE how = "exit0"
    <3>1. answer = [ok |-> TRUE, out |-> buf]
      BY <2>1 DEF SandboxInv, EndInv
    <3>2. ASSUME NEW s \in Streams
          PROVE  buf[s] = [i \in 1..Least(printed[s], outputCap) |-> i]
      <4>1. left[s] = <<>> /\ StreamInv(s)
        BY <2>1 DEF SandboxInv, EndInv
      <4>2. printed[s] \in Nat /\ outputCap \in Nat /\ buf[s] \in Bytes
        BY DEF SandboxInv, TypeOK, SandboxBounds
      <4>3. Len(buf[s]) = Least(printed[s], outputCap) /\ Least(printed[s], outputCap) \in Nat
        BY <4>1, <4>2, NoBytes DEF StreamInv, Passed, Follows, Beginning, Least
      <4>4. \A i \in 1..Least(printed[s], outputCap) : buf[s][i] = i
        BY <4>1, <4>3 DEF StreamInv, Follows, Beginning
      <4> QED BY <4>2, <4>3, <4>4, IsBeginning
    <3> QED BY <2>1, <3>1, <3>2
  <2>2. CASE how # "exit0"
    BY <2>2 DEF SandboxInv, EndInv
  <2> QED BY <2>1, <2>2
<1> QED BY <1>1, SandboxInvariant, PTL

===============================================================================
