----------------------------- MODULE VaultProofs -----------------------------
(***************************************************************************)
(* Proofs about the password manager's vault, for any passwords, limits    *)
(* and first vault: it is a book of passwords until it is lost, and there  *)
(* are two ways to lose it.  Length and Entries are recursive over the     *)
(* lines; what they compute is proved by induction, which rests on the     *)
(* least element of a set of numbers.                                      *)
(***************************************************************************)
EXTENDS Vault, SequenceTheorems, WellFoundedInduction, TLAPS

-----------------------------------------------------------------------------
(* Induction and recursion up to a number                                  *)

\* A set of numbers that is not empty has a least one.
LEMMA LeastNumber ==
    ASSUME NEW T \in SUBSET Nat, T # {}
    PROVE  \E n \in T : \A m \in T : n <= m
<1>1. \E n \in T : \A m \in T : ~(<<m, n>> \in OpToRel(<, Nat))
  BY ONLY T \subseteq Nat, T # {}, WFMin, NatLessThanWellFounded
<1>2. \A n, m \in Nat : <<m, n>> \notin OpToRel(<, Nat) => n <= m
  BY DEF OpToRel
<1> QED BY <1>1, <1>2

\* A set that goes on from 0 has all numbers up to a last one.
LEMMA CountUp ==
    ASSUME NEW last \in Nat, NEW T, 0 \in T, \A n \in 1..last : n - 1 \in T => n \in T
    PROVE  0..last \subseteq T
<1> DEFINE missing == {n \in 0..last : n \notin T}
<1>1. CASE missing # {}
  <2>1. PICK n \in missing : \A m \in missing : n <= m
    <3>1. missing \in SUBSET Nat
      OBVIOUS
    <3> HIDE DEF missing
    <3> QED BY <1>1, <3>1, LeastNumber
  <2>2. n \in 1..last /\ n - 1 \in 0..last /\ n \notin T
    BY <2>1
  <2>3. n - 1 \notin missing
    BY <2>1, <2>2
  <2> QED BY <2>2, <2>3
<1> QED BY <1>1

\* A function on the numbers up to a last one is given by its first value and by what
\* follows from each.
Recursive(f, zero, step, last) ==
    f[0] = zero /\ \A n \in 1..last : f[n] = step[<<n, f[n - 1]>>]

\* There is such a function for every first value and step.
LEMMA Recursion ==
    ASSUME NEW S, NEW zero \in S, NEW last \in Nat, NEW step \in [(1..last) \X S -> S]
    PROVE  \E f \in [0..last -> S] : Recursive(f, zero, step, last)
<1> DEFINE Follows(f, k) == f[0] = zero /\ \A n \in 1..k : f[n] = step[<<n, f[n - 1]>>]
           T == {k \in Nat : \E f \in [0..k -> S] : Follows(f, k)}
<1>1. 0 \in T
  <2>1. [n \in 0..0 |-> zero] \in [0..0 -> S] /\ Follows([n \in 0..0 |-> zero], 0)
    OBVIOUS
  <2> QED BY <2>1
<1>2. ASSUME NEW n \in 1..last, n - 1 \in T
      PROVE  n \in T
  <2>1. PICK f \in [0..(n - 1) -> S] : Follows(f, n - 1)
    BY <1>2
  <2>2. step[<<n, f[n - 1]>>] \in S
    BY <1>2
  <2> DEFINE g == [i \in 0..n |-> IF i = n THEN step[<<n, f[n - 1]>>] ELSE f[i]]
  <2>3. g \in [0..n -> S] /\ \A i \in 0..(n - 1) : g[i] = f[i]
    BY <1>2, <2>2
  <2>4. g[n] = step[<<n, f[n - 1]>>] /\ g[n - 1] = f[n - 1]
    BY <1>2
  <2> HIDE DEF g
  <2>5. Follows(g, n)
    <3>1. g[0] = zero
      BY <2>1, <2>3
    <3>2. \A i \in 1..n : i = n \/ (i \in 1..(n - 1) /\ i \in 0..(n - 1) /\ i - 1 \in 0..(n - 1))
      BY <1>2
    <3>3. \A i \in 1..(n - 1) : f[i] = step[<<i, f[i - 1]>>]
      BY <2>1
    <3>4. \A i \in 1..n : g[i] = step[<<i, g[i - 1]>>]
      BY <2>3, <2>4, <3>2, <3>3
    <3> QED BY <3>1, <3>4
  <2> QED BY <2>3, <2>5
<1>3. last \in T
  <2> HIDE DEF T
  <2>1. 0..last \subseteq T
    BY <1>1, <1>2, CountUp
  <2> QED BY <2>1
<1> QED BY <1>3 DEF Recursive

-----------------------------------------------------------------------------
(* The length of lines                                                     *)

\* Length adds the lines up one by one.
LEMMA LengthSums ==
    ASSUME VaultBounds, NEW lines \in Seq(Line)
    PROVE  \E sum \in [0..Len(lines) -> Nat] :
              /\ sum[0] = 0 /\ Length(lines) = sum[Len(lines)]
              /\ \A n \in 1..Len(lines) : sum[n] = sum[n - 1] + Size(lines[n])
<1> DEFINE step == [p \in (1..Len(lines)) \X Nat |-> p[2] + Size(lines[p[1]])]
           sum  == CHOOSE sum : sum = [n \in 0..Len(lines) |->
                     IF n = 0 THEN 0 ELSE sum[n - 1] + Size(lines[n])]
<1>1. Len(lines) \in Nat /\ \A n \in 1..Len(lines) : Size(lines[n]) \in Nat
  <2>1. \A n \in 1..Len(lines) : lines[n] \in Line
    BY ElementOfSeq
  <2> QED BY <2>1, LenProperties DEF VaultBounds, Line, Password, Size
<1>2. /\ step \in [(1..Len(lines)) \X Nat -> Nat]
      /\ \A n \in 1..Len(lines), m \in Nat : step[<<n, m>>] = m + Size(lines[n])
  BY <1>1
<1>3. PICK f \in [0..Len(lines) -> Nat] :
        f[0] = 0 /\ \A n \in 1..Len(lines) : f[n] = step[<<n, f[n - 1]>>]
  <2> DEFINE l == Len(lines)
             N == Nat
             z == 0
  <2>1. l \in Nat /\ z \in N /\ step \in [(1..l) \X N -> N]
    BY <1>1, <1>2
  <2> HIDE DEF step, l, N, z
  <2>2. \E f \in [0..l -> N] : Recursive(f, z, step, l)
    BY ONLY <2>1, Recursion
  <2> QED BY <2>2 DEF l, N, z, Recursive
<1>4. f = [n \in 0..Len(lines) |-> IF n = 0 THEN 0 ELSE f[n - 1] + Size(lines[n])]
  <2>1. \A n \in 0..Len(lines) : n # 0 => n \in 1..Len(lines) /\ n - 1 \in 0..Len(lines)
    BY <1>1
  <2>2. \A n \in 0..Len(lines) : n # 0 => f[n - 1] \in Nat
    BY <2>1
  <2>3. \A n \in 0..Len(lines) : n # 0 => step[<<n, f[n - 1]>>] = f[n - 1] + Size(lines[n])
    <3> HIDE DEF step
    <3> QED BY <1>2, <2>1, <2>2
  <2> HIDE DEF step
  <2>4. \A n \in 0..Len(lines) :
          f[n] = IF n = 0 THEN 0 ELSE f[n - 1] + Size(lines[n])
    BY <1>3, <2>1, <2>3
  <2> QED BY <2>4
<1>5. sum = [n \in 0..Len(lines) |-> IF n = 0 THEN 0 ELSE sum[n - 1] + Size(lines[n])]
  BY <1>4
<1>6. Length(lines) = sum[Len(lines)]
  BY DEF Length
<1> HIDE DEF sum
<1>7. /\ sum[0] = 0
      /\ \A n \in 1..Len(lines) : sum[n] = sum[n - 1] + Size(lines[n])
  BY <1>1, <1>5
<1> DEFINE T == {n \in 0..Len(lines) : sum[n] \in Nat}
<1>8. 0..Len(lines) \subseteq T
  <2>1. 0 \in T
    BY <1>1, <1>7
  <2>2. ASSUME NEW n \in 1..Len(lines), n - 1 \in T
        PROVE  n \in T
    <3>1. /\ sum[n - 1] \in Nat /\ Size(lines[n]) \in Nat
          /\ sum[n] = sum[n - 1] + Size(lines[n])
      BY <1>1, <1>7, <2>2
    <3>2. sum[n] \in Nat
      BY ONLY <3>1
    <3>3. n \in 0..Len(lines)
      BY <1>1
    <3> QED BY ONLY <3>2, <3>3
  <2> HIDE DEF T
  <2> QED BY <1>1, <2>1, <2>2, CountUp
<1>9. sum \in [0..Len(lines) -> Nat]
  BY <1>5, <1>8
<1> QED BY <1>6, <1>7, <1>9

-----------------------------------------------------------------------------
(* The entries of lines                                                    *)

\* What parse_vault has kept after each line.
Keeps(kept, lines) ==
    /\ kept \in [0..Len(lines) -> Seq(Line)] /\ kept[0] = <<>>
    /\ \A n \in 1..Len(lines) :
         kept[n] = IF lines[n].name \in Comments THEN kept[n - 1]
                   ELSE Append(kept[n - 1], Read(lines[n]))

\* A line that is read is one, of the same name and word.
LEMMA ReadLine ==
    ASSUME NEW line \in Line
    PROVE  /\ Read(line) \in Line /\ Read(line).name = line.name
           /\ Read(line).password.word = line.password.word
<1>1. (IF line.password.crs = 0 THEN 0 ELSE line.password.crs - 1) \in Nat
  BY DEF Line, Password
<1> QED BY <1>1 DEF Read, Line, Password

\* Entries takes the lines one by one.
LEMMA EntriesKept ==
    ASSUME NEW file, file.lines \in Seq(Line)
    PROVE  \E kept : Keeps(kept, file.lines) /\ Entries(file) = kept[Len(file.lines)]
<1> DEFINE lines == file.lines
           l    == Len(lines)
           S    == Seq(Line)
           none == <<>>
           Kept(n, entries) == IF lines[n].name \in Comments THEN entries
                                ELSE Append(entries, Read(lines[n]))
           step == [p \in (1..l) \X S |-> Kept(p[1], p[2])]
           kept == CHOOSE kept : kept = [n \in 0..l |->
                     IF n = 0 THEN <<>>
                     ELSE IF lines[n].name \in Comments THEN kept[n - 1]
                     ELSE Append(kept[n - 1], Read(lines[n]))]
<1>1. l \in Nat /\ none \in S /\ \A n \in 1..l, entries \in S : Kept(n, entries) \in S
  <2>1. \A n \in 1..l : Read(lines[n]) \in Line
    BY ElementOfSeq, ReadLine
  <2> QED BY <2>1, LenProperties
<1>2. Entries(file) = kept[l]
  BY DEF Entries
<1> HIDE DEF lines, l, S, Kept
<1>3. /\ step \in [(1..l) \X S -> S]
      /\ \A n \in 1..l, entries \in S : step[<<n, entries>>] = Kept(n, entries)
  BY <1>1
<1>4. PICK f \in [0..l -> S] : f[0] = none /\ \A n \in 1..l : f[n] = Kept(n, f[n - 1])
  <2> HIDE DEF step, none
  <2>1. PICK f \in [0..l -> S] : Recursive(f, none, step, l)
    BY ONLY <1>1, <1>3, Recursion
  <2>2. \A n \in 1..l : n - 1 \in 0..l
    BY <1>1
  <2>3. \A n \in 1..l : f[n - 1] \in S
    BY <2>1, <2>2
  <2>4. f[0] = none /\ \A n \in 1..l : f[n] = step[<<n, f[n - 1]>>]
    BY <2>1 DEF Recursive
  <2> QED BY <1>3, <2>1, <2>3, <2>4
<1>5. f = [n \in 0..l |-> IF n = 0 THEN <<>>
                         ELSE IF lines[n].name \in Comments THEN f[n - 1]
                         ELSE Append(f[n - 1], Read(lines[n]))]
  <2>1. \A n \in 0..l : n # 0 => n \in 1..l
    BY <1>1
  <2>2. \A n \in 0..l :
          f[n] = IF n = 0 THEN <<>>
                 ELSE IF lines[n].name \in Comments THEN f[n - 1]
                 ELSE Append(f[n - 1], Read(lines[n]))
    BY <1>4, <2>1 DEF Kept
  <2> QED BY <1>4, <2>2
<1>6. kept = [n \in 0..l |-> IF n = 0 THEN <<>>
                            ELSE IF lines[n].name \in Comments THEN kept[n - 1]
                            ELSE Append(kept[n - 1], Read(lines[n]))]
  BY <1>5
<1> HIDE DEF kept
<1>7. /\ kept[0] = none
      /\ \A n \in 1..l : kept[n] = Kept(n, kept[n - 1])
  <2>1. 0 \in 0..l /\ \A n \in 1..l : n \in 0..l /\ n # 0
    BY <1>1
  <2> QED BY <1>6, <2>1 DEF Kept
<1> DEFINE T == {n \in 0..l : kept[n] \in S}
<1>8. 0..l \subseteq T
  <2>1. 0 \in T
    BY <1>1, <1>7
  <2>2. \A n \in 1..l : n - 1 \in T => n \in T
    BY <1>1, <1>7
  <2> HIDE DEF T
  <2> QED BY <1>1, <2>1, <2>2, CountUp
<1>9. kept \in [0..l -> S]
  BY <1>6, <1>8
<1>10. Keeps(kept, lines)
  BY <1>7, <1>9 DEF Keeps, Kept, l, S
<1> QED BY <1>2, <1>10 DEF lines, l

\* What is kept of lines: entries, each of them one of the lines, in which a name has one
\* line if it has one in the file.
LEMMA EntriesAreLines ==
    ASSUME NEW file, file.lines \in Seq(Line)
    PROVE  /\ Entries(file) \in Seq(Line) /\ Len(Entries(file)) <= Len(file.lines)
           /\ \A i \in DOMAIN Entries(file) : Entries(file)[i].name \notin Comments
           /\ OneLineEach(file.lines) => OneLineEach(Entries(file))
<1> DEFINE lines == file.lines
           l     == Len(lines)
<1>1. PICK kept : Keeps(kept, lines) /\ Entries(file) = kept[l]
  BY EntriesKept
<1>2. /\ l \in Nat /\ DOMAIN lines = 1..l
      /\ \A n \in 1..l : Read(lines[n]) \in Line /\ Read(lines[n]).name = lines[n].name
  BY LenProperties, ElementOfSeq, ReadLine
<1> DEFINE Good(n) == /\ Len(kept[n]) <= n
                      /\ \A i \in 1..Len(kept[n]) : /\ kept[n][i].name \notin Comments
                                                    /\ \E j \in 1..n : kept[n][i] = Read(lines[j])
                      /\ OneLineEach(lines) => OneLineEach(kept[n])
           T == {n \in 0..l : Good(n)}
<1> HIDE DEF lines, l
<1>3. 0 \in T
  <2>1. kept[0] = <<>>
    BY <1>1 DEF Keeps
  <2> QED BY <1>2, <2>1 DEF OneLineEach
<1>4. ASSUME NEW n \in 1..l, n - 1 \in T
      PROVE  n \in T
  <2>1. /\ kept[n - 1] \in Seq(Line) /\ Good(n - 1) /\ n \in 0..l /\ Read(lines[n]) \in Line
        /\ kept[n] = IF lines[n].name \in Comments THEN kept[n - 1] ELSE Append(kept[n - 1], Read(lines[n]))
    <3>1. /\ kept \in [0..l -> Seq(Line)]
          /\ kept[n] = IF lines[n].name \in Comments THEN kept[n - 1] ELSE Append(kept[n - 1], Read(lines[n]))
      BY <1>1 DEF Keeps, l
    <3>2. Good(n - 1)
      <4> HIDE DEF Good
      <4> QED BY <1>4
    <3>3. n \in 0..l /\ n - 1 \in 0..l
      BY <1>2
    <3>4. kept[n - 1] \in Seq(Line)
      BY ONLY <3>1, <3>3
    <3>5. Read(lines[n]) \in Line
      BY ONLY <1>2, n \in 1..l
    <3> QED BY ONLY <3>1, <3>2, <3>3, <3>4, <3>5
  <2>2. CASE lines[n].name \in Comments
    <3>1. kept[n] = kept[n - 1]
      BY <2>1, <2>2
    <3>2. Len(kept[n]) <= n
      BY <1>2, <2>1, <3>1, LenProperties
    <3>3. \A j \in 1..(n - 1) : j \in 1..n
      BY <1>2
    <3> QED BY <2>1, <3>1, <3>2, <3>3
  <2>3. CASE lines[n].name \notin Comments
    <3> DEFINE m == Len(kept[n - 1])
    <3>1. /\ m \in Nat /\ m <= n - 1 /\ n \in Nat /\ DOMAIN kept[n - 1] = 1..m
          /\ Len(kept[n]) = m + 1 /\ DOMAIN kept[n] = 1..(m + 1) /\ kept[n][m + 1] = Read(lines[n])
          /\ \A i \in 1..m : kept[n][i] = kept[n - 1][i]
      BY <1>2, <2>1, <2>3
    <3> HIDE DEF m
    <3>2. Len(kept[n]) <= n
      BY <3>1
    <3>3. ASSUME NEW i \in 1..Len(kept[n])
          PROVE  kept[n][i].name \notin Comments /\ \E j \in 1..n : kept[n][i] = Read(lines[j])
      <4>1. CASE i = m + 1
        BY <1>2, <2>3, <3>1, <4>1
      <4>2. CASE i \in 1..m
        BY <2>1, <3>1, <4>2 DEF m
      <4> QED BY <3>1, <4>1, <4>2
    <3>4. ASSUME OneLineEach(lines)
          PROVE  OneLineEach(kept[n])
      <4>1. \A i \in 1..m : kept[n - 1][i].name # lines[n].name
        <5> SUFFICES ASSUME NEW i \in 1..m, kept[n - 1][i].name = lines[n].name
                     PROVE  FALSE
          OBVIOUS
        <5>1. PICK j \in 1..(n - 1) : kept[n - 1][i] = Read(lines[j])
          BY <2>1 DEF m
        <5>2. j \in DOMAIN lines /\ n \in DOMAIN lines /\ j # n
          BY <1>2, <3>1
        <5>3. lines[j].name = lines[n].name
          BY <1>2, <5>1, <5>2
        <5> QED BY <3>4, <5>2, <5>3 DEF OneLineEach
      <4>2. OneLineEach(kept[n - 1])
        BY <2>1, <3>4
      <4>3. ASSUME NEW i \in 1..(m + 1), NEW j \in 1..(m + 1),
                   kept[n][i].name = kept[n][j].name
            PROVE  i = j
        <5>1. CASE i \in 1..m /\ j \in 1..m
          BY <3>1, <4>2, <4>3, <5>1 DEF OneLineEach
        <5>2. CASE i = m + 1 /\ j \in 1..m
          <6>1. kept[n][j].name # lines[n].name /\ kept[n][i].name = lines[n].name
            BY ONLY <1>2, <3>1, <4>1, <5>2, n \in 1..l
          <6> QED BY ONLY <4>3, <6>1
        <5>3. CASE i \in 1..m /\ j = m + 1
          <6>1. kept[n][i].name # lines[n].name /\ kept[n][j].name = lines[n].name
            BY ONLY <1>2, <3>1, <4>1, <5>3, n \in 1..l
          <6> QED BY ONLY <4>3, <6>1
        <5>4. (i \in 1..m \/ i = m + 1) /\ (j \in 1..m \/ j = m + 1)
          BY ONLY <3>1, i \in 1..(m + 1), j \in 1..(m + 1)
        <5> QED BY <5>1, <5>2, <5>3, <5>4
      <4> QED BY <3>1, <4>3 DEF OneLineEach
    <3> QED BY <2>1, <3>2, <3>3, <3>4
  <2> QED BY <2>2, <2>3
<1>5. l \in T
  <2>1. 0..l \subseteq T
    <3> HIDE DEF T
    <3> QED BY <1>2, <1>3, <1>4, CountUp
  <2> QED BY <1>2, <2>1
<1>6. Entries(file) \in Seq(Line)
  BY <1>1, <1>2 DEF Keeps, l
<1> QED BY <1>1, <1>5, <1>6 DEF lines, l

\* As long as no line is a comment, what is kept is the lines themselves, read.
LEMMA KeptBeginning ==
    ASSUME NEW lines \in Seq(Line), NEW kept, Keeps(kept, lines), NEW last \in 0..Len(lines),
           \A i \in 1..last : lines[i].name \notin Comments
    PROVE  Len(kept[last]) = last /\ \A i \in 1..last : kept[last][i] = Read(lines[i])
<1> DEFINE l == Len(lines)
           Same(n) == Len(kept[n]) = n /\ \A i \in 1..n : kept[n][i] = Read(lines[i])
           T == {n \in 0..last : Same(n)}
<1>1. l \in Nat /\ last \in Nat /\ last <= l /\ \A n \in 1..l : Read(lines[n]) \in Line
  BY LenProperties, ElementOfSeq, ReadLine
<1>2. 0 \in T
  <2>1. kept[0] = <<>>
    BY DEF Keeps
  <2> QED BY <1>1, <2>1
<1>3. ASSUME NEW n \in 1..last, n - 1 \in T
      PROVE  n \in T
  <2>1. /\ n \in 1..l /\ n - 1 \in 0..l /\ n \in 0..last /\ n \in Nat
        /\ Same(n - 1) /\ Read(lines[n]) \in Line
    BY <1>1, <1>3
  <2>2. kept[n - 1] \in Seq(Line) /\ kept[n] = Append(kept[n - 1], Read(lines[n]))
    BY <1>1, <2>1 DEF Keeps
  <2>3. /\ Len(kept[n]) = n /\ kept[n][n] = Read(lines[n])
        /\ \A i \in 1..(n - 1) : kept[n][i] = kept[n - 1][i]
    BY <2>1, <2>2
  <2>4. \A i \in 1..n : i = n \/ i \in 1..(n - 1)
    BY <2>1
  <2> QED BY <2>1, <2>3, <2>4
<1>4. last \in T
  <2>1. 0..last \subseteq T
    <3> HIDE DEF T
    <3> QED BY <1>1, <1>2, <1>3, CountUp
  <2> QED BY <1>1, <2>1
<1> QED BY <1>4

\* Entries that differ in carriage returns at most.
SameWords(entries, others) ==
    /\ Len(entries) = Len(others)
    /\ \A i \in 1..Len(entries) : /\ entries[i].name = others[i].name
                                  /\ entries[i].password.word = others[i].password.word

\* Lines without comments are the entries.
LEMMA EntriesOfEntries ==
    ASSUME NEW file, file.lines \in Seq(Line),
           \A i \in DOMAIN file.lines : file.lines[i].name \notin Comments
    PROVE  SameWords(Entries(file), file.lines)
<1> DEFINE lines == file.lines
           l     == Len(lines)
<1>1. PICK kept : Keeps(kept, lines) /\ Entries(file) = kept[l]
  BY EntriesKept
<1>2. /\ l \in Nat /\ l \in 0..l
      /\ \A i \in 1..l : lines[i].name \notin Comments /\ lines[i] \in Line
  BY LenProperties, ElementOfSeq
<1>3. Len(kept[l]) = l /\ \A i \in 1..l : kept[l][i] = Read(lines[i])
  <2>1. lines \in Seq(Line)
    OBVIOUS
  <2> HIDE DEF lines
  <2> QED BY <1>1, <1>2, <2>1, KeptBeginning
<1> QED BY <1>1, <1>2, <1>3, ReadLine DEF SameWords

\* A line after the entries is one more of them, or it is a comment and not read.
LEMMA EntriesOfMore ==
    ASSUME NEW file, NEW entries \in Seq(Line), NEW line \in Line,
           file.lines = Append(entries, line),
           \A i \in DOMAIN entries : entries[i].name \notin Comments
    PROVE  SameWords(Entries(file), IF line.name \in Comments THEN entries ELSE Append(entries, line))
<1> DEFINE lines == file.lines
           l     == Len(entries)
<1>1. /\ lines \in Seq(Line) /\ l \in Nat /\ Len(lines) = l + 1 /\ lines[l + 1] = line
      /\ \A i \in 1..l : lines[i] = entries[i] /\ entries[i].name \notin Comments
  OBVIOUS
<1>2. PICK kept : Keeps(kept, lines) /\ Entries(file) = kept[l + 1]
  BY <1>1, EntriesKept
<1>3. CASE line.name \notin Comments
  <2>1. \A i \in 1..(l + 1) : i = l + 1 \/ i \in 1..l
    BY <1>1
  <2>2. \A i \in DOMAIN lines : lines[i].name \notin Comments
    <3>1. DOMAIN lines = 1..(l + 1)
      BY <1>1, LenProperties
    <3> QED BY <1>1, <1>3, <2>1, <3>1
  <2>3. SameWords(Entries(file), lines)
    BY <1>1, <2>2, EntriesOfEntries
  <2> QED BY <1>3, <2>3
<1>4. CASE line.name \in Comments
  <2>1. \A i \in 1..l : entries[i] \in Line
    BY ElementOfSeq
  <2> HIDE DEF lines, l
  <2>2. l \in 0..Len(lines) /\ l + 1 \in 1..Len(lines) /\ (l + 1) - 1 = l
    BY <1>1
  <2>3. Len(kept[l]) = l /\ \A i \in 1..l : kept[l][i] = Read(lines[i])
    <3>1. Keeps(kept, lines) /\ lines \in Seq(Line) /\ \A i \in 1..l : lines[i].name \notin Comments
      BY <1>1, <1>2
    <3> QED BY ONLY <2>2, <3>1, KeptBeginning
  <2>4. kept[l + 1] = kept[l]
    BY <1>1, <1>2, <1>4, <2>2 DEF Keeps
  <2>5. \A i \in 1..l : /\ kept[l][i].name = entries[i].name
                        /\ kept[l][i].password.word = entries[i].password.word
    BY <1>1, <2>1, <2>3, ReadLine
  <2> QED BY <1>2, <1>4, <2>3, <2>4, <2>5 DEF SameWords, l
<1> QED BY <1>3, <1>4

-----------------------------------------------------------------------------
(* What is printed                                                         *)

\* The length of lines is a number.
LEMMA LengthIsNat == ASSUME VaultBounds, NEW lines \in Seq(Line) PROVE Length(lines) \in Nat
<1>1. PICK sum \in [0..Len(lines) -> Nat] : Length(lines) = sum[Len(lines)]
  BY LengthSums
<1>2. Len(lines) \in 0..Len(lines)
  BY LenProperties
<1> QED BY <1>1, <1>2

\* A printed file is lines, none of them twice, and all that were meant unless it is as
\* long as the runner's limit.
LEMMA PrintedLines ==
    ASSUME VaultBounds, NEW entries \in Seq(Line), OneLineEach(entries), Prints(entries)
    PROVE  /\ stage' = "printed" /\ vault' = vault
           /\ output'.lines \in Seq(Line) /\ OneLineEach(output'.lines) /\ output'.bytes \in Nat
           /\ output'.bytes < MAX_FILE_BYTES => output'.lines = entries
<1>1. PICK n \in 0..Len(entries) :
        IF n = Len(entries) THEN output' = File(entries)
        ELSE output' = [lines |-> SubSeq(entries, 1, n), bytes |-> outputCap]
  BY DEF Prints
<1>2. stage' = "printed" /\ vault' = vault
  BY DEF Prints
<1>3. CASE n = Len(entries)
  <2>1. output'.lines = entries /\ output'.bytes = Length(entries)
    BY <1>1, <1>3 DEF File
  <2> QED BY <1>2, <2>1, LengthIsNat
<1>4. CASE n # Len(entries)
  <2> DEFINE l == Len(entries)
             s == SubSeq(entries, 1, n)
  <2>1. l \in Nat /\ n \in Nat /\ n <= l /\ DOMAIN entries = 1..l /\ \A i \in 1..l : entries[i] \in Line
    BY LenProperties, ElementOfSeq
  <2>2. s \in Seq(Line) /\ Len(s) = n /\ \A i \in 1..n : s[i] = entries[i]
    <3>1. 1 \in Int /\ n \in Int /\ \A i \in 1..n : entries[i] \in Line
      BY <2>1
    <3>2. /\ s \in Seq(Line) /\ Len(s) = (IF 1 <= n THEN n - 1 + 1 ELSE 0)
          /\ \A i \in 1..(n - 1 + 1) : s[i] = entries[1 + i - 1]
      BY <3>1, SubSeqProperties
    <3> HIDE DEF s
    <3> QED BY <2>1, <3>2
  <2>3. output'.lines = s /\ output'.bytes = outputCap
    BY <1>1, <1>4
  <2> HIDE DEF s
  <2>4. OneLineEach(s)
    <3>1. DOMAIN s = 1..n /\ \A i \in 1..n : i \in 1..l
      BY <2>1, <2>2, LenProperties
    <3> QED BY <2>1, <2>2, <3>1 DEF OneLineEach
  <2>5. outputCap \in Nat /\ ~(outputCap < MAX_FILE_BYTES)
    BY DEF VaultBounds
  <2> QED BY <1>2, <2>2, <2>3, <2>4, <2>5
<1> QED BY <1>3, <1>4

\* Without leaves one entry out and the others in their order.
LEMMA WithoutOne ==
    ASSUME NEW entries \in Seq(Line), NEW i \in 1..Len(entries)
    PROVE  /\ Without(entries, i) \in Seq(Line) /\ Len(Without(entries, i)) = Len(entries) - 1
           /\ \A j \in 1..(Len(entries) - 1) :
                Without(entries, i)[j] = IF j < i THEN entries[j] ELSE entries[j + 1]
<1> DEFINE l      == Len(entries)
           before == SubSeq(entries, 1, i - 1)
           after  == SubSeq(entries, i + 1, l)
<1>1. l \in Nat /\ i \in Nat /\ i >= 1 /\ i <= l /\ \A j \in 1..l : entries[j] \in Line
  BY LenProperties, ElementOfSeq
<1>2. /\ before \in Seq(Line) /\ Len(before) = i - 1
      /\ \A j \in 1..(i - 1) : before[j] = entries[j]
  <2>1. 1 \in Int /\ i - 1 \in Int /\ \A j \in 1..(i - 1) : entries[j] \in Line
    BY <1>1
  <2>2. /\ before \in Seq(Line) /\ Len(before) = (IF 1 <= i - 1 THEN (i - 1) - 1 + 1 ELSE 0)
        /\ \A j \in 1..((i - 1) - 1 + 1) : before[j] = entries[1 + j - 1]
    BY <2>1, SubSeqProperties
  <2> HIDE DEF before
  <2> QED BY <1>1, <2>2
<1>3. /\ after \in Seq(Line) /\ Len(after) = l - i
      /\ \A j \in 1..(l - i) : after[j] = entries[i + j]
  <2>1. i + 1 \in Int /\ l \in Int /\ \A j \in (i + 1)..l : entries[j] \in Line
    BY <1>1
  <2>2. /\ after \in Seq(Line) /\ Len(after) = (IF i + 1 <= l THEN l - (i + 1) + 1 ELSE 0)
        /\ \A j \in 1..(l - (i + 1) + 1) : after[j] = entries[(i + 1) + j - 1]
    BY <2>1, SubSeqProperties
  <2> HIDE DEF after
  <2> QED BY <1>1, <2>2
<1> HIDE DEF before, after
<1>4. /\ before \o after \in Seq(Line) /\ Len(before \o after) = Len(before) + Len(after)
      /\ \A j \in 1..(Len(before) + Len(after)) :
           (before \o after)[j] = IF j <= Len(before) THEN before[j] ELSE after[j - Len(before)]
  BY <1>2, <1>3, ConcatProperties
<1>5. Len(before \o after) = l - 1
  BY <1>1, <1>2, <1>3, <1>4
<1>6. \A j \in 1..(l - 1) : (before \o after)[j] = IF j < i THEN entries[j] ELSE entries[j + 1]
  <2> SUFFICES ASSUME NEW j \in 1..(l - 1)
               PROVE  (before \o after)[j] = IF j < i THEN entries[j] ELSE entries[j + 1]
    OBVIOUS
  <2>1. (before \o after)[j] = IF j <= i - 1 THEN before[j] ELSE after[j - (i - 1)]
    BY <1>1, <1>2, <1>3, <1>4
  <2>2. CASE j < i
    BY <1>1, <1>2, <2>1, <2>2
  <2>3. CASE j >= i
    <3>1. j - (i - 1) \in 1..(l - i) /\ i + (j - (i - 1)) = j + 1 /\ ~(j <= i - 1) /\ ~(j < i)
      BY <1>1, <2>3
    <3> QED BY <1>3, <2>1, <3>1
  <2>4. j < i \/ j >= i
    BY <1>1
  <2> QED BY ONLY <2>2, <2>3, <2>4
<1>7. Without(entries, i) = before \o after
  BY DEF Without, before, after
<1> QED BY <1>4, <1>5, <1>6, <1>7

-----------------------------------------------------------------------------
(* The invariant                                                           *)

\* What add can have left of the entries of the vault, and del.
Added(entries) ==
    \/ SameWords(entries, Entries(vault))
    \/ \E line \in Line : /\ Found(Entries(vault), line.name) = {}
                          /\ SameWords(entries, Append(Entries(vault), line))

Removed(entries) == \E i \in 1..Len(Entries(vault)) : SameWords(entries, Without(Entries(vault), i))

\* What is printed from a vault that can be read, unless it is too long: no more entries
\* than can be read, and those of the vault but for one that is new or missing.
PrintedInv ==
    stage = "printed" =>
        /\ Readable(vault)
        /\ output.bytes < MAX_FILE_BYTES =>
             /\ Len(Entries(output)) <= MAX_ENTRIES
             /\ Added(Entries(output)) \/ Removed(Entries(output))

VaultInv == TypeOK /\ PrintedInv

\* The entries of the vault that the client uses.
LEMMA VaultEntries ==
    ASSUME TypeOK
    PROVE  /\ Entries(vault) \in Seq(Line) /\ OneLineEach(Entries(vault))
           /\ DOMAIN Entries(vault) = 1..Len(Entries(vault)) /\ Len(Entries(vault)) \in Nat
           /\ \A i \in DOMAIN Entries(vault) : Entries(vault)[i].name \notin Comments
<1>1. vault.lines \in Seq(Line) /\ OneLineEach(vault.lines)
  BY DEF TypeOK
<1>2. Entries(vault) \in Seq(Line)
  BY <1>1, EntriesAreLines
<1> QED BY <1>1, <1>2, EntriesAreLines, LenProperties

\* Nothing is printed at first.
LEMMA VaultInit == VaultBounds /\ Init => VaultInv
<1> SUFFICES ASSUME VaultBounds, Init PROVE VaultInv
  OBVIOUS
<1>1. First \in Seq(Line) /\ OneLineEach(First) /\ <<>> \in Seq(Line) /\ OneLineEach(<<>>)
  BY DEF VaultBounds, OneLineEach
<1>2. Length(First) \in Nat /\ Length(<<>>) \in Nat
  BY <1>1, LengthIsNat
<1>3. TypeOK
  BY <1>1, <1>2 DEF Init, File, TypeOK
<1> QED BY <1>3 DEF VaultInv, PrintedInv, Init

\* add: a line that no entry has the name of, after the entries.
LEMMA AddStep ==
    ASSUME VaultBounds, VaultInv, NEW name \in Names, NEW password \in Passwords, Add(name, password)
    PROVE  VaultInv'
<1> DEFINE entries == Entries(vault)
           line    == [name |-> name, password |-> password]
           printed == Append(entries, line)
<1>1. /\ entries \in Seq(Line) /\ OneLineEach(entries) /\ DOMAIN entries = 1..Len(entries)
      /\ Len(entries) \in Nat /\ \A i \in DOMAIN entries : entries[i].name \notin Comments
  BY VaultEntries DEF VaultInv
<1>2. line \in Line /\ line.name = name
  BY DEF Line, VaultBounds
<1>3. /\ Found(entries, name) = {} /\ Len(entries) <= MAX_ENTRIES /\ Len(entries) # MAX_ENTRIES
      /\ Readable(vault) /\ stage' = "printed" /\ Prints(printed)
  BY DEF Add, Free, Full, Prints, Readable
<1>4. printed \in Seq(Line) /\ Len(printed) = Len(entries) + 1 /\ Len(printed) <= MAX_ENTRIES
  BY <1>1, <1>2, <1>3 DEF VaultBounds
<1>5. OneLineEach(printed)
  <2> DEFINE l == Len(entries)
  <2>1. /\ l \in Nat /\ DOMAIN printed = 1..(l + 1) /\ printed[l + 1] = line
        /\ \A i \in 1..l : printed[i] = entries[i]
    BY <1>1, <1>2
  <2>2. \A i \in 1..l : entries[i].name # line.name
    BY <1>1, <1>2, <1>3 DEF Found
  <2> HIDE DEF line, entries, printed, l
  <2>3. ASSUME NEW i \in 1..(l + 1), NEW j \in 1..(l + 1), printed[i].name = printed[j].name
        PROVE  i = j
    <3>1. CASE i \in 1..l /\ j \in 1..l
      BY <1>1, <2>1, <2>3, <3>1 DEF OneLineEach, l
    <3>2. CASE i = l + 1 \/ j = l + 1
      BY <2>1, <2>2, <2>3, <3>2
    <3> QED BY <2>1, <3>1, <3>2
  <2> QED BY <2>1, <2>3 DEF OneLineEach
<1>6. /\ vault' = vault /\ output'.lines \in Seq(Line) /\ OneLineEach(output'.lines)
      /\ output'.bytes \in Nat /\ (output'.bytes < MAX_FILE_BYTES => output'.lines = printed)
  <2> HIDE DEF printed
  <2> QED BY <1>3, <1>4, <1>5, PrintedLines
<1>7. TypeOK'
  BY <1>3, <1>6 DEF VaultInv, TypeOK
<1>8. ASSUME output'.bytes < MAX_FILE_BYTES
      PROVE  Len(Entries(output')) <= MAX_ENTRIES /\ Added(Entries(output'))
  <2>1. output'.lines = printed
    BY <1>6, <1>8
  <2> HIDE DEF entries, line
  <2>2. SameWords(Entries(output'), IF line.name \in Comments THEN entries ELSE printed)
    BY <1>1, <1>2, <2>1, EntriesOfMore
  <2>3. Len(Entries(output')) <= MAX_ENTRIES
    BY <1>3, <1>4, <2>2 DEF SameWords
  <2>4. Added(Entries(output'))
    BY <1>2, <1>3, <2>2 DEF Added, entries
  <2> QED BY <2>3, <2>4
<1>9. PrintedInv'
  <2>1. /\ Entries(output)' = Entries(output') /\ Entries(vault)' = Entries(vault)
        /\ Readable(vault)' = Readable(vault)
    BY <1>6 DEF Entries, Readable
  <2>2. Added(Entries(output))' = Added(Entries(output'))
    BY <2>1 DEF Added, SameWords, Found
  <2> HIDE DEF entries, line
  <2> QED BY <1>3, <1>8, <2>1, <2>2 DEF PrintedInv
<1> QED BY <1>7, <1>9 DEF VaultInv

\* del: all entries but the first one of the name.
LEMMA DelStep == ASSUME VaultBounds, VaultInv, NEW name \in Names, Del(name) PROVE VaultInv'
<1> DEFINE entries == Entries(vault)
           l       == Len(entries)
<1>1. /\ entries \in Seq(Line) /\ OneLineEach(entries) /\ DOMAIN entries = 1..l
      /\ l \in Nat /\ \A i \in DOMAIN entries : entries[i].name \notin Comments
  BY VaultEntries DEF VaultInv
<1>2. PICK i \in 1..l : Prints(Without(entries, i))
  BY <1>1 DEF Del, Found
<1>3. Readable(vault) /\ l <= MAX_ENTRIES
  <2>1. Readable(vault)
    BY DEF Del
  <2> QED BY <2>1 DEF Readable
<1> DEFINE printed == Without(entries, i)
<1>4. /\ printed \in Seq(Line) /\ Len(printed) = l - 1
      /\ \A j \in 1..(l - 1) : printed[j] = IF j < i THEN entries[j] ELSE entries[j + 1]
  <2>1. entries \in Seq(Line) /\ i \in 1..Len(entries)
    BY <1>1
  <2> HIDE DEF entries
  <2> QED BY ONLY <2>1, WithoutOne
<1> HIDE DEF printed, entries
<1>5. DOMAIN printed = 1..(l - 1)
  BY <1>4, LenProperties
<1>6. OneLineEach(printed)
  <2>1. ASSUME NEW j \in 1..(l - 1), NEW k \in 1..(l - 1), printed[j].name = printed[k].name
        PROVE  j = k
    <3> DEFINE From(n) == IF n < i THEN n ELSE n + 1
    <3>1. \A n \in 1..(l - 1) : From(n) \in 1..l /\ printed[n] = entries[From(n)]
      BY <1>1, <1>2, <1>4
    <3> HIDE DEF From
    <3>2. entries[From(j)].name = entries[From(k)].name /\ From(j) \in 1..l /\ From(k) \in 1..l
      BY <2>1, <3>1
    <3>3. From(j) = From(k)
      BY <1>1, <3>2 DEF OneLineEach
    <3> QED BY <1>1, <1>2, <3>3 DEF From
  <2> QED BY <1>5, <2>1 DEF OneLineEach
<1>7. /\ stage' = "printed" /\ vault' = vault
      /\ output'.lines \in Seq(Line) /\ OneLineEach(output'.lines)
      /\ output'.bytes \in Nat /\ (output'.bytes < MAX_FILE_BYTES => output'.lines = printed)
  BY <1>2, <1>4, <1>6, PrintedLines DEF printed
<1>8. TypeOK'
  BY <1>7 DEF VaultInv, TypeOK
<1>9. ASSUME output'.bytes < MAX_FILE_BYTES
      PROVE  Len(Entries(output')) <= MAX_ENTRIES /\ Removed(Entries(output'))
  <2>1. \A j \in DOMAIN printed : printed[j].name \notin Comments
    <3>1. \A j \in 1..(l - 1) : j \in 1..l /\ j + 1 \in 1..l
      BY <1>1
    <3> QED BY <1>1, <1>4, <1>5, <3>1
  <2>2. SameWords(Entries(output'), printed)
    BY <1>4, <1>7, <1>9, <2>1, EntriesOfEntries
  <2>3. Len(Entries(output')) <= MAX_ENTRIES
    BY <1>1, <1>3, <1>4, <2>2 DEF VaultBounds, SameWords
  <2>4. Removed(Entries(output'))
    BY <1>2, <2>2 DEF Removed, printed, entries
  <2> QED BY <2>3, <2>4
<1>10. PrintedInv'
  <2>1. /\ Entries(output)' = Entries(output') /\ Entries(vault)' = Entries(vault)
        /\ Readable(vault)' = Readable(vault)
    BY <1>7 DEF Entries, Readable
  <2>2. Removed(Entries(output))' = Removed(Entries(output'))
    BY <2>1 DEF Removed, SameWords, Without
  <2> QED BY <1>3, <1>9, <2>1, <2>2 DEF PrintedInv
<1> QED BY <1>8, <1>10 DEF VaultInv

\* Every step keeps the invariant.
LEMMA VaultStep == VaultBounds /\ VaultInv /\ [Next]_vars => VaultInv'
<1> SUFFICES ASSUME VaultBounds, VaultInv, [Next]_vars PROVE VaultInv'
  OBVIOUS
<1>1. CASE \E name \in Names : Del(name) \/ \E password \in Passwords : Add(name, password)
  BY <1>1, AddStep, DelStep
<1>2. CASE Register \/ StartOver \/ DeleteOld
  <2>1. stage' # "printed" /\ stage' \in {"idle", "registered"}
    BY <1>2 DEF Register, StartOver, DeleteOld
  <2>2. vault' \in {vault, output} /\ output' = output
    BY <1>2 DEF Register, StartOver, DeleteOld
  <2> QED BY <2>1, <2>2 DEF VaultInv, TypeOK, PrintedInv
<1>3. CASE UNCHANGED vars
  <2>1. vault' = vault /\ output' = output /\ stage' = stage
    BY <1>3 DEF vars
  <2>2. /\ Entries(vault)' = Entries(vault) /\ Entries(output)' = Entries(output)
        /\ Readable(vault)' = Readable(vault)
    BY <2>1 DEF Entries, Readable
  <2>3. TypeOK'
    BY <2>1 DEF VaultInv, TypeOK
  <2>4. PrintedInv'
    <3>1. PrintedInv
      BY DEF VaultInv
    <3>2. /\ Added(Entries(output))' = Added(Entries(output))
          /\ Removed(Entries(output))' = Removed(Entries(output))
      BY <2>2 DEF Added, Removed, SameWords, Found, Without
    <3> QED BY <2>1, <2>2, <3>1, <3>2 DEF PrintedInv
  <2> QED BY <2>3, <2>4 DEF VaultInv
<1> QED BY <1>1, <1>2, <1>3 DEF Next

\* So it always holds.
LEMMA VaultInvariant == VaultBounds => (Spec => []VaultInv)
<1> SUFFICES ASSUME VaultBounds PROVE Spec => []VaultInv
  OBVIOUS
<1>1. Init => VaultInv
  BY VaultInit
<1>2. VaultInv /\ [Next]_vars => VaultInv'
  BY VaultStep
<1> QED BY <1>1, <1>2, PTL DEF Spec

\* In every vault that add and del print a name has one line, so that get answers with
\* what del would remove, and the lines are ones that were given to add.
THEOREM VaultTypes == VaultBounds => (Spec => []TypeOK)
<1>1. VaultInv => TypeOK
  BY DEF VaultInv
<1> QED BY <1>1, VaultInvariant, PTL

-----------------------------------------------------------------------------
(* How a vault is lost                                                     *)

\* An update that loses a vault that could be read has made it too long, or it holds a
\* password of carriage returns alone, that parse_vault finds missing: the number of
\* entries never loses it, whatever limits, comments and passwords there are.
THEOREM KnownLosses == VaultBounds => (Spec => LossesAreKnown)
<1> SUFFICES ASSUME VaultBounds PROVE Spec => LossesAreKnown
  OBVIOUS
<1> DEFINE Known == \/ vault'.bytes >= MAX_FILE_BYTES
                    \/ \E i \in DOMAIN vault'.lines : vault'.lines[i].password.word = NoWord
           Loses == vault' # vault /\ Readable(vault) /\ ~Readable(vault)'
<1>1. ASSUME VaultInv, VaultInv', [Next]_vars, Loses
      PROVE  Known
  <2>1. vault' = output /\ stage = "printed"
    BY <1>1 DEF Next, Add, Del, Prints, Register, StartOver, DeleteOld, vars
  <2>2. vault'.bytes \in Nat /\ MAX_FILE_BYTES \in Nat
    BY <1>1 DEF VaultInv, TypeOK, VaultBounds
  <2>3. CASE vault'.bytes < MAX_FILE_BYTES
    <3>1. Len(Entries(output)) <= MAX_ENTRIES
      BY <1>1, <2>1, <2>3 DEF VaultInv, PrintedInv
    <3>2. Entries(vault)' = Entries(output)
      BY <2>1 DEF Entries
    <3>3. PICK i \in DOMAIN vault'.lines : Bare(vault'.lines[i])
      BY <1>1, <2>3, <3>1, <3>2 DEF Readable
    <3> QED BY <3>3 DEF Bare, Empty, Read
  <2> QED BY <2>2, <2>3
<1> QED BY <1>1, VaultInvariant, PTL DEF Spec, LossesAreKnown

-----------------------------------------------------------------------------
(* The vault is a book of passwords                                        *)

\* A book has the names of the entries, and what get answers for each.
LEMMA BookOfEntries ==
    ASSUME NEW entries \in Seq(Line), OneLineEach(entries)
    PROVE  /\ DOMAIN BookOf(entries) = {entries[i].name : i \in 1..Len(entries)}
           /\ BookOf(entries) = [name \in DOMAIN BookOf(entries) |-> BookOf(entries)[name]]
           /\ \A i \in 1..Len(entries) : BookOf(entries)[entries[i].name] = entries[i].password.word
<1>1. DOMAIN entries = 1..Len(entries) /\ Len(entries) \in Nat
  BY LenProperties
<1> DEFINE At(name) == CHOOSE i \in Found(entries, name) : \A j \in Found(entries, name) : i <= j
<1>2. ASSUME NEW i \in 1..Len(entries)
      PROVE  At(entries[i].name) = i
  <2>1. Found(entries, entries[i].name) = {i}
    BY <1>1 DEF Found, OneLineEach
  <2>2. i <= i
    BY <1>1
  <2> QED BY <2>1, <2>2
<1>3. BookOf(entries) =
        [name \in {entries[i].name : i \in 1..Len(entries)} |-> entries[At(name)].password.word]
  BY <1>1 DEF BookOf
<1> HIDE DEF At
<1> QED BY <1>2, <1>3

\* A line more is an addition to the book.
LEMMA BookAdds ==
    ASSUME NEW entries \in Seq(Line), NEW line \in Line, OneLineEach(entries),
           OneLineEach(Append(entries, line))
    PROVE  Found(entries, line.name) = {} =>
             /\ line.name \notin DOMAIN BookOf(entries)
             /\ BookOf(Append(entries, line)) =
                  [n \in DOMAIN BookOf(entries) \cup {line.name} |->
                     IF n = line.name THEN line.password.word ELSE BookOf(entries)[n]]
<1> SUFFICES ASSUME Found(entries, line.name) = {}
             PROVE  /\ line.name \notin DOMAIN BookOf(entries)
                    /\ BookOf(Append(entries, line)) =
                         [n \in DOMAIN BookOf(entries) \cup {line.name} |->
                            IF n = line.name THEN line.password.word ELSE BookOf(entries)[n]]
  OBVIOUS
<1> DEFINE l     == Len(entries)
           more  == Append(entries, line)
           book0 == BookOf(entries)
           book1 == BookOf(more)
<1>1. /\ l \in Nat /\ DOMAIN entries = 1..l /\ more \in Seq(Line) /\ Len(more) = l + 1
      /\ more[l + 1] = line /\ \A i \in 1..l : more[i] = entries[i]
  OBVIOUS
<1>2. \A i \in 1..l : entries[i].name # line.name
  BY <1>1 DEF Found
<1>3. /\ DOMAIN book0 = {entries[i].name : i \in 1..l}
      /\ \A i \in 1..l : book0[entries[i].name] = entries[i].password.word
  BY BookOfEntries
<1>4. /\ DOMAIN book1 = {more[i].name : i \in 1..(l + 1)}
      /\ book1 = [name \in DOMAIN book1 |-> book1[name]]
      /\ \A i \in 1..(l + 1) : book1[more[i].name] = more[i].password.word
  BY <1>1, BookOfEntries
<1> HIDE DEF more, book0, book1, l
<1>5. \A i \in 1..(l + 1) : i = l + 1 \/ i \in 1..l
  BY <1>1
<1>6. l + 1 \in 1..(l + 1) /\ \A i \in 1..l : i \in 1..(l + 1)
  BY <1>1
<1>7. DOMAIN book1 = DOMAIN book0 \cup {line.name} /\ line.name \notin DOMAIN book0
  BY <1>1, <1>2, <1>3, <1>4, <1>5, <1>6
<1>8. book1[line.name] = line.password.word
  BY <1>1, <1>4, <1>6
<1>9. ASSUME NEW n \in DOMAIN book0
      PROVE  book1[n] = book0[n] /\ n # line.name
  <2>1. PICK i \in 1..l : n = entries[i].name
    BY <1>3
  <2>2. n = more[i].name /\ more[i].password.word = entries[i].password.word /\ i \in 1..(l + 1)
    BY <1>1, <1>6, <2>1
  <2>3. book1[n] = entries[i].password.word
    BY <1>4, <2>2
  <2> QED BY <1>2, <1>3, <2>1, <2>3
<1>10. book1 = [n \in DOMAIN book0 \cup {line.name} |->
                  IF n = line.name THEN line.password.word ELSE book0[n]]
  BY <1>4, <1>7, <1>8, <1>9
<1> QED BY <1>7, <1>10 DEF book0, book1, more

\* An entry less is a removal from the book.
LEMMA BookRemoves ==
    ASSUME NEW entries \in Seq(Line), NEW i \in 1..Len(entries), OneLineEach(entries),
           OneLineEach(Without(entries, i))
    PROVE  /\ entries[i].name \in DOMAIN BookOf(entries)
           /\ BookOf(Without(entries, i)) =
                [n \in DOMAIN BookOf(entries) \ {entries[i].name} |-> BookOf(entries)[n]]
<1> DEFINE l     == Len(entries)
           less  == Without(entries, i)
           book0 == BookOf(entries)
           book1 == BookOf(less)
           From(j) == IF j < i THEN j ELSE j + 1
           To(j)   == IF j < i THEN j ELSE j - 1
<1>1. /\ l \in Nat /\ DOMAIN entries = 1..l /\ less \in Seq(Line) /\ Len(less) = l - 1
      /\ \A j \in 1..(l - 1) : less[j] = IF j < i THEN entries[j] ELSE entries[j + 1]
  BY WithoutOne, LenProperties
<1>2. /\ DOMAIN book0 = {entries[j].name : j \in 1..l}
      /\ \A j \in 1..l : book0[entries[j].name] = entries[j].password.word
  BY BookOfEntries
<1>3. /\ DOMAIN book1 = {less[j].name : j \in 1..(l - 1)}
      /\ book1 = [name \in DOMAIN book1 |-> book1[name]]
      /\ \A j \in 1..(l - 1) : book1[less[j].name] = less[j].password.word
  BY <1>1, BookOfEntries
<1>4. i \in 1..l /\ \A j, k \in 1..l : entries[j].name = entries[k].name => j = k
  BY <1>1 DEF OneLineEach
<1> HIDE DEF less, book0, book1, l
<1>5. \A j \in 1..(l - 1) : From(j) \in 1..l /\ From(j) # i /\ less[j] = entries[From(j)]
  BY <1>1, <1>4
<1>6. \A j \in 1..l : j # i => To(j) \in 1..(l - 1) /\ From(To(j)) = j
  BY <1>1, <1>4
<1> HIDE DEF From, To
<1>7. DOMAIN book1 = DOMAIN book0 \ {entries[i].name}
  <2>1. ASSUME NEW n \in DOMAIN book1
        PROVE  n \in DOMAIN book0 /\ n # entries[i].name
    <3>1. PICK j \in 1..(l - 1) : n = less[j].name
      BY <1>3
    <3> QED BY <1>2, <1>4, <1>5, <3>1
  <2>2. ASSUME NEW n \in DOMAIN book0, n # entries[i].name
        PROVE  n \in DOMAIN book1
    <3>1. PICK j \in 1..l : n = entries[j].name
      BY <1>2
    <3>2. j # i
      BY <2>2, <3>1
    <3> QED BY <1>3, <1>5, <1>6, <3>1, <3>2
  <2> QED BY <2>1, <2>2
<1>8. ASSUME NEW n \in DOMAIN book1
      PROVE  book1[n] = book0[n]
  <2>1. PICK j \in 1..(l - 1) : n = less[j].name
    BY <1>3
  <2>2. book1[n] = less[j].password.word
    BY <1>3, <2>1
  <2>3. From(j) \in 1..l /\ less[j] = entries[From(j)]
    BY <1>5
  <2>4. book0[entries[From(j)].name] = entries[From(j)].password.word
    BY ONLY <1>2, <2>3
  <2> QED BY ONLY <2>1, <2>2, <2>3, <2>4
<1>9. book1 = [n \in DOMAIN book0 \ {entries[i].name} |-> book0[n]]
  BY <1>3, <1>7, <1>8
<1>10. entries[i].name \in DOMAIN book0
  BY <1>2, <1>4
<1> QED BY <1>9, <1>10 DEF book0, book1, less, l

\* Carriage returns make no difference to the book.
LEMMA SameBook ==
    ASSUME NEW entries \in Seq(Line), NEW others \in Seq(Line), OneLineEach(others),
           SameWords(entries, others)
    PROVE  BookOf(entries) = BookOf(others)
<1> DEFINE l     == Len(others)
           book0 == BookOf(others)
           book1 == BookOf(entries)
<1>1. /\ Len(entries) = l /\ DOMAIN entries = 1..l /\ DOMAIN others = 1..l /\ l \in Nat
      /\ \A i \in 1..l : /\ entries[i].name = others[i].name
                         /\ entries[i].password.word = others[i].password.word
  BY LenProperties DEF SameWords
<1>2. OneLineEach(entries)
  BY <1>1 DEF OneLineEach
<1>3. /\ DOMAIN book0 = {others[i].name : i \in 1..l}
      /\ book0 = [name \in DOMAIN book0 |-> book0[name]]
      /\ \A i \in 1..l : book0[others[i].name] = others[i].password.word
  BY BookOfEntries
<1>4. /\ DOMAIN book1 = {entries[i].name : i \in 1..l}
      /\ book1 = [name \in DOMAIN book1 |-> book1[name]]
      /\ \A i \in 1..l : book1[entries[i].name] = entries[i].password.word
  BY <1>1, <1>2, BookOfEntries
<1> HIDE DEF book0, book1, l
<1>5. DOMAIN book1 = DOMAIN book0
  BY <1>1, <1>3, <1>4
<1>6. ASSUME NEW name \in DOMAIN book0
      PROVE  book1[name] = book0[name]
  <2>1. PICK i \in 1..l : name = others[i].name
    BY <1>3
  <2>2. /\ name = entries[i].name /\ book1[entries[i].name] = entries[i].password.word
        /\ book0[others[i].name] = others[i].password.word
    BY <1>1, <1>3, <1>4, <2>1
  <2> QED BY <1>1, <2>1, <2>2
<1> QED BY <1>3, <1>4, <1>5, <1>6 DEF book0, book1

\* The book that the vault is, and whether it is lost.
BookNow == IF Readable(vault) THEN BookOf(Entries(vault)) ELSE [name \in {} |-> NoWord]
LostNow == ~Readable(vault)

\* A registration of what was printed is one change of the book, or none.
LEMMA BookStep ==
    VaultBounds /\ VaultInv /\ VaultInv' /\ [Next]_vars => [Book!BookNext]_<<BookNow, LostNow>>
<1> SUFFICES ASSUME VaultBounds, VaultInv, VaultInv', [Next]_vars
             PROVE  Book!BookNext \/ (BookNow' = BookNow /\ LostNow' = LostNow)
  OBVIOUS
<1>1. CASE vault' = vault
  <2>1. /\ Readable(vault)' = Readable(vault) /\ Entries(vault)' = Entries(vault)
        /\ BookOf(Entries(vault))' = BookOf(Entries(vault))
    BY <1>1 DEF BookOf, Entries, Found, Readable
  <2>2. BookNow' = BookNow
    BY <2>1 DEF BookNow
  <2>3. LostNow' = LostNow
    BY <2>1 DEF LostNow
  <2> QED BY <2>2, <2>3
<1>2. CASE vault' # vault
  <2> DEFINE entries == Entries(vault)
             others  == Entries(vault')
  <2>1. stage = "printed" /\ vault' = output
    BY <1>2 DEF Next, Add, Del, Prints, Register, StartOver, DeleteOld, vars
  <2>2. Readable(vault)
    BY <2>1 DEF VaultInv, PrintedInv
  <2>3. /\ Readable(vault)' = Readable(vault') /\ Entries(vault)' = others
        /\ BookOf(Entries(vault))' = BookOf(others)
    BY DEF BookOf, Entries, Found, Readable
  <2>4. CASE ~Readable(vault')
    <3>1. BookNow' = [name \in {} |-> NoWord]
      BY <2>3, <2>4 DEF BookNow
    <3>2. Book!Lose
      BY <2>2, <2>3, <2>4, <3>1 DEF Book!Lose, Book!Nothing, BookNow
    <3> QED BY <3>2 DEF Book!BookNext
  <2>5. CASE Readable(vault')
    <3>1. /\ entries \in Seq(Line) /\ OneLineEach(entries)
          /\ others \in Seq(Line) /\ OneLineEach(others)
      <4>1. vault.lines \in Seq(Line) /\ OneLineEach(vault.lines)
        BY DEF VaultInv, TypeOK
      <4>2. output.lines \in Seq(Line) /\ OneLineEach(output.lines)
        BY DEF VaultInv, TypeOK
      <4> QED BY <2>1, <4>1, <4>2, EntriesAreLines
    <3>2. Added(others) \/ Removed(others)
      <4>1. output.bytes < MAX_FILE_BYTES
        BY <2>1, <2>5 DEF Readable
      <4> QED BY <2>1, <4>1 DEF VaultInv, PrintedInv
    <3>3. BookNow = BookOf(entries) /\ BookNow' = BookOf(others)
      BY <2>2, <2>3, <2>5 DEF BookNow
    <3>4. LostNow = FALSE /\ LostNow' = FALSE
      BY <2>2, <2>3, <2>5 DEF LostNow
    <3> HIDE DEF entries, others
    <3>5. CASE SameWords(others, entries)
      BY <3>1, <3>3, <3>4, <3>5, SameBook
    <3>6. ASSUME NEW line \in Line, Found(entries, line.name) = {},
                 SameWords(others, Append(entries, line))
          PROVE  Book!BookNext
      <4>1. Append(entries, line) \in Seq(Line) /\ OneLineEach(Append(entries, line))
        <5>1. /\ Append(entries, line) \in Seq(Line)
              /\ DOMAIN Append(entries, line) = 1..Len(Append(entries, line)) /\ DOMAIN others = 1..Len(others)
          BY <3>1, LenProperties
        <5> QED BY <3>1, <3>6, <5>1 DEF OneLineEach, SameWords
      <4>2. BookOf(others) = BookOf(Append(entries, line))
        BY <3>1, <3>6, <4>1, SameBook
      <4>3. /\ line.name \notin DOMAIN BookNow
            /\ BookNow' = [n \in DOMAIN BookNow \cup {line.name} |->
                             IF n = line.name THEN line.password.word ELSE BookNow[n]]
        <5>1. /\ line.name \notin DOMAIN BookOf(entries)
              /\ BookOf(Append(entries, line)) =
                   [n \in DOMAIN BookOf(entries) \cup {line.name} |->
                      IF n = line.name THEN line.password.word ELSE BookOf(entries)[n]]
          BY <3>1, <3>6, <4>1, BookAdds
        <5> QED BY <3>3, <4>2, <5>1
      <4>4. line.name \in Names /\ line.password.word \in Words
        BY DEF Line, Password
      <4>5. Book!Add(line.name, line.password.word)
        BY <3>4, <4>3 DEF Book!Add, BookNow, LostNow
      <4> QED BY <4>4, <4>5 DEF Book!BookNext
    <3>7. ASSUME NEW i \in 1..Len(entries), SameWords(others, Without(entries, i))
          PROVE  Book!BookNext
      <4>1. Without(entries, i) \in Seq(Line) /\ OneLineEach(Without(entries, i))
        <5>1. Without(entries, i) \in Seq(Line)
          BY <3>1, WithoutOne
        <5>2. DOMAIN Without(entries, i) = 1..Len(Without(entries, i)) /\ DOMAIN others = 1..Len(others)
          BY <3>1, <5>1, LenProperties
        <5> QED BY <3>1, <3>7, <5>1, <5>2 DEF OneLineEach, SameWords
      <4>2. BookOf(others) = BookOf(Without(entries, i))
        BY <3>1, <3>7, <4>1, SameBook
      <4>3. /\ entries[i].name \in DOMAIN BookNow
            /\ BookNow' = [n \in DOMAIN BookNow \ {entries[i].name} |-> BookNow[n]]
        <5>1. /\ entries[i].name \in DOMAIN BookOf(entries)
              /\ BookOf(Without(entries, i)) =
                   [n \in DOMAIN BookOf(entries) \ {entries[i].name} |-> BookOf(entries)[n]]
          BY <3>1, <4>1, BookRemoves
        <5> QED BY <3>3, <4>2, <5>1
      <4>4. entries[i].name \in Names
        <5>1. entries[i] \in Line
          BY <3>1, ElementOfSeq
        <5> QED BY <5>1 DEF Line
      <4>5. Book!Remove(entries[i].name)
        BY <3>4, <4>3 DEF Book!Remove, BookNow, LostNow
      <4> QED BY <4>4, <4>5 DEF Book!BookNext
    <3>8. \/ SameWords(others, entries)
          \/ \E line \in Line : Found(entries, line.name) = {} /\ SameWords(others, Append(entries, line))
          \/ \E i \in 1..Len(entries) : SameWords(others, Without(entries, i))
      BY <3>2 DEF Added, Removed, entries
    <3> QED BY <3>5, <3>6, <3>7, <3>8
  <2> QED BY <2>4, <2>5
<1> QED BY <1>1, <1>2

\* Over updates that are given up, repeated and completed, the vault implements a book of
\* passwords until it is lost: one name is added or removed at a time and the others keep
\* their passwords but for carriage returns, whatever comments and limits the file has,
\* and none of it is left of a file that the runner has cut.
THEOREM VaultIsABook == VaultBounds => (Spec => ImplementsBook)
<1> SUFFICES ASSUME VaultBounds PROVE Spec => ImplementsBook
  OBVIOUS
<1>1. VaultInv => Book!BookInit
  <2> SUFFICES ASSUME VaultInv PROVE Book!BookInit
    OBVIOUS
  <2> DEFINE entries == Entries(vault)
             names   == {entries[i].name : i \in 1..Len(entries)}
  <2>1. /\ entries \in Seq(Line) /\ OneLineEach(entries)
        /\ \A i \in 1..Len(entries) : entries[i] \in Line
    BY VaultEntries, ElementOfSeq DEF VaultInv
  <2> HIDE DEF entries
  <2>2. names \in SUBSET Names
    BY <2>1 DEF Line
  <2>3. BookOf(entries) \in [names -> Words]
    <3>1. /\ DOMAIN BookOf(entries) = names
          /\ BookOf(entries) = [name \in DOMAIN BookOf(entries) |-> BookOf(entries)[name]]
          /\ \A i \in 1..Len(entries) : BookOf(entries)[entries[i].name] = entries[i].password.word
      BY <2>1, BookOfEntries
    <3>2. ASSUME NEW name \in names
          PROVE  BookOf(entries)[name] \in Words
      <4>1. PICK i \in 1..Len(entries) : name = entries[i].name
        OBVIOUS
      <4> QED BY <2>1, <3>1, <4>1 DEF Line, Password
    <3> HIDE DEF names
    <3> QED BY <3>1, <3>2
  <2> HIDE DEF names
  <2>4. CASE Readable(vault)
    BY <2>2, <2>3, <2>4 DEF Book!BookInit, entries
  <2>5. CASE ~Readable(vault)
    BY <2>5 DEF Book!BookInit, Book!Nothing
  <2> QED BY <2>4, <2>5
<1>2. VaultInv /\ VaultInv' /\ [Next]_vars => [Book!BookNext]_<<BookNow, LostNow>>
  BY BookStep
<1> QED BY <1>1, <1>2, VaultInvariant, PTL DEF Spec, ImplementsBook, Book!BookSpec, BookNow, LostNow

=============================================================================
