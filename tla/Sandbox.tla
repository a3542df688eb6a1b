-------------------------------- MODULE Sandbox --------------------------------
(***************************************************************************)
(* One execution of a WASM program (sandbox.go): run starts it with two    *)
(* capped output buffers and a deadline, and turns its end into an answer. *)
(*                                                                         *)
(* The program is anything: it prints on either stream, repeats what a     *)
(* write call left over or ignores it, exits, traps, or loops.  Closing it *)
(* takes effect only when it next looks (WithCloseOnContextDone), so it    *)
(* may end by itself after its deadline.  A byte is its place in what the  *)
(* program prints on the stream.                                           *)
(***************************************************************************)
EXTENDS Naturals, Sequences

CONSTANTS
    Streams,        \* stdout and stderr
    outputCap,      \* bytes a buffer keeps
    MaxPrint,       \* bound: bytes printed at once
    MaxPrinted      \* bound: bytes printed on a stream

\* What the constants have to be.
SandboxBounds == {outputCap, MaxPrint, MaxPrinted} \subseteq Nat /\ MaxPrint > 0

VARIABLES
    stage,      \* "compile", "run", "end" (InstantiateModule returned) or "answered"
    done,       \* the context is done: deadline, or the client hung up
    how,        \* how the program ended
    buf,        \* cappedBuffer.buf of each stream
    left,       \* bytes the program has still to get written, of a print in progress
    printed,    \* bytes the program has printed
    answer      \* what run returns

vars == <<stage, done, how, buf, left, printed, answer>>

Ends    == {"none", "exit0", "exit1", "trap", "closed", "invalid"}
Nothing == [ok |-> FALSE, out |-> [s \in Streams |-> <<>>]]
Bytes   == Seq(1..MaxPrinted)

TypeOK ==
    /\ stage \in {"compile", "run", "end", "answered"} /\ done \in BOOLEAN
    /\ how \in Ends /\ (how = "none" <=> stage \in {"compile", "run"})
    /\ buf \in [Streams -> Bytes] /\ \A s \in Streams : Len(buf[s]) <= outputCap
    /\ left \in [Streams -> Bytes]
    /\ printed \in [Streams -> 0..MaxPrinted]
    /\ answer \in [ok : BOOLEAN, out : [Streams -> Bytes]]

Init ==
    /\ stage = "compile" /\ done = FALSE /\ how = "none" /\ answer = Nothing
    /\ buf = [s \in Streams |-> <<>>] /\ left = [s \in Streams |-> <<>>]
    /\ printed = [s \in Streams |-> 0]

-----------------------------------------------------------------------------
(* cappedBuffer                                                            *)

Room(s) == outputCap - Len(buf[s])
Least(m, n) == IF m <= n THEN m ELSE n

\* Variant: a write that does not fit is dropped as a whole.
KeepsWholeWrites(s, p) == IF Len(p) > Room(s) THEN <<>> ELSE p

\* The part of a write that is kept.
Keeps(s, p) == SubSeq(p, 1, Least(Len(p), Room(s)))

\* The number of bytes a write reports: a full buffer takes everything.
Reports(s, p) == IF Room(s) = 0 THEN Len(p) ELSE Least(Len(p), Room(s))

-----------------------------------------------------------------------------
(* The program                                                             *)

Begin ==
    /\ stage = "compile"
    /\ \/ stage' = "run" /\ UNCHANGED how
       \/ stage' = "end" /\ how' = "invalid"     \* compiling or instantiating fails
    /\ UNCHANGED <<done, buf, left, printed, answer>>

\* The program starts to print n bytes.
Emit(s, n) ==
    /\ stage = "run" /\ left = [t \in Streams |-> <<>>]
    /\ printed[s] + n <= MaxPrinted
    /\ printed' = [printed EXCEPT ![s] = @ + n]
    /\ left' = [left EXCEPT ![s] = [i \in 1..n |-> printed[s] + i]]
    /\ UNCHANGED <<stage, done, how, buf, answer>>

\* One call of Write with what is left.
Write(s) ==
    /\ stage = "run" /\ left[s] # <<>>
    /\ buf' = [buf EXCEPT ![s] = @ \o Keeps(s, left[s])]
    /\ UNCHANGED <<stage, done, how, printed, answer>>

\* The program goes on with what was not written, as C libraries do.
Repeat(s) ==
    /\ Write(s)
    /\ left' = [left EXCEPT ![s] = SubSeq(@, Reports(s, @) + 1, Len(@))]

\* The program does not look at the count.
Ignore(s) == Write(s) /\ left' = [left EXCEPT ![s] = <<>>]

End(way) ==
    /\ stage = "run" /\ stage' = "end" /\ how' = way
    /\ UNCHANGED <<done, buf, left, printed, answer>>

\* Between two prints a program returns or exits; it can trap anywhere.
Exit == left = [s \in Streams |-> <<>>] /\ (End("exit0") \/ End("exit1"))
Trap == End("trap")

-----------------------------------------------------------------------------
(* run                                                                     *)

\* The deadline passes, or the request's context is cancelled.
Expire ==
    /\ stage # "answered" /\ ~done /\ done' = TRUE
    /\ UNCHANGED <<stage, how, buf, left, printed, answer>>

\* Variant: the runtime is not told to close what it runs.
ClosesNothing == FALSE /\ UNCHANGED vars

Close == done /\ End("closed")

\* An exit code of 0 comes before the state of the context.
Succeeds == how = "exit0"

\* The error, or both streams; a stderr with nothing in it is left out.
Answer ==
    /\ stage = "end" /\ stage' = "answered"
    /\ answer' = IF Succeeds THEN [ok |-> TRUE, out |-> buf] ELSE Nothing
    /\ UNCHANGED <<done, how, buf, left, printed>>

Next ==
    \/ Begin \/ Exit \/ Trap \/ Expire \/ Close \/ Answer
    \/ \E s \in Streams : Repeat(s) \/ Ignore(s) \/ (\E n \in 1..MaxPrint : Emit(s, n))

Spec == Init /\ [][Next]_vars

Returned == stage = "answered"

\* Contexts expire, a closed program is stopped, and run goes on; the program
\* owes nothing.
FairSpec == Spec /\ WF_vars(Begin) /\ WF_vars(Expire) /\ WF_vars(Close) /\ WF_vars(Answer)

-----------------------------------------------------------------------------
(* Properties                                                              *)

\* A program that came to its end is answered, even if its deadline passed
\* meanwhile, with the longest beginning of what it printed on each stream that
\* fits: nothing twice after a short write, nothing left out before what is there,
\* however the prints fall around the cap (cappedBuffer). One that was closed,
\* trapped or failed gives nothing away (run).
AnswerIsBeginning ==
    stage = "answered" =>
        IF how = "exit0"
        THEN /\ answer.ok
             /\ \A s \in Streams : answer.out[s] = [i \in 1..Least(printed[s], outputCap) |-> i]
        ELSE answer = Nothing

=============================================================================
