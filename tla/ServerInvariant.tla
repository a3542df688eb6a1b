---------------------------- MODULE ServerInvariant ----------------------------
(***************************************************************************)
(* The inductive invariant of Server: what is known of a request at every  *)
(* stage of every handler that has it, over repeated deliveries, lost      *)
(* answers, ends of the process and new starts.                            *)
(***************************************************************************)
EXTENDS Server

-----------------------------------------------------------------------------
(* Handlers                                                                *)

\* The command is under way: its signature was accepted, it was not answered.
Pending(w) == job[w].final /\ job[w].stage \in {"act", "begin"}

\* The outcome is known to the server and on its way to the client.
Done(w) == At(w, "reply") /\ job[w].code \in {200, 201}

\* What a handler at each stage has got past: every command but the owner's
\* registration entered its signature in the cache; the owner was registered when the handler
\* read the key, and signed what only the owner may send.
HandlerInv(w) ==
    LET q == Req(w)
    IN /\ At(w, "idle") => job[w] = Idle
       /\ q = NoRequest => At(w, "idle")
       /\ q # NoRequest =>
            /\ q \in This.requests /\ ~At(w, "idle")
            /\ q.cmd \in Changes => q \in sent
            /\ q.cmd = "owner" => job[w].stage \in {"act", "reply"} /\ ~job[w].final
            /\ q.cmd # "owner" /\ ~At(w, "reply") => job[w].owner = owner /\ owner # NoKey
            /\ q.cmd # "owner" /\ (job[w].stage \in {"act", "begin", "run"} \/ Done(w)) => job[w].final
            /\ q.cmd \in OwnerOnly /\ job[w].stage \in {"act", "begin", "run"} => q.key = job[w].owner
            /\ job[w].stage \in {"begin", "run"} => q.cmd = "execute"
            /\ job[w].final => job[w].stage \notin {"auth", "replay"}

\* Memory is gone when the process ends, handlers with it; what clients and
\* handlers know is of this session.
ProcessInv ==
    /\ mode \in {"boot", "down"} => \A w \in Workers : job[w] = Idle
    /\ sent \subseteq This.requests /\ \A q \in sent : q.cmd \in Changes
    /\ refused \subseteq This.requests

-----------------------------------------------------------------------------
(* Data                                                                    *)

Holds(w, id) == Running(w) /\ id \in Has(Req(w))

\* HeldByOneRun, without counting.
HeldInv ==
    \A id \in Ids :
        /\ data[id].state = "IN_USE" <=> \E w \in Workers : Holds(w, id)
        /\ \A v, w \in Workers : Holds(v, id) /\ Holds(w, id) => v = w

\* The uploader of the data signed a list with the program, and the list took effect.
Consented(id, program) ==
    \E q \in This.requests :
        /\ took[q] > 0 /\ q.key = data[id].by.key /\ program \in q.list
        /\ q = data[id].by \/ (q.cmd = "edit" /\ Target(q) = id)

\* No program is on the list of data without the uploader's consent; a run goes
\* on with the consent it began with, whatever becomes of the list.
ConsentInv ==
    /\ \A id \in Ids : data[id].state # "ABSENT" =>
          \A program \in data[id].allowed : Consented(id, program)
    /\ \A w \in Workers, id \in Ids : Holds(w, id) =>
          data[id].state # "ABSENT" /\ Consented(id, Req(w).program)

-----------------------------------------------------------------------------
(* Signatures                                                              *)

\* Between the window check and checkReplay a handler has a time that is not ahead
\* of the clock, at most Latency behind it, and in the window of the timestamp.
TimeInv(w) ==
    LET stamp == Req(w).stamp
    IN /\ At(w, "auth") => stamp <= now + Ahead
       /\ At(w, "replay") =>
            /\ job[w].read <= now /\ now <= job[w].read + Latency
            /\ stamp <= job[w].read + Ahead /\ job[w].read <= stamp + Window

\* An entry expires two windows after it was made, and it was made no earlier than
\* Ahead before the timestamp.
CacheInv ==
    \A q \in This.requests : seen[q] # 0 => q.stamp + 2 * Window <= seen[q] + Ahead

\* No delivery of the request is in the window, or will be.
Dead(q) ==
    /\ q.stamp + Window < now
    /\ \A w \in Workers : Req(w) = q => ~At(w, "replay")

\* No delivery of the request can be accepted by this process: when an entry is
\* purged, the last delivery in its window is through.
Closed(q) == seen[q] # 0 \/ Dead(q)

SpentInv == \A w \in Workers : job[w].final => Closed(Req(w))

\* Of all deliveries of a request one handler at most is past the replay check.
OneIsFinal ==
    \A v, w \in Workers : job[v].final /\ job[w].final /\ Req(v) = Req(w) => v = w

\* Times a request may have taken effect before its delivery that is under way,
\* or the next one that is accepted.
Before == IF This.quick THEN stops ELSE 0

EffectInv ==
    \A q \in This.requests : q.cmd # "owner" =>
        /\ took[q] <= 1 + Before
        /\ ~Closed(q) \/ (mode = "down" /\ This.quick) => took[q] <= Before
        /\ \A w \in Workers : Req(w) = q /\ Pending(w) => took[q] <= Before

\* A delivery of the request may still take effect, or be answered as done.
Open(q) ==
    \/ ~Closed(q)
    \/ \E w \in Workers : Req(w) = q /\ job[w].final

RefusedInv == \A q \in refused : q.cmd # "owner" => ~Open(q)

\* Of the changes of one list, or of one program, one can take effect: the client
\* sends the next when no delivery of the last can.
SentInv ==
    /\ \A q, r \in sent : SameTarget(q, r) /\ Open(q) /\ Open(r) => q = r
    /\ \A q \in settled : ~Open(q)

-----------------------------------------------------------------------------
(* Answers                                                                 *)

\* An edit that is about to be answered is in effect, and so is the deletion of
\* a program: no other change is under way.
ReplyInv ==
    \A w \in Workers : Done(w) =>
        LET q == Req(w)
        IN /\ q.cmd = "edit" => data[Target(q)].state # "ABSENT" /\ data[Target(q)].allowed = q.list
           /\ q.cmd = "unload" => q.program \notin programs

\* What an edit took off a list stays off it, and no edit that would put it back
\* is under way.
DeniedInv ==
    \A id \in Ids, program \in Programs : <<id, program>> \in denied =>
        /\ data[id].state # "ABSENT" /\ program \notin data[id].allowed
        /\ \A q \in sent : q.cmd = "edit" /\ Target(q) = id /\ program \in q.list => ~Open(q)

\* A program that is gone is not in the registry, and no upload of it is under way.
GoneInv ==
    \A program \in gone :
        /\ program \notin programs
        /\ \A q \in sent : q.cmd = "upload" /\ q.program = program => ~Open(q)

\* What a request may not run is still gone; when it has its binary, the program
\* was there.
BarredInv ==
    \A w \in Workers :
        /\ Req(w) # NoRequest /\ Req(w).cmd = "execute" => job[w].barred \subseteq gone
        /\ job[w].stage \in {"begin", "run"} => Req(w).program \notin job[w].barred

\* What clients may rely on unless the process starts again within the window.
AnswersInv == RefusedInv /\ SentInv /\ ReplyInv /\ DeniedInv /\ GoneInv

\* What rests on a signature being accepted once.
SignatureInv ==
    /\ SpentInv /\ OneIsFinal /\ EffectInv
    /\ ~This.quick => AnswersInv /\ BarredInv

IInv ==
    /\ TypeOK
    /\ \A w \in Workers : HandlerInv(w) /\ TimeInv(w)
    /\ ProcessInv /\ CacheInv
    /\ HeldInv /\ ConsentInv
    /\ Timely => SignatureInv

=============================================================================
