-------------------------------- MODULE Server --------------------------------
(***************************************************************************)
(* The life of a request in wasm-runner: the handlers of handlers.go, each *)
(* a goroutine that reads the owner's key, authenticates the signature     *)
(* (auth.go), checks the signer, and calls the managers of data, programs  *)
(* and the owner; and the process they run in (main.go), which may be      *)
(* killed, or shut down with five seconds for the handlers to finish.      *)
(*                                                                         *)
(* A call of a manager holds the manager's mutex throughout and is one     *)
(* step; Lifecycle, ProgramRegistry, OwnerManager and ReplayCache have     *)
(* what happens inside.  Between the calls of one handler other handlers   *)
(* run.  A request may be delivered any number of times, and any answer    *)
(* may be lost.                                                            *)
(***************************************************************************)
EXTENDS Naturals, Sequences, FiniteSets

CONSTANTS
    Ids, Programs, Keys,
    NoKey,          \* no owner is registered
    NoRequest,
    Workers,        \* handler goroutines
    Window,         \* authenticator.window, by which a timestamp may be off
    Ahead,          \* how far a client's clock may be ahead of the server's
    Latency,        \* time a handler may take from reading the time to checkReplay
    Sessions        \* what may happen in a behaviour: a function from names

Commands == {"owner", "upload", "unload", "register", "edit", "delete", "execute"}

\* A request as its sender signed it. form says how the body fares: it is too
\* large, it is refused after authentication (decodeJSON and the checks that
\* follow it), or it is well formed. stamp is the time its sender's clock read.
Request == [cmd : Commands, key : Keys, form : {"good", "bad", "large"}, stamp : Nat,
            ids : Seq(Ids), program : Programs, list : SUBSET Programs]

\* The requests clients send, the owner and the programs there are when it
\* begins, and its bounds: the time that passes, deliveries, calls that fail in
\* the file system, ends of the process. quick: the process may start again while
\* signatures that it forgot are still within their window.
Session == [requests : SUBSET Request, owner : Keys \cup {NoKey}, programs : SUBSET Programs,
            ticks : Nat, deliveries : Nat, faults : Nat, stops : Nat, quick : BOOLEAN]

Requests == UNION {Sessions[name].requests : name \in DOMAIN Sessions}

ASSUME ServerRequests == Requests \subseteq Request /\ NoRequest \notin Requests
ASSUME ServerKeys == NoKey \notin Keys
ASSUME ServerWindow == Window \in Nat \ {0} /\ Ahead \in Nat /\ Latency \in Nat
ASSUME ServerSessions ==
    \A name \in DOMAIN Sessions :
        LET s == Sessions[name]
        IN /\ s.owner \in Keys \cup {NoKey} /\ s.programs \subseteq Programs
           /\ {s.ticks, s.deliveries, s.faults, s.stops} \subseteq Nat /\ s.quick \in BOOLEAN
\* The path of PUT /data/{id}/programs and of DELETE /data/{id} names one piece of data.
ASSUME ServerTargets == \A q \in Requests : q.cmd \in {"edit", "delete"} => Len(q.ids) = 1

\* A handler reaches checkReplay within what the window leaves over the clocks'
\* difference. Without it a signature is accepted twice (ReplayCache).
Timely == Ahead + Latency <= Window

VARIABLES
    session,    \* the name of the session
    mode,       \* "boot", "up", "draining" (Shutdown) or "down"
    owner,      \* the registered owner's key
    programs,   \* programs in the registry
    data,       \* the records of data
    seen,       \* authenticator.seen: expiry of each cached signature, 0 for none
    now,        \* the server's clock
    job,        \* what each handler is at
    deliveries, faults, stops,
    took,       \* times each request has taken effect
    sent,       \* edits of a list or of the registry that were sent
    settled,    \* those whose sender was told the outcome
    refused,    \* requests whose sender was told that they are refused
    denied,     \* data and programs an answered edit has kept apart since
    gone        \* programs whose deletion was answered and not undone since

This    == Sessions[session]
store   == <<owner, programs, data>>
bounds  == <<session, now, deliveries, faults, stops>>
clients == <<sent, settled, refused, denied, gone>>
vars    == <<mode, store, seen, bounds, job, took, clients>>

States == {"ABSENT", "REGISTERED", "IN_USE", "DELETING", "DELETED"}

\* by is the request that registered the data: its key is the uploader's.
Record == [state : States, by : Requests \cup {NoRequest}, allowed : SUBSET Programs]
Absent == [state |-> "ABSENT", by |-> NoRequest, allowed |-> {}]

Stages == {"idle", "auth", "replay", "act", "begin", "run", "reply"}

\* owner and read are the key and the time the handler has read; final says the
\* signature was entered in the cache; barred are the programs known to be deleted
\* when the request arrived, and not uploaded since.
Job  == [req : Requests \cup {NoRequest}, stage : Stages, owner : Keys \cup {NoKey},
         read : Nat, code : Nat, final : BOOLEAN, barred : SUBSET Programs]
Idle == [req |-> NoRequest, stage |-> "idle", owner |-> NoKey,
         read |-> 0, code |-> 0, final |-> FALSE, barred |-> {}]

TypeOK ==
    /\ session \in DOMAIN Sessions
    /\ mode \in {"boot", "up", "draining", "down"}
    /\ owner \in Keys \cup {NoKey}
    /\ programs \subseteq Programs
    /\ data \in [Ids -> Record]
    /\ seen \in [This.requests -> Nat]
    /\ {now, deliveries, faults, stops} \subseteq Nat
    /\ job \in [Workers -> Job]
    /\ took \in [This.requests -> Nat]
    /\ settled \subseteq sent /\ sent \subseteq Requests /\ refused \subseteq Requests
    /\ denied \subseteq Ids \X Programs
    /\ gone \subseteq Programs

Init ==
    /\ session \in DOMAIN Sessions
    /\ mode = "boot" /\ owner = This.owner /\ programs = This.programs
    /\ data = [id \in Ids |-> Absent]
    /\ seen = [q \in This.requests |-> 0]
    /\ now = 0 /\ deliveries = 0 /\ faults = 0 /\ stops = 0
    /\ job = [w \in Workers |-> Idle]
    /\ took = [q \in This.requests |-> 0]
    /\ sent = {} /\ settled = {} /\ refused = {} /\ denied = {} /\ gone = {}

-----------------------------------------------------------------------------
(* Helpers                                                                 *)

At(w, stage) == job[w].stage = stage
Req(w)       == job[w].req
Target(q)    == Head(q.ids)
Has(q)       == {q.ids[i] : i \in DOMAIN q.ids}

Goto(w, stage) == job' = [job EXCEPT ![w].stage = stage]
Reply(w, code) == job' = [job EXCEPT ![w].stage = "reply", ![w].code = code]
TakesEffect(w) == took' = [took EXCEPT ![Req(w)] = @ + 1]

OwnerOnly == {"upload", "unload", "execute"}
Changes   == {"upload", "unload", "edit"}
Decoded   == {"upload", "register", "edit", "execute"}    \* commands whose body is read

\* Two edits of one list, or two changes of one program.
SameTarget(q, r) ==
    \/ q.cmd = "edit" /\ r.cmd = "edit" /\ q.ids = r.ids
    \/ {q.cmd, r.cmd} \subseteq {"upload", "unload"} /\ q.program = r.program

\* Its sender was told the outcome, or it can have none any more.
Over(q) == q \in settled \/ (q.stamp + Window < now /\ \A w \in Workers : Req(w) # q)

-----------------------------------------------------------------------------
(* The process                                                             *)

\* Memory is gone; the data in use, and deletions past their commit, are
\* recovered when the process starts again.
Stop ==
    /\ stops < This.stops /\ stops' = stops + 1
    /\ mode' = "down"
    /\ job' = [w \in Workers |-> Idle]
    /\ data' = [id \in Ids |-> IF data[id].state = "IN_USE"
                               THEN [data[id] EXCEPT !.state = "REGISTERED"] ELSE data[id]]
    /\ UNCHANGED <<session, owner, programs, seen, now, deliveries, faults, took, clients>>

Crash == mode # "down" /\ Stop

\* The signal: the listener is closed, handlers go on.
Shutdown ==
    /\ mode = "up" /\ mode' = "draining"
    /\ UNCHANGED <<store, seen, bounds, job, took, clients>>

\* Shutdown returns when the handlers are idle or its five seconds are over;
\* then main returns.
Exit == mode = "draining" /\ Stop

\* A new process: the replay cache is empty.
Boot ==
    /\ mode = "down" /\ mode' = "boot"
    /\ This.quick \/ \A q \in This.requests : seen[q] # 0 => q.stamp + Window < now
    /\ seen' = [q \in This.requests |-> 0]
    /\ UNCHANGED <<store, bounds, job, took, clients>>

\* newLifecycleManager completes the deletions it finds begun.
Recover(id) ==
    /\ mode = "boot" /\ data[id].state = "DELETING"
    /\ data' = [data EXCEPT ![id].state = "DELETED"]
    /\ UNCHANGED <<mode, owner, programs, seen, bounds, job, took, clients>>

Serve ==
    /\ mode = "boot" /\ \A id \in Ids : data[id].state # "DELETING"
    /\ mode' = "up"
    /\ UNCHANGED <<store, seen, bounds, job, took, clients>>

\* Time passes, no faster than handlers reach checkReplay.
Tick ==
    /\ now < This.ticks /\ now' = now + 1
    /\ \A w \in Workers : At(w, "replay") => now < job[w].read + Latency
    /\ UNCHANGED <<session, mode, store, seen, deliveries, faults, stops, job, took, clients>>

-----------------------------------------------------------------------------
(* Before the command is carried out                                       *)

\* The program that an upload sent for the first time may bring back.
Reopened(q) == IF q.cmd = "upload" /\ q \notin sent THEN {q.program} ELSE {}

\* A handler is given a request, sent now or delivered once more; it reads the
\* body, and then authenticateCommand reads the owner's key. A client sends when
\* its clock reads the timestamp, and its next change when the outcome of the last
\* is known.
Accept(w, q) ==
    /\ mode = "up" /\ job[w] = Idle /\ q.stamp <= now + Ahead
    /\ q \in sent \/ \A r \in sent : SameTarget(q, r) => Over(r)
    /\ deliveries < This.deliveries /\ deliveries' = deliveries + 1
    /\ sent' = IF q.cmd \in Changes THEN sent \cup {q} ELSE sent
    /\ denied' = IF q.cmd = "edit" /\ q \notin sent
                 THEN {d \in denied : ~(d[1] = Target(q) /\ d[2] \in q.list)} ELSE denied
    /\ gone' = gone \ Reopened(q)
    /\ LET code == IF q.form = "large" THEN 413
                   ELSE IF q.cmd # "owner" /\ owner = NoKey THEN 403 ELSE 0
           stage == IF code # 0 THEN "reply" ELSE IF q.cmd = "owner" THEN "act" ELSE "auth"
       IN job' = [v \in Workers |->
            IF v # w THEN [job[v] EXCEPT !.barred = @ \ Reopened(q)]
            ELSE [req |-> q, stage |-> stage, owner |-> owner, read |-> 0, code |-> code,
                  final |-> FALSE, barred |-> gone]]
    /\ UNCHANGED <<session, mode, store, seen, now, faults, stops, took, settled, refused>>

InWindow(q, read) == read <= q.stamp + Window /\ q.stamp <= read + Window

\* authenticate reads the time once, before it takes authenticator.mu, and looks
\* whether the timestamp is within the window of it.
Authenticate(w) ==
    /\ At(w, "auth")
    /\ \/ ~InWindow(Req(w), now) /\ Reply(w, 401)
       \/ /\ InWindow(Req(w), now)
          /\ job' = [job EXCEPT ![w].stage = "replay", ![w].read = now]
    /\ UNCHANGED <<mode, store, seen, bounds, took, clients>>

\* Variant: entries are kept for one window.
RetentionOfOneWindow == Window

Retention == 2 * Window

\* The entries that survive the purge made with the reading.
Purged(read) == [q \in This.requests |-> IF read > seen[q] THEN 0 ELSE seen[q]]

Replayed(q, read) == Purged(read)[q] # 0

\* Variant: only the owner's commands are entered.
EnteredIfOwnerOnly(q, read) ==
    [Purged(read) EXCEPT ![q] = IF q.cmd \in OwnerOnly THEN read + Retention ELSE 0]

Entered(q, read) == [Purged(read) EXCEPT ![q] = read + Retention]

\* checkReplay, one mutex for the purge, the look-up and the entry, and after it
\* requireOwner and the checks of the body, in this order.
CheckReplay(w) ==
    /\ At(w, "replay")
    /\ LET q == Req(w)
           read == job[w].read
           code == IF Replayed(q, read) THEN 401
                   ELSE IF q.cmd \in OwnerOnly /\ q.key # job[w].owner THEN 403
                   ELSE IF q.form = "bad" /\ q.cmd \in Decoded THEN 400 ELSE 0
       IN /\ seen' = IF Replayed(q, read) THEN Purged(read) ELSE Entered(q, read)
          /\ job' = [job EXCEPT ![w].stage = IF code = 0 THEN "act" ELSE "reply",
                                ![w].read = 0, ![w].code = code,
                                ![w].final = ~Replayed(q, read)]
    /\ UNCHANGED <<mode, store, bounds, took, clients>>

-----------------------------------------------------------------------------
(* The commands                                                            *)

Acts(w, cmd) == At(w, "act") /\ Req(w).cmd = cmd

\* The call ends with code and has changed nothing.
Refuse(w, code) == Reply(w, code) /\ UNCHANGED <<store, faults, took>>

\* The call fails in the file system before it has changed anything.
Fails(w, code) ==
    /\ faults < This.faults /\ faults' = faults + 1
    /\ Reply(w, code)
    /\ UNCHANGED <<store, took>>

Other == UNCHANGED <<session, mode, seen, now, deliveries, stops, clients>>

\* POST /owner: whoever is first. A write error is answered 400 here.
RegisterOwner(w) ==
    /\ Acts(w, "owner") /\ Other
    /\ \/ Req(w).form = "bad" /\ Refuse(w, 400)
       \/ Req(w).form = "good" /\ owner # NoKey /\ Refuse(w, 409)
       \/ /\ Req(w).form = "good" /\ owner = NoKey
          /\ \/ Fails(w, 400)
             \/ /\ owner' = Req(w).key /\ Reply(w, 201) /\ TakesEffect(w)
                /\ UNCHANGED <<programs, data, faults>>

\* POST /programs: a known program is answered 200 and left as it is.
Upload(w) ==
    /\ Acts(w, "upload") /\ Other
    /\ LET p == Req(w).program
       IN \/ /\ programs' = programs \cup {p} /\ TakesEffect(w)
             /\ Reply(w, IF p \in programs THEN 200 ELSE 201)
             /\ UNCHANGED <<owner, data, faults>>
          \/ p \notin programs /\ Fails(w, 500)

\* Variant: a program that is being run stays.
UnloadedUnlessRunning(p) ==
    IF \E v \in Workers : At(v, "run") /\ Req(v).program = p THEN programs ELSE programs \ {p}

Unloaded(p) == programs \ {p}

\* DELETE /programs/{id}. The program is gone even if its binary cannot be removed.
Unload(w) ==
    /\ Acts(w, "unload") /\ Other
    /\ LET p == Req(w).program
       IN \/ p \notin programs /\ Refuse(w, 404)
          \/ p \in programs /\ Fails(w, 500)
          \/ /\ p \in programs /\ faults < This.faults /\ faults' = faults + 1
             /\ programs' = Unloaded(p) /\ Reply(w, 500) /\ TakesEffect(w)
             /\ UNCHANGED <<owner, data>>
          \/ /\ p \in programs /\ programs' = Unloaded(p)
             /\ Reply(w, 200) /\ TakesEffect(w)
             /\ UNCHANGED <<owner, data, faults>>

\* POST /data: under a fresh id, of which there are enough, for whoever signed
\* the request.
Register(w) ==
    /\ Acts(w, "register") /\ Other
    /\ \/ \E id \in Ids :
             /\ data[id].state = "ABSENT"
             /\ data' = [data EXCEPT ![id] = [state |-> "REGISTERED", by |-> Req(w),
                                              allowed |-> Req(w).list]]
             /\ Reply(w, 201) /\ TakesEffect(w)
             /\ UNCHANGED <<owner, programs, faults>>
       \/ Fails(w, 500)

\* Variant: the owner may edit too.
UploaderOrOwner(key, rec) == key \in {rec.by.key, owner}

\* Only the uploader's key may edit the list.
MayEdit(key, rec) == key = rec.by.key

\* Variant: an edit does not reach data that is in use.
EditedUnlessInUse(rec, list) == IF rec.state = "IN_USE" THEN rec ELSE [rec EXCEPT !.allowed = list]

Edited(rec, list) == [rec EXCEPT !.allowed = list]

\* The code setAllowedPrograms answers with, 200 when it sets the list.
EditCode(key, rec) ==
    CASE rec.state = "ABSENT"   -> 404
      [] rec.state # "ABSENT" /\ ~MayEdit(key, rec)                          -> 403
      [] rec.state = "DELETED" /\ MayEdit(key, rec)                          -> 404
      [] rec.state = "DELETING" /\ MayEdit(key, rec)                         -> 409
      [] rec.state \in {"REGISTERED", "IN_USE"} /\ MayEdit(key, rec)         -> 200

\* PUT /data/{id}/programs, also while the data is in use.
Edit(w) ==
    /\ Acts(w, "edit") /\ Other
    /\ LET id == Target(Req(w))
           code == EditCode(Req(w).key, data[id])
       IN \/ code # 200 /\ Refuse(w, code)
          \/ code = 200 /\ Fails(w, 500)
          \/ /\ code = 200
             /\ data' = [data EXCEPT ![id] = Edited(@, Req(w).list)]
             /\ Reply(w, 200) /\ TakesEffect(w)
             /\ UNCHANGED <<owner, programs, faults>>

MayDelete(key, rec, ownerKey) == key \in {rec.by.key, ownerKey}

\* Variant: the data may be in use.
DeleteCodeWhileInUse(key, rec, ownerKey) ==
    IF rec.state = "ABSENT" THEN 404
    ELSE IF ~MayDelete(key, rec, ownerKey) THEN 403
    ELSE IF rec.state \in {"DELETING", "DELETED"} THEN 409 ELSE 200

DeleteCode(key, rec, ownerKey) ==
    IF rec.state = "ABSENT" THEN 404
    ELSE IF ~MayDelete(key, rec, ownerKey) THEN 403
    ELSE IF rec.state # "REGISTERED" THEN 409 ELSE 200

\* DELETE /data/{id}. A failure after the commit leaves the data DELETING, or
\* DELETED in memory.
Delete(w) ==
    /\ Acts(w, "delete") /\ Other
    /\ LET id == Target(Req(w))
           code == DeleteCode(Req(w).key, data[id], job[w].owner)
       IN \/ code # 200 /\ Refuse(w, code)
          \/ code = 200 /\ Fails(w, 500)
          \/ /\ code = 200 /\ faults < This.faults /\ faults' = faults + 1
             /\ \E state \in {"DELETING", "DELETED"} : data' = [data EXCEPT ![id].state = state]
             /\ Reply(w, 500) /\ TakesEffect(w)
             /\ UNCHANGED <<owner, programs>>
          \/ /\ code = 200
             /\ data' = [data EXCEPT ![id].state = "DELETED"]
             /\ Reply(w, 200) /\ TakesEffect(w)
             /\ UNCHANGED <<owner, programs, faults>>

-----------------------------------------------------------------------------
(* POST /execute                                                           *)

\* pr.get: from here on the handler has the binary, whatever becomes of the program.
GetProgram(w) ==
    /\ Acts(w, "execute") /\ Other
    /\ LET p == Req(w).program
       IN \/ p \notin programs /\ Refuse(w, 404)
          \/ p \in programs /\ Fails(w, 500)
          \/ p \in programs /\ Goto(w, "begin") /\ UNCHANGED <<store, faults, took>>

\* What one piece of data has against being used by the program; 0 for nothing.
Objection(rec, program) ==
    IF rec.state = "ABSENT" THEN 404
    ELSE IF program \notin rec.allowed THEN 403
    ELSE IF rec.state = "DELETED" THEN 404
    ELSE IF rec.state = "REGISTERED" THEN 0 ELSE 409

\* beginExecute looks at one piece of data after the other and stops at the
\* first objection.
BeginCode(q) ==
    LET objects == {i \in DOMAIN q.ids : Objection(data[q.ids[i]], q.program) # 0}
        first == CHOOSE i \in objects : \A j \in objects : i <= j
    IN IF objects = {} THEN 0 ELSE Objection(data[q.ids[first]], q.program)

\* All the data or none: the states change together.
BeginExecute(w) ==
    /\ At(w, "begin") /\ Other
    /\ LET q == Req(w)
           code == BeginCode(q)
       IN \/ code # 0 /\ Refuse(w, code)
          \/ code = 0 /\ Fails(w, 500)
          \/ /\ code = 0
             /\ data' = [id \in Ids |-> IF id \in Has(q) THEN [data[id] EXCEPT !.state = "IN_USE"]
                                        ELSE data[id]]
             /\ Goto(w, "run") /\ TakesEffect(w)
             /\ UNCHANGED <<owner, programs, faults>>

\* Variants: the records lose their state; a run that ended with an error keeps
\* its data.
GivenBackStateless(ids, code) ==
    [id \in Ids |-> IF id \in ids THEN [data[id] EXCEPT !.state = ""] ELSE data[id]]
GivenBackOnSuccess(ids, code) ==
    IF code # 200 THEN data
    ELSE [id \in Ids |-> IF id \in ids THEN [data[id] EXCEPT !.state = "REGISTERED"] ELSE data[id]]

GivenBack(ids, code) ==
    [id \in Ids |-> IF id \in ids /\ data[id].state = "IN_USE"
                    THEN [data[id] EXCEPT !.state = "REGISTERED"] ELSE data[id]]

\* run returns, and then the deferred endExecute is called. The answer is complete
\* only when the handler has returned.
Ends(w, code) ==
    /\ At(w, "run") /\ Other
    /\ data' = GivenBack(Has(Req(w)), code)
    /\ Reply(w, code)
    /\ UNCHANGED <<owner, programs, faults, took>>

RunEnds(w) == Ends(w, 200) \/ Ends(w, 400)

\* The deadline of the run passes, or its client hangs up: the program is closed.
RunIsAborted(w) == Ends(w, 400)

-----------------------------------------------------------------------------
(* The answer                                                              *)

Lost(w) == At(w, "reply") /\ UNCHANGED clients

\* What an answer tells the client. One that came before the signature was used
\* up, or that calls it a replay, says nothing of what other deliveries do.
Received(w) ==
    /\ At(w, "reply")
    /\ LET q == Req(w)
           done == job[w].code \in {200, 201}
           certain == job[w].final \/ (q.cmd = "owner" /\ done)
       IN /\ settled' = IF certain /\ q \in sent THEN settled \cup {q} ELSE settled
          /\ refused' = IF certain /\ ~done /\ job[w].code # 500 THEN refused \cup {q} ELSE refused
          /\ denied' = IF done /\ q.cmd = "edit"
                       THEN denied \cup {<<Target(q), p>> : p \in Programs \ q.list} ELSE denied
          /\ gone' = IF done /\ q.cmd = "unload" THEN gone \cup {q.program} ELSE gone
    /\ UNCHANGED sent

Answer(w) ==
    /\ Lost(w) \/ Received(w)
    /\ job' = [job EXCEPT ![w] = Idle]
    /\ UNCHANGED <<mode, store, seen, bounds, took>>

-----------------------------------------------------------------------------

Command(w) ==
    \/ RegisterOwner(w) \/ Upload(w) \/ Unload(w) \/ Register(w) \/ Edit(w) \/ Delete(w)
    \/ GetProgram(w) \/ BeginExecute(w)

\* What a handler does without waiting for anybody.
Handle(w) == Authenticate(w) \/ CheckReplay(w) \/ Command(w) \/ RunIsAborted(w) \/ Answer(w)

Process == \/ Crash \/ Shutdown \/ Exit \/ Boot \/ Serve \/ Tick
           \/ \E id \in Ids : Recover(id)

Next ==
    \/ Process
    \/ \E w \in Workers, q \in This.requests : Accept(w, q)
    \/ \E w \in Workers : Handle(w) \/ RunEnds(w)

Spec == Init /\ [][Next]_vars

-----------------------------------------------------------------------------
(* Properties                                                              *)

Running(w) == At(w, "run")

\* Data is IN_USE exactly while one handler is between beginExecute and its
\* deferred endExecute, however the run ends, whoever hangs up, and whatever
\* edits and deletions are tried meanwhile.
HeldByOneRun ==
    \A id \in Ids :
        Cardinality({w \in Workers : Running(w) /\ id \in Has(Req(w))})
            = IF data[id].state = "IN_USE" THEN 1 ELSE 0

\* A signed command takes effect once at most, however often it is delivered, while
\* handlers purge the cache with the times they have read, and once more for each
\* restart within the window (limitations in SPEC.md). It needs Timely: a handler
\* that is slower may carry the command out again.
EffectOnce ==
    \A q \in This.requests : q.cmd # "owner" =>
        took[q] <= 1 + (IF This.quick THEN stops ELSE 0)

\* A command whose sender was told of a refusal does not take effect later: its
\* signature was used up by the refused attempt (authenticate before the checks)
\* and stays in the cache until no delivery can have read a time in its window. It
\* needs Timely.
RefusedForGood ==
    [][~This.quick => \A q \in refused : q.cmd # "owner" => took'[q] = took[q]]_vars

Begins(w) == At(w, "begin") /\ job'[w].stage = "run"

\* Once an uploader was told that a list without the program is in effect, no
\* execution of the program begins on the data, those on their way included,
\* until the uploader sends a list with it (setAllowedPrograms). It needs Timely:
\* a late second delivery of an older edit would undo the answered one.
EditStands ==
    [][\A w \in Workers : Begins(w) /\ ~This.quick =>
          \A id \in Has(Req(w)) : <<id, Req(w).program>> \notin denied]_vars

\* A program whose deletion was answered is not run for a request that arrives
\* later, unless it is uploaded again; a request that had the binary by then
\* may go on with it (comment of handleExecute). It needs Timely: a late second
\* delivery of the upload would bring the program back.
DeletedProgramStaysOut ==
    \A w \in Workers : Running(w) /\ ~This.quick => Req(w).program \notin job[w].barred

\* A run has the consent of two keys: the owner signed the request, and the
\* uploader of each piece of data once signed a list with the program for it.
RunsByConsent ==
    \A w \in Workers : Running(w) =>
        /\ Req(w).key = owner
        /\ \A id \in Has(Req(w)) : \E q \in This.requests :
              /\ took[q] > 0 /\ q.key = data[id].by.key /\ Req(w).program \in q.list
              /\ q = data[id].by \/ (q.cmd = "edit" /\ Target(q) = id)

=============================================================================
