------------------------------ MODULE ServerProofs ------------------------------
(***************************************************************************)
(* Proofs about Server, for any number of data, programs, keys, requests   *)
(* and handlers, any sessions, and any bound on deliveries, failures and   *)
(* ends of the process.  IInv is inductive; there is one lemma per action, *)
(* with one step per part of the invariant.                                *)
(***************************************************************************)
EXTENDS ServerInvariant, ServerRefinement, FiniteSetTheorems, WellFoundedInduction, TLAPS

-----------------------------------------------------------------------------
(* Types                                                                   *)

\* What a request is, by its type and the assumptions on the sessions.
LEMMA RequestType ==
    ASSUME NEW q \in Requests
    PROVE  /\ q \in Request /\ q # NoRequest
           /\ q.cmd \in Commands /\ q.key \in Keys /\ q.key # NoKey /\ q.stamp \in Nat
           /\ q.form \in {"good", "bad", "large"}
           /\ q.program \in Programs /\ q.list \subseteq Programs /\ Has(q) \subseteq Ids
           /\ q.cmd \in {"edit", "delete"} => Target(q) \in Ids
<1>1. q \in Request /\ q # NoRequest
  BY ServerRequests
<1>2. q.ids \in Seq(Ids) /\ q.key \in Keys
  BY <1>1 DEF Request
<1>3. Has(q) \subseteq Ids
  BY <1>2 DEF Has
<1>4. q.cmd \in {"edit", "delete"} => Target(q) \in Ids
  BY <1>2, ServerTargets DEF Target
<1> QED BY <1>1, <1>2, <1>3, <1>4, ServerKeys DEF Request

\* A session's parameters.
LEMMA SessionType ==
    ASSUME session \in DOMAIN Sessions
    PROVE  /\ This.requests \subseteq Requests
           /\ This.owner \in Keys \cup {NoKey} /\ This.programs \subseteq Programs
           /\ This.quick \in BOOLEAN
           /\ This.ticks \in Nat /\ This.deliveries \in Nat
           /\ This.faults \in Nat /\ This.stops \in Nat
  BY ServerSessions DEF This, Requests

\* Two edits have the same target when they are of the same data.
LEMMA EditTarget ==
    ASSUME NEW q \in Requests, NEW r \in Requests, q.cmd = "edit", r.cmd = "edit"
    PROVE  SameTarget(q, r) <=> Target(q) = Target(r)
<1>1. q.ids \in Seq(Ids) /\ r.ids \in Seq(Ids) /\ Len(q.ids) = 1 /\ Len(r.ids) = 1
  BY ServerRequests, ServerTargets DEF Request
<1>2. q.ids[1] = r.ids[1] => q.ids = r.ids
  BY <1>1
<1>3. Target(q) = q.ids[1] /\ Target(r) = r.ids[1]
  BY <1>1 DEF Target
<1> QED BY <1>2, <1>3 DEF SameTarget

\* The values that memory begins with.
LEMMA IdleType == Idle \in Job /\ Absent \in Record
  BY ServerKeys, ServerRequests DEF Idle, Job, Stages, Absent, Record, States

\* What the handler's record is made of.
LEMMA JobType ==
    ASSUME TypeOK, NEW w \in Workers
    PROVE  /\ job[w] \in Job /\ Req(w) \in Requests \cup {NoRequest}
           /\ job[w].stage \in Stages /\ job[w].owner \in Keys \cup {NoKey}
           /\ job[w].read \in Nat /\ job[w].code \in Nat
           /\ job[w].final \in BOOLEAN /\ job[w].barred \subseteq Programs
<1>1. job[w] \in Job
  BY DEF TypeOK
<1> QED BY <1>1 DEF Job, Req

\* A step of one handler within a command.
Moves(w) ==
    /\ \A v \in Workers : v # w => job'[v] = job[v]
    /\ job'[w].req = job[w].req /\ job'[w].owner = job[w].owner
    /\ job'[w].final = job[w].final /\ job'[w].barred = job[w].barred

\* A handler goes on to a stage, or answers.
LEMMA MovesOn ==
    ASSUME TypeOK, NEW w \in Workers, NEW stage \in Stages, NEW code \in Nat,
           Goto(w, stage) \/ (stage = "reply" /\ Reply(w, code))
    PROVE  /\ job' \in [Workers -> Job] /\ Moves(w) /\ job'[w].stage = stage
           /\ Reply(w, code) => job'[w].code = code
<1>1. job \in [Workers -> Job]
  BY DEF TypeOK
<1>2. CASE Goto(w, stage)
  <2>1. job' = [job EXCEPT ![w].stage = stage] /\ job[w] \in Job
    BY <1>1, <1>2 DEF Goto
  <2>2. job' \in [Workers -> Job]
    BY <1>1, <2>1 DEF Job
  <2>3. Moves(w) /\ job'[w].stage = stage /\ job'[w].code = job[w].code
    BY <1>1, <2>1 DEF Job, Moves
  <2>4. Reply(w, code) => job'[w].code = code
    BY <1>1, <2>1 DEF Reply, Job
  <2> QED BY <2>2, <2>3, <2>4
<1>3. CASE stage = "reply" /\ Reply(w, code)
  <2>1. job' = [job EXCEPT ![w].stage = "reply", ![w].code = code] /\ job[w] \in Job
    BY <1>1, <1>3 DEF Reply
  <2> DEFINE answered == [[job[w] EXCEPT !.stage = "reply"] EXCEPT !.code = code]
  <2>2. job' \in [Workers -> Job]
    <3>1. answered \in Job
      BY <2>1 DEF Job, Stages
    <3>2. job' = [job EXCEPT ![w] = answered]
      BY <1>1, <2>1
    <3> QED BY <1>1, <3>1, <3>2
  <2>3. Moves(w) /\ job'[w].stage = stage /\ job'[w].code = code
    BY <1>1, <1>3, <2>1 DEF Job, Moves
  <2> QED BY <2>2, <2>3
<1> QED BY <1>2, <1>3

\* The codes with which commands are answered.
LEMMA EditCodeType ==
    ASSUME TypeOK, NEW id \in Ids, NEW key
    PROVE  /\ EditCode(key, data[id]) \in {200, 403, 404, 409}
           /\ EditCode(key, data[id]) = 200 =>
                data[id].state \in {"REGISTERED", "IN_USE"} /\ key = data[id].by.key
<1>1. data[id].state \in States
  BY DEF TypeOK, Record
<1> QED BY <1>1 DEF EditCode, MayEdit, States

LEMMA DeleteCodeType ==
    ASSUME NEW id \in Ids, NEW key, NEW ownerKey
    PROVE  /\ DeleteCode(key, data[id], ownerKey) \in {200, 403, 404, 409}
           /\ DeleteCode(key, data[id], ownerKey) = 200 => data[id].state = "REGISTERED"
  BY DEF DeleteCode

LEMMA ObjectionType ==
    ASSUME NEW id \in Ids, NEW program
    PROVE  /\ Objection(data[id], program) \in {0, 403, 404, 409}
           /\ Objection(data[id], program) = 0 =>
                data[id].state = "REGISTERED" /\ program \in data[id].allowed
  BY DEF Objection

\* beginExecute looks at all the data: when it finds no objection there is none, and
\* otherwise it answers with one of them.
LEMMA BeginCodeIsObjection ==
    ASSUME TypeOK, NEW q \in Requests
    PROVE  /\ BeginCode(q) \in {0, 403, 404, 409}
           /\ BeginCode(q) = 0 => \A id \in Has(q) :
                data[id].state = "REGISTERED" /\ q.program \in data[id].allowed
<1> DEFINE objects == {i \in DOMAIN q.ids : Objection(data[q.ids[i]], q.program) # 0}
           first == CHOOSE i \in objects : \A j \in objects : i <= j
<1>1. q.ids \in Seq(Ids) /\ DOMAIN q.ids \subseteq Nat
  BY ServerRequests DEF Request
<1>2. \A i \in DOMAIN q.ids : q.ids[i] \in Ids
  BY <1>1
<1>3. BeginCode(q) = IF objects = {} THEN 0 ELSE Objection(data[q.ids[first]], q.program)
  BY DEF BeginCode
<1>4. \A i \in DOMAIN q.ids :
        /\ Objection(data[q.ids[i]], q.program) \in {0, 403, 404, 409}
        /\ Objection(data[q.ids[i]], q.program) = 0 =>
             data[q.ids[i]].state = "REGISTERED" /\ q.program \in data[q.ids[i]].allowed
  BY <1>2, ObjectionType
<1>5. CASE objects = {}
  BY <1>3, <1>4, <1>5 DEF Has
<1>6. CASE objects # {}
  <2>1. \E i \in objects : \A j \in objects : ~(<<j, i>> \in OpToRel(<, Nat))
    <3>1. objects \subseteq Nat
      BY <1>1
    <3> HIDE DEF objects
    <3> QED BY ONLY <1>6, <3>1, WFMin, NatLessThanWellFounded
  <2>2. \E i \in objects : \A j \in objects : i <= j
    <3>1. \A i, j \in Nat : <<j, i>> \notin OpToRel(<, Nat) => i <= j
      BY DEF OpToRel
    <3>2. objects \subseteq Nat
      BY <1>1
    <3> HIDE DEF objects
    <3> QED BY <2>1, <3>1, <3>2
  <2>3. first \in objects
    BY <2>2
  <2>4. first \in DOMAIN q.ids /\ Objection(data[q.ids[first]], q.program) # 0
    BY <2>3
  <2>5. Objection(data[q.ids[first]], q.program) \in {0, 403, 404, 409}
    BY <1>4, <2>4
  <2> HIDE DEF objects, first
  <2> QED BY <1>3, <1>6, <2>4, <2>5
<1> QED BY <1>5, <1>6

\* The session is chosen once.
LEMMA ThisStays == session' = session => This' = This
  BY DEF This

\* A handler that takes a step in a command is at work on one of the session's requests.
Working(w) == Req(w) \in This.requests /\ Req(w) \in Requests

\* What checkReplay does to the cache and to the handler, told apart by its outcome.
LEMMA CheckReplayType ==
    ASSUME TypeOK, NEW w \in Workers, CheckReplay(w), NEW q, q = Req(w), q \in This.requests,
           NEW read, read = job[w].read
    PROVE  /\ job' \in [Workers -> Job] /\ seen' \in [This.requests -> Nat]
           /\ \A v \in Workers : v # w => job'[v] = job[v]
           /\ job'[w].req = q /\ job'[w].owner = job[w].owner /\ job'[w].barred = job[w].barred
           /\ job'[w].stage \in {"act", "reply"} /\ job'[w].code \in {0, 400, 401, 403}
           /\ job'[w].stage = "act" => q.cmd \notin OwnerOnly \/ q.key = job[w].owner
           /\ \A r \in This.requests : r # q =>
                seen'[r] = IF read > seen[r] THEN 0 ELSE seen[r]
           /\ \/ /\ ~job'[w].final /\ job'[w].stage = "reply"
                 /\ seen[q] # 0 /\ seen'[q] = seen[q]
              \/ /\ job'[w].final /\ (seen[q] = 0 \/ read > seen[q])
                 /\ seen'[q] = read + 2 * Window /\ seen'[q] # 0
<1> DEFINE code == IF Replayed(q, read) THEN 401
                   ELSE IF q.cmd \in OwnerOnly /\ q.key # job[w].owner THEN 403
                   ELSE IF q.form = "bad" /\ q.cmd \in Decoded THEN 400 ELSE 0
           stage == IF code = 0 THEN "act" ELSE "reply"
<1>1. job \in [Workers -> Job] /\ seen \in [This.requests -> Nat] /\ read \in Nat
  BY JobType DEF TypeOK
<1>2. /\ code \in {0, 400, 401, 403} /\ stage \in {"act", "reply"}
      /\ stage = "act" => q.cmd \notin OwnerOnly \/ q.key = job[w].owner
      /\ Replayed(q, read) => stage = "reply"
  OBVIOUS
<1>3. PICK fresh \in BOOLEAN : fresh = ~Replayed(q, read)
  OBVIOUS
<1>4. /\ seen' = IF Replayed(q, read) THEN Purged(read) ELSE Entered(q, read)
      /\ job' = [job EXCEPT ![w].stage = stage, ![w].read = 0, ![w].code = code,
                            ![w].final = fresh]
  BY <1>3 DEF CheckReplay
<1>5. /\ Purged(read) \in [This.requests -> Nat]
      /\ \A r \in This.requests : Purged(read)[r] = IF read > seen[r] THEN 0 ELSE seen[r]
      /\ Replayed(q, read) <=> ~(read > seen[q]) /\ seen[q] # 0
  BY <1>1 DEF Purged, Replayed
<1>6. /\ read + Retention \in Nat /\ read + Retention = read + 2 * Window
      /\ read + Retention # 0
  BY <1>1, ServerWindow DEF Retention
<1> HIDE DEF code, stage
<1>7. /\ job' \in [Workers -> Job] /\ \A v \in Workers : v # w => job'[v] = job[v]
      /\ job'[w].req = q /\ job'[w].owner = job[w].owner /\ job'[w].barred = job[w].barred
      /\ job'[w].stage = stage /\ job'[w].code = code /\ job'[w].final = fresh
  <2>1. stage \in Stages /\ code \in Nat
    BY <1>2 DEF Stages
  <2>2. job[w] \in Job
    BY <1>1
  <2>3. PICK next : next = [job[w] EXCEPT !.stage = stage, !.read = 0, !.code = code,
                                          !.final = fresh]
    OBVIOUS
  <2>4. /\ next \in Job /\ next.req = job[w].req /\ next.owner = job[w].owner
        /\ next.barred = job[w].barred /\ next.stage = stage /\ next.code = code
        /\ next.final = fresh
    BY <2>1, <2>2, <2>3 DEF Job
  <2>5. job' = [job EXCEPT ![w] = next]
    BY <1>1, <1>4, <2>3
  <2> QED BY <1>1, <2>4, <2>5 DEF Req
<1>8. CASE Replayed(q, read)
  <2>1. seen' = Purged(read) /\ ~job'[w].final /\ job'[w].stage = "reply"
    BY <1>2, <1>3, <1>4, <1>7, <1>8
  <2>2. seen[q] # 0 /\ seen'[q] = seen[q] /\ seen' \in [This.requests -> Nat]
        /\ \A r \in This.requests : seen'[r] = IF read > seen[r] THEN 0 ELSE seen[r]
    BY <1>1, <1>5, <1>8, <2>1
  <2> QED BY <1>2, <1>7, <2>1, <2>2
<1>9. CASE ~Replayed(q, read)
  <2>1. seen' = [Purged(read) EXCEPT ![q] = read + Retention] /\ job'[w].final
    BY <1>3, <1>4, <1>7, <1>9 DEF Entered
  <2>2. /\ seen' \in [This.requests -> Nat] /\ seen'[q] = read + 2 * Window /\ seen'[q] # 0
        /\ \A r \in This.requests : r # q => seen'[r] = Purged(read)[r]
    BY <1>5, <1>6, <2>1
  <2>3. /\ seen[q] = 0 \/ read > seen[q]
        /\ \A r \in This.requests : r # q => seen'[r] = IF read > seen[r] THEN 0 ELSE seen[r]
    BY <1>5, <1>9, <2>2
  <2> QED BY <1>2, <1>7, <2>1, <2>2, <2>3
<1> QED BY <1>8, <1>9

\* Every step of a command or of the process keeps every variable within its type.
LEMMA TypeStep ==
    ASSUME TypeOK, [Next]_vars, \A w \in Workers : HandlerInv(w)
    PROVE  TypeOK'
<1> USE SessionType, ThisStays, IdleType DEF TypeOK, store, bounds, clients
<1>w. ASSUME NEW w \in Workers, ~At(w, "idle") PROVE Working(w)
  BY <1>w, JobType DEF HandlerInv, Working
<1>1. CASE Crash \/ Exit
  <2>1. Stop
    BY <1>1 DEF Crash, Exit
  <2>2. \A id \in Ids : [data[id] EXCEPT !.state = "REGISTERED"] \in Record
    BY DEF Record, States
  <2>3. data' \in [Ids -> Record] /\ job' \in [Workers -> Job]
    BY <2>1, <2>2 DEF Stop
  <2> QED BY <2>1, <2>3 DEF Stop
<1>2. CASE Shutdown \/ Boot \/ Serve \/ Tick
  BY <1>2 DEF Shutdown, Boot, Serve, Tick
<1>3. ASSUME NEW id \in Ids, Recover(id) PROVE TypeOK'
  BY <1>3 DEF Recover, Record, States
<1>4. ASSUME NEW w \in Workers, NEW q \in This.requests, Accept(w, q) PROVE TypeOK'
  <2>1. q \in Requests /\ q.program \in Programs
    BY RequestType
  <2>2. job' \in [Workers -> Job]
    <3> DEFINE code == IF q.form = "large" THEN 413
                       ELSE IF q.cmd # "owner" /\ owner = NoKey THEN 403 ELSE 0
               stage == IF code # 0 THEN "reply" ELSE IF q.cmd = "owner" THEN "act" ELSE "auth"
    <3>1. code \in Nat /\ stage \in Stages
      BY DEF Stages
    <3>2. \A v \in Workers : [job[v] EXCEPT !.barred = @ \ Reopened(q)] \in Job
      BY DEF Job
    <3>3. [req |-> q, stage |-> stage, owner |-> owner, read |-> 0, code |-> code,
           final |-> FALSE, barred |-> gone] \in Job
      BY <2>1, <3>1 DEF Job
    <3> HIDE DEF code, stage
    <3>4. job' = [v \in Workers |->
                    IF v # w THEN [job[v] EXCEPT !.barred = @ \ Reopened(q)]
                    ELSE [req |-> q, stage |-> stage, owner |-> owner, read |-> 0, code |-> code,
                          final |-> FALSE, barred |-> gone]]
      BY <1>4 DEF Accept, code, stage
    <3> QED BY <3>2, <3>3, <3>4
  <2>3. UNCHANGED <<session, mode, store, seen, now, faults, stops, took, settled, refused>>
        /\ deliveries' = deliveries + 1 /\ sent' \in {sent, sent \cup {q}}
        /\ denied' \subseteq denied /\ gone' \subseteq gone
    BY <1>4 DEF Accept
  <2> QED BY <2>1, <2>2, <2>3
<1>5. ASSUME NEW w \in Workers, Authenticate(w) PROVE TypeOK'
  <2>1. Working(w)
    BY <1>5, <1>w DEF Authenticate, At
  <2>2. job' \in [Workers -> Job]
    BY <1>5 DEF Authenticate, Reply, Job, Stages
  <2> QED BY <1>5, <2>1, <2>2 DEF Authenticate, Working
<1>6. ASSUME NEW w \in Workers, RegisterOwner(w) PROVE TypeOK'
  <2>1. Working(w) /\ Req(w).key \in Keys
    BY <1>6, <1>w, RequestType DEF RegisterOwner, Acts, At, Working
  <2>2. job' \in [Workers -> Job]
    BY <1>6, MovesOn DEF RegisterOwner, Refuse, Fails, Stages
  <2> QED BY <1>6, <2>1, <2>2 DEF RegisterOwner, Other, Refuse, Fails, TakesEffect, Working
<1>7. ASSUME NEW w \in Workers, Upload(w) PROVE TypeOK'
  <2>1. Working(w) /\ Req(w).program \in Programs
    BY <1>7, <1>w, RequestType DEF Upload, Acts, At, Working
  <2>2. job' \in [Workers -> Job]
    BY <1>7, MovesOn DEF Upload, Fails, Stages
  <2> QED BY <1>7, <2>1, <2>2 DEF Upload, Other, Fails, TakesEffect, Working
<1>8. ASSUME NEW w \in Workers, Unload(w) PROVE TypeOK'
  <2>1. Working(w)
    BY <1>8, <1>w DEF Unload, Acts, At
  <2>2. job' \in [Workers -> Job]
    BY <1>8, MovesOn DEF Unload, Refuse, Fails, Stages
  <2> QED BY <1>8, <2>1, <2>2 DEF Unload, Unloaded, Other, Refuse, Fails, TakesEffect, Working
<1>9. ASSUME NEW w \in Workers, Register(w) PROVE TypeOK'
  <2>1. Working(w) /\ Req(w).list \subseteq Programs
    BY <1>9, <1>w, RequestType DEF Register, Acts, At, Working
  <2>2. job' \in [Workers -> Job]
    BY <1>9, MovesOn DEF Register, Fails, Stages
  <2>3. [state |-> "REGISTERED", by |-> Req(w), allowed |-> Req(w).list] \in Record
    BY <2>1 DEF Record, States, Working
  <2> QED BY <1>9, <2>1, <2>2, <2>3 DEF Register, Other, Fails, TakesEffect, Working
<1>10. ASSUME NEW w \in Workers, Edit(w) PROVE TypeOK'
  <2>1. Working(w) /\ Req(w).list \subseteq Programs /\ Target(Req(w)) \in Ids
    BY <1>10, <1>w, RequestType DEF Edit, Acts, At, Working
  <2>2. job' \in [Workers -> Job]
    BY <1>10, <2>1, MovesOn, EditCodeType DEF Edit, Refuse, Fails, Stages
  <2>3. Edited(data[Target(Req(w))], Req(w).list) \in Record
    BY <2>1 DEF Edited, Record
  <2> QED BY <1>10, <2>1, <2>2, <2>3 DEF Edit, Other, Refuse, Fails, TakesEffect, Working
<1>11. ASSUME NEW w \in Workers, Delete(w) PROVE TypeOK'
  <2>1. Working(w) /\ Target(Req(w)) \in Ids
    BY <1>11, <1>w, RequestType DEF Delete, Acts, At, Working
  <2>2. job' \in [Workers -> Job]
    BY <1>11, <2>1, MovesOn, DeleteCodeType DEF Delete, Refuse, Fails, Stages
  <2>3. \A state \in {"DELETING", "DELETED"} :
          [data EXCEPT ![Target(Req(w))].state = state] \in [Ids -> Record]
    BY <2>1 DEF Record, States
  <2> QED BY <1>11, <2>1, <2>2, <2>3 DEF Delete, Other, Refuse, Fails, TakesEffect, Working
<1>12. ASSUME NEW w \in Workers, GetProgram(w) PROVE TypeOK'
  <2>1. job' \in [Workers -> Job]
    BY <1>12, MovesOn DEF GetProgram, Refuse, Fails, Stages
  <2> QED BY <1>12, <2>1 DEF GetProgram, Other, Refuse, Fails
<1>13. ASSUME NEW w \in Workers, BeginExecute(w) PROVE TypeOK'
  <2>1. Working(w)
    BY <1>13, <1>w DEF BeginExecute, At
  <2>2. job' \in [Workers -> Job]
    BY <1>13, <2>1, MovesOn, BeginCodeIsObjection
       DEF BeginExecute, Refuse, Fails, Stages, Working
  <2>3. \A id \in Ids : [data[id] EXCEPT !.state = "IN_USE"] \in Record
    BY DEF Record, States
  <2> QED BY <1>13, <2>1, <2>2, <2>3
          DEF BeginExecute, Other, Refuse, Fails, TakesEffect, Working
<1>14. ASSUME NEW w \in Workers, NEW code \in {200, 400}, Ends(w, code) PROVE TypeOK'
  <2>1. job' \in [Workers -> Job]
    BY <1>14, MovesOn DEF Ends, Stages
  <2>2. \A id \in Ids : [data[id] EXCEPT !.state = "REGISTERED"] \in Record
    BY DEF Record, States
  <2> QED BY <1>14, <2>1, <2>2 DEF Ends, GivenBack, Other
<1>15. ASSUME NEW w \in Workers, Answer(w) PROVE TypeOK'
  <2>1. Working(w) /\ (Req(w).cmd \in {"edit", "delete"} => Target(Req(w)) \in Ids)
        /\ Req(w).program \in Programs
    BY <1>15, <1>w, RequestType DEF Answer, Lost, Received, At, Working
  <2> QED BY <1>15, <2>1 DEF Answer, Lost, Received, Working
<1>16. CASE UNCHANGED vars
  BY <1>16 DEF vars
<1>17. ASSUME NEW w \in Workers, CheckReplay(w) PROVE TypeOK'
  <2>1. UNCHANGED <<mode, store, bounds, took, clients>> /\ This' = This
    BY <1>17 DEF CheckReplay
  <2>2. Req(w) \in This.requests
    BY <1>17, <1>w DEF CheckReplay, At, Working
  <2>3. job' \in [Workers -> Job] /\ seen' \in [This.requests -> Nat]
    BY <1>17, <2>2, CheckReplayType
  <2> QED BY <2>1, <2>3
<1> QED
  BY <1>1, <1>2, <1>3, <1>4, <1>5, <1>6, <1>7, <1>8, <1>9, <1>10, <1>11, <1>12, <1>13, <1>14,
     <1>15, <1>16, <1>17
     DEF Next, Process, Handle, Command, RunEnds, RunIsAborted

-----------------------------------------------------------------------------
(* Calls of the managers                                                   *)

\* What all calls have in common: the handler w goes on or answers, its request takes
\* effect once or not at all, and signatures and clients are not concerned.
Calls(w) ==
    /\ Moves(w) /\ job[w].stage \in {"act", "begin", "run"}
    /\ job'[w].stage \in {"begin", "run", "reply"}
    /\ job'[w].stage # "reply" => Req(w).cmd = "execute" /\ job[w].stage # "run"
    /\ UNCHANGED <<session, mode, seen, now, stops, clients>>
    /\ owner' = owner \/ owner = NoKey
    /\ took' = took \/ (TakesEffect(w) /\ job[w].stage # "run" /\ job'[w].stage # "begin")

\* The handler's own part of the invariant.
LEMMA CallsHandler ==
    ASSUME IInv, TypeOK', NEW w \in Workers, Calls(w), NEW v \in Workers
    PROVE  HandlerInv(v)' /\ TimeInv(v)'
<1> USE DEF IInv, Calls, Moves
<1>1. HandlerInv(v) /\ TimeInv(v) /\ This' = This /\ sent' = sent
  BY ThisStays DEF clients
<1>2. CASE v # w
  <2>1. HandlerInv(v)'
    BY <1>1, <1>2 DEF HandlerInv, At, Req, Done
  <2>2. TimeInv(v)'
    BY <1>1, <1>2 DEF TimeInv, At, Req
  <2> QED BY <2>1, <2>2
<1>3. CASE v = w
  <2>1. Req(w) # NoRequest /\ Req(w)' = Req(w)
    BY <1>1, <1>3 DEF HandlerInv, At, Req, Idle
  <2>2. HandlerInv(v)'
    BY <1>1, <1>3, <2>1 DEF HandlerInv, At, Req, Done
  <2>3. TimeInv(v)'
    BY <1>3 DEF TimeInv, At
  <2> QED BY <2>2, <2>3
<1> QED BY <1>2, <1>3

\* A call changes nothing in what signatures and clients say.
LEMMA CallsSignatures ==
    ASSUME IInv, TypeOK', NEW w \in Workers, Calls(w)
    PROVE  /\ ProcessInv' /\ CacheInv'
           /\ (\A q : Open(q)' <=> Open(q)) /\ (\A q : Closed(q)' <=> Closed(q))
           /\ SpentInv => SpentInv'
           /\ OneIsFinal => OneIsFinal'
           /\ RefusedInv => RefusedInv'
           /\ SentInv => SentInv'
<1> USE DEF IInv, Calls, Moves
<1>1. This' = This
  BY ThisStays
<1>2. \A v \in Workers : Req(v)' = Req(v) /\ job'[v].final = job[v].final
                         /\ (At(v, "replay")' <=> At(v, "replay"))
  BY DEF Req, At
<1>3. OneIsFinal => OneIsFinal'
  BY <1>2 DEF OneIsFinal
<1>4. ProcessInv' /\ CacheInv'
  <2>1. mode \notin {"boot", "down"}
    BY DEF ProcessInv, Idle
  <2> QED BY <1>1, <2>1 DEF ProcessInv, CacheInv, clients
<1>5. \A q : Closed(q)' <=> Closed(q)
  BY <1>2 DEF Closed, Dead
<1>6. \A q : Open(q)' <=> Open(q)
  BY <1>2, <1>5 DEF Open
<1>7. SpentInv => SpentInv'
  BY <1>2, <1>5 DEF SpentInv
<1>8. RefusedInv => RefusedInv'
  BY <1>6 DEF RefusedInv, clients
<1>9. SentInv => SentInv'
  BY <1>6 DEF SentInv, clients, SameTarget
<1> QED BY <1>3, <1>4, <1>5, <1>6, <1>7, <1>8, <1>9

\* A request that takes effect was pending, and is so no more.
LEMMA CallsEffect ==
    ASSUME IInv, TypeOK', NEW w \in Workers, Calls(w)
    PROVE  /\ Timely => EffectInv'
           /\ \A q \in This.requests : took'[q] >= took[q]
<1> USE DEF IInv, Calls, Moves
<1>1. This' = This /\ Before' = Before
  BY ThisStays DEF Before
<1>2. took \in [This.requests -> Nat] /\ Before \in Nat
  BY SessionType DEF TypeOK, Before
<1>3. Req(w) \in This.requests /\ (Req(w).cmd # "owner" => job[w].final)
  BY DEF HandlerInv, At, Req, Idle
<1>4. \A q \in This.requests : took'[q] >= took[q]
  BY <1>2, <1>3 DEF TakesEffect
<1>5. mode # "down"
  BY DEF ProcessInv, Idle
<1>6. ASSUME Timely, NEW q \in This.requests, q.cmd # "owner"
      PROVE  /\ took'[q] <= 1 + Before
             /\ ~Closed(q)' => took'[q] <= Before
             /\ \A v \in Workers : Req(v)' = q /\ Pending(v)' => took'[q] <= Before
  <2>1. Closed(q)' <=> Closed(q)
    BY CallsSignatures
  <2>2. CASE took'[q] = took[q]
    <3>1. \A v \in Workers : Req(v)' = q /\ Pending(v)' => Req(v) = q /\ Pending(v)
      BY <1>3, <1>6 DEF Pending, Req
    <3> QED BY <1>6, <2>1, <2>2, <3>1 DEF SignatureInv, EffectInv
  <2>3. CASE took'[q] # took[q]
    <3>1. q = Req(w) /\ took'[q] = took[q] + 1
      BY <1>2, <1>3, <2>3 DEF TakesEffect
    <3>2. Pending(w) /\ job[w].final
      BY <1>3, <1>6, <2>3, <3>1 DEF Pending
    <3>3. took[q] <= Before
      BY <1>6, <3>1, <3>2 DEF SignatureInv, EffectInv
    <3>4. Closed(q)
      BY <1>6, <3>1, <3>2 DEF SignatureInv, SpentInv
    <3>5. \A v \in Workers : Req(v)' = q => ~Pending(v)'
      <4>1. ~Pending(w)'
        BY <2>3 DEF Pending
      <4>2. \A v \in Workers : job'[v].final /\ Req(v)' = q => v = w
        BY <1>6, <3>1, <3>2 DEF SignatureInv, OneIsFinal, Req
      <4> QED BY <4>1, <4>2 DEF Pending
    <3> QED BY <1>2, <2>1, <3>1, <3>3, <3>4, <3>5
  <2> QED BY <2>2, <2>3
<1> QED BY <1>1, <1>4, <1>5, <1>6 DEF EffectInv

\* Consent that was given stays given while the uploader is the same.
LEMMA ConsentStays ==
    ASSUME TypeOK, session' = session, \A q \in This.requests : took'[q] >= took[q],
           took' \in [This.requests -> Nat],
           NEW id \in Ids, data'[id].by = data[id].by, NEW program, Consented(id, program)
    PROVE  Consented(id, program)'
<1>1. This' = This /\ took \in [This.requests -> Nat]
  BY ThisStays DEF TypeOK
<1>2. PICK q \in This.requests :
         /\ took[q] > 0 /\ q.key = data[id].by.key /\ program \in q.list
         /\ q = data[id].by \/ (q.cmd = "edit" /\ Target(q) = id)
  BY DEF Consented
<1>3. took'[q] > 0
  BY <1>1, <1>2
<1> QED BY <1>1, <1>2, <1>3 DEF Consented

\* The registration and the list of each piece of data are as they were.
ListsKept ==
    \A id \in Ids :
        /\ data'[id].by = data[id].by /\ data'[id].allowed = data[id].allowed
        /\ data'[id].state = "ABSENT" <=> data[id].state = "ABSENT"

\* And it is in use exactly if it was.
DataKept == ListsKept /\ \A id \in Ids : data'[id].state = "IN_USE" <=> data[id].state = "IN_USE"

\* A call that keeps the lists.
LEMMA CallsKeepLists ==
    ASSUME IInv, TypeOK', NEW w \in Workers, Calls(w), ListsKept
    PROVE  /\ \A id \in Ids : \A program : Consented(id, program) => Consented(id, program)'
           /\ \A id \in Ids : data'[id].state # "ABSENT" =>
                 \A program \in data'[id].allowed : Consented(id, program)'
           /\ DeniedInv => DeniedInv'
<1> USE DEF IInv, Calls, ListsKept
<1>1. This' = This /\ took' \in [This.requests -> Nat]
  BY ThisStays DEF TypeOK
<1>2. ASSUME NEW id \in Ids, NEW program, Consented(id, program) PROVE Consented(id, program)'
  BY <1>1, <1>2, CallsEffect, ConsentStays
<1>3. \A id \in Ids : data'[id].state # "ABSENT" =>
         \A program \in data'[id].allowed : Consented(id, program)'
  BY <1>2 DEF ConsentInv
<1>4. DeniedInv => DeniedInv'
  BY CallsSignatures DEF DeniedInv, clients
<1> QED BY <1>2, <1>3, <1>4

\* Who holds what is not concerned by calls outside of executions.
LEMMA CallsKeepHolds ==
    ASSUME NEW w \in Workers, Calls(w), job[w].stage # "run", job'[w].stage # "run",
           HeldInv, \A id \in Ids : data'[id].state = "IN_USE" <=> data[id].state = "IN_USE"
    PROVE  /\ HeldInv'
           /\ \A v \in Workers : \A id : Holds(v, id)' <=> Holds(v, id)
           /\ \A v \in Workers : Req(v)' = Req(v)
<1>1. \A v \in Workers : Req(v)' = Req(v)
  BY DEF Calls, Moves, Req
<1>2. \A v \in Workers : \A id : Holds(v, id)' <=> Holds(v, id)
  BY <1>1 DEF Calls, Moves, Holds, Running, At
<1> QED BY <1>1, <1>2 DEF HeldInv

\* The promises of the registry, after a call that adds no program.
LEMMA CallsKeepPrograms ==
    ASSUME IInv, TypeOK', NEW w \in Workers, Calls(w), programs' \subseteq programs,
           job[w].stage = "act" /\ job'[w].stage # "reply" => Req(w).program \in programs
    PROVE  /\ GoneInv => GoneInv'
           /\ GoneInv /\ BarredInv => BarredInv'
<1> USE DEF IInv, Calls, Moves
<1>1. GoneInv => GoneInv'
  BY CallsSignatures DEF GoneInv, clients
<1>2. ASSUME GoneInv, BarredInv, NEW v \in Workers
      PROVE  /\ Req(v)' # NoRequest /\ Req(v).cmd' = "execute" => job'[v].barred \subseteq gone'
             /\ job'[v].stage \in {"begin", "run"} => Req(v).program' \notin job'[v].barred
  <2>1. Req(v)' = Req(v) /\ job'[v].barred = job[v].barred /\ gone' = gone
    BY DEF Req, clients
  <2>2. CASE job[v].stage \in {"begin", "run"} \/ job'[v].stage \notin {"begin", "run"}
    BY <1>2, <2>1, <2>2 DEF BarredInv
  <2>3. CASE job[v].stage \notin {"begin", "run"} /\ job'[v].stage \in {"begin", "run"}
    <3>1. v = w /\ job[w].stage = "act" /\ Req(w).cmd = "execute" /\ Req(w) # NoRequest
      BY <2>3 DEF HandlerInv, At, Req, Idle
    <3>2. Req(w).program \notin gone
      BY <1>2, <2>3, <3>1 DEF GoneInv
    <3> QED BY <1>2, <2>1, <3>1, <3>2 DEF BarredInv
  <2> QED BY <2>2, <2>3
<1> QED BY <1>1, <1>2 DEF BarredInv

\* The answers on their way, after a call that does not answer for what it changed.
LEMMA CallsKeepReplies ==
    ASSUME IInv, TypeOK', NEW w \in Workers, Calls(w), ListsKept, programs' \subseteq programs,
           Done(w)' => /\ Req(w).cmd # "edit"
                       /\ Req(w).cmd = "unload" => Req(w).program \notin programs'
    PROVE  ReplyInv => ReplyInv'
<1> USE DEF IInv, Calls, Moves
<1>1. SUFFICES ASSUME ReplyInv, NEW v \in Workers, Done(v)'
               PROVE  LET q == Req(v)'
                      IN /\ q.cmd = "edit" => data'[Target(q)].state # "ABSENT"
                                              /\ data'[Target(q)].allowed = q.list
                         /\ q.cmd = "unload" => q.program \notin programs'
  BY DEF ReplyInv
<1>2. Req(v)' = Req(v)
  BY DEF Req
<1>3. CASE v = w
  BY <1>1, <1>2, <1>3
<1>4. CASE v # w
  <2>1. Done(v)
    BY <1>1, <1>4 DEF Done, At
  <2>2. Req(v).cmd = "edit" => Target(Req(v)) \in Ids
    BY <2>1, RequestType, SessionType DEF HandlerInv, Done, At, Req, Idle, TypeOK
  <2> QED BY <1>1, <1>2, <2>1, <2>2 DEF ReplyInv, ListsKept
<1> QED BY <1>3, <1>4

\* A call outside of executions that keeps the data and adds no program.
LEMMA PlainCall ==
    ASSUME IInv, TypeOK', NEW w \in Workers, Calls(w), DataKept, programs' \subseteq programs,
           job[w].stage # "run", job'[w].stage # "run",
           job[w].stage = "act" /\ job'[w].stage # "reply" => Req(w).program \in programs,
           Done(w)' => /\ Req(w).cmd # "edit"
                       /\ Req(w).cmd = "unload" => Req(w).program \notin programs'
    PROVE  IInv'
<1>1. This' = This
  BY ThisStays DEF Calls
<1>2. HeldInv' /\ ConsentInv' /\ (DeniedInv => DeniedInv')
  BY CallsKeepHolds, CallsKeepLists DEF IInv, DataKept, ConsentInv, ListsKept
<1> QED
  BY <1>1, <1>2, CallsHandler, CallsSignatures, CallsEffect, CallsKeepPrograms, CallsKeepReplies
     DEF IInv, SignatureInv, AnswersInv, DataKept

-----------------------------------------------------------------------------
(* The steps of handlers                                                   *)

\* A call that has changed nothing keeps the invariant, whatever its code.
LEMMA RefusalStep ==
    ASSUME IInv, TypeOK', NEW w \in Workers, NEW code \in Nat \ {200, 201}, Other, Reply(w, code),
           UNCHANGED <<store, took>>, job[w].stage \in {"act", "begin"}
    PROVE  IInv'
<1>1. Moves(w) /\ job'[w].stage = "reply" /\ job'[w].code = code
  BY MovesOn DEF IInv, Stages
<1>2. Calls(w) /\ ~Done(w)' /\ DataKept
  BY <1>1 DEF Calls, Other, store, Done, DataKept, ListsKept
<1> QED BY <1>1, <1>2, PlainCall DEF store

\* The first key that is registered is the owner's; nothing else depends on it yet.
LEMMA RegisterOwnerStep ==
    ASSUME IInv, TypeOK', NEW w \in Workers, RegisterOwner(w)
    PROVE  IInv'
<1>1. job[w].stage = "act" /\ Req(w).cmd = "owner" /\ Other
  BY DEF RegisterOwner, Acts, At
<1>2. CASE \E code \in {400, 409} : Refuse(w, code) \/ Fails(w, code)
  BY <1>1, <1>2, RefusalStep DEF Refuse, Fails
<1>3. CASE /\ owner = NoKey /\ Reply(w, 201) /\ TakesEffect(w)
           /\ UNCHANGED <<programs, data>>
  <2>1. Moves(w) /\ job'[w].stage = "reply"
    BY <1>3, MovesOn DEF IInv, Stages
  <2>2. Calls(w) /\ DataKept
    BY <1>1, <1>3, <2>1 DEF Calls, Other, DataKept, ListsKept
  <2> QED BY <1>1, <1>3, <2>1, <2>2, PlainCall
<1> QED BY <1>2, <1>3 DEF RegisterOwner

\* A program that is uploaded is not one that an upload on its way was to bring back.
LEMMA UploadStep ==
    ASSUME IInv, TypeOK', NEW w \in Workers, Upload(w)
    PROVE  IInv'
<1>1. job[w].stage = "act" /\ Req(w).cmd = "upload" /\ Other
  BY DEF Upload, Acts, At
<1>2. CASE Fails(w, 500)
  BY <1>1, <1>2, RefusalStep DEF Fails
<1>3. CASE /\ programs' = programs \cup {Req(w).program} /\ TakesEffect(w)
           /\ \E code \in {200, 201} : Reply(w, code)
           /\ UNCHANGED <<owner, data>>
  <2>1. Moves(w) /\ job'[w].stage = "reply"
    BY <1>3, MovesOn DEF IInv, Stages
  <2>2. Calls(w) /\ DataKept
    BY <1>1, <1>3, <2>1 DEF Calls, Other, DataKept, ListsKept
  <2>3. job[w].final /\ Req(w) \in sent /\ Open(Req(w)) /\ This' = This
    BY <1>1, ThisStays DEF IInv, HandlerInv, At, Req, Idle, Changes, Open, Other
  <2>4. ASSUME GoneInv PROVE GoneInv'
    <3>1. Req(w).program \notin gone
      BY <1>1, <2>3, <2>4 DEF GoneInv
    <3> QED BY <1>1, <1>3, <2>2, <2>4, <3>1, CallsSignatures DEF GoneInv, Other, clients
  <2>5. ASSUME ReplyInv, SentInv PROVE ReplyInv'
    <3>1. ASSUME NEW v \in Workers, Done(v)', Req(v).cmd \in {"edit", "unload"}
          PROVE  /\ Done(v) /\ job[v].final /\ Req(v) \in sent /\ Open(Req(v))
                 /\ Req(v).cmd = "edit" => Target(Req(v)) \in Ids
      <4>1. Done(v)
        BY <1>1, <2>1, <3>1 DEF Moves, Done, At, Req
      <4>2. Req(v) \in This.requests /\ job[v].final /\ Req(v) \in sent
        BY <3>1, <4>1 DEF IInv, HandlerInv, At, Req, Idle, Changes, Done
      <4> QED BY <4>1, <4>2, RequestType, SessionType DEF IInv, TypeOK, Open
    <3>2. ASSUME NEW v \in Workers, Done(v)', Req(v).cmd = "unload"
          PROVE  Req(v).program # Req(w).program
      BY <1>1, <2>3, <2>5, <3>1, <3>2 DEF SentInv, SameTarget
    <3>3. \A v \in Workers : Req(v)' = Req(v)
      BY <2>1 DEF Moves, Req
    <3> QED BY <1>3, <2>5, <3>1, <3>2, <3>3 DEF ReplyInv
  <2>6. ASSUME BarredInv PROVE BarredInv'
    BY <1>1, <2>1, <2>6 DEF BarredInv, Moves, Req, Other, clients
  <2>7. HeldInv' /\ ConsentInv' /\ (DeniedInv => DeniedInv')
    BY <1>1, <2>1, <2>2, CallsKeepHolds, CallsKeepLists DEF IInv, DataKept, ConsentInv, ListsKept
  <2> QED
    BY <2>2, <2>3, <2>4, <2>5, <2>6, <2>7, CallsHandler, CallsSignatures, CallsEffect
       DEF IInv, SignatureInv, AnswersInv
<1> QED BY <1>2, <1>3 DEF Upload

\* A program that is deleted is out of the registry when its client is answered.
LEMMA UnloadStep ==
    ASSUME IInv, TypeOK', NEW w \in Workers, Unload(w)
    PROVE  IInv'
<1>1. job[w].stage = "act" /\ Req(w).cmd = "unload" /\ Other
  BY DEF Unload, Acts, At
<1>2. CASE \E code \in {404, 500} : Refuse(w, code) \/ Fails(w, code)
  BY <1>1, <1>2, RefusalStep DEF Refuse, Fails
<1>3. CASE /\ programs' = Unloaded(Req(w).program) /\ TakesEffect(w)
           /\ \E code \in {200, 500} : Reply(w, code)
           /\ UNCHANGED <<owner, data>>
  <2>1. Moves(w) /\ job'[w].stage = "reply"
    BY <1>3, MovesOn DEF IInv, Stages
  <2>2. Calls(w) /\ DataKept
    BY <1>1, <1>3, <2>1 DEF Calls, Other, DataKept, ListsKept
  <2> QED BY <1>1, <1>3, <2>1, <2>2, PlainCall DEF Unloaded
<1> QED BY <1>2, <1>3 DEF Unload

\* A handler that has the binary of a program found it in the registry.
LEMMA GetProgramStep ==
    ASSUME IInv, TypeOK', NEW w \in Workers, GetProgram(w)
    PROVE  IInv'
<1>1. job[w].stage = "act" /\ Req(w).cmd = "execute" /\ Other
  BY DEF GetProgram, Acts, At
<1>2. CASE \E code \in {404, 500} : Refuse(w, code) \/ Fails(w, code)
  BY <1>1, <1>2, RefusalStep DEF Refuse, Fails
<1>3. CASE Req(w).program \in programs /\ Goto(w, "begin") /\ UNCHANGED <<store, took>>
  <2>1. Moves(w) /\ job'[w].stage = "begin"
    BY <1>3, MovesOn DEF IInv, Stages
  <2>2. Calls(w) /\ DataKept
    BY <1>1, <1>3, <2>1 DEF Calls, Other, DataKept, ListsKept, store
  <2> QED BY <1>1, <1>3, <2>1, <2>2, PlainCall DEF store
<1> QED BY <1>2, <1>3 DEF GetProgram

\* New data has the list that its uploader signed.
LEMMA RegisterStep ==
    ASSUME IInv, TypeOK', NEW w \in Workers, Register(w)
    PROVE  IInv'
<1>1. job[w].stage = "act" /\ Req(w).cmd = "register" /\ Other
  BY DEF Register, Acts, At
<1>2. CASE Fails(w, 500)
  BY <1>1, <1>2, RefusalStep DEF Fails
<1>3. ASSUME NEW id \in Ids, data[id].state = "ABSENT",
             data' = [data EXCEPT ![id] = [state |-> "REGISTERED", by |-> Req(w),
                                           allowed |-> Req(w).list]],
             Reply(w, 201), TakesEffect(w), UNCHANGED <<owner, programs>>
      PROVE  IInv'
  <2>1. Moves(w) /\ job'[w].stage = "reply"
    BY <1>3, MovesOn DEF IInv, Stages
  <2>2. Calls(w) /\ This' = This
    BY <1>1, <1>3, <2>1, ThisStays DEF Calls, Other
  <2>3. Req(w) \in This.requests /\ took'[Req(w)] > 0
        /\ took' \in [This.requests -> Nat]
    BY <1>1, <1>3, <2>2 DEF IInv, HandlerInv, At, Req, Idle, TypeOK, TakesEffect
  <2>4. /\ data'[id].state = "REGISTERED" /\ data'[id].by = Req(w) /\ data'[id].allowed = Req(w).list
        /\ \A other \in Ids \ {id} : data'[other] = data[other]
    BY <1>3 DEF IInv, TypeOK
  <2>5. HeldInv' /\ (\A v \in Workers : \A other : Holds(v, other)' <=> Holds(v, other))
        /\ \A v \in Workers : Req(v)' = Req(v)
    <3>1. \A other \in Ids : data'[other].state = "IN_USE" <=> data[other].state = "IN_USE"
      BY <1>3, <2>4
    <3> QED BY <1>1, <2>1, <2>2, <3>1, CallsKeepHolds DEF IInv
  <2>6. ConsentInv'
    <3>1. \A program \in data'[id].allowed : Consented(id, program)'
      BY <2>2, <2>3, <2>4 DEF Consented
    <3>2. ASSUME NEW other \in Ids \ {id}, NEW program, Consented(other, program)
          PROVE  Consented(other, program)'
      BY <2>2, <2>3, <2>4, <3>2, CallsEffect, ConsentStays DEF IInv, Calls
    <3>3. \A v \in Workers, other \in Ids : Holds(v, other) => other # id
      BY <1>3 DEF IInv, HeldInv
    <3> QED BY <2>4, <2>5, <3>1, <3>2, <3>3 DEF IInv, ConsentInv
  <2>7. ASSUME DeniedInv PROVE DeniedInv'
    BY <1>3, <2>2, <2>4, <2>7, CallsSignatures DEF DeniedInv, Calls, clients
  <2>8. ASSUME ReplyInv PROVE ReplyInv'
    <3>1. ASSUME NEW v \in Workers, Done(v)', Req(v).cmd \in {"edit", "unload"}
          PROVE  /\ Done(v)
                 /\ Req(v).cmd = "edit" => Target(Req(v)) \in Ids
      <4>1. Done(v)
        BY <1>1, <2>1, <3>1 DEF Moves, Done, At, Req
      <4>2. Req(v) \in This.requests
        BY <3>1, <4>1 DEF IInv, HandlerInv, At, Req, Idle, Changes, Done
      <4> QED BY <4>1, <4>2, RequestType, SessionType DEF IInv, TypeOK
    <3> QED BY <1>3, <2>4, <2>5, <2>8, <3>1 DEF ReplyInv
  <2> QED
    BY <1>1, <1>3, <2>1, <2>2, <2>5, <2>6, <2>7, <2>8, CallsHandler, CallsSignatures, CallsEffect,
       CallsKeepPrograms
       DEF IInv, SignatureInv, AnswersInv
<1> QED BY <1>2, <1>3 DEF Register

\* The list in effect is the one that was signed last: no other edit is under way.
LEMMA EditStep ==
    ASSUME IInv, TypeOK', NEW w \in Workers, Edit(w)
    PROVE  IInv'
<1>1. job[w].stage = "act" /\ Req(w).cmd = "edit" /\ Other
  BY DEF Edit, Acts, At
<1>2. Req(w) \in This.requests /\ Req(w) \in Requests /\ job[w].final /\ Req(w) \in sent
  BY <1>1, SessionType DEF IInv, TypeOK, HandlerInv, At, Req, Idle, Changes
<1>3. PICK id \in Ids : id = Target(Req(w))
  BY <1>1, <1>2, RequestType
<1>4. /\ EditCode(Req(w).key, data[id]) \in {200, 403, 404, 409}
      /\ EditCode(Req(w).key, data[id]) = 200 =>
           data[id].state \in {"REGISTERED", "IN_USE"} /\ Req(w).key = data[id].by.key
  BY EditCodeType DEF IInv
<1>5. CASE \E code \in {403, 404, 409, 500} : Refuse(w, code) \/ Fails(w, code)
  BY <1>1, <1>5, RefusalStep DEF Refuse, Fails
<1>6. ASSUME data[id].state \in {"REGISTERED", "IN_USE"}, Req(w).key = data[id].by.key,
             data' = [data EXCEPT ![id] = Edited(@, Req(w).list)],
             Reply(w, 200), TakesEffect(w), UNCHANGED <<owner, programs>>
      PROVE  IInv'
  <2>1. Moves(w) /\ job'[w].stage = "reply"
    BY <1>6, MovesOn DEF IInv, Stages
  <2>2. Calls(w) /\ This' = This
    BY <1>1, <1>6, <2>1, ThisStays DEF Calls, Other
  <2>3. took'[Req(w)] > 0 /\ took' \in [This.requests -> Nat]
    BY <1>2, <1>6, <2>2 DEF IInv, TypeOK, TakesEffect
  <2>4. /\ data'[id].state = data[id].state /\ data'[id].by = data[id].by
        /\ data'[id].allowed = Req(w).list
        /\ \A other \in Ids \ {id} : data'[other] = data[other]
    BY <1>3, <1>6 DEF IInv, TypeOK, Record, Edited
  <2>5. HeldInv' /\ (\A v \in Workers : \A other : Holds(v, other)' <=> Holds(v, other))
        /\ \A v \in Workers : Req(v)' = Req(v)
    <3>1. \A other \in Ids : data'[other].state = "IN_USE" <=> data[other].state = "IN_USE"
      BY <2>4
    <3> QED BY <1>1, <2>1, <2>2, <3>1, CallsKeepHolds DEF IInv
  <2>6. ConsentInv'
    <3>1. \A program \in data'[id].allowed : Consented(id, program)'
      BY <1>1, <1>2, <1>3, <1>6, <2>2, <2>3, <2>4 DEF Consented
    <3>2. ASSUME NEW other \in Ids, NEW program, Consented(other, program)
          PROVE  Consented(other, program)'
      BY <2>2, <2>3, <2>4, <3>2, CallsEffect, ConsentStays DEF IInv, Calls
    <3> QED BY <2>4, <2>5, <3>1, <3>2 DEF IInv, ConsentInv
  <2>7. ASSUME DeniedInv PROVE DeniedInv'
    <3>1. \A program \in Programs : <<id, program>> \in denied => program \notin Req(w).list
      BY <1>1, <1>2, <1>3, <2>7 DEF DeniedInv, Open
    <3> QED BY <2>2, <2>4, <2>7, <3>1, CallsSignatures DEF DeniedInv, Calls, clients
  <2>8. ASSUME OneIsFinal, ReplyInv, SentInv PROVE ReplyInv'
    <3>1. ASSUME NEW v \in Workers, v # w, Done(v)', Req(v).cmd \in {"edit", "unload"}
          PROVE  /\ Done(v)
                 /\ Req(v).cmd = "edit" => Target(Req(v)) \in Ids \ {id}
      <4>1. Done(v)
        BY <2>1, <3>1 DEF Moves, Done, At
      <4>2. Req(v) \in This.requests /\ Req(v) \in sent /\ job[v].final
        BY <3>1, <4>1 DEF IInv, HandlerInv, At, Req, Idle, Changes, Done
      <4>3. Req(v) \in Requests
        BY <4>2, SessionType DEF IInv, TypeOK
      <4>4. Req(v) # Req(w)
        BY <1>2, <2>8, <3>1, <4>2 DEF OneIsFinal
      <4>5. Req(v).cmd = "edit" => Target(Req(v)) # id
        BY <1>1, <1>2, <1>3, <2>8, <4>2, <4>3, <4>4, EditTarget DEF SentInv, Open
      <4> QED BY <4>1, <4>3, <4>5, RequestType
    <3> QED BY <1>1, <1>3, <1>6, <2>4, <2>5, <2>8, <3>1 DEF ReplyInv
  <2> QED
    BY <1>1, <1>6, <2>1, <2>2, <2>5, <2>6, <2>7, <2>8, CallsHandler, CallsSignatures, CallsEffect,
       CallsKeepPrograms
       DEF IInv, SignatureInv, AnswersInv
<1> QED BY <1>3, <1>4, <1>5, <1>6 DEF Edit

\* Only data that nobody holds is deleted.
LEMMA DeleteStep ==
    ASSUME IInv, TypeOK', NEW w \in Workers, Delete(w)
    PROVE  IInv'
<1> DEFINE id == Target(Req(w))
           code == DeleteCode(Req(w).key, data[id], job[w].owner)
<1>1. job[w].stage = "act" /\ Req(w).cmd = "delete" /\ Other
  BY DEF Delete, Acts, At
<1>2. Req(w) \in Requests
  BY <1>1, SessionType DEF IInv, TypeOK, HandlerInv, At, Req, Idle
<1>3. id \in Ids /\ code \in {200, 403, 404, 409} /\ (code = 200 => data[id].state = "REGISTERED")
  BY <1>1, <1>2, RequestType, DeleteCodeType
<1>4. CASE \E refusal \in {403, 404, 409, 500} : Refuse(w, refusal) \/ Fails(w, refusal)
  BY <1>1, <1>4, RefusalStep DEF Refuse, Fails
<1>5. ASSUME code = 200, NEW state \in {"DELETING", "DELETED"}, NEW answer \in {200, 500},
             data' = [data EXCEPT ![id].state = state],
             Reply(w, answer), TakesEffect(w), UNCHANGED <<owner, programs>>
      PROVE  IInv'
  <2>1. Moves(w) /\ job'[w].stage = "reply"
    BY <1>5, MovesOn DEF IInv, Stages
  <2>2. Calls(w)
    BY <1>1, <1>5, <2>1 DEF Calls, Other
  <2>3. DataKept
    BY <1>3, <1>5 DEF IInv, TypeOK, Record, DataKept, ListsKept
  <2> QED BY <1>1, <1>5, <2>1, <2>2, <2>3, PlainCall
<1> QED BY <1>3, <1>4, <1>5 DEF Delete

\* An execution takes data that nobody holds, with its uploader's consent.
LEMMA BeginExecuteStep ==
    ASSUME IInv, TypeOK', NEW w \in Workers, BeginExecute(w)
    PROVE  IInv'
<1>1. job[w].stage = "begin" /\ Other
  BY DEF BeginExecute, At
<1>2. Req(w) \in Requests /\ Req(w).cmd = "execute"
  BY <1>1, SessionType DEF IInv, TypeOK, HandlerInv, At, Req, Idle
<1>3. /\ BeginCode(Req(w)) \in {0, 403, 404, 409}
      /\ BeginCode(Req(w)) = 0 => \A id \in Has(Req(w)) :
            data[id].state = "REGISTERED" /\ Req(w).program \in data[id].allowed
  BY <1>2, BeginCodeIsObjection DEF IInv
<1>4. CASE \E code \in {403, 404, 409, 500} : Refuse(w, code) \/ Fails(w, code)
  BY <1>1, <1>4, RefusalStep DEF Refuse, Fails
<1>5. ASSUME BeginCode(Req(w)) = 0,
             data' = [id \in Ids |-> IF id \in Has(Req(w)) THEN [data[id] EXCEPT !.state = "IN_USE"]
                                     ELSE data[id]],
             Goto(w, "run"), TakesEffect(w), UNCHANGED <<owner, programs>>
      PROVE  IInv'
  <2>1. Moves(w) /\ job'[w].stage = "run"
    BY <1>5, MovesOn DEF IInv, Stages
  <2>2. Calls(w) /\ This' = This
    BY <1>1, <1>2, <1>5, <2>1, ThisStays DEF Calls, Other
  <2>3. \A id \in Ids :
          /\ data'[id].by = data[id].by /\ data'[id].allowed = data[id].allowed
          /\ id \in Has(Req(w)) => data'[id].state = "IN_USE"
          /\ id \notin Has(Req(w)) => data'[id].state = data[id].state
    BY <1>5 DEF IInv, TypeOK, Record
  <2>4. ListsKept
    BY <1>3, <1>5, <2>3 DEF ListsKept
  <2>5. /\ \A v \in Workers : \A id : v # w => (Holds(v, id)' <=> Holds(v, id))
        /\ \A id : Holds(w, id)' <=> id \in Has(Req(w))
        /\ \A v \in Workers : Req(v)' = Req(v)
    BY <2>1 DEF Moves, Holds, Running, At, Req
  <2>6. HeldInv'
    <3>1. \A v \in Workers, id \in Has(Req(w)) : id \in Ids => ~Holds(v, id)
      BY <1>3, <1>5 DEF IInv, HeldInv
    <3>2. \A id : ~Holds(w, id)
      BY <1>1 DEF Holds, Running, At
    <3> QED BY <2>3, <2>5, <3>1, <3>2 DEF IInv, HeldInv
  <2>7. ConsentInv'
    <3>1. ASSUME NEW id \in Ids, NEW program,
                 id \in Has(Req(w)), program = Req(w).program
          PROVE  data'[id].state # "ABSENT" /\ Consented(id, program)'
      <4>1. Consented(id, program)
        BY <1>3, <1>5, <3>1 DEF IInv, ConsentInv
      <4> QED BY <2>2, <2>3, <2>4, <3>1, <4>1, CallsKeepLists
    <3> QED BY <2>2, <2>4, <2>5, <3>1, CallsKeepLists DEF IInv, ConsentInv, ListsKept
  <2>8. ~Done(w)'
    BY <2>1 DEF Done, At
  <2> QED
    BY <1>1, <1>5, <2>2, <2>4, <2>6, <2>7, <2>8, CallsHandler, CallsSignatures, CallsEffect,
       CallsKeepLists, CallsKeepPrograms, CallsKeepReplies
       DEF IInv, SignatureInv, AnswersInv
<1> QED BY <1>3, <1>4, <1>5 DEF BeginExecute

\* A run gives back the data that it has, and that nobody else has.
LEMMA EndsStep ==
    ASSUME IInv, TypeOK', NEW w \in Workers, NEW code \in {200, 400}, Ends(w, code)
    PROVE  IInv'
<1>1. job[w].stage = "run" /\ Other /\ Reply(w, code) /\ UNCHANGED <<owner, programs, took>>
  BY DEF Ends, At
<1>2. Req(w).cmd = "execute"
  BY <1>1 DEF IInv, HandlerInv, At, Req, Idle
<1>3. Moves(w) /\ job'[w].stage = "reply"
  BY <1>1, MovesOn DEF IInv, Stages
<1>4. Calls(w) /\ This' = This
  BY <1>1, <1>2, <1>3, ThisStays DEF Calls, Other
<1>5. /\ \A v \in Workers : \A id : v # w => (Holds(v, id)' <=> Holds(v, id))
      /\ \A id : ~Holds(w, id)' /\ (Holds(w, id) <=> id \in Has(Req(w)))
      /\ \A v \in Workers : Req(v)' = Req(v)
  BY <1>1, <1>3 DEF Moves, Holds, Running, At, Req
<1>6. \A id \in Ids :
        /\ data'[id].by = data[id].by /\ data'[id].allowed = data[id].allowed
        /\ id \in Has(Req(w)) /\ data[id].state = "IN_USE" => data'[id].state = "REGISTERED"
        /\ id \notin Has(Req(w)) \/ data[id].state # "IN_USE" => data'[id].state = data[id].state
  BY DEF IInv, TypeOK, Record, Ends, GivenBack
<1>7. ListsKept
  BY <1>6 DEF ListsKept
<1>8. HeldInv'
  BY <1>5, <1>6 DEF IInv, HeldInv
<1>9. ConsentInv'
  BY <1>4, <1>5, <1>7, CallsKeepLists DEF IInv, ConsentInv, ListsKept
<1> QED
  BY <1>1, <1>2, <1>4, <1>7, <1>8, <1>9, CallsHandler, CallsSignatures, CallsEffect,
     CallsKeepLists, CallsKeepPrograms, CallsKeepReplies
     DEF IInv, SignatureInv, AnswersInv

\* The promises hold on while no request opens again and lists and registry are kept.
LEMMA AnswersKept ==
    ASSUME IInv, AnswersInv, ListsKept, UNCHANGED <<programs, clients>>, session' = session,
           \A q \in This.requests : Open(q)' => Open(q),
           \A w \in Workers : Done(w)' => Done(w) /\ Req(w)' = Req(w)
    PROVE  AnswersInv'
<1>1. sent \cup refused \cup settled \subseteq This.requests
  BY DEF IInv, ProcessInv, TypeOK
<1>2. RefusedInv' /\ SentInv' /\ GoneInv'
  BY <1>1 DEF AnswersInv, RefusedInv, SentInv, SameTarget, GoneInv, clients
<1>3. ReplyInv'
  <2>1. ASSUME NEW w \in Workers, Done(w), Req(w).cmd = "edit" PROVE Target(Req(w)) \in Ids
    BY <2>1, SessionType, RequestType DEF IInv, TypeOK, HandlerInv, At, Req, Done, Idle
  <2> QED BY <2>1 DEF AnswersInv, ReplyInv, ListsKept
<1>4. DeniedInv'
  BY <1>1 DEF AnswersInv, DeniedInv, ListsKept, clients
<1> QED BY <1>2, <1>3, <1>4 DEF AnswersInv

\* The handler has read the time and goes on to checkReplay with it, or refuses.
LEMMA AuthenticateStep ==
    ASSUME IInv, TypeOK', NEW w \in Workers, Authenticate(w)
    PROVE  IInv'
<1>q. PICK q : q = Req(w)
  OBVIOUS
<1>1. /\ job[w].stage = "auth" /\ q \in This.requests /\ q.cmd # "owner" /\ q # NoRequest
      /\ ~job[w].final /\ q \in Requests /\ q.stamp \in Nat
      /\ job \in [Workers -> Job] /\ now \in Nat
  BY <1>q, SessionType, RequestType DEF Authenticate, IInv, TypeOK, HandlerInv, At, Req, Idle, Job
<1>2. UNCHANGED <<mode, store, seen, bounds, took, clients>> /\ This' = This /\ Before' = Before
  BY ThisStays DEF Authenticate, bounds, Before
<1>3. /\ Moves(w)
      /\ \/ job'[w].stage = "reply" /\ job'[w].code = 401
         \/ job'[w].stage = "replay" /\ job'[w].read = now /\ InWindow(q, now)
  <2>1. CASE Reply(w, 401)
    BY <2>1, MovesOn DEF IInv, Stages
  <2>2. CASE /\ InWindow(q, now)
             /\ job' = [job EXCEPT ![w].stage = "replay", ![w].read = now]
    BY <1>1, <2>2 DEF Moves, Job
  <2> QED BY <1>q, <2>1, <2>2 DEF Authenticate
<1>4. \A v \in Workers :
        /\ Req(v)' = Req(v) /\ job'[v].final = job[v].final /\ job'[v].barred = job[v].barred
        /\ Pending(v)' <=> Pending(v)
        /\ Done(v)' <=> Done(v)
        /\ \A id : Holds(v, id)' <=> Holds(v, id)
        /\ v # w => job'[v] = job[v]
  BY <1>1, <1>3 DEF Moves, Req, Pending, Done, Holds, Running, At
<1>5. ASSUME NEW v \in Workers PROVE HandlerInv(v)' /\ TimeInv(v)'
  <2>1. HandlerInv(v) /\ TimeInv(v) /\ sent' = sent /\ owner' = owner /\ now' = now
    BY <1>2 DEF IInv, clients, store, bounds
  <2>2. HandlerInv(v)'
    BY <1>1, <1>2, <1>3, <1>4, <2>1 DEF HandlerInv, Moves, At, Req, Done
  <2>3. CASE v # w
    BY <1>4, <2>1, <2>2, <2>3 DEF TimeInv, At, Req
  <2>4. CASE v = w
    <3>1. Req(w)' = q /\ q.stamp <= now + Ahead
      BY <1>q, <1>1, <1>4, <2>1, <2>4 DEF TimeInv, At
    <3>2. InWindow(q, now) => now <= q.stamp + Window
      BY DEF InWindow
    <3>3. TimeInv(w)'
      BY <1>1, <1>3, <2>1, <3>1, <3>2, ServerWindow DEF TimeInv, At
    <3> QED BY <2>2, <2>4, <3>3
  <2> QED BY <2>3, <2>4
<1>6. \A r : Closed(r)' <=> Closed(r)
  <2>1. ~Dead(q) /\ job'[w].stage = "replay" => ~(q.stamp + Window < now)
    BY <1>1, <1>3, ServerWindow DEF InWindow
  <2>2. ASSUME NEW r PROVE Dead(r)' <=> Dead(r)
    <3>1. CASE r # q \/ job'[w].stage # "replay"
      BY <1>q, <1>1, <1>2, <1>4, <3>1 DEF Dead, At, bounds
    <3>2. CASE r = q /\ job'[w].stage = "replay"
      BY <1>1, <1>2, <1>3, <3>2, ServerWindow DEF Dead, InWindow, bounds
    <3> QED BY <3>1, <3>2
  <2> QED BY <1>2, <2>2 DEF Closed
<1>7. \A r : Open(r)' <=> Open(r)
  BY <1>4, <1>6 DEF Open
<1>8. ProcessInv' /\ CacheInv'
  <2>1. mode \notin {"boot", "down"}
    BY <1>1 DEF IInv, ProcessInv, Idle
  <2> QED BY <1>2, <2>1 DEF IInv, ProcessInv, CacheInv, clients, bounds
<1>9. HeldInv' /\ ConsentInv'
  BY <1>2, <1>4 DEF IInv, HeldInv, ConsentInv, Consented, Holds, store
<1>10. SpentInv /\ OneIsFinal => SpentInv' /\ OneIsFinal'
  BY <1>4, <1>6 DEF SpentInv, OneIsFinal
<1>11. EffectInv => EffectInv'
  BY <1>2, <1>4, <1>6 DEF EffectInv, bounds
<1>12. AnswersInv => AnswersInv'
  BY <1>2, <1>4, <1>7, AnswersKept DEF ListsKept, store, bounds
<1>13. BarredInv => BarredInv'
  BY <1>1, <1>2, <1>3, <1>4 DEF BarredInv, Moves, clients
<1> QED BY <1>2, <1>5, <1>8, <1>9, <1>10, <1>11, <1>12, <1>13 DEF IInv, SignatureInv

\* An entry that is purged with a time that a handler has read belongs to a request
\* that no other handler can have in its window any more: that is what keeping it for
\* two windows is for, and it takes a client's clock and handlers that are Timely.
LEMMA PurgedIsDead ==
    ASSUME IInv, Timely, NEW w \in Workers, At(w, "replay"),
           NEW r \in This.requests, seen[r] # 0, job[w].read > seen[r]
    PROVE  Dead(r)
<1>1. /\ r.stamp \in Nat /\ now \in Nat /\ seen[r] \in Nat
      /\ \A v \in Workers : job[v].read \in Nat
  BY SessionType, RequestType, JobType DEF IInv, TypeOK
<1>2. r.stamp + 2 * Window <= seen[r] + Ahead
  BY DEF IInv, CacheInv
<1>3. job[w].read <= now
  BY DEF IInv, TimeInv
<1>4. r.stamp + Window + Latency < job[w].read
  BY <1>1, <1>2, ServerWindow DEF Timely
<1>5. ASSUME NEW v \in Workers, Req(v) = r, At(v, "replay") PROVE FALSE
  <2>1. now <= job[v].read + Latency /\ job[v].read <= r.stamp + Window
    BY <1>5 DEF IInv, TimeInv
  <2> QED BY <1>1, <1>3, <1>4, <2>1, ServerWindow
<1>6. r.stamp + Window < now
  BY <1>1, <1>3, <1>4, ServerWindow
<1> QED BY <1>5, <1>6 DEF Dead

\* A signature is entered by the one delivery that goes on, and not before the last
\* of them is through is it purged.
LEMMA CheckReplayStep ==
    ASSUME IInv, TypeOK', NEW w \in Workers, CheckReplay(w)
    PROVE  IInv'
<1>q. PICK q, read : q = Req(w) /\ read = job[w].read
  OBVIOUS
<1>1. /\ At(w, "replay") /\ job[w].stage = "replay" /\ q \in This.requests /\ q.cmd # "owner"
      /\ q # NoRequest /\ ~job[w].final /\ q \in Requests /\ q.stamp \in Nat
      /\ job[w].owner = owner /\ owner # NoKey /\ (q.cmd \in Changes => q \in sent)
  BY <1>q, SessionType, RequestType DEF CheckReplay, IInv, TypeOK, HandlerInv, At, Req, Idle
<1>2. UNCHANGED <<mode, store, bounds, took, clients>> /\ This' = This /\ Before' = Before
  BY ThisStays DEF CheckReplay, bounds, Before
<1>t. /\ seen \in [This.requests -> Nat] /\ read \in Nat /\ now \in Nat
      /\ read <= now /\ q.stamp <= read + Ahead /\ read <= q.stamp + Window
  BY <1>q, <1>1, JobType DEF IInv, TypeOK, TimeInv
<1>3. /\ \A v \in Workers : v # w => job'[v] = job[v]
      /\ job'[w].req = q /\ job'[w].owner = job[w].owner /\ job'[w].barred = job[w].barred
      /\ job'[w].stage \in {"act", "reply"} /\ job'[w].code \in {0, 400, 401, 403}
      /\ job'[w].stage = "act" => q.cmd \notin OwnerOnly \/ q.key = job[w].owner
      /\ job'[w].stage = "act" => job'[w].final
      /\ \A r \in This.requests : r # q => seen'[r] = IF read > seen[r] THEN 0 ELSE seen[r]
      /\ \/ ~job'[w].final /\ seen[q] # 0 /\ seen'[q] = seen[q]
         \/ /\ job'[w].final /\ (seen[q] = 0 \/ read > seen[q])
            /\ seen'[q] = read + 2 * Window /\ seen'[q] # 0
  BY <1>q, <1>1, CheckReplayType DEF IInv
<1>4. \A v \in Workers :
        /\ Req(v)' = Req(v) /\ job'[v].barred = job[v].barred
        /\ (Done(v)' <=> Done(v)) /\ (At(v, "replay")' => At(v, "replay"))
        /\ \A id : Holds(v, id)' <=> Holds(v, id)
        /\ v # w => (Pending(v)' <=> Pending(v))
  BY <1>q, <1>1, <1>3 DEF Req, Done, Holds, Running, Pending, At
<1>5. ASSUME NEW v \in Workers PROVE HandlerInv(v)' /\ TimeInv(v)'
  <2>1. HandlerInv(v) /\ TimeInv(v) /\ sent' = sent /\ owner' = owner /\ now' = now
    BY <1>2 DEF IInv, clients, store, bounds
  <2>2. CASE v = w
    <3>1. ~Done(w)' /\ Req(w)' = q
      BY <1>q, <1>3, <1>4 DEF Done, At
    <3>2. HandlerInv(w)'
      BY <1>1, <1>2, <1>3, <2>1, <3>1 DEF HandlerInv, At
    <3> QED BY <1>3, <2>2, <3>2 DEF TimeInv, At
  <2>3. CASE v # w
    <3>1. HandlerInv(v)'
      BY <1>2, <1>3, <1>4, <2>1, <2>3 DEF HandlerInv, At, Req
    <3> QED BY <1>3, <2>1, <2>3, <3>1 DEF TimeInv, At, Req
  <2> QED BY <2>2, <2>3
<1>6. ProcessInv'
  <2>1. mode \notin {"boot", "down"}
    BY <1>1 DEF IInv, ProcessInv, Idle
  <2> QED BY <1>2, <2>1 DEF IInv, ProcessInv, clients
<1>7. CacheInv'
  <2>1. ASSUME NEW r \in This.requests, seen'[r] # 0
        PROVE  r.stamp + 2 * Window <= seen'[r] + Ahead
    <3>1. CASE r = q /\ job'[w].final
      BY <1>1, <1>t, <1>3, <3>1, ServerWindow
    <3>2. CASE r # q \/ ~job'[w].final
      BY <1>3, <2>1, <3>2 DEF IInv, CacheInv
    <3> QED BY <3>1, <3>2
  <2> QED BY <1>2, <2>1 DEF CacheInv
<1>8. HeldInv' /\ ConsentInv'
  BY <1>2, <1>4 DEF IInv, HeldInv, ConsentInv, Consented, Holds, store
<1>9. ASSUME Timely PROVE SignatureInv'
  <2>1. SignatureInv
    BY <1>9 DEF IInv
  <2>2. ASSUME NEW r, Dead(r) PROVE Dead(r)'
    BY <1>2, <1>4, <2>2 DEF Dead, bounds
  <2>3. ASSUME NEW r \in This.requests, Closed(r) PROVE Closed(r)'
    <3>1. CASE seen[r] # 0 /\ read > seen[r]
      BY <1>q, <1>1, <1>9, <2>2, <3>1, PurgedIsDead DEF Closed
    <3>2. CASE seen[r] = 0
      BY <2>2, <2>3, <3>2 DEF Closed
    <3>3. CASE seen[r] # 0 /\ ~(read > seen[r])
      BY <1>3, <3>3 DEF Closed
    <3> QED BY <3>1, <3>2, <3>3
  <2>4. job'[w].final => ~Closed(q) /\ Closed(q)'
    <3>1. ~Dead(q)
      BY <1>q, <1>1 DEF Dead
    <3>2. read > seen[q] => seen[q] = 0
      BY <1>q, <1>1, <1>9, <3>1, PurgedIsDead
    <3> QED BY <1>3, <3>1, <3>2 DEF Closed
  <2>5. \A v \in Workers : job[v].final => Req(v) \in This.requests
    BY DEF IInv, HandlerInv, Req, At, Idle
  <2>6. SpentInv'
    <3>1. ASSUME NEW v \in Workers, job'[v].final PROVE Closed(Req(v))'
      <4>1. CASE v = w
        BY <1>q, <1>4, <2>4, <3>1, <4>1 DEF Closed, Dead
      <4>2. CASE v # w
        <5>1. PICK r \in This.requests : r = Req(v)
          BY <1>3, <2>5, <3>1, <4>2
        <5>2. Closed(r)
          BY <1>3, <2>1, <3>1, <4>2, <5>1 DEF SignatureInv, SpentInv
        <5>3. Closed(r)' /\ Req(v)' = r
          BY <1>4, <2>3, <5>1, <5>2
        <5> QED BY <5>3 DEF Closed, Dead
      <4> QED BY <4>1, <4>2
    <3> QED BY <3>1 DEF SpentInv
  <2>7. OneIsFinal'
    <3>1. job'[w].final => \A v \in Workers : job[v].final => Req(v) # q
      BY <2>1, <2>4 DEF SignatureInv, SpentInv
    <3> QED BY <1>q, <1>3, <1>4, <2>1, <3>1 DEF SignatureInv, OneIsFinal
  <2>8. EffectInv'
    <3>1. ASSUME NEW r \in This.requests, r.cmd # "owner", ~Closed(r)' \/ (r = q /\ job'[w].final)
          PROVE  took[r] <= Before
      BY <2>1, <2>3, <2>4, <3>1 DEF SignatureInv, EffectInv
    <3>2. Pending(w)' => job'[w].final
      BY DEF Pending
    <3> QED BY <1>q, <1>2, <1>4, <2>1, <3>1, <3>2 DEF SignatureInv, EffectInv, bounds
  <2>9. ASSUME NEW r \in This.requests, Open(r)' PROVE Open(r)
    <3>1. CASE ~Closed(r)'
      BY <2>3, <3>1 DEF Open
    <3>2. CASE \E v \in Workers : Req(v)' = r /\ job'[v].final
      BY <1>q, <1>3, <1>4, <2>4, <3>2 DEF Open
    <3> QED BY <2>9, <3>1, <3>2 DEF Open
  <2>10. AnswersInv => AnswersInv'
    BY <1>2, <1>4, <2>9, AnswersKept DEF ListsKept, store, bounds
  <2>11. BarredInv => BarredInv'
    BY <1>2, <1>3, <1>4 DEF BarredInv, clients
  <2> QED BY <1>2, <2>1, <2>6, <2>7, <2>8, <2>10, <2>11 DEF SignatureInv
<1> QED BY <1>5, <1>6, <1>7, <1>8, <1>9 DEF IInv, Timely

\* A change that was settled, or that nobody has and is too old, cannot take effect.
LEMMA OverIsNotOpen ==
    ASSUME IInv, SentInv, NEW q \in sent, Over(q)
    PROVE  ~Open(q)
<1>1. q \in Requests /\ q.stamp \in Nat /\ now \in Nat
  BY SessionType, RequestType DEF IInv, TypeOK, ProcessInv
<1> QED BY <1>1 DEF Over, Open, Closed, Dead, SentInv, IInv, HandlerInv

\* A delivery arrives; a client sends its next change when the last is over.
LEMMA AcceptStep ==
    ASSUME IInv, TypeOK', NEW w \in Workers, NEW q \in This.requests, Accept(w, q)
    PROVE  IInv'
<1>1. /\ mode = "up" /\ job[w] = Idle /\ q \in Requests /\ q # NoRequest
      /\ UNCHANGED <<session, mode, store, seen, now, stops, took, settled, refused>>
      /\ This' = This /\ Before' = Before
  BY SessionType, RequestType, ThisStays DEF IInv, TypeOK, Accept, Before
<1>2. /\ sent' = IF q.cmd \in Changes THEN sent \cup {q} ELSE sent
      /\ denied' = IF q.cmd = "edit" /\ q \notin sent
                   THEN {d \in denied : ~(d[1] = Target(q) /\ d[2] \in q.list)} ELSE denied
      /\ gone' = gone \ Reopened(q)
      /\ q \in sent \/ \A r \in sent : SameTarget(q, r) => Over(r)
      /\ q.stamp <= now + Ahead
  BY DEF Accept
<1>3. /\ job'[w].req = q /\ ~job'[w].final /\ job'[w].owner = owner /\ job'[w].barred = gone
      /\ \/ job'[w].stage = "reply" /\ job'[w].code \in {403, 413}
         \/ job'[w].stage = "act" /\ q.cmd = "owner"
         \/ job'[w].stage = "auth" /\ q.cmd # "owner" /\ owner # NoKey
  <2> DEFINE code == IF q.form = "large" THEN 413
                     ELSE IF q.cmd # "owner" /\ owner = NoKey THEN 403 ELSE 0
             stage == IF code # 0 THEN "reply" ELSE IF q.cmd = "owner" THEN "act" ELSE "auth"
  <2>1. job'[w] = [req |-> q, stage |-> stage, owner |-> owner, read |-> 0, code |-> code,
                   final |-> FALSE, barred |-> gone]
    BY DEF Accept
  <2> QED BY <2>1
<1>4. ASSUME NEW v \in Workers \ {w}
      PROVE  /\ job'[v].req = job[v].req /\ job'[v].stage = job[v].stage
             /\ job'[v].owner = job[v].owner /\ job'[v].code = job[v].code
             /\ job'[v].read = job[v].read
             /\ job'[v].final = job[v].final /\ job'[v].barred = job[v].barred \ Reopened(q)
             /\ job[v] = Idle => job'[v] = Idle
  <2>1. job'[v] = [job[v] EXCEPT !.barred = @ \ Reopened(q)] /\ job[v] \in Job
    BY DEF Accept, IInv, TypeOK
  <2> QED BY <2>1 DEF Job, Idle
<1>5. /\ \A v \in Workers : \A id : Holds(v, id)' => Holds(v, id) /\ Req(v)' = Req(v)
      /\ \A v \in Workers : \A id : Holds(v, id) => Holds(v, id)'
      /\ \A v \in Workers : Done(v)' => Done(v) /\ Req(v)' = Req(v)
      /\ \A v \in Workers : Pending(v)' => Pending(v) /\ Req(v)' = Req(v)
  BY <1>1, <1>3, <1>4 DEF Holds, Running, At, Req, Done, Pending, Idle
<1>c. \A r : Closed(r)' <=> Closed(r)
  <2>1. ~At(w, "replay") /\ ~At(w, "replay")'
    BY <1>1, <1>3 DEF At, Idle
  <2>2. \A v \in Workers : v # w => (At(v, "replay")' <=> At(v, "replay")) /\ Req(v)' = Req(v)
    BY <1>4 DEF At, Req
  <2> QED BY <1>1, <2>1, <2>2 DEF Closed, Dead
<1>6. /\ \A r : Open(r)' <=> Open(r)
      /\ SpentInv => SpentInv'
  <2>1. ~job[w].final
    BY <1>1 DEF Idle
  <2>2. \A v \in Workers : (job'[v].final <=> job[v].final) /\ (job[v].final => Req(v)' = Req(v))
    BY <1>3, <1>4, <2>1 DEF Req
  <2> QED BY <1>c, <2>2 DEF Open, SpentInv
<1>7. ASSUME NEW v \in Workers PROVE HandlerInv(v)' /\ TimeInv(v)'
  <2>1. CASE v = w
    <3>1. HandlerInv(w)'
      BY <1>1, <1>2, <1>3 DEF HandlerInv, At, Req, Done, OwnerOnly, store
    <3> QED BY <1>1, <1>2, <1>3, <2>1, <3>1 DEF TimeInv, At, Req
  <2>2. CASE v # w
    <3>1. HandlerInv(v) /\ TimeInv(v) /\ sent \subseteq sent' /\ owner' = owner
      BY <1>1, <1>2 DEF IInv, store
    <3>2. HandlerInv(v)'
      BY <1>1, <1>4, <2>2, <3>1 DEF HandlerInv, At, Req, Done
    <3> QED BY <1>1, <1>4, <2>2, <3>1, <3>2 DEF TimeInv, At, Req
  <2> QED BY <2>1, <2>2
<1>8. OneIsFinal => OneIsFinal'
  BY <1>3, <1>4 DEF OneIsFinal, Req
<1>9. ProcessInv' /\ CacheInv'
  BY <1>1, <1>2 DEF IInv, ProcessInv, CacheInv
<1>10. HeldInv' /\ ConsentInv'
  BY <1>1, <1>5 DEF IInv, HeldInv, ConsentInv, Consented, store
<1>11. EffectInv => EffectInv'
  BY <1>1, <1>5, <1>c DEF EffectInv
<1>12. AnswersInv => AnswersInv'
  <2> SUFFICES ASSUME AnswersInv PROVE AnswersInv'
    OBVIOUS
  <2>1. RefusedInv'
    BY <1>1, <1>6 DEF AnswersInv, RefusedInv
  <2>2. SentInv'
    <3>1. ASSUME q \notin sent, NEW r \in sent, SameTarget(q, r) PROVE ~Open(r)
      BY <1>2, <3>1, OverIsNotOpen DEF AnswersInv
    <3>2. \A r : SameTarget(r, q) => SameTarget(q, r)
      BY DEF SameTarget
    <3>3. \A r, t : SameTarget(r, t)' <=> SameTarget(r, t)
      BY DEF SameTarget
    <3> QED BY <1>1, <1>2, <1>6, <3>1, <3>2, <3>3 DEF AnswersInv, SentInv
  <2>3. ReplyInv'
    BY <1>1, <1>5 DEF AnswersInv, ReplyInv, store
  <2>4. DeniedInv'
    <3>1. ASSUME NEW id \in Ids, NEW program \in Programs, <<id, program>> \in denied'
          PROVE  /\ <<id, program>> \in denied
                 /\ q.cmd = "edit" /\ Target(q) = id /\ program \in q.list => q \in sent
      BY <1>2, <3>1
    <3> QED BY <1>1, <1>2, <1>6, <3>1 DEF AnswersInv, DeniedInv, store
  <2>5. GoneInv'
    <3>1. ASSUME NEW program \in gone'
          PROVE  /\ program \in gone
                 /\ q.cmd = "upload" /\ q.program = program => q \in sent
      BY <1>2, <3>1 DEF Reopened
    <3> QED BY <1>1, <1>2, <1>6, <3>1 DEF AnswersInv, GoneInv, store
  <2> QED BY <2>1, <2>2, <2>3, <2>4, <2>5 DEF AnswersInv
<1>13. BarredInv => BarredInv'
  BY <1>2, <1>3, <1>4 DEF BarredInv, Req, Reopened
<1> QED BY <1>1, <1>6, <1>7, <1>8, <1>9, <1>10, <1>11, <1>12, <1>13 DEF IInv, SignatureInv

\* What a client is told is so, and no delivery of its request can change it.
LEMMA AnswerStep ==
    ASSUME IInv, TypeOK', NEW w \in Workers, Answer(w)
    PROVE  IInv'
<1>q. PICK q : q = Req(w)
  OBVIOUS
<1>1. /\ job[w].stage = "reply" /\ q \in This.requests /\ q \in Requests /\ q # NoRequest
      /\ (Done(w) /\ q.cmd # "owner" => job[w].final)
      /\ q.cmd \in Changes => q \in sent
      /\ q.cmd = "edit" => Target(q) \in Ids
  BY <1>q, SessionType, RequestType
     DEF Answer, Lost, Received, IInv, TypeOK, HandlerInv, At, Req, Idle
<1>2. /\ UNCHANGED <<mode, store, seen, session, now, stops, took>> /\ sent' = sent
      /\ This' = This /\ Before' = Before
      /\ job'[w] = Idle /\ \A v \in Workers : v # w => job'[v] = job[v]
  BY ThisStays DEF Answer, Lost, Received, bounds, clients, Before, IInv, TypeOK
<1>3. /\ \A v \in Workers : \A id : Holds(v, id)' <=> Holds(v, id)
      /\ \A v \in Workers : v # w => Req(v)' = Req(v)
      /\ \A v \in Workers : Done(v)' => v # w /\ Done(v)
      /\ \A v \in Workers : Pending(v)' => v # w /\ Pending(v)
      /\ \A v \in Workers : \A id : Holds(v, id)' => v # w
  BY <1>1, <1>2 DEF Holds, Running, At, Req, Done, Pending, Idle
<1>c. \A r : Closed(r)' <=> Closed(r)
  <2>1. ~At(w, "replay") /\ ~At(w, "replay")'
    BY <1>1, <1>2 DEF At, Idle
  <2>2. \A v \in Workers : v # w => (At(v, "replay")' <=> At(v, "replay")) /\ Req(v)' = Req(v)
    BY <1>2 DEF At, Req
  <2> QED BY <1>2, <2>1, <2>2 DEF Closed, Dead
<1>4. /\ \A r : Open(r)' => Open(r)
      /\ SpentInv /\ OneIsFinal /\ job[w].final => ~Open(q)'
      /\ SpentInv => SpentInv'
  <2>1. \A v \in Workers : job'[v].final => v # w /\ job[v].final
    BY <1>2 DEF Idle
  <2>2. SpentInv /\ OneIsFinal /\ job[w].final =>
          Closed(q) /\ \A v \in Workers : job[v].final /\ Req(v) = q => v = w
    BY <1>q DEF SpentInv, OneIsFinal
  <2> QED BY <1>2, <1>3, <1>c, <2>1, <2>2 DEF Open, SpentInv
<1>5. ASSUME NEW v \in Workers PROVE HandlerInv(v)' /\ TimeInv(v)'
  <2>1. CASE v = w
    BY <1>2, <2>1 DEF HandlerInv, TimeInv, At, Req, Done, Idle
  <2>2. CASE v # w
    <3>1. HandlerInv(v)'
      BY <1>2, <2>2 DEF IInv, HandlerInv, At, Req, Done, store
    <3> QED BY <1>2, <2>2, <3>1 DEF IInv, TimeInv, At, Req
  <2> QED BY <2>1, <2>2
<1>6. OneIsFinal => OneIsFinal'
  BY <1>2 DEF OneIsFinal, Req, Idle
<1>7. ProcessInv' /\ CacheInv'
  <2>1. refused' \subseteq refused \cup {q}
    BY <1>q DEF Answer, Lost, Received, clients
  <2> QED BY <1>1, <1>2, <2>1 DEF IInv, ProcessInv, CacheInv
<1>8. HeldInv' /\ ConsentInv'
  BY <1>2, <1>3 DEF IInv, HeldInv, ConsentInv, Consented, store
<1>9. EffectInv => EffectInv'
  BY <1>2, <1>3, <1>c DEF EffectInv
<1>10. SpentInv /\ OneIsFinal /\ AnswersInv => AnswersInv'
  <2> SUFFICES ASSUME SpentInv, OneIsFinal, AnswersInv PROVE AnswersInv'
    OBVIOUS
  <2>1. ASSUME Done(w), q.cmd \in Changes, NEW r \in sent, SameTarget(q, r), r # q PROVE ~Open(r)
    BY <1>q, <1>1, <2>1 DEF AnswersInv, SentInv, Open, Changes
  <2>2. RefusedInv'
    <3>1. \A r \in refused' \ refused : r = q /\ (q.cmd # "owner" => job[w].final)
      BY <1>q DEF Answer, Lost, Received, clients
    <3> QED BY <1>4, <3>1 DEF AnswersInv, RefusedInv
  <2>3. SentInv'
    <3>1. \A r \in settled' \ settled : r = q /\ q \in sent /\ (q.cmd # "owner" => job[w].final)
      BY <1>q DEF Answer, Lost, Received, clients
    <3>2. q \in sent => q.cmd # "owner"
      BY DEF IInv, ProcessInv, Changes
    <3>3. \A r, t : SameTarget(r, t)' <=> SameTarget(r, t)
      BY DEF SameTarget
    <3> QED BY <1>2, <1>4, <3>1, <3>2, <3>3 DEF AnswersInv, SentInv
  <2>4. ReplyInv'
    BY <1>2, <1>3 DEF AnswersInv, ReplyInv, store
  <2>5. DeniedInv'
    <3>1. ASSUME NEW id \in Ids, NEW program \in Programs,
                 <<id, program>> \in denied', <<id, program>> \notin denied
          PROVE  Done(w) /\ q.cmd = "edit" /\ id = Target(q) /\ program \notin q.list
      BY <1>q, <1>1, <3>1 DEF Answer, Lost, Received, clients, Done, At
    <3>2. ASSUME NEW id \in Ids, NEW program \in Programs,
                 <<id, program>> \in denied', <<id, program>> \notin denied,
                 NEW r \in sent, r.cmd = "edit", Target(r) = id, program \in r.list
          PROVE  ~Open(r)
      <4>1. r \in Requests
        BY SessionType DEF IInv, TypeOK, ProcessInv
      <4> QED BY <1>1, <2>1, <3>1, <3>2, <4>1, EditTarget DEF Changes
    <3> QED BY <1>q, <1>2, <1>4, <3>1, <3>2 DEF AnswersInv, DeniedInv, ReplyInv, store
  <2>6. GoneInv'
    <3>1. ASSUME NEW program \in gone', program \notin gone
          PROVE  Done(w) /\ q.cmd = "unload" /\ program = q.program
      BY <1>q, <1>1, <3>1 DEF Answer, Lost, Received, clients, Done, At
    <3>2. ASSUME NEW program \in gone', program \notin gone,
                 NEW r \in sent, r.cmd = "upload", r.program = program
          PROVE  ~Open(r)
      BY <2>1, <3>1, <3>2 DEF SameTarget, Changes
    <3> QED BY <1>q, <1>2, <1>4, <3>1, <3>2 DEF AnswersInv, GoneInv, ReplyInv, store
  <2> QED BY <2>2, <2>3, <2>4, <2>5, <2>6 DEF AnswersInv
<1>11. BarredInv => BarredInv'
  <2>1. gone \subseteq gone'
    BY DEF Answer, Lost, Received, clients
  <2> QED BY <1>2, <2>1 DEF BarredInv, Req, Idle
<1> QED BY <1>2, <1>4, <1>5, <1>6, <1>7, <1>8, <1>9, <1>10, <1>11 DEF IInv, SignatureInv

-----------------------------------------------------------------------------
(* The steps of the process                                                *)

\* The process ends, and with it every handler and every use of data.
LEMMA StopStep ==
    ASSUME IInv, TypeOK', Stop
    PROVE  IInv'
<1>1. /\ UNCHANGED <<session, owner, programs, seen, now, took, clients>> /\ mode' = "down"
      /\ stops' = stops + 1 /\ This' = This
      /\ \A w \in Workers : job'[w] = Idle
  BY ThisStays DEF Stop
<1>2. \A id \in Ids : data'[id].state # "IN_USE" /\ data'[id].by = data[id].by
  BY DEF Stop, IInv, TypeOK, Record
<1>3. ListsKept
  BY DEF Stop, IInv, TypeOK, Record, ListsKept
<1>4. \A w \in Workers : ~Done(w)' /\ ~Pending(w)' /\ (\A id : ~Holds(w, id)')
                        /\ HandlerInv(w)' /\ TimeInv(w)'
  <2>1. \A w \in Workers : ~Done(w)' /\ ~Pending(w)' /\ \A id : ~Holds(w, id)'
    BY <1>1 DEF Done, Pending, Holds, Running, At, Idle
  <2>2. ASSUME NEW w \in Workers PROVE HandlerInv(w)' /\ TimeInv(w)'
    <3>1. job'[w] = Idle
      BY <1>1
    <3>2. Idle.req = NoRequest /\ Idle.stage = "idle"
      BY DEF Idle
    <3>3. Req(w)' = NoRequest /\ At(w, "idle")'
      BY ONLY <3>1, <3>2 DEF Req, At
    <3>4. HandlerInv(w)'
      BY ONLY <3>1, <3>3 DEF HandlerInv
    <3> QED BY <3>3, <3>4 DEF TimeInv, At
  <2> QED BY <2>1, <2>2
<1>5. OneIsFinal' /\ SpentInv'
  BY <1>1 DEF OneIsFinal, SpentInv, Idle
<1>6. ProcessInv' /\ CacheInv'
  BY <1>1 DEF IInv, ProcessInv, CacheInv, clients
<1>7. HeldInv'
  BY <1>2, <1>4 DEF HeldInv
<1>8. ConsentInv'
  BY <1>1, <1>2, <1>3, <1>4 DEF IInv, ConsentInv, Consented, ListsKept
<1>c. \A q : Closed(q) => Closed(q)'
  BY <1>1 DEF Closed, Dead, At, Idle
<1>9. EffectInv => EffectInv'
  <2>1. Before \in Nat /\ took \in [This.requests -> Nat]
        /\ Before' = IF This.quick THEN Before + 1 ELSE Before
    BY <1>1 DEF Before, IInv, TypeOK
  <2>2. CASE This.quick
    BY <1>1, <1>4, <2>1, <2>2 DEF EffectInv
  <2>3. CASE ~This.quick
    BY <1>1, <1>4, <1>c, <2>1, <2>3 DEF EffectInv
  <2> QED BY <2>2, <2>3
<1>10. \A q : Open(q)' => Open(q)
  BY <1>1, <1>c DEF Open, Idle
<1>11. AnswersInv => AnswersInv'
  BY <1>1, <1>3, <1>4, <1>10, AnswersKept
<1>12. BarredInv'
  BY <1>1 DEF BarredInv, Req, Idle
<1> QED BY <1>1, <1>4, <1>5, <1>6, <1>7, <1>8, <1>9, <1>11, <1>12 DEF IInv, SignatureInv

\* Steps of the process and of time that leave the handlers alone.
LEMMA ProcessStep ==
    ASSUME IInv, TypeOK', ListsKept, UNCHANGED <<session, owner, programs, stops, job, took, clients>>,
           \A id \in Ids : data'[id].state = "IN_USE" <=> data[id].state = "IN_USE",
           mode' = "draining" \/ mode' = mode \/ (mode' = "up" /\ mode = "boot")
                              \/ (mode' = "boot" /\ mode = "down"),
           now' = now \/ (now' = now + 1 /\ \A w \in Workers :
                            At(w, "replay") => now < job[w].read + Latency),
           \/ seen' = seen
           \/ /\ mode = "down" /\ mode' = "boot" /\ now' = now
              /\ \A q \in This.requests : seen'[q] = 0
              /\ This.quick \/ \A q \in This.requests : seen[q] # 0 => q.stamp + Window < now
    PROVE  IInv'
<1>1. This' = This /\ Before' = Before
  BY ThisStays DEF Before
<1>2. \A w \in Workers :
        /\ Req(w)' = Req(w) /\ (Done(w)' <=> Done(w)) /\ (Pending(w)' <=> Pending(w))
        /\ \A id : Holds(w, id)' <=> Holds(w, id)
        /\ \A stage : At(w, stage)' <=> At(w, stage)
  BY DEF Req, Done, Pending, Holds, Running, At
<1>3. \A q \in This.requests : q.stamp \in Nat
  BY SessionType, RequestType DEF IInv, TypeOK
<1>4. \A w \in Workers : seen' # seen => job[w] = Idle
  BY DEF IInv, ProcessInv
<1>5. now \in Nat /\ now' \in Nat /\ now <= now'
  BY DEF IInv, TypeOK
<1>6. ASSUME NEW w \in Workers PROVE HandlerInv(w)' /\ TimeInv(w)'
  <2>1. HandlerInv(w) /\ TimeInv(w) /\ sent' = sent
    BY DEF IInv, clients
  <2>2. HandlerInv(w)'
    BY <1>1, <1>2, <2>1 DEF HandlerInv, At, Req, Done
  <2>3. /\ At(w, "auth") => Req(w) \in This.requests
        /\ job[w].read \in Nat
    BY <2>1, JobType DEF IInv, HandlerInv, At, Req, Idle
  <2>4. At(w, "auth") => Req(w).stamp <= now' + Ahead
    BY <1>3, <1>5, <2>1, <2>3, ServerWindow DEF TimeInv
  <2>5. At(w, "replay") => /\ job[w].read <= now' /\ now' <= job[w].read + Latency
                           /\ Req(w).stamp <= job[w].read + Ahead
                           /\ job[w].read <= Req(w).stamp + Window
    BY <1>5, <2>1, <2>3, ServerWindow DEF TimeInv
  <2>6. TimeInv(w)'
    BY <1>2, <2>4, <2>5 DEF TimeInv, At, Req
  <2> QED BY <2>2, <2>6
<1>7. OneIsFinal => OneIsFinal'
  BY <1>2 DEF OneIsFinal
<1>8. ProcessInv' /\ CacheInv'
  BY <1>1 DEF IInv, ProcessInv, CacheInv, clients
<1>9. HeldInv'
  BY <1>2 DEF IInv, HeldInv
<1>10. ConsentInv'
  BY <1>1, <1>2 DEF IInv, ConsentInv, Consented, ListsKept
<1>11. ASSUME NEW q \in This.requests, Closed(q), seen' = seen \/ ~This.quick
       PROVE  Closed(q)'
  <2>1. Dead(q) => Dead(q)'
    BY <1>2, <1>3, <1>5, ServerWindow DEF Dead
  <2>2. CASE seen' = seen
    BY <1>11, <2>1, <2>2 DEF Closed
  <2>3. CASE seen' # seen
    <3>1. \A w \in Workers : ~At(w, "replay")
      BY <1>4, <2>3 DEF At, Idle
    <3>2. seen[q] # 0 => Dead(q)
      BY <1>11, <2>3, <3>1 DEF Dead
    <3> QED BY <1>11, <2>1, <3>2 DEF Closed
  <2> QED BY <2>2, <2>3
<1>12. SpentInv => SpentInv'
  <2>1. ASSUME SpentInv, NEW w \in Workers, job'[w].final PROVE Closed(Req(w))'
    <3>1. seen' = seen
      BY <1>4, <2>1 DEF Idle
    <3>2. PICK q \in This.requests : q = Req(w)
      BY <2>1 DEF IInv, HandlerInv, Req, At, Idle
    <3>3. Closed(q)' /\ Req(w)' = q
      BY <1>2, <1>11, <2>1, <3>1, <3>2 DEF SpentInv
    <3> QED BY <3>3 DEF Closed, Dead
  <2> QED BY <2>1 DEF SpentInv
<1>13. EffectInv => EffectInv'
  <2>1. ASSUME NEW q \in This.requests, ~Closed(q)'
        PROVE  ~Closed(q) \/ (mode = "down" /\ This.quick)
    BY <1>11, <2>1
  <2>2. mode' = "down" => mode = "down"
    OBVIOUS
  <2> QED BY <1>1, <1>2, <2>1, <2>2 DEF EffectInv
<1>14. AnswersInv /\ ~This.quick => AnswersInv'
  <2>1. ASSUME AnswersInv, ~This.quick, NEW q \in This.requests, Open(q)' PROVE Open(q)
    BY <1>2, <1>11, <2>1 DEF Open
  <2> QED BY <1>1, <1>2, <2>1, AnswersKept
<1>15. BarredInv => BarredInv'
  BY <1>2 DEF BarredInv, clients
<1> QED BY <1>1, <1>6, <1>7, <1>8, <1>9, <1>10, <1>12, <1>13, <1>14, <1>15 DEF IInv, SignatureInv

\* Every step of the process and of time.
LEMMA ProcessActions ==
    ASSUME IInv, TypeOK', Process
    PROVE  IInv'
<1> USE DEF store, bounds
<1>1. CASE Crash \/ Exit
  BY <1>1, StopStep DEF Crash, Exit
<1>2. CASE Shutdown \/ Serve
  <2>1. /\ UNCHANGED <<session, owner, programs, data, stops, job, took, clients, seen, now>>
        /\ mode' = "draining" \/ (mode' = "up" /\ mode = "boot")
    BY <1>2 DEF Shutdown, Serve
  <2>2. ListsKept
    BY <2>1 DEF ListsKept
  <2> QED BY <2>1, <2>2, ProcessStep
<1>3. CASE Boot
  <2>1. /\ UNCHANGED <<session, owner, programs, data, stops, job, took, clients, now>>
        /\ (\A q \in This.requests : seen'[q] = 0) /\ mode = "down" /\ mode' = "boot"
        /\ This.quick \/ \A q \in This.requests : seen[q] # 0 => q.stamp + Window < now
    BY <1>3 DEF Boot
  <2>2. ListsKept
    BY <2>1 DEF ListsKept
  <2> QED BY <2>1, <2>2, ProcessStep
<1>4. CASE Tick
  <2>1. /\ UNCHANGED <<session, mode, owner, programs, data, stops, job, took, clients, seen>>
        /\ now' = now + 1 /\ \A w \in Workers : At(w, "replay") => now < job[w].read + Latency
    BY <1>4 DEF Tick
  <2>2. ListsKept
    BY <2>1 DEF ListsKept
  <2> QED BY <2>1, <2>2, ProcessStep
<1>5. ASSUME NEW id \in Ids, Recover(id) PROVE IInv'
  <2>1. UNCHANGED <<session, mode, owner, programs, stops, job, took, clients, seen, now>>
    BY <1>5 DEF Recover
  <2>2. /\ data[id].state = "DELETING"
        /\ data' = [data EXCEPT ![id].state = "DELETED"] /\ data \in [Ids -> Record]
    BY <1>5 DEF Recover, IInv, TypeOK
  <2>3. /\ ListsKept
        /\ \A d \in Ids : data'[d].state = "IN_USE" <=> data[d].state = "IN_USE"
    BY <2>1, <2>2 DEF ListsKept, Record
  <2> QED BY <2>1, <2>3, ProcessStep
<1> QED BY <1>1, <1>2, <1>3, <1>4, <1>5 DEF Process

-----------------------------------------------------------------------------
(* The invariant                                                           *)

\* The first process, before it serves.
LEMMA InvariantBegins == Init => IInv
<1> SUFFICES ASSUME Init PROVE IInv
  OBVIOUS
<1>1. session \in DOMAIN Sessions
  BY DEF Init
<1>2. This.quick \in BOOLEAN /\ Before = 0
  BY <1>1, SessionType DEF Init, Before
<1>3. TypeOK
  BY <1>1, SessionType, IdleType DEF Init, TypeOK
<1>4. /\ \A w \in Workers : job[w] = Idle /\ Req(w) = NoRequest /\ At(w, "idle")
                            /\ ~Done(w) /\ ~Pending(w) /\ \A id : ~Holds(w, id)
      /\ ~Idle.final
  BY DEF Init, Req, At, Done, Pending, Holds, Running, Idle
<1>5. \A w \in Workers : HandlerInv(w) /\ TimeInv(w)
  BY <1>4 DEF HandlerInv, TimeInv, At, Idle
<1>6. OneIsFinal /\ SpentInv /\ ProcessInv /\ CacheInv
  BY <1>4 DEF Init, OneIsFinal, SpentInv, ProcessInv, CacheInv
<1>7. \A id \in Ids : data[id].state = "ABSENT"
  BY DEF Init, Absent
<1>8. HeldInv /\ ConsentInv
  BY <1>4, <1>7 DEF HeldInv, ConsentInv
<1>9. EffectInv
  BY <1>2, <1>4 DEF Init, EffectInv
<1>10. AnswersInv
  <2>1. sent = {} /\ settled = {} /\ refused = {} /\ denied = {} /\ gone = {}
    BY DEF Init
  <2> QED BY <1>4, <2>1 DEF AnswersInv, RefusedInv, SentInv, ReplyInv, DeniedInv, GoneInv
<1>11. BarredInv
  BY <1>4 DEF BarredInv, At
<1> QED BY <1>3, <1>5, <1>6, <1>8, <1>9, <1>10, <1>11 DEF IInv, SignatureInv

\* Nothing the invariant speaks of changes when nothing changes.
LEMMA InvariantStutters == IInv /\ UNCHANGED vars => IInv'
<1> SUFFICES ASSUME IInv, UNCHANGED vars PROVE IInv'
  OBVIOUS
<1>1. /\ UNCHANGED <<mode, owner, programs, data, seen, session, now, deliveries, faults, stops>>
      /\ UNCHANGED <<job, took, sent, settled, refused, denied, gone>>
  BY DEF vars, store, bounds, clients
<1>2. TypeOK' /\ This' = This
  BY <1>1, ThisStays DEF IInv, TypeOK
<1>3. ListsKept
  BY <1>1 DEF ListsKept
<1> QED BY <1>1, <1>2, <1>3, ProcessStep DEF clients

\* One lemma for each action, above.
LEMMA InvariantIsKept == IInv /\ [Next]_vars => IInv'
<1> SUFFICES ASSUME IInv, [Next]_vars PROVE IInv'
  OBVIOUS
<1>1. TypeOK'
  BY TypeStep DEF IInv
<1>2. CASE Process
  BY <1>1, <1>2, ProcessActions
<1>3. ASSUME NEW w \in Workers, NEW q \in This.requests, Accept(w, q) PROVE IInv'
  BY <1>1, <1>3, AcceptStep
<1>4. ASSUME NEW w \in Workers, Handle(w) \/ RunEnds(w) PROVE IInv'
  <2>1. CASE Authenticate(w)
    BY <1>1, <2>1, AuthenticateStep
  <2>5. CASE CheckReplay(w)
    BY <1>1, <2>5, CheckReplayStep
  <2>2. CASE Command(w)
    BY <1>1, <2>2, RegisterOwnerStep, UploadStep, UnloadStep, RegisterStep, EditStep, DeleteStep,
       GetProgramStep, BeginExecuteStep DEF Command
  <2>3. CASE RunIsAborted(w) \/ RunEnds(w)
    BY <1>1, <2>3, EndsStep DEF RunIsAborted, RunEnds
  <2>4. CASE Answer(w)
    BY <1>1, <2>4, AnswerStep
  <2> QED BY <1>4, <2>1, <2>2, <2>3, <2>4, <2>5 DEF Handle
<1>5. CASE UNCHANGED vars
  BY <1>5, InvariantStutters
<1> QED BY <1>2, <1>3, <1>4, <1>5 DEF Next

\* Whatever is delivered, repeated or lost, and whenever the process ends.
THEOREM ServerInvariantHolds == Spec => []IInv
  BY InvariantBegins, InvariantIsKept, PTL DEF Spec

-----------------------------------------------------------------------------
(* The promises                                                            *)

\* Every variable of the server has its type.
THEOREM ServerTypes == Spec => []TypeOK
<1>1. IInv => TypeOK
  BY DEF IInv
<1> QED BY <1>1, ServerInvariantHolds, PTL

\* The data of a run is IN_USE, and in the hands of no other run, until the run has
\* ended: beginExecute checks and marks under one lock, and what is IN_USE is
\* neither begun again nor deleted.
THEOREM OneRunHoldsData == Spec => []HeldByOneRun
<1>1. ASSUME IInv, NEW id \in Ids
      PROVE  Cardinality({w \in Workers : Running(w) /\ id \in Has(Req(w))})
                 = IF data[id].state = "IN_USE" THEN 1 ELSE 0
  <2> DEFINE holders == {w \in Workers : Holds(w, id)}
  <2>1. holders = {w \in Workers : Running(w) /\ id \in Has(Req(w))}
    BY DEF Holds
  <2>2. CASE data[id].state # "IN_USE"
    <3>1. holders = {}
      BY <1>1, <2>2 DEF IInv, HeldInv
    <3> QED BY <2>1, <2>2, <3>1, FS_EmptySet
  <2>3. CASE data[id].state = "IN_USE"
    <3>1. PICK v \in Workers : Holds(v, id)
      BY <1>1, <2>3 DEF IInv, HeldInv
    <3>2. holders = {v}
      BY <1>1, <3>1 DEF IInv, HeldInv
    <3> QED BY <2>1, <2>3, <3>2, FS_Singleton
  <2> QED BY <2>2, <2>3
<1>2. IInv => HeldByOneRun
  BY <1>1 DEF HeldByOneRun
<1> QED BY <1>2, ServerInvariantHolds, PTL

\* A run began with the owner's signature and with the uploader's consent for each
\* piece of data, and neither is undone while it goes on: there is one owner for
\* good, and who uploaded the data is not forgotten.
THEOREM RunsHaveConsent == Spec => []RunsByConsent
<1>1. ASSUME IInv, NEW w \in Workers, Running(w)
      PROVE  /\ Req(w).key = owner
             /\ \A id \in Has(Req(w)) : Consented(id, Req(w).program)
  <2>1. Req(w) # NoRequest
    BY <1>1 DEF IInv, HandlerInv, Running, At
  <2>2. Req(w) \in Requests /\ Req(w).cmd = "execute"
    BY <1>1, <2>1, SessionType DEF IInv, TypeOK, HandlerInv, Running, At
  <2>3. Req(w).key = owner
    BY <1>1, <2>1, <2>2 DEF IInv, HandlerInv, Running, At, OwnerOnly
  <2>4. ASSUME NEW id \in Has(Req(w)) PROVE Consented(id, Req(w).program)
    BY <1>1, <2>2, <2>4, RequestType DEF IInv, ConsentInv, Holds
  <2> QED BY <2>3, <2>4
<1>2. IInv => RunsByConsent
  BY <1>1 DEF RunsByConsent, Consented
<1> QED BY <1>2, ServerInvariantHolds, PTL

\* The signature is entered in the step that accepts it, of the handlers that have the
\* request one at most is past that step, and when the entry is purged no other can
\* be in the window. It takes handlers and clocks whose differences add up to no more
\* than the window: without that the code carries a command out twice.
THEOREM CommandsActOnce ==
    ASSUME Timely
    PROVE  Spec => []EffectOnce
<1>1. IInv => EffectOnce
  BY DEF IInv, SignatureInv, EffectInv, EffectOnce, Before
<1> QED BY <1>1, ServerInvariantHolds, PTL

\* A program that is deleted is looked up in vain until it is uploaded again, and no
\* upload is under way when the deletion is answered, nor is one accepted again.
THEOREM DeletedProgramsStayOut ==
    ASSUME Timely
    PROVE  Spec => []DeletedProgramStaysOut
<1>1. IInv => DeletedProgramStaysOut
  BY DEF IInv, SignatureInv, BarredInv, DeletedProgramStaysOut, Running, At
<1> QED BY <1>1, ServerInvariantHolds, PTL

-----------------------------------------------------------------------------
(* What no step does                                                       *)

\* A handler's step leaves the other handlers where they are.
LEMMA OthersStay ==
    ASSUME IInv, NEW w \in Workers, Handle(w) \/ RunEnds(w), NEW v \in Workers, v # w
    PROVE  job'[v] = job[v]
<1>1. job \in [Workers -> Job]
  BY DEF IInv, TypeOK
<1>2. CASE \E stage \in Stages, code \in Nat : Goto(w, stage) \/ Reply(w, code)
  BY <1>1, <1>2 DEF Goto, Reply
<1>3. CASE Authenticate(w)
  BY <1>1, <1>3 DEF Authenticate, Reply
<1>4. CASE CheckReplay(w) \/ Answer(w)
  BY <1>1, <1>4 DEF CheckReplay, Answer
<1>5. CASE Command(w) \/ RunIsAborted(w) \/ RunEnds(w)
  <2>1. \E stage, code : Goto(w, stage) \/ Reply(w, code)
    <3>1. CASE RegisterOwner(w)
      BY <3>1 DEF RegisterOwner, Refuse, Fails
    <3>2. CASE Upload(w)
      BY <3>2 DEF Upload, Refuse, Fails
    <3>3. CASE Unload(w)
      BY <3>3 DEF Unload, Refuse, Fails
    <3>4. CASE Register(w)
      BY <3>4 DEF Register, Refuse, Fails
    <3>5. CASE Edit(w)
      BY <3>5 DEF Edit, Refuse, Fails
    <3>6. CASE Delete(w)
      BY <3>6 DEF Delete, Refuse, Fails
    <3>7. CASE GetProgram(w) \/ BeginExecute(w)
      BY <3>7 DEF GetProgram, BeginExecute, Refuse, Fails
    <3>8. CASE RunIsAborted(w) \/ RunEnds(w)
      BY <3>8 DEF RunIsAborted, RunEnds, Ends
    <3> QED BY <1>5, <3>1, <3>2, <3>3, <3>4, <3>5, <3>6, <3>7, <3>8 DEF Command
  <2> QED BY <1>1, <2>1 DEF Goto, Reply
<1> QED BY <1>3, <1>4, <1>5 DEF Handle

\* Every effect is that of a handler in its command, on the request it has.
LEMMA EffectsAreCommands ==
    ASSUME IInv, [Next]_vars, took' # took
    PROVE  \E w \in Workers :
              /\ TakesEffect(w) /\ job[w].stage \in {"act", "begin"} /\ Req(w) # NoRequest
<1> USE DEF store, bounds
<1>1. ~UNCHANGED vars /\ ~Process
  BY DEF vars, Process, Crash, Exit, Stop, Shutdown, Boot, Serve, Tick, Recover
<1>2. \A w \in Workers, q \in This.requests : ~Accept(w, q)
  BY DEF Accept
<1>3. PICK w \in Workers : Handle(w) \/ RunEnds(w)
  BY <1>1, <1>2 DEF Next
<1>4. Command(w)
  BY <1>3 DEF Handle, RunEnds, RunIsAborted, Ends, Answer, Authenticate, CheckReplay
<1>5. TakesEffect(w) /\ job[w].stage \in {"act", "begin"}
  <2>1. CASE RegisterOwner(w)
    BY <2>1 DEF RegisterOwner, Refuse, Fails, Acts, At
  <2>2. CASE Upload(w)
    BY <2>2 DEF Upload, Refuse, Fails, Acts, At
  <2>3. CASE Unload(w)
    BY <2>3 DEF Unload, Refuse, Fails, Acts, At
  <2>4. CASE Register(w)
    BY <2>4 DEF Register, Refuse, Fails, Acts, At
  <2>5. CASE Edit(w)
    BY <2>5 DEF Edit, Refuse, Fails, Acts, At
  <2>6. CASE Delete(w)
    BY <2>6 DEF Delete, Refuse, Fails, Acts, At
  <2>7. CASE GetProgram(w)
    BY <2>7 DEF GetProgram, Refuse, Fails
  <2>8. CASE BeginExecute(w)
    BY <2>8 DEF BeginExecute, Refuse, Fails, At
  <2> QED BY <1>4, <2>1, <2>2, <2>3, <2>4, <2>5, <2>6, <2>7, <2>8 DEF Command
<1>6. Req(w) # NoRequest
  BY <1>5 DEF IInv, HandlerInv, At, Idle
<1> QED BY <1>5, <1>6

\* Whoever was told of a refusal can be sure of it: the refused delivery has entered
\* the signature, or the timestamp is over, no other delivery is in its command, and
\* none is accepted after the entry is purged, if handlers and clocks are Timely.
THEOREM RefusalsAreFinal ==
    ASSUME Timely
    PROVE  Spec => RefusedForGood
<1>1. ASSUME IInv, [Next]_vars, ~This.quick, NEW q \in refused, q.cmd # "owner"
      PROVE  took'[q] = took[q]
  <2>1. q \in This.requests /\ ~Open(q)
    BY <1>1 DEF IInv, ProcessInv, SignatureInv, AnswersInv, RefusedInv
  <2>2. SUFFICES ASSUME took' # took PROVE took'[q] = took[q]
    OBVIOUS
  <2>3. PICK w \in Workers :
           /\ TakesEffect(w) /\ job[w].stage \in {"act", "begin"} /\ Req(w) # NoRequest
    BY <1>1, <2>2, EffectsAreCommands
  <2>4. Req(w).cmd = "owner" \/ job[w].final
    BY <1>1, <2>3 DEF IInv, HandlerInv
  <2>5. Req(w) # q
    BY <1>1, <2>1, <2>4 DEF Open
  <2>6. took \in [This.requests -> Nat]
    BY <1>1 DEF IInv, TypeOK
  <2> QED BY <2>1, <2>3, <2>5, <2>6 DEF TakesEffect
<1>2. IInv /\ [Next]_vars =>
        [~This.quick => \A q \in refused : q.cmd # "owner" => took'[q] = took[q]]_vars
  BY <1>1
<1> QED BY <1>2, ServerInvariantHolds, PTL DEF Spec, RefusedForGood

\* A run begins with beginExecute, which has found nothing against it.
LEMMA RunsBeginFree ==
    ASSUME IInv, [Next]_vars, NEW w \in Workers, Begins(w)
    PROVE  BeginExecute(w) /\ BeginCode(Req(w)) = 0 /\ Req(w) \in Requests
<1> USE DEF store, bounds
<1>1. job \in [Workers -> Job] /\ At(w, "begin") /\ job'[w].stage = "run"
  BY DEF Begins, IInv, TypeOK
<1>2. Req(w) \in Requests
  BY <1>1, SessionType DEF IInv, TypeOK, HandlerInv, At, Req, Idle
<1>3. ~UNCHANGED vars
  BY <1>1 DEF vars, At
<1>4. ~Process
  BY <1>1 DEF Process, Crash, Exit, Stop, Shutdown, Boot, Serve, Tick, Recover, At, Idle
<1>5. ASSUME NEW v \in Workers, NEW q \in This.requests, Accept(v, q) PROVE FALSE
  <2>1. v # w
    BY <1>1, <1>5 DEF Accept, At, Idle
  <2>2. job'[w] = [job[w] EXCEPT !.barred = @ \ Reopened(q)]
    BY <1>5, <2>1 DEF Accept
  <2> QED BY <1>1, <2>2 DEF At, Job
<1>6. Handle(w) \/ RunEnds(w)
  <2>1. PICK v \in Workers : Handle(v) \/ RunEnds(v)
    BY <1>3, <1>4, <1>5 DEF Next
  <2>2. v = w
    BY <1>1, <2>1, OthersStay DEF At
  <2> QED BY <2>1, <2>2
<1>7. BeginExecute(w)
  BY <1>1, <1>6 DEF Handle, RunEnds, RunIsAborted, Ends, Answer, Lost, Received, Authenticate, CheckReplay,
     Command,
     RegisterOwner, Upload, Unload, Register, Edit, Delete, GetProgram, Acts, At
<1>8. BeginCode(Req(w)) = 0
  <2>1. ASSUME NEW code, Reply(w, code) PROVE FALSE
    <3>1. job'[w] = [job[w] EXCEPT !.stage = "reply", !.code = code] /\ job[w] \in Job
      BY <1>1, <2>1 DEF Reply
    <3> QED BY <1>1, <3>1 DEF Job
  <2> QED BY <1>7, <2>1 DEF BeginExecute, Refuse, Fails
<1> QED BY <1>2, <1>7, <1>8

\* An edit that was answered stands: no other edit of the list is under way that would
\* undo it, and beginExecute looks at the list again after the request was accepted.
THEOREM EditsStand ==
    ASSUME Timely
    PROVE  Spec => EditStands
<1>1. ASSUME IInv, [Next]_vars, NEW w \in Workers, Begins(w), ~This.quick, NEW id \in Has(Req(w))
      PROVE  <<id, Req(w).program>> \notin denied
  <2>1. BeginCode(Req(w)) = 0 /\ Req(w) \in Requests
    BY <1>1, RunsBeginFree
  <2>2. id \in Ids /\ Req(w).program \in Programs
    BY <1>1, <2>1, RequestType
  <2>3. Req(w).program \in data[id].allowed
    BY <1>1, <2>1, BeginCodeIsObjection DEF IInv
  <2> QED BY <1>1, <2>2, <2>3 DEF IInv, SignatureInv, AnswersInv, DeniedInv
<1>2. IInv /\ [Next]_vars =>
        [\A w \in Workers : Begins(w) /\ ~This.quick =>
            \A id \in Has(Req(w)) : <<id, Req(w).program>> \notin denied]_vars
  BY <1>1
<1> QED BY <1>2, ServerInvariantHolds, PTL DEF Spec, EditStands

-----------------------------------------------------------------------------
(* The contract of registered data                                         *)

\* What the contract sees of the server.
Phase(id) == PhaseOf(data[id].state)
Users(w)  == IF Running(w) THEN Has(Req(w)) ELSE {}

\* Steps that change neither the phase nor the list of any data are no steps of the
\* contract, unless they change who uses it.
LEMMA ContractKept ==
    ASSUME \A id \in Ids : Phase(id)' = Phase(id) /\ data'[id].allowed = data[id].allowed,
           \A w \in Workers : Users(w)' = Users(w)
    PROVE  UNCHANGED Contract!cvars
<1>1. /\ [id \in Ids |-> PhaseOf(data[id].state)]' = [id \in Ids |-> PhaseOf(data[id].state)]
      /\ [id \in Ids |-> data[id].allowed]' = [id \in Ids |-> data[id].allowed]
  BY DEF Phase
<1>2. [w \in Workers |-> IF Running(w) THEN Has(Req(w)) ELSE {}]'
        = [w \in Workers |-> IF Running(w) THEN Has(Req(w)) ELSE {}]
  BY DEF Users
<1> QED BY <1>1, <1>2 DEF Contract!cvars

\* A handler that is not running before or after its step uses nothing new.
LEMMA UsersStay ==
    ASSUME NEW w \in Workers, \A v \in Workers : v # w => job'[v] = job[v],
           job[w].stage # "run", job'[w].stage # "run"
    PROVE  \A v \in Workers : Users(v)' = Users(v)
<1>1. ASSUME NEW v \in Workers, v # w PROVE Users(v)' = Users(v)
  BY <1>1 DEF Users, Running, At, Req
<1>2. Users(w) = {} /\ Users(w)' = {}
  BY DEF Users, Running, At
<1> QED BY <1>1, <1>2

\* The data of others is not in use.
LEMMA NobodyUses ==
    ASSUME IInv, NEW id \in Ids, data[id].state # "IN_USE"
    PROVE  ~Contract!InUse(id)
<1>1. \A w \in Workers : ~Holds(w, id)
  BY DEF IInv, HeldInv
<1>2. \A w \in Workers : id \notin Users(w)
  BY <1>1 DEF Users, Holds
<1> QED BY <1>2 DEF Contract!InUse, Users

\* The step of a handler that answers, told by where it stands.
LEMMA AnswersNow ==
    ASSUME IInv, NEW w \in Workers, NEW code, Reply(w, code)
    PROVE  job'[w].stage = "reply" /\ \A v \in Workers : v # w => job'[v] = job[v]
<1>1. job'[w] = [job[w] EXCEPT !.stage = "reply", !.code = code] /\ job[w] \in Job
  BY DEF Reply, IInv, TypeOK
<1>2. \A v \in Workers : v # w => job'[v] = job[v]
  BY DEF Reply, IInv, TypeOK
<1> QED BY <1>1, <1>2 DEF Job

\* One piece of data changes.
LEMMA OneRecord ==
    ASSUME IInv, NEW id \in Ids, NEW rec, data' = [data EXCEPT ![id] = rec]
    PROVE  /\ [d \in Ids |-> PhaseOf(data[d].state)]'
                = [[d \in Ids |-> PhaseOf(data[d].state)] EXCEPT ![id] = PhaseOf(rec.state)]
           /\ [d \in Ids |-> data[d].allowed]'
                = [[d \in Ids |-> data[d].allowed] EXCEPT ![id] = rec.allowed]
<1>1. data \in [Ids -> Record]
  BY DEF IInv, TypeOK
<1> QED BY <1>1

\* A record can change its state or its list by itself.
LEMMA RecordChanges ==
    ASSUME IInv, NEW id \in Ids
    PROVE  /\ \A state : /\ [data[id] EXCEPT !.state = state].state = state
                         /\ [data[id] EXCEPT !.state = state].allowed = data[id].allowed
           /\ \A list : /\ [data[id] EXCEPT !.allowed = list].state = data[id].state
                        /\ [data[id] EXCEPT !.allowed = list].allowed = list
<1>1. data[id] \in Record
  BY DEF IInv, TypeOK
<1> QED BY <1>1 DEF Record

\* The contract does not see a change of state within a phase.
LEMMA PhaseStays ==
    ASSUME IInv, NEW id \in Ids, NEW state, PhaseOf(state) = PhaseOf(data[id].state),
           data'[id] = data[id] \/ data'[id] = [data[id] EXCEPT !.state = state]
    PROVE  Phase(id)' = Phase(id) /\ data'[id].allowed = data[id].allowed
<1>1. CASE data'[id] = data[id]
  BY <1>1 DEF Phase
<1>2. CASE data'[id] = [data[id] EXCEPT !.state = state]
  <2>1. data'[id].state = state /\ data'[id].allowed = data[id].allowed
    BY <1>2, RecordChanges
  <2> QED BY <2>1 DEF Phase
<1> QED BY <1>1, <1>2

\* A registration creates data with the list that was signed.
LEMMA RegisterCreates ==
    ASSUME IInv, NEW w \in Workers, Register(w)
    PROVE  [Contract!ContractNext]_(Contract!cvars)
<1>1. job[w].stage = "act" /\ job'[w].stage = "reply" /\ \A v \in Workers : v # w => job'[v] = job[v]
  BY AnswersNow DEF Register, Acts, At, Fails
<1>2. \A v \in Workers : Users(v)' = Users(v)
  BY <1>1, UsersStay
<1>3. CASE data' = data
  BY <1>2, <1>3, ContractKept DEF Phase
<1>4. CASE \E id \in Ids : /\ data[id].state = "ABSENT"
                           /\ data' = [data EXCEPT ![id] = [state |-> "REGISTERED", by |-> Req(w),
                                                            allowed |-> Req(w).list]]
  <2>1. PICK id \in Ids : /\ data[id].state = "ABSENT"
                          /\ data' = [data EXCEPT ![id] = [state |-> "REGISTERED", by |-> Req(w),
                                                           allowed |-> Req(w).list]]
    BY <1>4
  <2>2. PICK list : list = Req(w).list
    OBVIOUS
  <2>3. list \in SUBSET Programs
    BY <1>1, <2>2, RequestType, SessionType DEF IInv, TypeOK, HandlerInv, At, Req, Idle
  <2>4. /\ [d \in Ids |-> PhaseOf(data[d].state)]'
             = [[d \in Ids |-> PhaseOf(data[d].state)] EXCEPT ![id] = "live"]
        /\ [d \in Ids |-> data[d].allowed]'
             = [[d \in Ids |-> data[d].allowed] EXCEPT ![id] = list]
    <3>1. PICK rec : rec = [state |-> "REGISTERED", by |-> Req(w), allowed |-> list]
      OBVIOUS
    <3>2. rec.state = "REGISTERED" /\ rec.allowed = list /\ data' = [data EXCEPT ![id] = rec]
      BY <2>1, <2>2, <3>1
    <3>3. PhaseOf(rec.state) = "live"
      BY <3>2 DEF PhaseOf
    <3> QED BY <3>2, <3>3, OneRecord
  <2>5. Contract!Create(id, list)
    BY <1>2, <2>1, <2>4 DEF Contract!Create, PhaseOf, Users
  <2> QED BY <2>3, <2>5 DEF Contract!ContractNext
<1> QED BY <1>3, <1>4 DEF Register, Fails, store

\* An edit puts another list in place.
LEMMA EditEdits ==
    ASSUME IInv, NEW w \in Workers, Edit(w)
    PROVE  [Contract!ContractNext]_(Contract!cvars)
<1>1. job[w].stage = "act" /\ job'[w].stage = "reply" /\ \A v \in Workers : v # w => job'[v] = job[v]
  BY AnswersNow DEF Edit, Acts, At, Refuse, Fails
<1>2. \A v \in Workers : Users(v)' = Users(v)
  BY <1>1, UsersStay
<1>3. PICK id, list : id = Target(Req(w)) /\ list = Req(w).list
  OBVIOUS
<1>4. id \in Ids /\ list \in SUBSET Programs
  <2>1. Req(w) \in Requests /\ Req(w).cmd = "edit"
    BY <1>1, SessionType DEF Edit, Acts, IInv, TypeOK, HandlerInv, At, Req, Idle
  <2> QED BY <1>3, <2>1, RequestType
<1>5. CASE data' = data
  BY <1>2, <1>5, ContractKept DEF Phase
<1>6. CASE EditCode(Req(w).key, data[id]) = 200 /\ data' = [data EXCEPT ![id] = Edited(@, list)]
  <2>1. data[id].state \in {"REGISTERED", "IN_USE"}
    BY <1>4, <1>6, EditCodeType DEF IInv
  <2>2. data' = [data EXCEPT ![id] = [data[id] EXCEPT !.allowed = list]]
    BY <1>4, <1>6 DEF Edited
  <2>3. /\ [d \in Ids |-> PhaseOf(data[d].state)]'
             = [[d \in Ids |-> PhaseOf(data[d].state)] EXCEPT ![id] = PhaseOf(data[id].state)]
        /\ [d \in Ids |-> data[d].allowed]'
             = [[d \in Ids |-> data[d].allowed] EXCEPT ![id] = list]
    <3>1. PICK rec : rec = [data[id] EXCEPT !.allowed = list]
      OBVIOUS
    <3>2. data' = [data EXCEPT ![id] = rec]
      BY <2>2, <3>1
    <3>3. rec.state = data[id].state /\ rec.allowed = list
      BY <1>4, <3>1, RecordChanges
    <3>4. /\ [d \in Ids |-> PhaseOf(data[d].state)]'
               = [[d \in Ids |-> PhaseOf(data[d].state)] EXCEPT ![id] = PhaseOf(rec.state)]
          /\ [d \in Ids |-> data[d].allowed]'
               = [[d \in Ids |-> data[d].allowed] EXCEPT ![id] = rec.allowed]
      BY ONLY <1>4, <3>2, IInv, OneRecord
    <3> QED BY ONLY <3>3, <3>4
  <2>4. Contract!Edit(id, list)
    BY <1>2, <1>4, <2>1, <2>3 DEF Contract!Edit, PhaseOf, Users
  <2> QED BY <1>4, <2>4 DEF Contract!ContractNext
<1> QED BY <1>3, <1>5, <1>6 DEF Edit, Refuse, Fails, store

\* A deletion, cut short or not, shreds what nobody uses.
LEMMA DeleteShreds ==
    ASSUME IInv, NEW w \in Workers, Delete(w)
    PROVE  [Contract!ContractNext]_(Contract!cvars)
<1>1. job[w].stage = "act" /\ job'[w].stage = "reply" /\ \A v \in Workers : v # w => job'[v] = job[v]
  BY AnswersNow DEF Delete, Acts, At, Refuse, Fails
<1>2. \A v \in Workers : Users(v)' = Users(v)
  BY <1>1, UsersStay
<1>3. PICK id : id = Target(Req(w))
  OBVIOUS
<1>4. id \in Ids
  <2>1. Req(w) \in Requests /\ Req(w).cmd = "delete"
    BY <1>1, SessionType DEF Delete, Acts, IInv, TypeOK, HandlerInv, At, Req, Idle
  <2> QED BY <1>3, <2>1, RequestType
<1>5. CASE data' = data
  BY <1>2, <1>5, ContractKept DEF Phase
<1>6. CASE /\ DeleteCode(Req(w).key, data[id], job[w].owner) = 200
           /\ \E state \in {"DELETING", "DELETED"} : data' = [data EXCEPT ![id].state = state]
  <2>1. data[id].state = "REGISTERED"
    BY <1>4, <1>6, DeleteCodeType
  <2>2. PICK state \in {"DELETING", "DELETED"} :
           data' = [data EXCEPT ![id] = [data[id] EXCEPT !.state = state]]
    BY <1>6
  <2>3. /\ [d \in Ids |-> PhaseOf(data[d].state)]'
             = [[d \in Ids |-> PhaseOf(data[d].state)] EXCEPT ![id] = "shredded"]
        /\ [d \in Ids |-> data[d].allowed]' = [[d \in Ids |-> data[d].allowed]
                                                 EXCEPT ![id] = data[id].allowed]
    <3>1. PICK rec : rec = [data[id] EXCEPT !.state = state]
      OBVIOUS
    <3>2. data' = [data EXCEPT ![id] = rec]
      BY <2>2, <3>1
    <3>3. rec.state = state /\ rec.allowed = data[id].allowed
      BY <1>4, <3>1, RecordChanges
    <3>4. PhaseOf(rec.state) = "shredded"
      BY <3>3 DEF PhaseOf
    <3>5. /\ [d \in Ids |-> PhaseOf(data[d].state)]'
               = [[d \in Ids |-> PhaseOf(data[d].state)] EXCEPT ![id] = PhaseOf(rec.state)]
          /\ [d \in Ids |-> data[d].allowed]'
               = [[d \in Ids |-> data[d].allowed] EXCEPT ![id] = rec.allowed]
      BY ONLY <1>4, <3>2, IInv, OneRecord
    <3> QED BY ONLY <3>3, <3>4, <3>5
  <2>4. [d \in Ids |-> data[d].allowed]' = [d \in Ids |-> data[d].allowed]
    BY <1>4, <2>3
  <2>5. ~Contract!InUse(id)
    BY <1>4, <2>1, NobodyUses
  <2>6. Contract!Shred(id)
    BY <1>2, <1>4, <2>1, <2>3, <2>4, <2>5 DEF Contract!Shred, PhaseOf, Users
  <2> QED BY <1>4, <2>6 DEF Contract!ContractNext
<1> QED BY <1>3, <1>5, <1>6 DEF Delete, Refuse, Fails, store

\* A run takes data that is there, free, and has the program on its list.
LEMMA BeginExecuteUses ==
    ASSUME IInv, NEW w \in Workers, BeginExecute(w)
    PROVE  [Contract!ContractNext]_(Contract!cvars)
<1>1. job[w].stage = "begin" /\ job \in [Workers -> Job] /\ data \in [Ids -> Record]
  BY DEF BeginExecute, At, IInv, TypeOK
<1>2. PICK q : q = Req(w)
  OBVIOUS
<1>3. q \in Requests /\ Has(q) \in SUBSET Ids /\ q.program \in Programs
  <2>1. q \in Requests
    BY <1>1, <1>2, SessionType DEF IInv, TypeOK, HandlerInv, At, Req, Idle
  <2> QED BY <2>1, RequestType
<1>4. CASE data' = data /\ \E code : Reply(w, code)
  <2>1. \A v \in Workers : Users(v)' = Users(v)
    BY <1>1, <1>4, AnswersNow, UsersStay
  <2> QED BY <1>4, <2>1, ContractKept DEF Phase
<1>5. CASE /\ BeginCode(q) = 0 /\ Goto(w, "run")
           /\ data' = [id \in Ids |-> IF id \in Has(q) THEN [data[id] EXCEPT !.state = "IN_USE"]
                                      ELSE data[id]]
  <2>1. \A id \in Has(q) : data[id].state = "REGISTERED" /\ q.program \in data[id].allowed
    BY <1>3, <1>5, BeginCodeIsObjection DEF IInv
  <2>2. ASSUME NEW id \in Ids
        PROVE  Phase(id)' = Phase(id) /\ data'[id].allowed = data[id].allowed
    <3>1. CASE id \in Has(q)
      <4>1. PhaseOf("IN_USE") = PhaseOf(data[id].state)
        BY <2>1, <3>1 DEF PhaseOf
      <4>2. data'[id] = [data[id] EXCEPT !.state = "IN_USE"]
        BY <1>5, <3>1
      <4> QED BY <4>1, <4>2, PhaseStays
    <3>2. CASE id \notin Has(q)
      BY <1>5, <3>2 DEF Phase
    <3> QED BY <3>1, <3>2
  <2>3. /\ job'[w] = [job[w] EXCEPT !.stage = "run"] /\ job[w] \in Job
        /\ \A v \in Workers : v # w => job'[v] = job[v]
    BY <1>1, <1>5 DEF Goto
  <2>4. Users(w) = {} /\ Users(w)' = Has(q) /\ \A v \in Workers : v # w => Users(v)' = Users(v)
    <3>1. job'[w].stage = "run" /\ job'[w].req = job[w].req
      BY <2>3 DEF Job
    <3> QED BY <1>1, <1>2, <2>3, <3>1 DEF Users, Running, At, Req
  <2>5. \A id \in Has(q) : ~Contract!InUse(id)
    BY <1>3, <2>1, NobodyUses
  <2>6. [v \in Workers |-> Users(v)]' = [[v \in Workers |-> Users(v)] EXCEPT ![w] = Has(q)]
    BY <2>4
  <2>7. /\ [id \in Ids |-> PhaseOf(data[id].state)]' = [id \in Ids |-> PhaseOf(data[id].state)]
        /\ [id \in Ids |-> data[id].allowed]' = [id \in Ids |-> data[id].allowed]
    BY <2>2 DEF Phase
  <2>8. \A id \in Has(q) : PhaseOf(data[id].state) = "live"
    BY <2>1 DEF PhaseOf
  <2>9. Contract!Use(w, Has(q), q.program)
    BY <1>3, <2>1, <2>4, <2>5, <2>6, <2>7, <2>8 DEF Contract!Use, Users
  <2> QED BY <1>3, <2>9 DEF Contract!ContractNext
<1> QED BY <1>2, <1>4, <1>5 DEF BeginExecute, Refuse, Fails, store

\* The end of a run gives all its data back.
LEMMA EndsGivesBack ==
    ASSUME IInv, NEW w \in Workers, NEW code, Ends(w, code)
    PROVE  [Contract!ContractNext]_(Contract!cvars)
<1>1. ASSUME NEW id \in Ids PROVE Phase(id)' = Phase(id) /\ data'[id].allowed = data[id].allowed
  <2>1. \/ data'[id] = data[id]
        \/ data[id].state = "IN_USE" /\ data'[id] = [data[id] EXCEPT !.state = "REGISTERED"]
    BY DEF Ends, GivenBack
  <2>2. data[id].state = "IN_USE" => PhaseOf("REGISTERED") = PhaseOf(data[id].state)
    BY DEF PhaseOf
  <2>3. CASE data'[id] = data[id]
    BY <2>3 DEF Phase
  <2> QED BY <2>1, <2>2, <2>3, PhaseStays
<1>2. job'[w].stage = "reply" /\ \A v \in Workers : v # w => job'[v] = job[v]
  BY AnswersNow DEF Ends
<1>3. Users(w)' = {} /\ \A v \in Workers : v # w => Users(v)' = Users(v)
  BY <1>2 DEF Users, Running, At, Req
<1>4. [v \in Workers |-> Users(v)]' = [[v \in Workers |-> Users(v)] EXCEPT ![w] = {}]
  BY <1>3
<1>5. /\ [id \in Ids |-> PhaseOf(data[id].state)]' = [id \in Ids |-> PhaseOf(data[id].state)]
      /\ [id \in Ids |-> data[id].allowed]' = [id \in Ids |-> data[id].allowed]
  BY <1>1 DEF Phase
<1>6. Contract!GiveBack(w)
  BY <1>4, <1>5 DEF Contract!GiveBack, Users
<1> QED BY <1>6 DEF Contract!ContractNext

\* The process ends, and with it every use.
LEMMA StopHalts ==
    ASSUME IInv, Stop
    PROVE  [Contract!ContractNext]_(Contract!cvars)
<1>1. ASSUME NEW id \in Ids PROVE Phase(id)' = Phase(id) /\ data'[id].allowed = data[id].allowed
  <2>1. \/ data'[id] = data[id]
        \/ data[id].state = "IN_USE" /\ data'[id] = [data[id] EXCEPT !.state = "REGISTERED"]
    BY DEF Stop
  <2>2. data[id].state = "IN_USE" => PhaseOf("REGISTERED") = PhaseOf(data[id].state)
    BY DEF PhaseOf
  <2>3. CASE data'[id] = data[id]
    BY <2>3 DEF Phase
  <2> QED BY <2>1, <2>2, <2>3, PhaseStays
<1>2. \A w \in Workers : Users(w)' = {}
  BY DEF Stop, Users, Running, At, Idle
<1>3. [v \in Workers |-> Users(v)]' = [v \in Workers |-> {}]
  BY <1>2
<1>4. /\ [id \in Ids |-> PhaseOf(data[id].state)]' = [id \in Ids |-> PhaseOf(data[id].state)]
      /\ [id \in Ids |-> data[id].allowed]' = [id \in Ids |-> data[id].allowed]
  BY <1>1 DEF Phase
<1>5. Contract!Halt
  BY <1>3, <1>4 DEF Contract!Halt, Users
<1> QED BY <1>5 DEF Contract!ContractNext

\* No other step concerns the contract.
LEMMA OthersConcernNoContract ==
    ASSUME IInv, [Next]_vars, ~Stop,
           \A w \in Workers : /\ ~Register(w) /\ ~Edit(w) /\ ~Delete(w) /\ ~BeginExecute(w)
                              /\ ~RunEnds(w) /\ ~RunIsAborted(w)
    PROVE  UNCHANGED Contract!cvars
<1>1. CASE \/ Shutdown \/ Boot \/ Serve \/ Tick \/ UNCHANGED vars
           \/ \E id \in Ids : Recover(id)
  <2>1. job' = job
    BY <1>1 DEF Shutdown, Boot, Serve, Tick, Recover, vars
  <2>2. \A w \in Workers : Users(w)' = Users(w)
    BY <2>1 DEF Users, Running, At, Req
  <2>3. CASE data' = data
    BY <2>2, <2>3, ContractKept DEF Phase
  <2>4. CASE \E id \in Ids : Recover(id)
    <3>1. PICK id \in Ids : /\ data[id].state = "DELETING"
                            /\ data' = [data EXCEPT ![id] = [data[id] EXCEPT !.state = "DELETED"]]
      BY <2>4 DEF Recover
    <3>2. ASSUME NEW d \in Ids PROVE Phase(d)' = Phase(d) /\ data'[d].allowed = data[d].allowed
      <4>1. PhaseOf("DELETED") = PhaseOf(data[id].state) /\ data \in [Ids -> Record]
        BY <3>1 DEF PhaseOf, IInv, TypeOK
      <4>2. CASE d = id
        <5>1. data'[id] = [data[id] EXCEPT !.state = "DELETED"]
          BY <3>1, <4>1
        <5> QED BY <4>1, <4>2, <5>1, PhaseStays
      <4>3. CASE d # id
        BY <3>1, <4>1, <4>3 DEF Phase
      <4> QED BY <4>2, <4>3
    <3> QED BY <2>2, <3>2, ContractKept
  <2> QED BY <1>1, <2>3, <2>4 DEF Shutdown, Boot, Serve, Tick, vars, store
<1>2. ASSUME NEW w \in Workers, NEW q \in This.requests, Accept(w, q)
      PROVE  UNCHANGED Contract!cvars
  <2>1. \A v \in Workers : v # w => Users(v)' = Users(v)
    <3>1. ASSUME NEW v \in Workers, v # w
          PROVE  job'[v].stage = job[v].stage /\ job'[v].req = job[v].req
      <4>1. job'[v] = [job[v] EXCEPT !.barred = @ \ Reopened(q)] /\ job[v] \in Job
        BY <1>2, <3>1 DEF Accept, IInv, TypeOK
      <4> QED BY <4>1 DEF Job
    <3> QED BY <3>1 DEF Users, Running, At, Req
  <2>2. Users(w) = {} /\ Users(w)' = {}
    <3>1. job[w].stage = "idle" /\ job'[w].stage \in {"reply", "act", "auth"}
      BY <1>2 DEF Accept, Idle
    <3> QED BY <3>1 DEF Users, Running, At
  <2> QED BY <1>2, <2>1, <2>2, ContractKept DEF Phase, Accept, store
<1>3. ASSUME NEW w \in Workers, Handle(w)
      PROVE  UNCHANGED Contract!cvars
  <2>1. data' = data /\ job[w].stage # "run" /\ job'[w].stage # "run"
    <3>1. CASE Authenticate(w)
      <4>1. job[w].stage = "auth" /\ data' = data /\ job \in [Workers -> Job]
        BY <3>1 DEF Authenticate, At, store, IInv, TypeOK
      <4>2. CASE Reply(w, 401)
        BY <4>1, <4>2, AnswersNow
      <4>3. CASE ~Reply(w, 401)
        BY <3>1, <4>1, <4>3 DEF Authenticate, Job
      <4> QED BY <4>2, <4>3
    <3>5. CASE CheckReplay(w)
      <4>1. Working(w) /\ job[w].stage = "replay"
        BY <3>5, SessionType DEF CheckReplay, Working, IInv, TypeOK, HandlerInv, At, Req, Idle
      <4>2. job'[w].stage \in {"act", "reply"}
        BY <3>5, <4>1, CheckReplayType DEF IInv, Working
      <4> QED BY <3>5, <4>1, <4>2 DEF CheckReplay, store
    <3>2. CASE Answer(w)
      BY <3>2 DEF Answer, Lost, Received, At, Idle, store, IInv, TypeOK
    <3>3. CASE RegisterOwner(w) \/ Upload(w) \/ Unload(w)
      BY <3>3, AnswersNow DEF RegisterOwner, Upload, Unload, Acts, At, Refuse, Fails, store
    <3>4. CASE GetProgram(w)
      <4>1. CASE Goto(w, "begin")
        <5>1. job'[w] = [job[w] EXCEPT !.stage = "begin"] /\ job[w] \in Job
          BY <4>1 DEF Goto, IInv, TypeOK
        <5> QED BY <3>4, <5>1 DEF GetProgram, Acts, At, Refuse, Fails, store, Job
      <4>2. CASE ~Goto(w, "begin")
        BY <3>4, <4>2, AnswersNow DEF GetProgram, Acts, At, Refuse, Fails, store
      <4> QED BY <4>1, <4>2
    <3> QED BY <1>3, <3>1, <3>2, <3>3, <3>4, <3>5 DEF Handle, Command
  <2>2. \A v \in Workers : Users(v)' = Users(v)
    BY <1>3, <2>1, OthersStay, UsersStay
  <2> QED BY <2>1, <2>2, ContractKept DEF Phase
<1> QED BY <1>1, <1>2, <1>3 DEF Next, Process, Crash, Exit

\* Whatever requests are delivered, repeated, refused or cut off, each step of the
\* server is one that the contract of registered data allows, or none of its steps.
THEOREM ServerKeepsContract == Spec => KeepsContract
<1>1. Init => Contract!ContractInit
  BY DEF Init, Contract!ContractInit, Absent, PhaseOf, Running, At, Idle
<1>2. ASSUME IInv, [Next]_vars PROVE [Contract!ContractNext]_(Contract!cvars)
  <2>1. ASSUME NEW w \in Workers, RunEnds(w) \/ RunIsAborted(w)
        PROVE  [Contract!ContractNext]_(Contract!cvars)
    BY <1>2, <2>1, EndsGivesBack DEF RunEnds, RunIsAborted
  <2> QED BY <1>2, <2>1, RegisterCreates, EditEdits, DeleteShreds, BeginExecuteUses, StopHalts,
          OthersConcernNoContract
<1> QED BY <1>1, <1>2, ServerInvariantHolds, PTL DEF Spec, KeepsContract, Contract!ContractSpec

=============================================================================
