----------------------------- MODULE DataContract -----------------------------
(***************************************************************************)
(* What wasm-runner promises about a piece of registered data, without     *)
(* files, memory, locks or failures: the durable state machine             *)
(* REGISTERED -> DELETING -> DELETED of lifecycle.go, in which data is     *)
(* used only by executions of a program on its whitelist, by one execution *)
(* at a time, and is shredded only while no execution has it.  An identity *)
(* is never used twice and a shredded key never comes back.                *)
(***************************************************************************)
CONSTANTS Ids, Programs, Workers

VARIABLES
    phase,      \* "absent", "live", "shredded" or "certified"
    list,       \* the whitelist in effect
    users       \* data ids in the hands of each worker

cvars == <<phase, list, users>>

ContractInit ==
    /\ phase = [id \in Ids |-> "absent"]
    /\ list = [id \in Ids |-> {}]
    /\ users = [w \in Workers |-> {}]

InUse(id) == \E w \in Workers : id \in users[w]

Create(id, programs) ==
    /\ phase[id] = "absent"
    /\ phase' = [phase EXCEPT ![id] = "live"]
    /\ list' = [list EXCEPT ![id] = programs]
    /\ UNCHANGED users

Edit(id, programs) ==
    /\ phase[id] = "live"
    /\ list' = [list EXCEPT ![id] = programs]
    /\ UNCHANGED <<phase, users>>

Use(w, ids, program) ==
    /\ users[w] = {}
    /\ \A id \in ids : phase[id] = "live" /\ program \in list[id] /\ ~InUse(id)
    /\ users' = [users EXCEPT ![w] = ids]
    /\ UNCHANGED <<phase, list>>

GiveBack(w) ==
    /\ users' = [users EXCEPT ![w] = {}]
    /\ UNCHANGED <<phase, list>>

Shred(id) ==
    /\ phase[id] = "live" /\ ~InUse(id)
    /\ phase' = [phase EXCEPT ![id] = "shredded"]
    /\ UNCHANGED <<list, users>>

Certify(id) ==
    /\ phase[id] = "shredded"
    /\ phase' = [phase EXCEPT ![id] = "certified"]
    /\ UNCHANGED <<list, users>>

\* The process ends: every execution ends with it, and nothing else is lost.
Halt ==
    /\ users' = [w \in Workers |-> {}]
    /\ UNCHANGED <<phase, list>>

ContractNext ==
    \/ \E id \in Ids, programs \in SUBSET Programs : Create(id, programs) \/ Edit(id, programs)
    \/ \E w \in Workers, ids \in SUBSET Ids, p \in Programs : Use(w, ids, p)
    \/ \E w \in Workers : GiveBack(w)
    \/ \E id \in Ids : Shred(id) \/ Certify(id)
    \/ Halt

ContractSpec == ContractInit /\ [][ContractNext]_cvars

=============================================================================
