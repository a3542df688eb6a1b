---------------------------- MODULE LifecycleProofs ----------------------------
(***************************************************************************)
(* Lifecycle keeps its types, the invariant of LifecycleInvariant is       *)
(* inductive, the safety properties follow from it, what clients may rely  *)
(* on stands whatever crashes and failures follow, and Lifecycle           *)
(* implements DataContract: for any number of data ids, programs, keys and *)
(* workers and any bound on registrations, failures and crashes.           *)
(* There is one lemma per action, with one step per part of the invariant, *)
(* and one lemma per action for the refinement.  At the end, what is true  *)
(* in spite of two findings: of files without a record, and of the answers *)
(* to edits (WhitelistReply).                                              *)
(***************************************************************************)
EXTENDS LifecycleInvariant, LifecycleRefinement, WhitelistReply, TLAPS

USE IdsAssumption

-----------------------------------------------------------------------------
(* Types, and what is true of the files                                    *)

\* The absent record and the free lock are values of their types.
LEMMA BlankType == Blank \in MetaRecord /\ Idle \in Operation
  BY DEF Blank, NoCert, MetaRecord, States, Lists, Certificate, Idle, Operation, Pcs, Kinds

\* What a client is told is one of four phases.
LEMMA RankType == \A state \in States : Rank[state] \in 0..3
  BY DEF Rank

\* Every action keeps every variable within its type.
LEMMA TypeStep == TypeOK /\ [Next]_vars => TypeOK'
<1> SUFFICES ASSUME TypeOK, [Next]_vars PROVE TypeOK'
  OBVIOUS
<1> USE BlankType DEF TypeOK
<1>1. CASE Boot
  <2>1. \A id \in Ids : {meta[id].allowed} \in SUBSET Lists
    BY DEF MetaRecord
  <2>2. promised' \in [Ids -> SUBSET Lists]
    BY <1>1, <2>1 DEF Boot
  <2>3. todo' \subseteq Ids
    BY <1>1 DEF Boot
  <2> QED BY <1>1, <2>2, <2>3 DEF Boot, disk, bounds
<1>2. CASE Serve
  BY <1>2 DEF Serve, disk, bounds, clients
<1>3. ASSUME NEW id \in Ids, Recover(id) PROVE TypeOK'
  <2>1. Persisted(entries[id]) \in MetaRecord
    BY DEF Persisted, MetaRecord, States
  <2>2. entries' \in [Ids -> MetaRecord] /\ op' \in Operation
    BY <1>3, <2>1 DEF Recover, Operation, Pcs, Kinds
  <2> QED BY <1>3, <2>2 DEF Recover, disk, bounds, clients
<1>4. CASE Crash
  <2>1. metaTmp' \in [Ids -> MetaRecord]
    BY <1>4 DEF Crash, TornMeta, Operation
  <2>2. blobTmp' \in [Ids -> Nat]
    BY <1>4 DEF Crash, TornBlob, Operation, MetaRecord
  <2>3. promised' \in [Ids -> SUBSET Lists]
    <3>1. op.rec.allowed \in Lists
      BY DEF Operation, MetaRecord
    <3>2. \A id \in Ids : promised[id] \cup {op.rec.allowed} \in SUBSET Lists
      BY <3>1
    <3> QED BY <1>4, <3>2 DEF Crash
  <2> QED BY <1>4, <2>1, <2>2, <2>3 DEF Crash, Stop, Idle
<1>5. ASSUME NEW id \in Ids, NEW key \in Keys, NEW list \in Lists, Register(id, key, list)
      PROVE TypeOK'
  <2>1. [state |-> "REGISTERED", uploader |-> key, allowed |-> list,
         hash |-> drawn + 1, dek |-> drawn + 1, cert |-> NoCert] \in MetaRecord
    BY DEF MetaRecord, States, NoCert, Certificate
  <2>2. op' \in Operation /\ op'.id = id
    BY <1>5, <2>1 DEF Register, Begin, Operation, Pcs, Kinds
  <2> QED BY <1>5, <2>2 DEF Register, disk, clients
<1>6. ASSUME NEW id \in Ids, NEW key \in Keys, NEW list \in Lists,
             SetAllowedPrograms(id, key, list)
      PROVE TypeOK'
  <2>1. [entries[id] EXCEPT !.allowed = list] \in MetaRecord
    BY DEF MetaRecord
  <2>2. op' \in Operation /\ op'.id = id /\ entries' \in [Ids -> MetaRecord]
    BY <1>6, <2>1 DEF SetAllowedPrograms, Begin, Persisted, Operation, MetaRecord, States, Pcs, Kinds
  <2> QED BY <1>6, <2>2 DEF SetAllowedPrograms, disk, bounds, clients
<1>7. ASSUME NEW id \in Ids, NEW key \in Keys, Delete(id, key) PROVE TypeOK'
  <2>1. Shredded(entries[id]) \in MetaRecord
    BY DEF Shredded, MetaRecord, States
  <2>2. op' \in Operation /\ op'.id = id /\ entries' \in [Ids -> MetaRecord]
    BY <1>7, <2>1 DEF Delete, Begin, Operation, Pcs, Kinds
  <2> QED BY <1>7, <2>2 DEF Delete, disk, bounds, clients
<1>8. ASSUME NEW w \in Workers, NEW ids \in SUBSET Ids, NEW p \in Programs,
             BeginExecute(w, ids, p)
      PROVE TypeOK'
  <2>1. \A id \in Ids : [entries[id] EXCEPT !.state = "IN_USE"] \in MetaRecord
    BY DEF MetaRecord, States
  <2>2. entries' \in [Ids -> MetaRecord]
    BY <1>8, <2>1 DEF BeginExecute
  <2>3. observed' \in [Ids -> 0..3]
    BY <1>8, RankType DEF BeginExecute, States
  <2> QED BY <1>8, <2>2, <2>3 DEF BeginExecute, disk, bounds
<1>9. ASSUME NEW w \in Workers, EndExecute(w) PROVE TypeOK'
  <2>1. \A id \in Ids : GivenBack(entries[id]) \in MetaRecord
    BY DEF GivenBack, MetaRecord, States
  <2> QED BY <1>9, <2>1 DEF EndExecute, disk, bounds, clients
<1>10. ASSUME NEW id \in Ids, Status(id) PROVE TypeOK'
  <2>1. Rank[entries[id].state] \in 0..3
    BY RankType DEF MetaRecord
  <2> QED BY <1>10, <2>1 DEF Status, memory, disk, bounds
<1>11. ASSUME NEW id \in Ids, Proof(id) PROVE TypeOK'
  <2>1. entries[id].cert \in Certificate
    BY DEF MetaRecord
  <2> QED BY <1>11, <2>1 DEF Proof, memory, disk, bounds
<1>12. CASE FileStep
  <2>1. CASE WriteBlobTmp
    BY <2>1 DEF WriteBlobTmp, At, Goto, Operation, Pcs, MetaRecord, bounds, clients
  <2>2. CASE RenameBlob
    BY <2>2 DEF RenameBlob, At, Goto, Operation, Pcs, bounds, clients
  <2>3. CASE WriteMetaTmp
    BY <2>3 DEF WriteMetaTmp, At, Goto, Operation, Pcs, bounds, clients
  <2>4. CASE RenameMeta
    BY <2>4 DEF RenameMeta, At, Goto, Operation, Pcs, bounds, clients
  <2>5. CASE RemoveBlob
    <3> DEFINE rec == [entries[op.id] EXCEPT
                         !.state = "DELETED",
                         !.cert = [hash |-> entries[op.id].hash, signer |-> boots]]
    <3>1. rec \in MetaRecord
      BY <2>5 DEF RemoveBlob, At, MetaRecord, States, Certificate
    <3>2. entries' \in [Ids -> MetaRecord]
      BY <2>5, <3>1 DEF RemoveBlob
    <3> QED BY <2>5, <3>1, <3>2 DEF RemoveBlob, At, Operation, Pcs, bounds, clients
  <2> QED BY <1>12, <2>1, <2>2, <2>3, <2>4, <2>5 DEF FileStep
<1>13. CASE FileFault
  <2>1. ASSUME Fail
        PROVE  /\ mode' \in {"down", "boot", "up"} /\ faults' \in Nat /\ todo' \subseteq Ids
               /\ op' = Idle /\ using' \in [Workers -> SUBSET Ids]
               /\ UNCHANGED <<boots, drawn, crashes, clients>>
    BY <2>1 DEF Fail, Stop
  <2>2. ASSUME Fail, op.id \in Ids PROVE entries' \in [Ids -> MetaRecord]
    <3>1. Rollback \in [Ids -> MetaRecord]
      <4>1. entries[op.id] \in MetaRecord /\ op.undo \in MetaRecord
        BY <2>2 DEF Operation
      <4>2. [entries[op.id] EXCEPT !.allowed = op.undo.allowed] \in MetaRecord
        BY ONLY <4>1 DEF MetaRecord
      <4>3. [entries[op.id] EXCEPT !.state = "REGISTERED", !.dek = op.undo.dek] \in MetaRecord
        BY ONLY <4>1 DEF MetaRecord, States
      <4> QED BY <2>2, <4>2, <4>3 DEF Rollback
    <3> QED BY <2>2, <3>1 DEF Fail, Stop
  <2>3. op.id \in Ids
    BY <1>13 DEF FileFault, WriteBlobTmpFails, RenameBlobFails, WriteMetaTmpFails,
                 RenameMetaFails, RemoveBlobFails, At
  <2>4. Fail
    BY <1>13 DEF FileFault, WriteBlobTmpFails, RenameBlobFails, WriteMetaTmpFails,
                 RenameMetaFails, RemoveBlobFails
  <2>5. meta' \in [Ids -> MetaRecord] /\ blob' \in [Ids -> Nat]
    BY <1>13 DEF FileFault, WriteBlobTmpFails, RenameBlobFails, WriteMetaTmpFails,
                 RenameMetaFails, RemoveBlobFails, disk
  <2>6. metaTmp' \in [Ids -> MetaRecord]
    BY <1>13, <2>3 DEF FileFault, WriteBlobTmpFails, RenameBlobFails, WriteMetaTmpFails,
                       RenameMetaFails, RemoveBlobFails, disk, TornMeta, Operation
  <2>7. blobTmp' \in [Ids -> Nat]
    <3>1. op.rec.dek \in Nat
      BY DEF Operation, MetaRecord
    <3> QED BY <1>13, <2>3, <3>1 DEF FileFault, WriteBlobTmpFails, RenameBlobFails,
                 WriteMetaTmpFails, RenameMetaFails, RemoveBlobFails, disk, TornBlob
  <2> QED BY <2>1, <2>2, <2>3, <2>4, <2>5, <2>6, <2>7 DEF clients, Idle
<1>14. CASE Answer
  <2>0. op.rec \in MetaRecord /\ op.rec.allowed \in Lists
    BY DEF Operation, MetaRecord
  <2>1. CASE RegisterDone
    <3>1. Rank["REGISTERED"] \in 0..3
      BY RankType DEF States
    <3>2. promised' \in [Ids -> SUBSET Lists]
      BY <2>0, <2>1 DEF RegisterDone
    <3> QED BY <2>0, <2>1, <3>1, <3>2 DEF RegisterDone, At, Idle, disk, bounds
  <2>2. CASE SetAllowedProgramsDone
    BY <2>0, <2>2 DEF SetAllowedProgramsDone, At, Idle, disk, bounds
  <2>3. CASE DeleteCommitted
    BY <2>3 DEF DeleteCommitted, At, Operation, Pcs, Kinds, disk, bounds, clients
  <2>4. CASE FinishDone
    <3>1. Rank["DELETED"] \in 0..3
      BY RankType DEF States
    <3>2. entries[op.id].cert \in Certificate
      BY <2>4 DEF FinishDone, At, MetaRecord
    <3>3. granted' \in [Ids -> SUBSET Certificate] /\ shown' \in [Ids -> SUBSET Certificate]
      BY <2>4, <3>2 DEF FinishDone
    <3> QED BY <2>4, <3>1, <3>3 DEF FinishDone, At, Idle, disk, bounds
  <2> QED BY <1>14, <2>1, <2>2, <2>3, <2>4 DEF Answer
<1>15. CASE UNCHANGED vars
  BY <1>15 DEF vars, memory, disk, bounds, clients
<1> QED BY <1>1, <1>2, <1>3, <1>4, <1>5, <1>6, <1>7, <1>8, <1>9, <1>10, <1>11, <1>12,
           <1>13, <1>14, <1>15 DEF Next, Recovery, Request

\* In every state every variable has its type.
THEOREM TypeCorrect == Spec => []TypeOK
<1>1. Init => TypeOK
  BY BlankType DEF Init, TypeOK, Idle
<1> QED BY <1>1, TypeStep, PTL DEF Spec

-----------------------------------------------------------------------------
(* The invariant                                                           *)

\* The part of TypeOK that the steps below use.
Typed ==
    /\ entries \in [Ids -> MetaRecord] /\ meta \in [Ids -> MetaRecord]
    /\ metaTmp \in [Ids -> MetaRecord] /\ blob \in [Ids -> Nat] /\ blobTmp \in [Ids -> Nat]
    /\ op \in Operation /\ (op.pc # "idle" => op.id \in Ids)
    /\ using \in [Workers -> SUBSET Ids] /\ todo \subseteq Ids
    /\ shown \in [Ids -> SUBSET Certificate]

\* A failed operation leaves memory as at rest, and what is said in RestInv true.
LEMMA FailStep ==
    ASSUME IInv, TypeOK', op.pc \notin {"idle", "done"}, Fail, meta' = meta, blob' = blob
    PROVE  /\ UseIsExclusive' /\ ModeInv' /\ OpInv'
           /\ RegisterInv' /\ PutInv' /\ DeleteInv' /\ FinishInv' /\ RestInv'
           /\ \A id \in Ids : CertInv(id)'
<1> USE DEF IInv, clients
<1>t. Typed
  BY DEF TypeOK, Typed
<1> USE <1>t DEF Typed
<1>1. op.id \in Ids /\ op.kind \in {"register", "put", "delete", "finish"}
  BY DEF OpInv
<1>2. op' = Idle /\ todo' \subseteq todo /\ shown' = shown
  BY DEF Fail, Stop, ModeInv
<1>3. CASE mode = "boot"
  <2> USE DEF Fail, Stop
  <2>1. mode' = "down" /\ entries' = [id \in Ids |-> Blank] /\ using' = [w \in Workers |-> {}]
    BY <1>3
  <2>2. UseIsExclusive'
    BY <2>1 DEF UseIsExclusive, Blank
  <2>3. ModeInv' /\ OpInv' /\ RestInv'
    BY <1>2, <1>3, <2>1 DEF ModeInv, OpInv, RestInv, Idle
  <2>4. \A id \in Ids : CertInv(id)'
    BY <1>2, <2>1 DEF CertInv, Blank
  <2> QED BY <1>2, <2>2, <2>3, <2>4 DEF RegisterInv, PutInv, DeleteInv, FinishInv, Idle
<1>4. CASE mode = "up"
  <2>1. mode' = "up" /\ entries' = Rollback /\ UNCHANGED <<todo, using>>
    BY <1>4 DEF Fail
  <2>2. \A id \in Ids : id # op.id => entries'[id] = entries[id]
    BY <1>1, <2>1 DEF Rollback
  <2>0. \A id \in Ids : id # op.id => AtRest(entries[id], meta[id])
    BY <1>4 DEF RestInv
  <2>3. CASE op.kind \in {"register", "finish"}
    <3>1. entries' = entries
      BY <2>1, <2>3 DEF Rollback
    <3>2. AtRest(entries[op.id], meta[op.id])
      BY <2>3 DEF RegisterInv, FinishInv, AtRest, Gone
    <3>3. RestInv'
      BY <1>2, <2>0, <3>1, <3>2 DEF RestInv
    <3>4. UseIsExclusive'
      BY <2>1, <3>1 DEF UseIsExclusive
    <3>6. ModeInv' /\ OpInv'
      BY <1>2, <1>4, <2>1, <3>1 DEF ModeInv, OpInv, Idle
    <3>5. \A id \in Ids : CertInv(id)'
      BY <1>2, <3>1 DEF CertInv
    <3> QED BY <1>2, <3>3, <3>4, <3>5, <3>6 DEF RegisterInv, PutInv, DeleteInv, FinishInv, Idle
  <2>4. CASE op.kind = "put"
    <3>1. entries'[op.id] = [entries[op.id] EXCEPT !.allowed = op.undo.allowed]
      BY <1>1, <2>1, <2>4 DEF Rollback
    <3>2. /\ entries'[op.id].state = entries[op.id].state /\ Live(entries[op.id].state)
          /\ entries'[op.id].dek = entries[op.id].dek /\ entries'[op.id].hash = entries[op.id].hash
          /\ entries'[op.id].cert = entries[op.id].cert /\ entries[op.id].cert = NoCert
      BY <1>1, <2>4, <3>1 DEF PutInv, MetaRecord
    <3>3. AtRest(entries'[op.id], meta[op.id])
      BY <2>4, <3>2 DEF PutInv, AtRest
    <3>4. UseIsExclusive'
      BY <1>1, <2>1, <2>2, <3>2 DEF UseIsExclusive
    <3>6. ModeInv' /\ OpInv'
      BY <1>2, <1>4, <2>1, <2>2 DEF ModeInv, OpInv, Idle
    <3>5. \A id \in Ids : CertInv(id)'
      BY <1>2, <2>2, <3>2 DEF CertInv, Live
    <3>7. RestInv'
      BY <1>2, <2>0, <2>2, <3>3 DEF RestInv
    <3> QED BY <1>2, <3>4, <3>5, <3>6, <3>7 DEF RegisterInv, PutInv, DeleteInv, FinishInv, Idle
  <2>5. CASE op.kind = "delete"
    <3>1. entries'[op.id] = [entries[op.id] EXCEPT !.state = "REGISTERED", !.dek = op.undo.dek]
      BY <1>1, <2>1, <2>5 DEF Rollback
    <3>2. /\ entries'[op.id].state = "REGISTERED" /\ entries'[op.id].dek = op.undo.dek
          /\ entries'[op.id].hash = entries[op.id].hash
          /\ entries'[op.id].cert = NoCert /\ entries[op.id].state = "DELETING"
      BY <1>1, <2>5, <3>1 DEF DeleteInv, MetaRecord
    <3>3. AtRest(entries'[op.id], meta[op.id])
      BY <2>5, <3>2 DEF DeleteInv, AtRest, Live
    <3>4. UseIsExclusive'
      BY <1>1, <2>1, <2>2, <3>2 DEF UseIsExclusive
    <3>6. ModeInv' /\ OpInv'
      BY <1>2, <1>4, <2>1, <2>2 DEF ModeInv, OpInv, Idle
    <3>5. \A id \in Ids : CertInv(id)'
      BY <1>2, <2>2, <3>2 DEF CertInv
    <3>7. RestInv'
      BY <1>2, <2>0, <2>2, <3>3 DEF RestInv
    <3> QED BY <1>2, <3>4, <3>5, <3>6, <3>7 DEF RegisterInv, PutInv, DeleteInv, FinishInv, Idle
  <2> QED BY <1>1, <2>3, <2>4, <2>5
<1> QED BY <1>3, <1>4 DEF Fail

\* A new process reads the files: every record in memory is as at rest.
LEMMA BootStep ==
    ASSUME IInv, TypeOK', Boot
    PROVE  IInv'
<1> USE DEF IInv, disk, bounds, clients, Boot, Unfinished
<1>t. Typed
  BY DEF TypeOK, Typed
<1> USE <1>t DEF Typed
<1>1. OpInv'
  BY DEF OpInv, Idle
<1>2. UseIsExclusive'
  BY DEF UseIsExclusive, ModeInv, FileInv
<1>3. ModeInv'
  BY DEF ModeInv, Idle, FileInv
<1>4. RegisterInv' /\ PutInv' /\ DeleteInv' /\ FinishInv'
  BY DEF RegisterInv, Idle, OpInv, PutInv, DeleteInv, FinishInv
<1>5. RestInv'
  <2> SUFFICES ASSUME NEW id \in Ids, mode' # "down", op'.id # id
               PROVE  AtRest(entries'[id], meta'[id])
    BY DEF RestInv
  <2>1. meta[id] \in MetaRecord /\ FileInv(id)
    OBVIOUS
  <2>2. AtRest(meta[id], meta[id])
    BY <2>1 DEF FileInv, AtRest, Live, Gone, MetaRecord, States
  <2> QED BY <2>2
<1>6. ASSUME NEW id \in Ids PROVE FileInv(id)'
  BY DEF FileInv
<1>7. ASSUME NEW id \in Ids PROVE CertInv(id)'
  BY DEF CertInv, FileInv
<1> QED BY <1>1, <1>2, <1>3, <1>4, <1>5, <1>6, <1>7

\* Serving begins with nothing left to recover.
LEMMA ServeStep ==
    ASSUME IInv, TypeOK', Serve
    PROVE  IInv'
<1> USE DEF IInv, disk, bounds, clients, Serve
<1>t. Typed
  BY DEF TypeOK, Typed
<1> USE <1>t DEF Typed
<1>1. UseIsExclusive' /\ ModeInv' /\ OpInv'
  BY DEF UseIsExclusive, ModeInv, Idle, OpInv
<1>2. RegisterInv' /\ PutInv' /\ DeleteInv' /\ FinishInv'
  BY DEF RegisterInv, PutInv, DeleteInv, FinishInv
<1>3. RestInv'
  BY DEF RestInv
<1>4. ASSUME NEW id \in Ids PROVE FileInv(id)'
  BY DEF FileInv
<1>5. ASSUME NEW id \in Ids PROVE CertInv(id)'
  BY DEF CertInv
<1> QED BY <1>1, <1>2, <1>3, <1>4, <1>5

\* The recovery loop takes up a deletion; no file asks for anything else.
LEMMA RecoverStep ==
    ASSUME IInv, TypeOK', NEW id0 \in Ids, Recover(id0)
    PROVE  IInv'
<1> USE DEF IInv, disk, bounds, clients, Recover, Persisted
<1>t. Typed
  BY DEF TypeOK, Typed
<1> USE <1>t DEF Typed
<1>1. ModeInv'
  BY DEF ModeInv, Idle
<1>2. UseIsExclusive'
  BY DEF UseIsExclusive, ModeInv
<1>3. OpInv'
  BY DEF OpInv, ModeInv
<1>4. RegisterInv' /\ PutInv' /\ DeleteInv' /\ FinishInv'
  BY DEF RegisterInv, PutInv, DeleteInv, FinishInv, ModeInv, RestInv, AtRest, Blank, Live
<1>5. RestInv'
  <2> SUFFICES ASSUME NEW id \in Ids, mode' # "down", op'.id # id
               PROVE  AtRest(entries'[id], meta'[id])
    BY DEF RestInv
  <2>1. id # id0 /\ op.id # id
    BY DEF Idle
  <2> QED BY <2>1 DEF RestInv
<1>6. ASSUME NEW id \in Ids PROVE FileInv(id)'
  BY DEF FileInv
<1>7. ASSUME NEW id \in Ids PROVE CertInv(id)'
  BY DEF CertInv
<1> QED BY <1>1, <1>2, <1>3, <1>4, <1>5, <1>6, <1>7

\* A crash loses memory and may tear a .tmp file, never a file in place.
LEMMA CrashStep ==
    ASSUME IInv, TypeOK', Crash
    PROVE  IInv'
<1> USE DEF IInv, disk, bounds, clients, Crash, Stop, TornMeta, TornBlob
<1>t. Typed
  BY DEF TypeOK, Typed
<1> USE <1>t DEF Typed
<1>1. ModeInv' /\ OpInv'
  BY DEF ModeInv, Idle, OpInv
<1>2. UseIsExclusive'
  BY DEF UseIsExclusive, Blank
<1>3. RegisterInv' /\ PutInv' /\ DeleteInv' /\ FinishInv'
  BY DEF RegisterInv, Idle, PutInv, DeleteInv, FinishInv
<1>4. RestInv'
  BY DEF RestInv
<1>5. ASSUME NEW id \in Ids PROVE FileInv(id)'
  BY DEF FileInv, ModeInv, OpInv, RegisterInv, PutInv, DeleteInv, FinishInv, Blank, Gone
<1>6. ASSUME NEW id \in Ids PROVE CertInv(id)'
  BY DEF CertInv, Blank
<1> QED BY <1>1, <1>2, <1>3, <1>4, <1>5, <1>6

\* A registration starts from an id without record or file.
LEMMA RegisterStep ==
    ASSUME IInv, TypeOK', NEW id0 \in Ids, NEW key \in Keys, NEW list \in Lists, Register(id0, key, list)
    PROVE  IInv'
<1> USE DEF IInv, disk, bounds, clients, Register, Begin, Exists, Serving
<1>t. Typed
  BY DEF TypeOK, Typed
<1> USE <1>t DEF Typed
<1>1. UseIsExclusive' /\ ModeInv' /\ OpInv'
  BY DEF UseIsExclusive, ModeInv, Idle, OpInv
<1>2. PutInv' /\ DeleteInv' /\ FinishInv'
  BY DEF PutInv, Idle, DeleteInv, FinishInv
<1>3. RegisterInv'
  <2>1. AtRest(entries[id0], meta[id0]) /\ entries[id0].state = "ABSENT"
    BY DEF RestInv, Idle
  <2>2. entries[id0] = Blank /\ meta[id0] = Blank
    BY <2>1 DEF AtRest, Live
  <2>3. /\ op'.id = id0 /\ op'.pc = "blobTmp" /\ op'.rec.state = "REGISTERED"
        /\ op'.rec.cert = NoCert /\ op'.rec.dek = drawn + 1 /\ op'.rec.hash = drawn + 1
    OBVIOUS
  <2>4. drawn \in Nat
    BY DEF TypeOK
  <2> QED BY <2>2, <2>3, <2>4 DEF RegisterInv
<1>4. RestInv'
  <2> SUFFICES ASSUME NEW id \in Ids, mode' # "down", op'.id # id
               PROVE  AtRest(entries'[id], meta'[id])
    BY DEF RestInv
  <2>1. id # id0 /\ op.id # id
    BY DEF Idle
  <2> QED BY <2>1 DEF RestInv
<1>5. ASSUME NEW id \in Ids PROVE FileInv(id)'
  BY DEF FileInv
<1>6. ASSUME NEW id \in Ids PROVE CertInv(id)'
  BY DEF CertInv
<1> QED BY <1>1, <1>2, <1>3, <1>4, <1>5, <1>6

\* An edit starts from a record that memory and file agree on.
LEMMA SetAllowedProgramsStep ==
    ASSUME IInv, TypeOK', NEW id0 \in Ids, NEW key \in Keys, NEW list \in Lists, SetAllowedPrograms(id0, key, list)
    PROVE  IInv'
<1> USE DEF IInv, disk, bounds, clients, SetAllowedPrograms, Begin, Persisted, Serving
<1>t. Typed
  BY DEF TypeOK, Typed
<1> USE <1>t DEF Typed
<1>1. UseIsExclusive' /\ ModeInv' /\ OpInv'
  BY DEF UseIsExclusive, ModeInv, Idle, OpInv
<1>2. RegisterInv' /\ PutInv' /\ DeleteInv' /\ FinishInv'
  BY DEF RegisterInv, Idle, PutInv, DeleteInv, FinishInv, RestInv, AtRest, Blank
<1>3. RestInv'
  <2> SUFFICES ASSUME NEW id \in Ids, mode' # "down", op'.id # id
               PROVE  AtRest(entries'[id], meta'[id])
    BY DEF RestInv
  <2>1. id # id0 /\ op.id # id
    BY DEF Idle
  <2> QED BY <2>1 DEF RestInv
<1>4. ASSUME NEW id \in Ids PROVE FileInv(id)'
  BY DEF FileInv
<1>5. ASSUME NEW id \in Ids PROVE CertInv(id)'
  BY DEF CertInv
<1> QED BY <1>1, <1>2, <1>3, <1>4, <1>5

\* A deletion starts by shredding the record in memory; the file keeps the key.
LEMMA DeleteStep ==
    ASSUME IInv, TypeOK', NEW id0 \in Ids, NEW key \in Keys, Delete(id0, key)
    PROVE  IInv'
<1> USE DEF IInv, disk, bounds, clients, Delete, Begin, Deletable, Shredded, Serving
<1>t. Typed
  BY DEF TypeOK, Typed
<1> USE <1>t DEF Typed
<1>1. UseIsExclusive' /\ ModeInv' /\ OpInv'
  BY DEF UseIsExclusive, ModeInv, Idle, OpInv
<1>2. RegisterInv' /\ PutInv' /\ FinishInv'
  BY DEF RegisterInv, Idle, PutInv, FinishInv
<1>3. DeleteInv'
  <2>1. entries[id0] \in MetaRecord /\ entries[id0].state = "REGISTERED"
    OBVIOUS
  <2>2. AtRest(entries[id0], meta[id0])
    BY DEF RestInv, Idle
  <2>3. /\ meta'[id0].state = "REGISTERED" /\ entries[id0].cert = NoCert
        /\ meta'[id0].dek = entries[id0].dek /\ meta'[id0].hash = entries[id0].hash
    BY <2>1, <2>2 DEF AtRest, Live, Blank
  <2>4. /\ op'.id = id0 /\ op'.pc = "metaTmp" /\ op'.undo = entries[id0]
        /\ op'.rec = [entries[id0] EXCEPT !.state = "DELETING", !.dek = 0]
        /\ entries'[id0] = [entries[id0] EXCEPT !.state = "DELETING", !.dek = 0]
    OBVIOUS
  <2> QED BY <2>1, <2>3, <2>4 DEF DeleteInv, MetaRecord
<1>4. RestInv'
  <2> SUFFICES ASSUME NEW id \in Ids, mode' # "down", op'.id # id
               PROVE  AtRest(entries'[id], meta'[id])
    BY DEF RestInv
  <2>1. id # id0 /\ op.id # id
    BY DEF Idle
  <2> QED BY <2>1 DEF RestInv
<1>5. ASSUME NEW id \in Ids PROVE FileInv(id)'
  BY DEF FileInv
<1>6. ASSUME NEW id \in Ids PROVE CertInv(id)'
  BY DEF CertInv
<1> QED BY <1>1, <1>2, <1>3, <1>4, <1>5, <1>6

\* Data that is free passes to one worker.
LEMMA BeginExecuteStep ==
    ASSUME IInv, TypeOK', NEW w0 \in Workers, NEW ids \in SUBSET Ids, NEW p \in Programs, BeginExecute(w0, ids, p)
    PROVE  IInv'
<1> USE DEF IInv, disk, bounds, clients, BeginExecute, Usable, Serving
<1>t. Typed
  BY DEF TypeOK, Typed
<1> USE <1>t DEF Typed
<1>1. UseIsExclusive' /\ ModeInv' /\ OpInv'
  BY DEF UseIsExclusive, ModeInv, Idle, OpInv
<1>2. RegisterInv' /\ PutInv' /\ DeleteInv' /\ FinishInv'
  BY DEF RegisterInv, Idle, PutInv, DeleteInv, FinishInv
<1>3. RestInv'
  <2> SUFFICES ASSUME NEW id \in Ids, mode' # "down", op'.id # id
               PROVE  AtRest(entries'[id], meta'[id])
    BY DEF RestInv
  <2>1. AtRest(entries[id], meta[id])
    BY DEF RestInv
  <2>2. CASE id \in ids
    <3>1. entries[id] \in MetaRecord /\ entries[id].state = "REGISTERED"
      BY <2>2
    <3>2. AtRest([entries[id] EXCEPT !.state = "IN_USE"], meta[id])
      BY <2>1, <3>1 DEF AtRest, Live, MetaRecord, Blank
    <3> QED BY <2>2, <3>2
  <2> QED BY <2>1, <2>2
<1>4. ASSUME NEW id \in Ids PROVE FileInv(id)'
  BY DEF FileInv
<1>5. ASSUME NEW id \in Ids PROVE CertInv(id)'
  BY DEF CertInv
<1> QED BY <1>1, <1>2, <1>3, <1>4, <1>5

\* A worker's data, and no other, is given back.
LEMMA EndExecuteStep ==
    ASSUME IInv, TypeOK', NEW w0 \in Workers, EndExecute(w0)
    PROVE  IInv'
<1> USE DEF IInv, disk, bounds, clients, EndExecute, GivenBack, Serving
<1>t. Typed
  BY DEF TypeOK, Typed
<1> USE <1>t DEF Typed
<1>1. UseIsExclusive' /\ ModeInv' /\ OpInv'
  BY DEF UseIsExclusive, ModeInv, Idle, OpInv
<1>2. RegisterInv' /\ PutInv' /\ DeleteInv' /\ FinishInv'
  BY DEF RegisterInv, Idle, PutInv, DeleteInv, FinishInv
<1>3. RestInv'
  <2> SUFFICES ASSUME NEW id \in Ids, mode' # "down", op'.id # id
               PROVE  AtRest(entries'[id], meta'[id])
    BY DEF RestInv
  <2>1. AtRest(entries[id], meta[id])
    BY DEF RestInv
  <2>2. CASE entries[id].state = "IN_USE"
    <3>1. /\ GivenBack(entries[id]).state = "REGISTERED"
          /\ GivenBack(entries[id]).dek = entries[id].dek
          /\ GivenBack(entries[id]).hash = entries[id].hash
          /\ GivenBack(entries[id]).cert = entries[id].cert
      BY <2>2 DEF MetaRecord
    <3>2. AtRest(GivenBack(entries[id]), meta[id])
      BY <2>1, <2>2, <3>1 DEF AtRest, Live, Blank
    <3> QED BY <2>1, <3>2
  <2>3. CASE entries[id].state # "IN_USE"
    BY <2>1, <2>3
  <2> QED BY <2>2, <2>3
<1>4. ASSUME NEW id \in Ids PROVE FileInv(id)'
  BY DEF FileInv
<1>5. ASSUME NEW id \in Ids PROVE CertInv(id)'
  BY DEF CertInv
<1> QED BY <1>1, <1>2, <1>3, <1>4, <1>5

\* Telling a client of a phase changes nothing.
LEMMA StatusStep ==
    ASSUME IInv, TypeOK', NEW id0 \in Ids, Status(id0)
    PROVE  IInv'
<1> USE DEF IInv, disk, bounds, clients, memory, Status, Serving
<1>t. Typed
  BY DEF TypeOK, Typed
<1> USE <1>t DEF Typed
<1>1. UseIsExclusive' /\ ModeInv' /\ OpInv'
  BY DEF UseIsExclusive, ModeInv, Idle, OpInv
<1>2. RegisterInv' /\ PutInv' /\ DeleteInv' /\ FinishInv'
  BY DEF RegisterInv, PutInv, DeleteInv, FinishInv
<1>3. RestInv'
  BY DEF RestInv
<1>4. ASSUME NEW id \in Ids PROVE FileInv(id)'
  BY DEF FileInv
<1>5. ASSUME NEW id \in Ids PROVE CertInv(id)'
  BY DEF CertInv
<1> QED BY <1>1, <1>2, <1>3, <1>4, <1>5

\* A certificate is shown only of a record whose blob is gone.
LEMMA ProofStep ==
    ASSUME IInv, TypeOK', NEW id0 \in Ids, Proof(id0)
    PROVE  IInv'
<1> USE DEF IInv, disk, bounds, clients, memory, Proof, Serving
<1>t. Typed
  BY DEF TypeOK, Typed
<1> USE <1>t DEF Typed
<1>1. UseIsExclusive' /\ ModeInv' /\ OpInv'
  BY DEF UseIsExclusive, ModeInv, Idle, OpInv
<1>2. RegisterInv' /\ PutInv' /\ DeleteInv' /\ FinishInv'
  BY DEF RegisterInv, PutInv, DeleteInv, FinishInv
<1>3. RestInv'
  BY DEF RestInv
<1>4. ASSUME NEW id \in Ids PROVE FileInv(id)'
  BY DEF FileInv
<1>5. ASSUME NEW id \in Ids PROVE CertInv(id)'
  BY DEF CertInv, RestInv, AtRest, FileInv, Blank, Idle
<1> QED BY <1>1, <1>2, <1>3, <1>4, <1>5

\* The blob's .tmp file is written while there is no record.
LEMMA WriteBlobTmpStep ==
    ASSUME IInv, TypeOK', WriteBlobTmp
    PROVE  IInv'
<1> USE DEF IInv, disk, bounds, clients, WriteBlobTmp, At, Goto
<1>t. Typed
  BY DEF TypeOK, Typed
<1> USE <1>t DEF Typed
<1>1. UseIsExclusive' /\ ModeInv' /\ OpInv'
  BY DEF UseIsExclusive, ModeInv, Idle, OpInv
<1>2. RegisterInv' /\ PutInv' /\ DeleteInv' /\ FinishInv'
  BY DEF RegisterInv, PutInv, DeleteInv, FinishInv
<1>3. RestInv'
  <2> SUFFICES ASSUME NEW id \in Ids, mode' # "down", op'.id # id
               PROVE  AtRest(entries'[id], meta'[id])
    BY DEF RestInv
  <2>1. op'.id = op.id
    BY DEF Operation
  <2> QED BY <2>1 DEF RestInv
<1>4. ASSUME NEW id \in Ids PROVE FileInv(id)'
  BY DEF FileInv, OpInv, RegisterInv, Blank
<1>5. ASSUME NEW id \in Ids PROVE CertInv(id)'
  BY DEF CertInv
<1> QED BY <1>1, <1>2, <1>3, <1>4, <1>5

\* The blob is in place before its record.
LEMMA RenameBlobStep ==
    ASSUME IInv, TypeOK', RenameBlob
    PROVE  IInv'
<1> USE DEF IInv, disk, bounds, clients, RenameBlob, At, Goto
<1>t. Typed
  BY DEF TypeOK, Typed
<1> USE <1>t DEF Typed
<1>1. UseIsExclusive' /\ ModeInv' /\ OpInv'
  BY DEF UseIsExclusive, ModeInv, Idle, OpInv
<1>2. RegisterInv' /\ PutInv' /\ DeleteInv' /\ FinishInv'
  BY DEF RegisterInv, PutInv, DeleteInv, FinishInv
<1>3. RestInv'
  <2> SUFFICES ASSUME NEW id \in Ids, mode' # "down", op'.id # id
               PROVE  AtRest(entries'[id], meta'[id])
    BY DEF RestInv
  <2>1. op'.id = op.id
    BY DEF Operation
  <2> QED BY <2>1 DEF RestInv
<1>4. ASSUME NEW id \in Ids PROVE FileInv(id)'
  BY DEF FileInv, OpInv, RegisterInv
<1>5. ASSUME NEW id \in Ids PROVE CertInv(id)'
  BY DEF CertInv, OpInv, RegisterInv, FileInv, Gone
<1> QED BY <1>1, <1>2, <1>3, <1>4, <1>5

\* The record's .tmp file is written: the key of shredded data is not in it.
LEMMA WriteMetaTmpStep ==
    ASSUME IInv, TypeOK', WriteMetaTmp
    PROVE  IInv'
<1> USE DEF IInv, disk, bounds, clients, WriteMetaTmp, At, Goto
<1>t. Typed
  BY DEF TypeOK, Typed
<1> USE <1>t DEF Typed
<1>1. UseIsExclusive' /\ ModeInv' /\ OpInv'
  BY DEF UseIsExclusive, ModeInv, Idle, OpInv
<1>2. RegisterInv' /\ PutInv' /\ DeleteInv' /\ FinishInv'
  BY DEF RegisterInv, PutInv, DeleteInv, FinishInv
<1>3. RestInv'
  <2> SUFFICES ASSUME NEW id \in Ids, mode' # "down", op'.id # id
               PROVE  AtRest(entries'[id], meta'[id])
    BY DEF RestInv
  <2>1. op'.id = op.id
    BY DEF Operation
  <2> QED BY <2>1 DEF RestInv
<1>4. ASSUME NEW id \in Ids PROVE FileInv(id)'
  BY DEF FileInv, OpInv, RegisterInv, PutInv, DeleteInv, FinishInv, Blank, Gone
<1>5. ASSUME NEW id \in Ids PROVE CertInv(id)'
  BY DEF CertInv
<1> QED BY <1>1, <1>2, <1>3, <1>4, <1>5

\* The record is in place: the commit point of every operation.
LEMMA RenameMetaStep ==
    ASSUME IInv, TypeOK', RenameMeta
    PROVE  IInv'
<1> USE DEF IInv, disk, bounds, clients, RenameMeta, At, Goto
<1>t. Typed
  BY DEF TypeOK, Typed
<1> USE <1>t DEF Typed
<1>1. UseIsExclusive' /\ ModeInv' /\ OpInv'
  BY DEF UseIsExclusive, ModeInv, Idle, OpInv
<1>2. RegisterInv' /\ PutInv' /\ DeleteInv' /\ FinishInv'
  BY DEF RegisterInv, OpInv, PutInv, DeleteInv, FinishInv
<1>3. RestInv'
  <2> SUFFICES ASSUME NEW id \in Ids, mode' # "down", op'.id # id
               PROVE  AtRest(entries'[id], meta'[id])
    BY DEF RestInv
  <2>1. op'.id = op.id
    BY DEF Operation
  <2> QED BY <2>1 DEF RestInv
<1>4. ASSUME NEW id \in Ids PROVE FileInv(id)'
  <2>1. op.id \in Ids /\ metaTmp[op.id] = op.rec
    BY DEF OpInv
  <2>2. CASE id = op.id
    <3>1. meta'[id] = op.rec /\ metaTmp'[id] = Blank
      BY <2>1, <2>2
    <3>2. CASE op.kind = "register"
      BY <2>2, <3>1, <3>2 DEF RegisterInv, FileInv, Gone, Blank
    <3>3. CASE op.kind = "put"
      BY <2>2, <3>1, <3>3 DEF PutInv, FileInv, Gone, Blank
    <3>4. CASE op.kind = "delete"
      BY <2>2, <3>1, <3>4 DEF DeleteInv, FileInv, Gone, Blank
    <3>5. CASE op.kind = "finish"
      BY <2>2, <3>1, <3>5 DEF FinishInv, FileInv, Gone, Blank
    <3> QED BY <3>2, <3>3, <3>4, <3>5 DEF OpInv
  <2>3. CASE id # op.id
    BY <2>1, <2>3 DEF FileInv
  <2> QED BY <2>2, <2>3
<1>5. ASSUME NEW id \in Ids PROVE CertInv(id)'
  BY DEF CertInv, OpInv, RegisterInv, PutInv, DeleteInv, FinishInv, Gone
<1> QED BY <1>1, <1>2, <1>3, <1>4, <1>5

\* The blob goes, and only then is there a certificate.
LEMMA RemoveBlobStep ==
    ASSUME IInv, TypeOK', RemoveBlob
    PROVE  IInv'
<1> USE DEF IInv, disk, bounds, clients, RemoveBlob, At
<1>t. Typed
  BY DEF TypeOK, Typed
<1> USE <1>t DEF Typed
<1>1. ModeInv' /\ OpInv'
  BY DEF ModeInv, Idle, OpInv
<1>2. UseIsExclusive'
  BY DEF UseIsExclusive, OpInv, FinishInv
<1>3. RegisterInv' /\ PutInv' /\ DeleteInv'
  BY DEF RegisterInv, OpInv, PutInv, DeleteInv
<1>4. FinishInv'
  <2>1. op.kind = "finish" /\ op.id \in Ids
    BY DEF OpInv
  <2>2. entries[op.id].dek = 0 /\ meta[op.id].state = "DELETING"
    BY <2>1 DEF FinishInv
  <2>3. /\ op'.id = op.id /\ op'.pc = "metaTmp" /\ op'.rec = entries'[op.id]
        /\ entries'[op.id].state = "DELETED" /\ entries'[op.id].dek = entries[op.id].dek
    BY <2>1 DEF Operation, MetaRecord
  <2> QED BY <2>1, <2>2, <2>3 DEF FinishInv
<1>5. RestInv'
  <2> SUFFICES ASSUME NEW id \in Ids, mode' # "down", op'.id # id
               PROVE  AtRest(entries'[id], meta'[id])
    BY DEF RestInv
  <2>1. op'.id = op.id
    BY DEF Operation
  <2> QED BY <2>1 DEF RestInv
<1>6. ASSUME NEW id \in Ids PROVE FileInv(id)'
  BY DEF FileInv, OpInv, FinishInv
<1>7. ASSUME NEW id \in Ids PROVE CertInv(id)'
  BY DEF CertInv
<1> QED BY <1>1, <1>2, <1>3, <1>4, <1>5, <1>6, <1>7

\* A failed write of the blob leaves no record.
LEMMA WriteBlobTmpFailsStep ==
    ASSUME IInv, TypeOK', WriteBlobTmpFails
    PROVE  IInv'
<1> USE DEF IInv, disk, bounds, clients, WriteBlobTmpFails, At, TornBlob
<1>t. Typed
  BY DEF TypeOK, Typed
<1> USE <1>t DEF Typed
<1>1. op.pc \notin {"idle", "done"} /\ Fail /\ meta' = meta /\ blob' = blob
  OBVIOUS
<1>2. ASSUME NEW id \in Ids PROVE FileInv(id)'
  BY DEF FileInv, OpInv, RegisterInv, Blank
<1> QED BY <1>1, <1>2, FailStep

\* A failed rename of the blob leaves no record.
LEMMA RenameBlobFailsStep ==
    ASSUME IInv, TypeOK', RenameBlobFails
    PROVE  IInv'
<1> USE DEF IInv, disk, bounds, clients, RenameBlobFails, At
<1>t. Typed
  BY DEF TypeOK, Typed
<1> USE <1>t DEF Typed
<1>1. op.pc \notin {"idle", "done"} /\ Fail /\ meta' = meta /\ blob' = blob
  OBVIOUS
<1>2. ASSUME NEW id \in Ids PROVE FileInv(id)'
  BY DEF FileInv
<1> QED BY <1>1, <1>2, FailStep

\* A failed write of the record leaves the record in place as it was.
LEMMA WriteMetaTmpFailsStep ==
    ASSUME IInv, TypeOK', WriteMetaTmpFails
    PROVE  IInv'
<1> USE DEF IInv, disk, bounds, clients, WriteMetaTmpFails, At, TornMeta
<1>t. Typed
  BY DEF TypeOK, Typed
<1> USE <1>t DEF Typed
<1>1. op.pc \notin {"idle", "done"} /\ Fail /\ meta' = meta /\ blob' = blob
  OBVIOUS
<1>2. ASSUME NEW id \in Ids PROVE FileInv(id)'
  BY DEF FileInv, OpInv, RegisterInv, PutInv, DeleteInv, FinishInv, Blank, Gone
<1> QED BY <1>1, <1>2, FailStep

\* A failed rename leaves the record in place as it was.
LEMMA RenameMetaFailsStep ==
    ASSUME IInv, TypeOK', RenameMetaFails
    PROVE  IInv'
<1> USE DEF IInv, disk, bounds, clients, RenameMetaFails, At
<1>t. Typed
  BY DEF TypeOK, Typed
<1> USE <1>t DEF Typed
<1>1. op.pc \notin {"idle", "done"} /\ Fail /\ meta' = meta /\ blob' = blob
  OBVIOUS
<1>2. ASSUME NEW id \in Ids PROVE FileInv(id)'
  BY DEF FileInv, Blank
<1> QED BY <1>1, <1>2, FailStep

\* A blob that cannot be removed leaves the deletion unfinished.
LEMMA RemoveBlobFailsStep ==
    ASSUME IInv, TypeOK', RemoveBlobFails
    PROVE  IInv'
<1> USE DEF IInv, disk, bounds, clients, RemoveBlobFails, At
<1>t. Typed
  BY DEF TypeOK, Typed
<1> USE <1>t DEF Typed
<1>1. op.pc \notin {"idle", "done"} /\ Fail /\ meta' = meta /\ blob' = blob
  OBVIOUS
<1>2. ASSUME NEW id \in Ids PROVE FileInv(id)'
  BY DEF FileInv
<1> QED BY <1>1, <1>2, FailStep

\* A registration enters memory as it is on disk.
LEMMA RegisterDoneStep ==
    ASSUME IInv, TypeOK', RegisterDone
    PROVE  IInv'
<1> USE DEF IInv, disk, bounds, clients, RegisterDone, At
<1>t. Typed
  BY DEF TypeOK, Typed
<1> USE <1>t DEF Typed
<1>1. ModeInv' /\ OpInv'
  BY DEF ModeInv, Idle, OpInv
<1>2. UseIsExclusive'
  BY DEF UseIsExclusive, RegisterInv, Blank
<1>3. RegisterInv' /\ PutInv' /\ DeleteInv' /\ FinishInv'
  BY DEF RegisterInv, Idle, PutInv, DeleteInv, FinishInv
<1>4. RestInv'
  <2> SUFFICES ASSUME NEW id \in Ids, mode' # "down", op'.id # id
               PROVE  AtRest(entries'[id], meta'[id])
    BY DEF RestInv
  <2>1. CASE id = op.id
    <3>1. entries'[id] = op.rec /\ meta'[id] = op.rec
      BY <2>1 DEF RegisterInv
    <3> QED BY <3>1 DEF RegisterInv, AtRest, Live
  <2>2. CASE id # op.id
    BY <2>2 DEF RestInv
  <2> QED BY <2>1, <2>2
<1>5. ASSUME NEW id \in Ids PROVE FileInv(id)'
  BY DEF FileInv
<1>6. ASSUME NEW id \in Ids PROVE CertInv(id)'
  BY DEF CertInv, RegisterInv
<1> QED BY <1>1, <1>2, <1>3, <1>4, <1>5, <1>6

\* An edit ends.
LEMMA SetAllowedProgramsDoneStep ==
    ASSUME IInv, TypeOK', SetAllowedProgramsDone
    PROVE  IInv'
<1> USE DEF IInv, disk, bounds, clients, SetAllowedProgramsDone, At
<1>t. Typed
  BY DEF TypeOK, Typed
<1> USE <1>t DEF Typed
<1>1. UseIsExclusive' /\ ModeInv' /\ OpInv'
  BY DEF UseIsExclusive, ModeInv, Idle, OpInv
<1>2. RegisterInv' /\ PutInv' /\ DeleteInv' /\ FinishInv'
  BY DEF RegisterInv, Idle, PutInv, DeleteInv, FinishInv
<1>3. RestInv'
  <2> SUFFICES ASSUME NEW id \in Ids, mode' # "down", op'.id # id
               PROVE  AtRest(entries'[id], meta'[id])
    BY DEF RestInv
  <2>1. CASE id = op.id
    BY <2>1 DEF PutInv, AtRest
  <2>2. CASE id # op.id
    BY <2>2 DEF RestInv
  <2> QED BY <2>1, <2>2
<1>4. ASSUME NEW id \in Ids PROVE FileInv(id)'
  BY DEF FileInv
<1>5. ASSUME NEW id \in Ids PROVE CertInv(id)'
  BY DEF CertInv
<1> QED BY <1>1, <1>2, <1>3, <1>4, <1>5

\* Past the commit point a deletion is finished, not undone.
LEMMA DeleteCommittedStep ==
    ASSUME IInv, TypeOK', DeleteCommitted
    PROVE  IInv'
<1> USE DEF IInv, disk, bounds, clients, DeleteCommitted, At
<1>t. Typed
  BY DEF TypeOK, Typed
<1> USE <1>t DEF Typed
<1>1. UseIsExclusive' /\ ModeInv' /\ OpInv'
  BY DEF UseIsExclusive, ModeInv, Idle, OpInv
<1>2. RegisterInv' /\ PutInv' /\ DeleteInv' /\ FinishInv'
  BY DEF RegisterInv, PutInv, DeleteInv, FinishInv
<1>3. RestInv'
  <2> SUFFICES ASSUME NEW id \in Ids, mode' # "down", op'.id # id
               PROVE  AtRest(entries'[id], meta'[id])
    BY DEF RestInv
  <2>1. op'.id = op.id
    BY DEF Operation
  <2> QED BY <2>1 DEF RestInv
<1>4. ASSUME NEW id \in Ids PROVE FileInv(id)'
  BY DEF FileInv
<1>5. ASSUME NEW id \in Ids PROVE CertInv(id)'
  BY DEF CertInv
<1> QED BY <1>1, <1>2, <1>3, <1>4, <1>5

\* The certificate is handed out when the blob is gone and the record in place.
LEMMA FinishDoneStep ==
    ASSUME IInv, TypeOK', FinishDone
    PROVE  IInv'
<1> USE DEF IInv, disk, bounds, clients, FinishDone, At
<1>t. Typed
  BY DEF TypeOK, Typed
<1> USE <1>t DEF Typed
<1>1. UseIsExclusive' /\ ModeInv' /\ OpInv'
  BY DEF UseIsExclusive, ModeInv, Idle, OpInv
<1>2. RegisterInv' /\ PutInv' /\ DeleteInv' /\ FinishInv'
  BY DEF RegisterInv, Idle, PutInv, DeleteInv, FinishInv
<1>3. RestInv'
  <2> SUFFICES ASSUME NEW id \in Ids, mode' # "down", op'.id # id
               PROVE  AtRest(entries'[id], meta'[id])
    BY DEF RestInv
  <2>1. CASE id = op.id
    BY <2>1 DEF OpInv, FinishInv, AtRest, Gone
  <2>2. CASE id # op.id
    BY <2>2 DEF RestInv
  <2> QED BY <2>1, <2>2
<1>4. ASSUME NEW id \in Ids PROVE FileInv(id)'
  BY DEF FileInv
<1>5. ASSUME NEW id \in Ids PROVE CertInv(id)'
  BY DEF CertInv, OpInv, FinishInv, Gone
<1> QED BY <1>1, <1>2, <1>3, <1>4, <1>5

-----------------------------------------------------------------------------
(* The invariant                                                           *)

\* The invariant holds at first: there is no record and no file.
LEMMA InvariantInit == Init => IInv
<1> SUFFICES ASSUME Init PROVE IInv
  OBVIOUS
<1> USE DEF Init
<1>1. TypeOK
  BY BlankType DEF TypeOK, Idle
<1>2. UseIsExclusive /\ ModeInv /\ OpInv
  BY DEF UseIsExclusive, ModeInv, OpInv, Idle, Blank
<1>3. RegisterInv /\ PutInv /\ DeleteInv /\ FinishInv /\ RestInv
  BY DEF RegisterInv, PutInv, DeleteInv, FinishInv, RestInv, Idle
<1>4. ASSUME NEW id \in Ids PROVE FileInv(id) /\ CertInv(id)
  BY DEF FileInv, CertInv, Blank, Gone
<1> QED BY <1>1, <1>2, <1>3, <1>4 DEF IInv

\* Every action preserves the invariant.
LEMMA InvariantStep == IInv /\ [Next]_vars => IInv'
<1> SUFFICES ASSUME IInv, [Next]_vars PROVE IInv'
  OBVIOUS
<1>1. TypeOK'
  BY TypeStep DEF IInv
<1>2. CASE Next
  <2>1. CASE Boot
    BY <1>1, <2>1, BootStep
  <2>2. CASE Recovery
    BY <1>1, <2>2, ServeStep, RecoverStep DEF Recovery
  <2>3. CASE Crash
    BY <1>1, <2>3, CrashStep
  <2>4. CASE Request
    BY <1>1, <2>4, RegisterStep, SetAllowedProgramsStep, DeleteStep, BeginExecuteStep,
       StatusStep, ProofStep DEF Request
  <2>5. ASSUME NEW w \in Workers, EndExecute(w) PROVE IInv'
    BY <1>1, <2>5, EndExecuteStep
  <2>6. CASE FileStep
    BY <1>1, <2>6, WriteBlobTmpStep, RenameBlobStep, WriteMetaTmpStep, RenameMetaStep,
       RemoveBlobStep DEF FileStep
  <2>7. CASE FileFault
    BY <1>1, <2>7, WriteBlobTmpFailsStep, RenameBlobFailsStep, WriteMetaTmpFailsStep,
       RenameMetaFailsStep, RemoveBlobFailsStep DEF FileFault
  <2>8. CASE Answer
    BY <1>1, <2>8, RegisterDoneStep, SetAllowedProgramsDoneStep, DeleteCommittedStep,
       FinishDoneStep DEF Answer
  <2> QED BY <1>2, <2>1, <2>2, <2>3, <2>4, <2>5, <2>6, <2>7, <2>8 DEF Next
<1>3. CASE UNCHANGED vars
  <2> USE <1>3 DEF vars, memory, disk, bounds, clients, IInv
  <2>1. UseIsExclusive' /\ ModeInv' /\ OpInv'
    BY DEF UseIsExclusive, ModeInv, OpInv
  <2>2. RegisterInv' /\ PutInv' /\ DeleteInv' /\ FinishInv' /\ RestInv'
    BY DEF RegisterInv, PutInv, DeleteInv, FinishInv, RestInv
  <2>3. \A id \in Ids : FileInv(id)' /\ CertInv(id)'
    BY DEF FileInv, CertInv
  <2> QED BY <1>1, <2>1, <2>2, <2>3
<1> QED BY <1>2, <1>3

\* The invariant holds in every state.
THEOREM InvariantHolds == Spec => []IInv
  BY InvariantInit, InvariantStep, PTL DEF Spec

-----------------------------------------------------------------------------
(* What follows from the invariant                                         *)

\* A record that is DELETED in memory is at least DELETING on disk.
LEMMA DeletedInMemory ==
    ASSUME IInv, NEW id \in Ids, entries[id].state = "DELETED"
    PROVE  Gone(meta[id].state)
<1> USE DEF IInv
<1>1. mode # "down"
  BY DEF ModeInv, Blank
<1>2. CASE op.id # id
  BY <1>1, <1>2 DEF RestInv, AtRest, Blank, Live, Gone
<1>3. CASE op.id = id
  <2>1. op.kind \in {"register", "put", "delete", "finish"}
    BY <1>3, IdsAssumption DEF OpInv
  <2> QED BY <1>3, <2>1 DEF RegisterInv, PutInv, DeleteInv, FinishInv, Blank, Live, Gone
<1> QED BY <1>2, <1>3

\* Once the DELETING record is on disk no key is left in memory or in any file.
LEMMA KeyIsGone ==
    ASSUME IInv, NEW id \in Ids, Gone(meta[id].state)
    PROVE  meta[id].dek = 0 /\ metaTmp[id].dek = 0 /\ entries[id].dek = 0
<1> USE DEF IInv
<1>1. meta[id].dek = 0 /\ metaTmp[id].dek = 0
  BY DEF FileInv
<1>2. entries[id].dek = 0
  <2>1. CASE mode = "down"
    BY <2>1 DEF ModeInv, Blank
  <2>2. CASE mode # "down" /\ op.id # id
    BY <2>2 DEF RestInv, AtRest, Blank, Live, Gone
  <2>3. CASE op.id = id
    <3>1. op.kind \in {"register", "put", "delete", "finish"}
      BY <2>3, IdsAssumption DEF OpInv
    <3> QED BY <2>3, <3>1 DEF RegisterInv, PutInv, DeleteInv, FinishInv, Blank, Gone
  <2> QED BY <2>1, <2>2, <2>3
<1> QED BY <1>1, <1>2

\* A record is IN_USE exactly while one execution, and no other, holds its data.
THEOREM ExclusiveUse == Spec => []UseIsExclusive
<1>1. IInv => UseIsExclusive
  BY DEF IInv
<1> QED BY <1>1, InvariantHolds, PTL

\* IN_USE never reaches a file, so a restart finds the data usable.
THEOREM InUseStaysInMemory == Spec => []InUseNotPersisted
<1>1. IInv => InUseNotPersisted
  BY DEF IInv, FileInv, InUseNotPersisted
<1> QED BY <1>1, InvariantHolds, PTL

\* A record on disk as REGISTERED has its blob, sealed with the record's key.
THEOREM RegisteredStaysReadable == Spec => []RegisteredIsReadable
<1>1. IInv => RegisteredIsReadable
  BY DEF IInv, FileInv, RegisteredIsReadable
<1> QED BY <1>1, InvariantHolds, PTL

\* The commit of a deletion is final: the key is nowhere, whatever fails after.
THEOREM ShreddingIsFinal == Spec => []NoKeyAfterCommit
<1>1. IInv => NoKeyAfterCommit
  BY KeyIsGone DEF NoKeyAfterCommit, Gone
<1> QED BY <1>1, InvariantHolds, PTL

\* A certificate is never premature: no ciphertext and no key is left.
THEOREM CertificatesAreTrue == Spec => []CertifiedIsErased
<1>1. ASSUME IInv, NEW id \in Ids,
             shown[id] # {} \/ entries[id].cert # NoCert \/ meta[id].cert # NoCert
      PROVE  /\ blob[id] = 0 /\ blobTmp[id] = 0
             /\ meta[id].dek = 0 /\ metaTmp[id].dek = 0 /\ entries[id].dek = 0
  <2> USE <1>1
  <2>1. Gone(meta[id].state) /\ blob[id] = 0
    <3>1. FileInv(id) /\ CertInv(id)
      BY DEF IInv
    <3>2. CASE shown[id] # {}
      BY <3>1, <3>2 DEF CertInv
    <3>3. CASE entries[id].cert # NoCert
      BY <3>1, <3>3, DeletedInMemory DEF CertInv
    <3>4. CASE meta[id].cert # NoCert
      BY <3>1, <3>4 DEF FileInv, CertInv, Gone
    <3> QED BY <3>2, <3>3, <3>4
  <2>2. blobTmp[id] = 0
    BY <2>1 DEF IInv, FileInv, Gone
  <2> QED BY <2>1, <2>2, KeyIsGone
<1>2. IInv => CertifiedIsErased
  BY <1>1 DEF CertifiedIsErased
<1> QED BY <1>2, InvariantHolds, PTL

-----------------------------------------------------------------------------
(* What clients may rely on, and DataContract; PromiseInv is inductive on  *)
(* top of IInv.                                                            *)

\* What a client is told of each state.
LEMMA RankValues ==
    /\ Rank["ABSENT"] = 0 /\ Rank["REGISTERED"] = 1 /\ Rank["IN_USE"] = 1
    /\ Rank["DELETING"] = 2 /\ Rank["DELETED"] = 3
  BY DEF Rank, States

\* The part of TypeOK that the steps below use.
AllTyped ==
    /\ Typed
    /\ promised \in [Ids -> SUBSET Lists] /\ granted \in [Ids -> SUBSET Certificate]
    /\ observed \in [Ids -> 0..3]

\* Undoing a change to a record gives the record.
LEMMA UndoneRecord ==
    ASSUME NEW rec \in MetaRecord
    PROVE  /\ \A list : [[rec EXCEPT !.allowed = list] EXCEPT !.allowed = rec.allowed] = rec
           /\ rec.state = "REGISTERED" =>
                /\ [[rec EXCEPT !.state = "IN_USE"] EXCEPT !.state = "REGISTERED"] = rec
                /\ [Shredded(rec) EXCEPT !.state = "REGISTERED", !.dek = rec.dek] = rec
  BY DEF MetaRecord, Shredded

\* What persist writes of a usable record is what a settled file says of it.
LEMMA PersistedIsSettled ==
    ASSUME NEW rec \in MetaRecord, Live(rec.state)
    PROVE  Settled(rec, Persisted(rec)) /\ Persisted(rec).allowed = rec.allowed
<1>1. CASE rec.state = "IN_USE"
  <2>1. [[rec EXCEPT !.state = "REGISTERED"] EXCEPT !.state = "IN_USE"] = rec
    BY <1>1 DEF MetaRecord
  <2>2. [rec EXCEPT !.state = "REGISTERED"].state = "REGISTERED"
    BY DEF MetaRecord
  <2>3. [rec EXCEPT !.state = "REGISTERED"].allowed = rec.allowed
    BY DEF MetaRecord
  <2> QED BY <1>1, <2>1, <2>2, <2>3 DEF Settled, Persisted
<1>2. CASE rec.state # "IN_USE"
  BY <1>2 DEF Settled, Persisted
<1> QED BY <1>1, <1>2

\* A process that serves has finished every deletion its files told of.
LEMMA PromiseServeStep ==
    ASSUME IInv, PromiseInv, TypeOK', Serve
    PROVE  PromiseInv'
<1> USE DEF IInv, PromiseInv, disk, bounds, clients, Serve
<1>t. AllTyped
  BY DEF TypeOK, AllTyped, Typed
<1> USE <1>t DEF AllTyped, Typed
<1>1. SettledInv'
  BY DEF SettledInv, Settled, Idle, OpInv, ModeInv
<1>2. PutTells' /\ DeleteTells' /\ FinishTells'
  BY DEF PutTells, DeleteTells, FinishTells, Idle, OpInv, ModeInv
<1>3. BootTells'
  BY DEF BootTells, ModeInv
<1>4. ASSUME NEW id \in Ids PROVE ListInv(id)'
  BY DEF ListInv, Exists, Idle, OpInv
<1>5. ASSUME NEW id \in Ids PROVE GrantInv(id)'
  BY DEF GrantInv, OpInv
<1>6. ASSUME NEW id \in Ids PROVE ObservedInv(id)'
  <2>1. op.id # id
    BY DEF Idle
  <2>2. AtRest(entries[id], meta[id]) /\ entries[id].state # "DELETING" /\ ObservedInv(id)
    BY <2>1 DEF RestInv, BootTells
  <2>3. observed[id] \in 0..3
    OBVIOUS
  <2>4. observed[id] <= Rank[entries[id].state]
    BY <2>2, <2>3, RankValues DEF AtRest, Live, Gone, Blank, ObservedInv
  <2> QED BY <2>2, <2>4 DEF ObservedInv
<1> QED BY <1>1, <1>2, <1>3, <1>4, <1>5, <1>6

\* The recovery loop takes up a deletion: the record is still the file's.
LEMMA PromiseRecoverStep ==
    ASSUME IInv, PromiseInv, TypeOK', NEW id0 \in Ids, Recover(id0)
    PROVE  PromiseInv'
<1> USE DEF IInv, PromiseInv, disk, bounds, clients, Recover, Persisted
<1>t. AllTyped
  BY DEF TypeOK, AllTyped, Typed
<1> USE <1>t DEF AllTyped, Typed
<1>1. SettledInv'
  BY DEF SettledInv, Settled, Idle, OpInv, ModeInv
<1>2. PutTells' /\ DeleteTells' /\ FinishTells'
  <2>1. entries[id0].state = "DELETING" /\ meta[id0] \in MetaRecord
    BY DEF ModeInv
  <2>2. Settled(entries[id0], meta[id0])
    BY DEF SettledInv, Idle
  <2>3. entries[id0] = meta[id0]
    BY <2>1, <2>2 DEF Settled, MetaRecord
  <2>4. entries'[id0] = entries[id0] /\ op'.kind = "finish" /\ op'.id = id0 /\ mode' = "boot"
    BY <2>1
  <2> QED BY <2>3, <2>4 DEF PutTells, DeleteTells, FinishTells
<1>3. BootTells'
  <2>1. \A id \in Ids : entries'[id].state = "DELETING" => entries[id].state = "DELETING"
    BY DEF ModeInv
  <2>2. todo' = todo \ {id0} /\ op'.id = id0 /\ op.id \notin Ids
    BY DEF Idle
  <2> QED BY <2>1, <2>2 DEF BootTells
<1>4. ASSUME NEW id \in Ids PROVE ListInv(id)'
  BY DEF ListInv, Exists, Idle, OpInv
<1>5. ASSUME NEW id \in Ids PROVE GrantInv(id)'
  BY DEF GrantInv, OpInv
<1>6. ASSUME NEW id \in Ids PROVE ObservedInv(id)'
  BY RankValues DEF ObservedInv, ModeInv
<1> QED BY <1>1, <1>2, <1>3, <1>4, <1>5, <1>6

\* A registration promises nothing until it is answered.
LEMMA PromiseRegisterStep ==
    ASSUME IInv, PromiseInv, TypeOK', NEW id0 \in Ids, NEW key \in Keys, NEW list \in Lists,
           Register(id0, key, list)
    PROVE  PromiseInv'
<1> USE DEF IInv, PromiseInv, disk, bounds, clients, Register, Begin, Serving, Exists
<1>t. AllTyped
  BY DEF TypeOK, AllTyped, Typed
<1> USE <1>t DEF AllTyped, Typed
<1>1. SettledInv'
  BY DEF SettledInv, Settled, Idle, OpInv, ModeInv
<1>2. PutTells' /\ DeleteTells' /\ FinishTells'
  BY DEF PutTells, DeleteTells, FinishTells, Idle, OpInv, ModeInv
<1>3. BootTells'
  BY DEF BootTells, ModeInv
<1>4. ASSUME NEW id \in Ids PROVE ListInv(id)'
  BY DEF ListInv, Exists, Idle, OpInv
<1>5. ASSUME NEW id \in Ids PROVE GrantInv(id)'
  BY DEF GrantInv, OpInv
<1>6. ASSUME NEW id \in Ids PROVE ObservedInv(id)'
  BY RankValues DEF ObservedInv, ModeInv
<1> QED BY <1>1, <1>2, <1>3, <1>4, <1>5, <1>6

\* An edit remembers the settled record its error path brings back.
LEMMA PromiseSetAllowedProgramsStep ==
    ASSUME IInv, PromiseInv, TypeOK', NEW id0 \in Ids, NEW key \in Keys, NEW list \in Lists,
           SetAllowedPrograms(id0, key, list)
    PROVE  PromiseInv'
<1> USE DEF IInv, PromiseInv, disk, bounds, clients, SetAllowedPrograms, Begin, Serving
<1>t. AllTyped
  BY DEF TypeOK, AllTyped, Typed
<1> USE <1>t DEF AllTyped, Typed
<1>1. SettledInv'
  BY DEF SettledInv, Settled, Idle, OpInv, ModeInv
<1>2. PutTells' /\ DeleteTells' /\ FinishTells'
  <2>1. entries[id0] \in MetaRecord /\ Live(entries[id0].state)
    BY DEF Live
  <2>2. Settled(entries[id0], meta[id0])
    BY DEF SettledInv, Idle
  <2>3. /\ op'.kind = "put" /\ op'.id = id0 /\ op'.pc = "metaTmp" /\ op'.undo = entries[id0]
        /\ entries'[id0] = [entries[id0] EXCEPT !.allowed = list]
        /\ op'.rec = Persisted(entries'[id0])
    OBVIOUS
  <2>4. op'.rec.allowed = list
    BY <2>1, <2>3 DEF Persisted, MetaRecord
  <2> QED BY <2>1, <2>2, <2>3, <2>4 DEF PutTells, DeleteTells, FinishTells
<1>3. BootTells'
  BY DEF BootTells, ModeInv
<1>4. ASSUME NEW id \in Ids PROVE ListInv(id)'
  BY DEF ListInv, Exists, Idle, OpInv
<1>5. ASSUME NEW id \in Ids PROVE GrantInv(id)'
  BY DEF GrantInv, OpInv
<1>6. ASSUME NEW id \in Ids PROVE ObservedInv(id)'
  BY RankValues DEF ObservedInv, ModeInv
<1> QED BY <1>1, <1>2, <1>3, <1>4, <1>5, <1>6

\* No client has a certificate of data that can still be deleted.
LEMMA PromiseDeleteStep ==
    ASSUME IInv, PromiseInv, TypeOK', NEW id0 \in Ids, NEW key \in Keys, Delete(id0, key)
    PROVE  PromiseInv'
<1> USE DEF IInv, PromiseInv, disk, bounds, clients, Delete, Begin, Deletable, Serving
<1>t. AllTyped
  BY DEF TypeOK, AllTyped, Typed
<1> USE <1>t DEF AllTyped, Typed
<1>1. SettledInv'
  BY DEF SettledInv, Settled, Idle, OpInv, ModeInv
<1>2. PutTells' /\ DeleteTells' /\ FinishTells'
  <2>1. /\ entries[id0] \in MetaRecord /\ meta[id0] \in MetaRecord
        /\ entries[id0].state = "REGISTERED"
    OBVIOUS
  <2>2. Settled(entries[id0], meta[id0])
    BY DEF SettledInv, Idle
  <2>3. entries[id0] = meta[id0]
    BY <2>1, <2>2 DEF Settled, MetaRecord
  <2>4. shown[id0] = {}
    BY <2>1, <2>3 DEF CertInv, Gone
  <2>5. /\ op'.kind = "delete" /\ op'.id = id0 /\ op'.undo = entries[id0]
        /\ op'.rec = Shredded(entries[id0]) /\ entries'[id0] = Shredded(entries[id0])
    OBVIOUS
  <2> QED BY <2>3, <2>4, <2>5 DEF PutTells, DeleteTells, FinishTells
<1>3. BootTells'
  BY DEF BootTells, ModeInv
<1>4. ASSUME NEW id \in Ids PROVE ListInv(id)'
  <2>1. ListInv(id) /\ op.kind = "none" /\ op'.kind = "delete"
    BY DEF Idle
  <2>2. entries'[id].state = "ABSENT" \/ entries'[id].allowed = entries[id].allowed
    BY DEF Shredded, MetaRecord
  <2>3. entries'[id].state = "ABSENT" => entries[id].state = "ABSENT"
    BY DEF Shredded, MetaRecord
  <2>4. entries[id].state = "ABSENT" => entries'[id].state = "ABSENT"
    OBVIOUS
  <2> QED BY <2>1, <2>2, <2>3, <2>4 DEF ListInv, Exists
<1>5. ASSUME NEW id \in Ids PROVE GrantInv(id)'
  BY DEF GrantInv, OpInv
<1>6. ASSUME NEW id \in Ids PROVE ObservedInv(id)'
  <2>1. ObservedInv(id) /\ observed[id] \in 0..3
    OBVIOUS
  <2>2. CASE id = id0
    <3>1. entries'[id].state = "DELETING" /\ entries[id].state = "REGISTERED"
      BY <2>2 DEF Shredded, MetaRecord
    <3> QED BY <2>1, <3>1, RankValues DEF ObservedInv
  <2>3. CASE id # id0
    BY <2>1, <2>3 DEF ObservedInv
  <2> QED BY <2>2, <2>3
<1> QED BY <1>1, <1>2, <1>3, <1>4, <1>5, <1>6

\* Data in use is as settled as before, and told of as registered.
LEMMA PromiseBeginExecuteStep ==
    ASSUME IInv, PromiseInv, TypeOK', NEW w0 \in Workers, NEW ids \in SUBSET Ids, NEW p \in Programs,
           BeginExecute(w0, ids, p)
    PROVE  PromiseInv'
<1> USE DEF IInv, PromiseInv, disk, bounds, clients, BeginExecute, Usable, Serving
<1>t. AllTyped
  BY DEF TypeOK, AllTyped, Typed
<1> USE <1>t DEF AllTyped, Typed
<1>1. SettledInv'
  BY DEF SettledInv, Settled, Idle, OpInv, ModeInv
<1>2. PutTells' /\ DeleteTells' /\ FinishTells'
  BY DEF PutTells, DeleteTells, FinishTells, Idle, OpInv, ModeInv
<1>3. BootTells'
  BY DEF BootTells, ModeInv
<1>4. ASSUME NEW id \in Ids PROVE ListInv(id)'
  BY DEF ListInv, Exists, Idle, OpInv
<1>5. ASSUME NEW id \in Ids PROVE GrantInv(id)'
  BY DEF GrantInv, OpInv
<1>6. ASSUME NEW id \in Ids PROVE ObservedInv(id)'
  <2>1. ObservedInv(id) /\ observed[id] \in 0..3 /\ entries[id] \in MetaRecord
    OBVIOUS
  <2>2. CASE id \in ids
    <3>1. entries[id].state = "REGISTERED" /\ entries'[id].state = "IN_USE" /\ observed'[id] = 1
      BY <2>1, <2>2, RankValues DEF MetaRecord
    <3>2. meta[id].state # "ABSENT"
      BY <3>1 DEF RestInv, AtRest, Idle, Blank
    <3> QED BY <3>1, <3>2, RankValues DEF ObservedInv
  <2>3. CASE id \notin ids
    BY <2>1, <2>3 DEF ObservedInv
  <2> QED BY <2>2, <2>3
<1> QED BY <1>1, <1>2, <1>3, <1>4, <1>5, <1>6

\* Data given back is again what its file says.
LEMMA PromiseEndExecuteStep ==
    ASSUME IInv, PromiseInv, TypeOK', NEW w0 \in Workers, EndExecute(w0)
    PROVE  PromiseInv'
<1> USE DEF IInv, PromiseInv, disk, bounds, clients, EndExecute, GivenBack, Serving
<1>t. AllTyped
  BY DEF TypeOK, AllTyped, Typed
<1> USE <1>t DEF AllTyped, Typed
<1>1. SettledInv'
  <2> SUFFICES ASSUME NEW id \in Ids PROVE Settled(entries'[id], meta'[id])
    BY DEF SettledInv
  <2>1. Settled(entries[id], meta[id]) /\ entries[id] \in MetaRecord /\ meta[id] \in MetaRecord
    BY DEF SettledInv, Idle
  <2>2. FileInv(id)
    OBVIOUS
  <2>3. CASE id \in using[w0] /\ entries[id].state = "IN_USE"
    <3>1. entries'[id] = [entries[id] EXCEPT !.state = "REGISTERED"]
      BY <2>3
    <3>2. meta[id].state = "REGISTERED" /\ entries[id] = [meta[id] EXCEPT !.state = "IN_USE"]
      BY <2>1, <2>2, <2>3 DEF Settled, FileInv
    <3>3. entries'[id] = meta[id]
      BY <2>1, <3>1, <3>2, UndoneRecord
    <3> QED BY <3>3 DEF Settled
  <2>4. CASE ~(id \in using[w0] /\ entries[id].state = "IN_USE")
    BY <2>1, <2>4
  <2> QED BY <2>3, <2>4
<1>2. PutTells' /\ DeleteTells' /\ FinishTells'
  BY DEF PutTells, DeleteTells, FinishTells, Idle, OpInv, ModeInv
<1>3. BootTells'
  BY DEF BootTells, ModeInv
<1>4. ASSUME NEW id \in Ids PROVE ListInv(id)'
  BY DEF ListInv, Exists, Idle, OpInv
<1>5. ASSUME NEW id \in Ids PROVE GrantInv(id)'
  BY DEF GrantInv, OpInv
<1>6. ASSUME NEW id \in Ids PROVE ObservedInv(id)'
  <2>1. ObservedInv(id) /\ observed[id] \in 0..3 /\ entries[id] \in MetaRecord
    OBVIOUS
  <2>2. Rank[entries'[id].state] = Rank[entries[id].state]
    BY <2>1, RankValues DEF MetaRecord
  <2> QED BY <2>1, <2>2 DEF ObservedInv
<1> QED BY <1>1, <1>2, <1>3, <1>4, <1>5, <1>6

\* A client is told of a phase the file does not fall behind.
LEMMA PromiseStatusStep ==
    ASSUME IInv, PromiseInv, TypeOK', NEW id0 \in Ids, Status(id0)
    PROVE  PromiseInv'
<1> USE DEF IInv, PromiseInv, disk, bounds, clients, Status, memory, Serving
<1>t. AllTyped
  BY DEF TypeOK, AllTyped, Typed
<1> USE <1>t DEF AllTyped, Typed
<1>1. SettledInv'
  BY DEF SettledInv, Settled, Idle, OpInv, ModeInv
<1>2. PutTells' /\ DeleteTells' /\ FinishTells'
  BY DEF PutTells, DeleteTells, FinishTells, Idle, OpInv, ModeInv
<1>3. BootTells'
  BY DEF BootTells, ModeInv
<1>4. ASSUME NEW id \in Ids PROVE ListInv(id)'
  BY DEF ListInv, Exists, Idle, OpInv
<1>5. ASSUME NEW id \in Ids PROVE GrantInv(id)'
  BY DEF GrantInv, OpInv
<1>6. ASSUME NEW id \in Ids PROVE ObservedInv(id)'
  <2>1. AtRest(entries[id], meta[id]) /\ ObservedInv(id) /\ entries[id] \in MetaRecord
    BY DEF RestInv, Idle
  <2>2. CASE id = id0
    <3>1. observed'[id] = Rank[entries[id].state]
      BY <2>2
    <3>2. observed'[id] = 1 => meta[id].state # "ABSENT"
      <4>1. CASE meta[id].state = "ABSENT"
        <5>1. entries[id].state = "ABSENT"
          BY <2>1, <4>1 DEF AtRest, Blank, Gone
        <5> QED BY <3>1, <5>1, RankValues
      <4> QED BY <4>1
    <3>3. observed'[id] > 1 => Gone(meta[id].state)
      <4>1. CASE Live(entries[id].state) \/ entries[id] = Blank
        BY <3>1, <4>1, RankValues DEF Live, Blank
      <4>2. CASE ~Live(entries[id].state) /\ entries[id] # Blank
        BY <2>1, <4>2 DEF AtRest, Gone
      <4> QED BY <4>1, <4>2
    <3>4. Rank[entries[id].state] \in 0..3
      BY <2>1, RankType DEF MetaRecord
    <3> QED BY <3>1, <3>2, <3>3, <3>4 DEF ObservedInv
  <2>3. CASE id # id0
    BY <2>1, <2>3 DEF ObservedInv
  <2> QED BY <2>2, <2>3
<1> QED BY <1>1, <1>2, <1>3, <1>4, <1>5, <1>6

\* A proof after a granted certificate shows the same certificate.
LEMMA PromiseProofStep ==
    ASSUME IInv, PromiseInv, TypeOK', NEW id0 \in Ids, Proof(id0)
    PROVE  PromiseInv'
<1> USE DEF IInv, PromiseInv, disk, bounds, clients, Proof, memory, Serving
<1>t. AllTyped
  BY DEF TypeOK, AllTyped, Typed
<1> USE <1>t DEF AllTyped, Typed
<1>1. SettledInv'
  BY DEF SettledInv, Settled, Idle, OpInv, ModeInv
<1>2. PutTells' /\ DeleteTells' /\ FinishTells'
  BY DEF PutTells, DeleteTells, FinishTells, Idle, OpInv, ModeInv
<1>3. BootTells'
  BY DEF BootTells, ModeInv
<1>4. ASSUME NEW id \in Ids PROVE ListInv(id)'
  BY DEF ListInv, Exists, Idle, OpInv
<1>5. ASSUME NEW id \in Ids PROVE GrantInv(id)'
  <2>1. Settled(entries[id0], meta[id0])
    BY DEF SettledInv, Idle
  <2>2. entries[id0].state = "DELETED" /\ meta[id0] \in MetaRecord /\ GrantInv(id)
    OBVIOUS
  <2>3. meta[id0].state = "DELETED" => entries[id0].cert = meta[id0].cert
    BY <2>1, <2>2 DEF Settled
  <2>4. shown'[id] = IF id = id0 THEN shown[id] \cup {entries[id0].cert} ELSE shown[id]
    OBVIOUS
  <2> QED BY <2>2, <2>3, <2>4 DEF GrantInv
<1>6. ASSUME NEW id \in Ids PROVE ObservedInv(id)'
  BY RankValues DEF ObservedInv, ModeInv
<1> QED BY <1>1, <1>2, <1>3, <1>4, <1>5, <1>6

\* Writing a blob tells nobody anything.
LEMMA PromiseWriteBlobTmpStep ==
    ASSUME IInv, PromiseInv, TypeOK', WriteBlobTmp
    PROVE  PromiseInv'
<1> USE DEF IInv, PromiseInv, disk, bounds, clients, WriteBlobTmp, At, Goto
<1>t. AllTyped
  BY DEF TypeOK, AllTyped, Typed
<1> USE <1>t DEF AllTyped, Typed
<1>1. SettledInv'
  BY DEF SettledInv, Settled, Idle, OpInv, ModeInv
<1>2. PutTells' /\ DeleteTells' /\ FinishTells'
  BY DEF PutTells, DeleteTells, FinishTells, Idle, OpInv, ModeInv
<1>3. BootTells'
  BY DEF BootTells, ModeInv
<1>4. ASSUME NEW id \in Ids PROVE ListInv(id)'
  BY DEF ListInv, Exists, Idle, OpInv
<1>5. ASSUME NEW id \in Ids PROVE GrantInv(id)'
  BY DEF GrantInv, OpInv
<1>6. ASSUME NEW id \in Ids PROVE ObservedInv(id)'
  BY RankValues DEF ObservedInv, ModeInv
<1> QED BY <1>1, <1>2, <1>3, <1>4, <1>5, <1>6

\* Nor does putting it in place.
LEMMA PromiseRenameBlobStep ==
    ASSUME IInv, PromiseInv, TypeOK', RenameBlob
    PROVE  PromiseInv'
<1> USE DEF IInv, PromiseInv, disk, bounds, clients, RenameBlob, At, Goto
<1>t. AllTyped
  BY DEF TypeOK, AllTyped, Typed
<1> USE <1>t DEF AllTyped, Typed
<1>1. SettledInv'
  BY DEF SettledInv, Settled, Idle, OpInv, ModeInv
<1>2. PutTells' /\ DeleteTells' /\ FinishTells'
  BY DEF PutTells, DeleteTells, FinishTells, Idle, OpInv, ModeInv
<1>3. BootTells'
  BY DEF BootTells, ModeInv
<1>4. ASSUME NEW id \in Ids PROVE ListInv(id)'
  BY DEF ListInv, Exists, Idle, OpInv
<1>5. ASSUME NEW id \in Ids PROVE GrantInv(id)'
  BY DEF GrantInv, OpInv
<1>6. ASSUME NEW id \in Ids PROVE ObservedInv(id)'
  BY RankValues DEF ObservedInv, ModeInv
<1> QED BY <1>1, <1>2, <1>3, <1>4, <1>5, <1>6

\* The record in place is not touched by writing its .tmp file.
LEMMA PromiseWriteMetaTmpStep ==
    ASSUME IInv, PromiseInv, TypeOK', WriteMetaTmp
    PROVE  PromiseInv'
<1> USE DEF IInv, PromiseInv, disk, bounds, clients, WriteMetaTmp, At, Goto
<1>t. AllTyped
  BY DEF TypeOK, AllTyped, Typed
<1> USE <1>t DEF AllTyped, Typed
<1>1. SettledInv'
  BY DEF SettledInv, Settled, Idle, OpInv, ModeInv
<1>2. PutTells' /\ DeleteTells' /\ FinishTells'
  BY DEF PutTells, DeleteTells, FinishTells, Idle, OpInv, ModeInv
<1>3. BootTells'
  BY DEF BootTells, ModeInv
<1>4. ASSUME NEW id \in Ids PROVE ListInv(id)'
  BY DEF ListInv, Exists, Idle, OpInv
<1>5. ASSUME NEW id \in Ids PROVE GrantInv(id)'
  BY DEF GrantInv, OpInv
<1>6. ASSUME NEW id \in Ids PROVE ObservedInv(id)'
  BY RankValues DEF ObservedInv, ModeInv
<1> QED BY <1>1, <1>2, <1>3, <1>4, <1>5, <1>6

\* A file in place moves forward only, and no granted certificate is replaced.
LEMMA PromiseRenameMetaStep ==
    ASSUME IInv, PromiseInv, TypeOK', RenameMeta
    PROVE  PromiseInv'
<1> USE DEF IInv, PromiseInv, disk, bounds, clients, RenameMeta, At, Goto
<1>t. AllTyped
  BY DEF TypeOK, AllTyped, Typed
<1> USE <1>t DEF AllTyped, Typed
<1>1. SettledInv'
  BY DEF SettledInv, Settled, Idle, OpInv, ModeInv
<1>2. PutTells' /\ DeleteTells' /\ FinishTells'
  <2>1. /\ op.id \in Ids /\ meta'[op.id] = op.rec /\ op'.rec = op.rec /\ op'.undo = op.undo
        /\ op'.id = op.id /\ op'.kind = op.kind /\ op'.pc = "done"
    BY DEF OpInv, Operation
  <2>2. op.kind = "finish" => op.rec = entries[op.id]
    BY DEF FinishInv
  <2> QED BY <2>1, <2>2 DEF PutTells, DeleteTells, FinishTells
<1>3. BootTells'
  BY DEF BootTells, ModeInv
<1>4. ASSUME NEW id \in Ids PROVE ListInv(id)'
  <2>1. op'.id = op.id /\ op'.kind = op.kind /\ op'.undo = op.undo /\ ListInv(id)
    BY DEF Operation
  <2>2. CASE id = op.id
    <3>1. meta'[id] = op.rec
      BY <2>2 DEF OpInv
    <3>2. CASE op.kind \in {"register", "put"}
      BY <2>1, <2>2, <3>2 DEF ListInv
    <3>3. CASE op.kind = "delete"
      <4>1. meta[id].state = "REGISTERED" /\ op.rec = Shredded(meta[id])
        BY <2>2, <3>3 DEF DeleteInv, DeleteTells
      <4>2. op.rec.allowed = meta[id].allowed /\ meta[id] # Blank
        BY <4>1 DEF Shredded, MetaRecord, Blank
      <4> QED BY <2>1, <2>2, <3>1, <3>3, <4>2 DEF ListInv, Exists
    <3>4. CASE op.kind = "finish"
      <4>1. op.rec = entries[id] /\ op.rec.state = "DELETED"
        BY <2>2, <3>4 DEF FinishInv
      <4> QED BY <2>1, <2>2, <3>1, <3>4, <4>1 DEF ListInv, Exists
    <3> QED BY <2>2, <3>2, <3>3, <3>4 DEF OpInv
  <2>3. CASE id # op.id
    BY <2>1, <2>3 DEF ListInv, Exists
  <2> QED BY <2>2, <2>3
<1>5. ASSUME NEW id \in Ids PROVE GrantInv(id)'
  <2>1. GrantInv(id)
    OBVIOUS
  <2>2. CASE id = op.id
    <3>1. op.kind \in {"register", "put", "delete", "finish"}
      BY DEF OpInv
    <3>2. meta[id].state # "DELETED"
      BY <2>2, <3>1 DEF RegisterInv, PutInv, DeleteInv, FinishInv, Blank
    <3> QED BY <2>1, <3>2 DEF GrantInv
  <2>3. CASE id # op.id
    BY <2>1, <2>3 DEF GrantInv
  <2> QED BY <2>2, <2>3
<1>6. ASSUME NEW id \in Ids PROVE ObservedInv(id)'
  <2>1. ObservedInv(id)
    OBVIOUS
  <2>2. CASE id = op.id
    <3>1. meta'[id] = op.rec
      BY <2>2 DEF OpInv
    <3>2. op.rec.state # "ABSENT" /\ (Gone(meta[id].state) => Gone(op.rec.state))
      BY <2>2 DEF OpInv, RegisterInv, PutInv, DeleteInv, FinishInv, Blank, Gone
    <3> QED BY <2>1, <3>1, <3>2 DEF ObservedInv
  <2>3. CASE id # op.id
    BY <2>1, <2>3 DEF ObservedInv
  <2> QED BY <2>2, <2>3
<1> QED BY <1>1, <1>2, <1>3, <1>4, <1>5, <1>6

\* The record of a removed blob is DELETED in memory first.
LEMMA PromiseRemoveBlobStep ==
    ASSUME IInv, PromiseInv, TypeOK', RemoveBlob
    PROVE  PromiseInv'
<1> USE DEF IInv, PromiseInv, disk, bounds, clients, RemoveBlob, At
<1>t. AllTyped
  BY DEF TypeOK, AllTyped, Typed
<1> USE <1>t DEF AllTyped, Typed
<1>1. SettledInv'
  BY DEF SettledInv, Settled, Idle, OpInv, ModeInv
<1>2. PutTells' /\ DeleteTells' /\ FinishTells'
  BY DEF PutTells, DeleteTells, FinishTells, Idle, OpInv, ModeInv
<1>3. BootTells'
  BY DEF BootTells, ModeInv
<1>4. ASSUME NEW id \in Ids PROVE ListInv(id)'
  <2>1. op.kind = "finish" /\ op'.kind = "finish" /\ op'.id = op.id /\ ListInv(id)
    BY DEF Operation, OpInv
  <2>2. entries'[id].allowed = entries[id].allowed /\ (Exists(id)' => Exists(id))
    BY <2>1 DEF MetaRecord, Exists, FinishInv
  <2> QED BY <2>1, <2>2 DEF ListInv
<1>5. ASSUME NEW id \in Ids PROVE GrantInv(id)'
  BY DEF GrantInv, OpInv
<1>6. ASSUME NEW id \in Ids PROVE ObservedInv(id)'
  BY RankValues DEF ObservedInv, ModeInv
<1> QED BY <1>1, <1>2, <1>3, <1>4, <1>5, <1>6

\* An answered registration promises its list.
LEMMA PromiseRegisterDoneStep ==
    ASSUME IInv, PromiseInv, TypeOK', RegisterDone
    PROVE  PromiseInv'
<1> USE DEF IInv, PromiseInv, disk, bounds, clients, RegisterDone, At
<1>t. AllTyped
  BY DEF TypeOK, AllTyped, Typed
<1> USE <1>t DEF AllTyped, Typed
<1>1. SettledInv'
  <2>1. entries'[op.id] = op.rec /\ meta'[op.id] = op.rec
    BY DEF RegisterInv
  <2> QED BY <2>1 DEF SettledInv, Settled
<1>2. PutTells' /\ DeleteTells' /\ FinishTells'
  BY DEF PutTells, DeleteTells, FinishTells, Idle, OpInv, ModeInv
<1>3. BootTells'
  BY DEF BootTells, OpInv
<1>4. ASSUME NEW id \in Ids PROVE ListInv(id)'
  <2>1. CASE id = op.id
    BY <2>1 DEF ListInv, RegisterInv, Idle, Exists
  <2>2. CASE id # op.id
    BY <2>2 DEF ListInv, Exists, Idle
  <2> QED BY <2>1, <2>2
<1>5. ASSUME NEW id \in Ids PROVE GrantInv(id)'
  BY DEF GrantInv, OpInv
<1>6. ASSUME NEW id \in Ids PROVE ObservedInv(id)'
  <2>1. CASE id = op.id
    <3>1. observed'[id] = 1 /\ meta'[id].state = "REGISTERED" /\ entries'[id].state = "REGISTERED"
      BY <2>1, RankValues DEF RegisterInv
    <3> QED BY <3>1, RankValues DEF ObservedInv
  <2>2. CASE id # op.id
    BY <2>2 DEF ObservedInv
  <2> QED BY <2>1, <2>2
<1> QED BY <1>1, <1>2, <1>3, <1>4, <1>5, <1>6

\* An answered edit promises its list and no other.
LEMMA PromiseSetAllowedProgramsDoneStep ==
    ASSUME IInv, PromiseInv, TypeOK', SetAllowedProgramsDone
    PROVE  PromiseInv'
<1> USE DEF IInv, PromiseInv, disk, bounds, clients, SetAllowedProgramsDone, At
<1>t. AllTyped
  BY DEF TypeOK, AllTyped, Typed
<1> USE <1>t DEF AllTyped, Typed
<1>1. SettledInv'
  <2>1. entries[op.id] \in MetaRecord /\ meta[op.id] = Persisted(entries[op.id])
    BY DEF PutTells
  <2>2. Settled(entries[op.id], meta[op.id])
    BY <2>1, PersistedIsSettled DEF PutInv
  <2> QED BY <2>2 DEF SettledInv
<1>2. PutTells' /\ DeleteTells' /\ FinishTells'
  BY DEF PutTells, DeleteTells, FinishTells, Idle, OpInv, ModeInv
<1>3. BootTells'
  BY DEF BootTells, OpInv
<1>4. ASSUME NEW id \in Ids PROVE ListInv(id)'
  <2>1. CASE id = op.id
    <3>1. meta[id] = op.rec /\ op.rec = Persisted(entries[id]) /\ entries[id] \in MetaRecord
      BY <2>1 DEF PutTells
    <3>2. entries[id].allowed = op.rec.allowed
      BY <2>1, <3>1, PersistedIsSettled DEF PutInv
    <3>3. promised'[id] = {op.rec.allowed}
      BY <2>1
    <3> QED BY <3>1, <3>2, <3>3 DEF ListInv, Idle, Exists
  <2>2. CASE id # op.id
    BY <2>2 DEF ListInv, Exists, Idle
  <2> QED BY <2>1, <2>2
<1>5. ASSUME NEW id \in Ids PROVE GrantInv(id)'
  BY DEF GrantInv, OpInv
<1>6. ASSUME NEW id \in Ids PROVE ObservedInv(id)'
  BY RankValues DEF ObservedInv, ModeInv
<1> QED BY <1>1, <1>2, <1>3, <1>4, <1>5, <1>6

\* At its commit point a deletion is the same in memory and on disk.
LEMMA PromiseDeleteCommittedStep ==
    ASSUME IInv, PromiseInv, TypeOK', DeleteCommitted
    PROVE  PromiseInv'
<1> USE DEF IInv, PromiseInv, disk, bounds, clients, DeleteCommitted, At
<1>t. AllTyped
  BY DEF TypeOK, AllTyped, Typed
<1> USE <1>t DEF AllTyped, Typed
<1>1. SettledInv'
  BY DEF SettledInv, Settled, Idle, OpInv, ModeInv
<1>2. PutTells' /\ DeleteTells' /\ FinishTells'
  <2>1. entries[op.id] = meta[op.id] /\ shown[op.id] = {}
    BY DEF DeleteTells, DeleteInv, FinishTells
  <2>2. op'.kind = "finish" /\ op'.id = op.id /\ op'.pc = "removeBlob"
    BY DEF Operation
  <2> QED BY <2>1, <2>2 DEF PutTells, DeleteTells, FinishTells
<1>3. BootTells'
  BY DEF BootTells, ModeInv
<1>4. ASSUME NEW id \in Ids PROVE ListInv(id)'
  BY DEF ListInv, Exists, Idle, OpInv
<1>5. ASSUME NEW id \in Ids PROVE GrantInv(id)'
  BY DEF GrantInv, OpInv
<1>6. ASSUME NEW id \in Ids PROVE ObservedInv(id)'
  BY RankValues DEF ObservedInv, ModeInv
<1> QED BY <1>1, <1>2, <1>3, <1>4, <1>5, <1>6

\* The certificate of a DELETE is handed out from the record in place.
LEMMA PromiseFinishDoneStep ==
    ASSUME IInv, PromiseInv, TypeOK', FinishDone
    PROVE  PromiseInv'
<1> USE DEF IInv, PromiseInv, disk, bounds, clients, FinishDone, At
<1>t. AllTyped
  BY DEF TypeOK, AllTyped, Typed
<1> USE <1>t DEF AllTyped, Typed
<1>1. SettledInv'
  <2>1. entries[op.id] = meta[op.id]
    BY DEF FinishTells, OpInv
  <2> QED BY <2>1 DEF SettledInv, Settled
<1>2. PutTells' /\ DeleteTells' /\ FinishTells'
  BY DEF PutTells, DeleteTells, FinishTells, Idle, OpInv, ModeInv
<1>3. BootTells'
  <2>1. entries[op.id].state = "DELETED"
    BY DEF OpInv, FinishInv
  <2> QED BY <2>1 DEF BootTells
<1>4. ASSUME NEW id \in Ids PROVE ListInv(id)'
  BY DEF ListInv, Exists, Idle, OpInv
<1>5. ASSUME NEW id \in Ids PROVE GrantInv(id)'
  <2>1. GrantInv(id) /\ op.kind = "finish"
    BY DEF OpInv
  <2>2. CASE id = op.id /\ mode = "up"
    <3>1. shown[id] = {} /\ meta[id].state = "DELETED" /\ entries[id] = meta[id]
      BY <2>1, <2>2 DEF FinishTells, FinishInv
    <3>2. granted[id] = {}
      BY <2>1, <3>1 DEF GrantInv
    <3>3. granted'[id] = {meta[id].cert} /\ shown'[id] = {meta[id].cert}
      BY <2>2, <3>1, <3>2
    <3> QED BY <3>1, <3>3 DEF GrantInv
  <2>3. CASE id # op.id \/ mode # "up"
    <3>1. granted'[id] = granted[id] /\ shown'[id] = shown[id]
      BY <2>3
    <3> QED BY <2>1, <3>1 DEF GrantInv
  <2> QED BY <2>2, <2>3
<1>6. ASSUME NEW id \in Ids PROVE ObservedInv(id)'
  <2>1. ObservedInv(id) /\ op.kind = "finish"
    BY DEF OpInv
  <2>2. CASE id = op.id /\ mode = "up"
    <3>1. observed'[id] = 3 /\ meta[id].state = "DELETED" /\ entries[id].state = "DELETED"
      BY <2>1, <2>2, RankValues DEF FinishInv
    <3> QED BY <3>1, RankValues DEF ObservedInv, Gone
  <2>3. CASE id # op.id \/ mode # "up"
    <3>1. observed'[id] = observed[id]
      BY <2>3
    <3> QED BY <2>1, <3>1 DEF ObservedInv
  <2> QED BY <2>2, <2>3
<1> QED BY <1>1, <1>2, <1>3, <1>4, <1>5, <1>6

\* A new process promises the lists it finds.
LEMMA PromiseBootStep ==
    ASSUME IInv, PromiseInv, TypeOK', Boot
    PROVE  PromiseInv'
<1> USE DEF IInv, PromiseInv, disk, bounds, clients, Boot, Unfinished
<1>t. AllTyped
  BY DEF TypeOK, AllTyped, Typed
<1> USE <1>t DEF AllTyped, Typed
<1>1. SettledInv'
  BY DEF SettledInv, Settled, Idle, OpInv, ModeInv
<1>2. PutTells' /\ DeleteTells' /\ FinishTells'
  BY DEF PutTells, DeleteTells, FinishTells, Idle, OpInv, ModeInv
<1>3. BootTells'
  BY DEF BootTells, ModeInv
<1>4. ASSUME NEW id \in Ids PROVE ListInv(id)'
  <2>1. op' = Idle /\ entries'[id] = meta[id]
    BY DEF ModeInv
  <2>2. meta[id] # Blank => promised'[id] = {meta[id].allowed}
    OBVIOUS
  <2>3. meta[id].state # "ABSENT" => meta[id] # Blank
    BY DEF Blank
  <2> QED BY <2>1, <2>2, <2>3 DEF ListInv, Idle, Exists
<1>5. ASSUME NEW id \in Ids PROVE GrantInv(id)'
  BY DEF GrantInv, OpInv
<1>6. ASSUME NEW id \in Ids PROVE ObservedInv(id)'
  BY RankValues DEF ObservedInv, ModeInv
<1> QED BY <1>1, <1>2, <1>3, <1>4, <1>5, <1>6

\* A crash leaves the list of an unanswered edit open, and no other.
LEMMA PromiseCrashStep ==
    ASSUME IInv, PromiseInv, TypeOK', Crash
    PROVE  PromiseInv'
<1> USE DEF IInv, PromiseInv, disk, bounds, clients, Crash, Stop
<1>t. AllTyped
  BY DEF TypeOK, AllTyped, Typed
<1> USE <1>t DEF AllTyped, Typed
<1>1. SettledInv'
  BY DEF SettledInv, Settled, Idle, OpInv, ModeInv
<1>2. PutTells' /\ DeleteTells' /\ FinishTells'
  BY DEF PutTells, DeleteTells, FinishTells, Idle, OpInv, ModeInv
<1>3. BootTells'
  BY DEF BootTells, ModeInv
<1>4. ASSUME NEW id \in Ids PROVE ListInv(id)'
  <2>1. entries'[id] = Blank /\ op' = Idle /\ meta'[id] = meta[id] /\ ListInv(id)
    OBVIOUS
  <2>2. meta[id] # Blank => meta[id].allowed \in promised'[id]
    <3>1. CASE id = op.id /\ op.kind = "register"
      <4>1. promised'[id] = promised[id] \cup {op.rec.allowed}
        BY <3>1
      <4> QED BY <3>1, <4>1 DEF RegisterInv
    <3>2. CASE id = op.id /\ op.kind = "put"
      <4>1. promised'[id] = promised[id] \cup {op.rec.allowed} /\ op.undo.allowed \in promised[id]
        BY <2>1, <3>2 DEF ListInv
      <4>2. meta[id] = op.rec \/ Settled(op.undo, meta[id])
        BY <3>2 DEF PutTells
      <4>3. meta[id] \in MetaRecord /\ Live(op.undo.state)
        BY <3>2 DEF PutTells
      <4>4. Settled(op.undo, meta[id]) => meta[id].allowed = op.undo.allowed
        BY <4>3 DEF Settled, MetaRecord, Live
      <4> QED BY <4>1, <4>2, <4>4
    <3>3. CASE ~(id = op.id /\ op.kind \in {"register", "put"})
      <4>1. promised'[id] = promised[id]
        BY <3>3
      <4> QED BY <2>1, <3>3, <4>1 DEF ListInv
    <3> QED BY <3>1, <3>2, <3>3
  <2> QED BY <2>1, <2>2 DEF ListInv, Idle, Exists, Blank
<1>5. ASSUME NEW id \in Ids PROVE GrantInv(id)'
  BY DEF GrantInv, OpInv
<1>6. ASSUME NEW id \in Ids PROVE ObservedInv(id)'
  BY RankValues DEF ObservedInv, ModeInv
<1> QED BY <1>1, <1>2, <1>3, <1>4, <1>5, <1>6

\* A failed operation leaves a record memory and file agree on, and no list
\* that was not promised.
LEMMA PromiseFailStep ==
    ASSUME IInv, PromiseInv, TypeOK', op.pc \notin {"idle", "done"}, Fail, meta' = meta
    PROVE  PromiseInv'
<1> USE DEF IInv, PromiseInv, clients
<1>t. AllTyped
  BY DEF TypeOK, AllTyped, Typed
<1> USE <1>t DEF AllTyped, Typed
<1>0. /\ op.id \in Ids /\ op.kind \in {"register", "put", "delete", "finish"}
      /\ op' = Idle /\ UNCHANGED <<promised, granted, shown, observed>>
  BY DEF OpInv, Fail, Stop
<1>1. PutTells' /\ DeleteTells' /\ FinishTells'
  BY <1>0 DEF PutTells, DeleteTells, FinishTells, Idle
<1>2. ASSUME NEW id \in Ids PROVE GrantInv(id)'
  BY <1>0 DEF GrantInv
<1>3. CASE mode = "boot"
  <2>1. mode' = "down" /\ entries' = [id \in Ids |-> Blank] /\ op.kind = "finish"
    BY <1>0, <1>3 DEF Fail, Stop, OpInv
  <2>2. SettledInv' /\ BootTells'
    BY <2>1 DEF SettledInv, BootTells
  <2>3. ASSUME NEW id \in Ids PROVE ListInv(id)'
    BY <1>0, <2>1 DEF ListInv, Idle, Exists, Blank
  <2>4. ASSUME NEW id \in Ids PROVE ObservedInv(id)'
    BY <1>0, <2>1 DEF ObservedInv
  <2> QED BY <1>1, <1>2, <2>2, <2>3, <2>4
<1>4. CASE mode = "up"
  <2>1. mode' = "up" /\ entries' = Rollback
    BY <1>4 DEF Fail
  <2>2. \A id \in Ids : id # op.id => entries'[id] = entries[id]
    BY <1>0, <2>1 DEF Rollback
  <2>3. CASE op.kind = "register"
    <3>1. entries' = entries /\ entries[op.id] = Blank /\ meta[op.id] = Blank
      BY <2>1, <2>3 DEF Rollback, RegisterInv
    <3>2. SettledInv' /\ BootTells'
      BY <1>4, <2>1, <3>1 DEF SettledInv, Settled, BootTells
    <3>3. ASSUME NEW id \in Ids PROVE ListInv(id)'
      BY <1>0, <3>1 DEF ListInv, Idle, Exists, Blank
    <3>4. ASSUME NEW id \in Ids PROVE ObservedInv(id)'
      BY <1>0, <1>4, <2>1, <3>1 DEF ObservedInv
    <3> QED BY <1>1, <1>2, <3>2, <3>3, <3>4
  <2>4. CASE op.kind = "put"
    <3>1. op.undo \in MetaRecord /\ Live(op.undo.state) /\ Settled(op.undo, meta[op.id])
      BY <1>0, <2>4 DEF PutTells, Operation
    <3>2. entries'[op.id] = op.undo
      <4>1. entries'[op.id] = [entries[op.id] EXCEPT !.allowed = op.undo.allowed]
        BY <1>0, <2>1, <2>4 DEF Rollback
      <4>2. entries[op.id] = [op.undo EXCEPT !.allowed = op.rec.allowed]
        BY <2>4 DEF PutTells
      <4>3. [[op.undo EXCEPT !.allowed = op.rec.allowed] EXCEPT !.allowed = op.undo.allowed]
            = op.undo
        BY ONLY <3>1, UndoneRecord
      <4> QED BY <4>1, <4>2, <4>3
    <3>3. SettledInv' /\ BootTells'
      BY <1>4, <2>1, <2>2, <3>1, <3>2 DEF SettledInv, BootTells
    <3>4. ASSUME NEW id \in Ids PROVE ListInv(id)'
      <4>1. CASE id = op.id
        <5>1. op.undo.allowed \in promised[id]
          BY <2>4, <4>1 DEF ListInv
        <5>2. meta[id].allowed = op.undo.allowed
          BY <3>1, <4>1 DEF Settled, MetaRecord, Live
        <5> QED BY <1>0, <3>2, <4>1, <5>1, <5>2 DEF ListInv, Idle, Exists
      <4>2. CASE id # op.id
        BY <1>0, <2>2, <4>2 DEF ListInv, Idle, Exists
      <4> QED BY <4>1, <4>2
    <3>5. ASSUME NEW id \in Ids PROVE ObservedInv(id)'
      <4>1. CASE id = op.id
        <5>1. Rank[entries'[id].state] = 1 /\ meta[id].state = "REGISTERED"
          BY <2>4, <3>1, <3>2, <4>1, RankValues DEF PutInv, Live
        <5> QED BY <1>0, <4>1, <5>1 DEF ObservedInv, Gone
      <4>2. CASE id # op.id
        BY <1>0, <1>4, <2>1, <2>2, <4>2 DEF ObservedInv
      <4> QED BY <4>1, <4>2
    <3> QED BY <1>1, <1>2, <3>3, <3>4, <3>5
  <2>5. CASE op.kind = "delete"
    <3>1. op.undo = meta[op.id] /\ meta[op.id].state = "REGISTERED" /\ meta[op.id] \in MetaRecord
      BY <1>0, <2>5 DEF DeleteTells, DeleteInv
    <3>2. entries'[op.id] = meta[op.id]
      <4>1. entries'[op.id] = [entries[op.id] EXCEPT !.state = "REGISTERED", !.dek = op.undo.dek]
        BY <1>0, <2>1, <2>5 DEF Rollback
      <4>2. entries[op.id] = Shredded(meta[op.id])
        BY <2>5, <3>1 DEF DeleteTells
      <4> QED BY <3>1, <4>1, <4>2, UndoneRecord
    <3>3. SettledInv' /\ BootTells'
      BY <1>4, <2>1, <2>2, <3>2 DEF SettledInv, Settled, BootTells
    <3>4. ASSUME NEW id \in Ids PROVE ListInv(id)'
      <4>1. CASE id = op.id
        <5>1. meta[id] # Blank
          BY <3>1, <4>1 DEF Blank
        <5>2. meta[id].allowed \in promised[id]
          BY <2>5, <4>1, <5>1 DEF ListInv
        <5> QED BY <1>0, <3>2, <4>1, <5>2 DEF ListInv, Idle, Exists
      <4>2. CASE id # op.id
        BY <1>0, <2>2, <4>2 DEF ListInv, Idle, Exists
      <4> QED BY <4>1, <4>2
    <3>5. ASSUME NEW id \in Ids PROVE ObservedInv(id)'
      <4>1. CASE id = op.id
        BY <1>0, <3>1, <3>2, <4>1, RankValues DEF ObservedInv, Gone
      <4>2. CASE id # op.id
        BY <1>0, <1>4, <2>1, <2>2, <4>2 DEF ObservedInv
      <4> QED BY <4>1, <4>2
    <3> QED BY <1>1, <1>2, <3>3, <3>4, <3>5
  <2>6. CASE op.kind = "finish"
    <3>1. entries' = entries
      BY <2>1, <2>6 DEF Rollback
    <3>2. Settled(entries[op.id], meta[op.id])
      BY <1>0, <2>6 DEF FinishTells, FinishInv, Settled
    <3>3. SettledInv' /\ BootTells'
      BY <1>4, <2>1, <3>1, <3>2 DEF SettledInv, BootTells
    <3>4. ASSUME NEW id \in Ids PROVE ListInv(id)'
      BY <1>0, <2>6, <3>1 DEF ListInv, Idle, Exists
    <3>5. ASSUME NEW id \in Ids PROVE ObservedInv(id)'
      BY <1>0, <1>4, <2>1, <3>1 DEF ObservedInv
    <3> QED BY <1>1, <1>2, <3>3, <3>4, <3>5
  <2> QED BY <1>0, <2>3, <2>4, <2>5, <2>6
<1> QED BY <1>3, <1>4 DEF Fail

-----------------------------------------------------------------------------
(* The invariant                                                           *)

\* Nothing has been promised at first.
LEMMA PromiseInit == Init => PromiseInv
<1> SUFFICES ASSUME Init PROVE PromiseInv
  OBVIOUS
<1> USE DEF Init
<1>1. SettledInv /\ PutTells /\ DeleteTells /\ FinishTells /\ BootTells
  BY DEF SettledInv, PutTells, DeleteTells, FinishTells, BootTells, Idle
<1>2. ASSUME NEW id \in Ids PROVE ListInv(id) /\ GrantInv(id) /\ ObservedInv(id)
  BY DEF ListInv, GrantInv, ObservedInv, Idle, Blank, Exists
<1> QED BY <1>1, <1>2 DEF PromiseInv

\* Every action keeps what clients were promised.
LEMMA PromiseStep == IInv /\ PromiseInv /\ [Next]_vars => PromiseInv'
<1> SUFFICES ASSUME IInv, PromiseInv, [Next]_vars PROVE PromiseInv'
  OBVIOUS
<1>1. TypeOK'
  BY TypeStep DEF IInv
<1>2. CASE Next
  <2>1. CASE Boot
    BY <1>1, <2>1, PromiseBootStep
  <2>2. CASE Recovery
    BY <1>1, <2>2, PromiseServeStep, PromiseRecoverStep DEF Recovery
  <2>3. CASE Crash
    BY <1>1, <2>3, PromiseCrashStep
  <2>4. CASE Request
    BY <1>1, <2>4, PromiseRegisterStep, PromiseSetAllowedProgramsStep, PromiseDeleteStep,
       PromiseBeginExecuteStep, PromiseStatusStep, PromiseProofStep DEF Request
  <2>5. ASSUME NEW w \in Workers, EndExecute(w) PROVE PromiseInv'
    BY <1>1, <2>5, PromiseEndExecuteStep
  <2>6. CASE FileStep
    BY <1>1, <2>6, PromiseWriteBlobTmpStep, PromiseRenameBlobStep, PromiseWriteMetaTmpStep,
       PromiseRenameMetaStep, PromiseRemoveBlobStep DEF FileStep
  <2>7. CASE FileFault
    <3>1. op.pc \notin {"idle", "done"} /\ Fail /\ meta' = meta
      BY <2>7 DEF FileFault, WriteBlobTmpFails, RenameBlobFails, WriteMetaTmpFails,
                  RenameMetaFails, RemoveBlobFails, At, disk
    <3> QED BY <1>1, <3>1, PromiseFailStep
  <2>8. CASE Answer
    BY <1>1, <2>8, PromiseRegisterDoneStep, PromiseSetAllowedProgramsDoneStep,
       PromiseDeleteCommittedStep, PromiseFinishDoneStep DEF Answer
  <2> QED BY <1>2, <2>1, <2>2, <2>3, <2>4, <2>5, <2>6, <2>7, <2>8 DEF Next
<1>3. CASE UNCHANGED vars
  <2> USE <1>3 DEF vars, memory, disk, bounds, clients, PromiseInv
  <2>1. SettledInv' /\ PutTells' /\ DeleteTells' /\ FinishTells' /\ BootTells'
    BY DEF SettledInv, PutTells, DeleteTells, FinishTells, BootTells
  <2>2. \A id \in Ids : ListInv(id)' /\ GrantInv(id)' /\ ObservedInv(id)'
    BY DEF ListInv, GrantInv, ObservedInv, Exists
  <2> QED BY <2>1, <2>2
<1> QED BY <1>2, <1>3

\* What clients were told and what is kept agree in every state.
THEOREM PromisesHold == Spec => [](IInv /\ PromiseInv)
<1>1. Init => IInv /\ PromiseInv
  BY InvariantInit, PromiseInit
<1>2. (IInv /\ PromiseInv) /\ [Next]_vars => (IInv /\ PromiseInv)'
  BY InvariantStep, PromiseStep
<1> QED BY <1>1, <1>2, PTL DEF Spec

-----------------------------------------------------------------------------
(* What clients may rely on                                                *)

\* A certificate a DELETE returned is the one every later proof returns.
THEOREM CertificatesStand == Spec => []GrantedCertificateStands
<1>1. PromiseInv => GrantedCertificateStands
  BY DEF PromiseInv, GrantInv, GrantedCertificateStands
<1> QED BY <1>1, PromisesHold, PTL

\* Between operations a restart would find what memory says.
THEOREM MemoryIsOnDisk == Spec => []MemoryMatchesDisk
<1>1. IInv /\ PromiseInv => MemoryMatchesDisk
  BY DEF PromiseInv, SettledInv, Settled, MemoryMatchesDisk, Serving, Idle
<1> QED BY <1>1, PromisesHold, PTL

\* The whitelist in effect is one the uploader was told of, or left unanswered.
THEOREM WhitelistsStand == Spec => []WhitelistAsPromised
<1>1. PromiseInv => WhitelistAsPromised
  BY DEF PromiseInv, ListInv, WhitelistAsPromised
<1> QED BY <1>1, PromisesHold, PTL

\* What clients are told of a record only moves forward.
THEOREM AnswersForward == Spec => AnswersMoveForward
<1>1. ASSUME IInv, PromiseInv, [Next]_vars, NEW id \in Ids PROVE observed'[id] >= observed[id]
  <2>t. /\ observed \in [Ids -> 0..3] /\ entries \in [Ids -> MetaRecord]
        /\ op.pc # "idle" => op.id \in Ids
    BY <1>1 DEF IInv, TypeOK
  <2>0. ObservedInv(id)
    BY <1>1 DEF PromiseInv
  <2>1. CASE observed' = observed
    BY <2>1, <2>t
  <2>2. ASSUME NEW id0 \in Ids, Status(id0) PROVE observed'[id] >= observed[id]
    BY <2>0, <2>2, <2>t DEF Status, Serving, ObservedInv
  <2>3. ASSUME NEW w \in Workers, NEW ids \in SUBSET Ids, NEW p \in Programs,
               BeginExecute(w, ids, p)
        PROVE observed'[id] >= observed[id]
    BY <2>0, <2>3, <2>t, RankValues DEF BeginExecute, Usable, Serving, ObservedInv
  <2>4. CASE RegisterDone
    <3>1. op.kind = "register" /\ op.id \in Ids /\ op.pc = "done"
      BY <2>4, <2>t DEF RegisterDone, At
    <3>2. meta[op.id].state = "REGISTERED"
      BY <1>1, <3>1 DEF IInv, RegisterInv
    <3>3. id = op.id => observed[id] <= 1
      BY <2>0, <2>t, <3>2 DEF ObservedInv, Gone
    <3> QED BY <2>4, <2>t, <3>1, <3>3, RankValues DEF RegisterDone
  <2>5. CASE FinishDone
    BY <2>5, <2>t, RankValues DEF FinishDone, At
  <2>6. \/ observed' = observed
        \/ \E id0 \in Ids : Status(id0)
        \/ \E w \in Workers, ids \in SUBSET Ids, p \in Programs : BeginExecute(w, ids, p)
        \/ RegisterDone \/ FinishDone
    <3>1. CASE Boot \/ Recovery \/ Crash
      BY <3>1 DEF Boot, Recovery, Serve, Recover, Crash, clients
    <3>2. CASE Request
      BY <3>2 DEF Request, Register, SetAllowedPrograms, Delete, Proof, clients
    <3>3. ASSUME NEW w \in Workers, EndExecute(w) PROVE observed' = observed
      BY <3>3 DEF EndExecute, clients
    <3>4. CASE FileStep
      BY <3>4 DEF FileStep, WriteBlobTmp, RenameBlob, WriteMetaTmp, RenameMeta, RemoveBlob, clients
    <3>5. CASE FileFault
      BY <3>5 DEF FileFault, WriteBlobTmpFails, RenameBlobFails, WriteMetaTmpFails,
                  RenameMetaFails, RemoveBlobFails, Fail, clients
    <3>6. CASE Answer
      BY <3>6 DEF Answer, SetAllowedProgramsDone, DeleteCommitted, clients
    <3>7. CASE UNCHANGED vars
      BY <3>7 DEF vars, clients
    <3> QED BY <1>1, <3>1, <3>2, <3>3, <3>4, <3>5, <3>6, <3>7 DEF Next
  <2> QED BY <2>1, <2>2, <2>3, <2>4, <2>5, <2>6
<1>2. IInv /\ PromiseInv /\ [Next]_vars => [\A id \in Ids : observed'[id] >= observed[id]]_vars
  BY <1>1
<1>3. Spec => [][Next]_vars
  BY DEF Spec
<1> QED BY <1>2, <1>3, PromisesHold, PTL DEF AnswersMoveForward

-----------------------------------------------------------------------------
(* Lifecycle implements DataContract                                       *)

\* The contract's variables, as LifecycleRefinement reads them off the files.
phaseBar == [id \in Ids |-> PhaseOf(meta[id].state)]
listBar  == [id \in Ids |-> meta[id].allowed]

\* The phase each state of a file stands for.
LEMMA Phases ==
    /\ PhaseOf("ABSENT") = "absent" /\ PhaseOf("REGISTERED") = "live"
    /\ PhaseOf("DELETING") = "shredded" /\ PhaseOf("DELETED") = "certified"
  BY DEF PhaseOf

\* Nothing is registered at first, and no execution has any data.
LEMMA ContractAtFirst == Init => Contract!ContractInit
  BY Phases DEF Init, Contract!ContractInit, Blank

\* The last rename of an operation is its step of the contract: a registration
\* or an edit takes effect, a deletion is committed, or it is certified.
LEMMA RenameMetaImplements ==
    ASSUME IInv, PromiseInv, RenameMeta
    PROVE  Contract!ContractNext
<1> USE DEF IInv, PromiseInv
<1>t. /\ meta \in [Ids -> MetaRecord] /\ op \in Operation /\ entries \in [Ids -> MetaRecord]
      /\ op.id \in Ids /\ op.rec \in MetaRecord
  BY DEF TypeOK, RenameMeta, At, Operation
<1>1. meta' = [meta EXCEPT ![op.id] = op.rec] /\ using' = using
  BY <1>t DEF RenameMeta, OpInv, At
<1>2. phaseBar' = [phaseBar EXCEPT ![op.id] = PhaseOf(op.rec.state)]
  BY <1>t, <1>1 DEF phaseBar
<1>3. listBar' = [listBar EXCEPT ![op.id] = op.rec.allowed]
  BY <1>t, <1>1 DEF listBar
<1>4. op.rec.allowed \in SUBSET Programs
  BY <1>t DEF MetaRecord, Lists
<1>5. op.pc = "metaRename"
  BY DEF RenameMeta, At
<1>p. PICK id \in Ids, programs \in SUBSET Programs : id = op.id /\ programs = op.rec.allowed
  BY <1>t, <1>4
<1>6. CASE op.kind = "register"
  <2>1. meta[op.id].state = "ABSENT" /\ op.rec.state = "REGISTERED"
    BY <1>5, <1>6 DEF RegisterInv, Blank
  <2>2. phaseBar[op.id] = "absent" /\ PhaseOf(op.rec.state) = "live"
    BY <1>t, <2>1, Phases DEF phaseBar
  <2>3. Contract!Create(id, programs)
    BY <1>1, <1>2, <1>3, <1>p, <2>2 DEF Contract!Create, phaseBar, listBar
  <2> QED BY <1>p, <2>3 DEF Contract!ContractNext
<1>7. CASE op.kind = "put"
  <2>1. meta[op.id].state = "REGISTERED" /\ op.rec.state = "REGISTERED"
    BY <1>7 DEF PutInv
  <2>2. phaseBar[op.id] = "live" /\ PhaseOf(op.rec.state) = "live"
    BY <1>t, <2>1, Phases DEF phaseBar
  <2>3. phaseBar' = phaseBar
    BY <1>2, <2>2 DEF phaseBar
  <2>4. Contract!Edit(id, programs)
    BY <1>1, <1>3, <1>p, <2>2, <2>3 DEF Contract!Edit, phaseBar, listBar
  <2> QED BY <1>p, <2>4 DEF Contract!ContractNext
<1>8. CASE op.kind = "delete"
  <2>1. meta[op.id].state = "REGISTERED" /\ op.rec = Shredded(meta[op.id])
    BY <1>5, <1>8 DEF DeleteInv, DeleteTells
  <2>2. op.rec.state = "DELETING" /\ op.rec.allowed = meta[op.id].allowed
    BY <1>t, <2>1 DEF Shredded, MetaRecord
  <2>3. phaseBar[op.id] = "live" /\ PhaseOf(op.rec.state) = "shredded"
    BY <1>t, <2>1, <2>2, Phases DEF phaseBar
  <2>4. listBar' = listBar
    BY <1>t, <1>3, <2>2 DEF listBar
  <2>5. ~\E w \in Workers : op.id \in using[w]
    BY <1>t, <1>8 DEF DeleteInv, UseIsExclusive
  <2>6. Contract!Shred(op.id)
    BY <1>1, <1>2, <2>3, <2>4, <2>5 DEF Contract!Shred, Contract!InUse, phaseBar, listBar
  <2> QED BY <1>t, <2>6 DEF Contract!ContractNext
<1>9. CASE op.kind = "finish"
  <2>1. /\ meta[op.id].state = "DELETING" /\ op.rec.state = "DELETED"
        /\ op.rec.allowed = meta[op.id].allowed
    BY <1>5, <1>9 DEF FinishInv, FinishTells
  <2>2. phaseBar[op.id] = "shredded" /\ PhaseOf(op.rec.state) = "certified"
    BY <1>t, <2>1, Phases DEF phaseBar
  <2>3. listBar' = listBar
    BY <1>t, <1>3, <2>1 DEF listBar
  <2>4. Contract!Certify(op.id)
    BY <1>1, <1>2, <2>2, <2>3 DEF Contract!Certify, phaseBar, listBar
  <2> QED BY <1>t, <2>4 DEF Contract!ContractNext
<1> QED BY <1>5, <1>6, <1>7, <1>8, <1>9 DEF OpInv

\* An execution begins with data that is live, allows the program and is free.
LEMMA BeginExecuteImplements ==
    ASSUME IInv, PromiseInv, NEW w \in Workers, NEW ids \in SUBSET Ids, NEW p \in Programs,
           BeginExecute(w, ids, p)
    PROVE  Contract!ContractNext
<1> USE DEF IInv, PromiseInv
<1>t. meta \in [Ids -> MetaRecord] /\ entries \in [Ids -> MetaRecord]
  BY DEF TypeOK
<1>1. UNCHANGED <<phaseBar, listBar>>
  BY DEF BeginExecute, disk, phaseBar, listBar
<1>2. ASSUME NEW id \in ids
      PROVE  phaseBar[id] = "live" /\ p \in listBar[id] /\ ~\E v \in Workers : id \in using[v]
  <2>1. entries[id].state = "REGISTERED" /\ p \in entries[id].allowed /\ op.id # id /\ id \in Ids
    BY DEF BeginExecute, Usable, Serving, Idle
  <2>2. entries[id] = meta[id]
    BY <1>t, <2>1 DEF BeginExecute, Serving, SettledInv, Settled, MetaRecord
  <2>3. phaseBar[id] = "live" /\ p \in listBar[id]
    BY <2>1, <2>2, Phases DEF phaseBar, listBar
  <2>4. ~\E v \in Workers : id \in using[v]
    BY <2>1 DEF UseIsExclusive
  <2> QED BY <2>3, <2>4
<1>3. using[w] = {} /\ using' = [using EXCEPT ![w] = ids]
  BY DEF BeginExecute
<1>4. Contract!Use(w, ids, p)
  BY <1>1, <1>2, <1>3 DEF Contract!Use, Contract!InUse, phaseBar, listBar
<1> QED BY <1>4 DEF Contract!ContractNext

\* Every other step ends executions or is not seen in the contract.
LEMMA OtherStepsImplement ==
    ASSUME Next, ~RenameMeta,
           ~\E w \in Workers, ids \in SUBSET Ids, p \in Programs : BeginExecute(w, ids, p)
    PROVE  Contract!ContractNext \/ UNCHANGED Contract!cvars
<1>1. meta' = meta
  <2>1. CASE Boot \/ Recovery \/ Crash
    BY <2>1 DEF Boot, Recovery, Serve, Recover, Crash, disk
  <2>2. CASE Request
    BY <2>2 DEF Request, Register, SetAllowedPrograms, Delete, Status, Proof, disk
  <2>3. ASSUME NEW w \in Workers, EndExecute(w) PROVE meta' = meta
    BY <2>3 DEF EndExecute, disk
  <2>4. CASE FileStep
    BY <2>4 DEF FileStep, WriteBlobTmp, RenameBlob, WriteMetaTmp, RemoveBlob
  <2>5. CASE FileFault
    BY <2>5 DEF FileFault, WriteBlobTmpFails, RenameBlobFails, WriteMetaTmpFails,
                RenameMetaFails, RemoveBlobFails, disk
  <2>6. CASE Answer
    BY <2>6 DEF Answer, RegisterDone, SetAllowedProgramsDone, DeleteCommitted, FinishDone, disk
  <2> QED BY <2>1, <2>2, <2>3, <2>4, <2>5, <2>6 DEF Next
<1>2. \/ using' = using
      \/ using' = [w \in Workers |-> {}]
      \/ \E w \in Workers : using' = [using EXCEPT ![w] = {}]
  <2>1. CASE Boot \/ Recovery \/ Crash
    BY <2>1 DEF Boot, Recovery, Serve, Recover, Crash, Stop
  <2>2. CASE Request
    BY <2>2 DEF Request, Register, SetAllowedPrograms, Delete, Status, Proof, memory
  <2>3. ASSUME NEW w \in Workers, EndExecute(w)
        PROVE  \E v \in Workers : using' = [using EXCEPT ![v] = {}]
    BY <2>3 DEF EndExecute
  <2>4. CASE FileStep
    BY <2>4 DEF FileStep, WriteBlobTmp, RenameBlob, WriteMetaTmp, RemoveBlob
  <2>5. CASE FileFault
    <3>1. Fail
      BY <2>5 DEF FileFault, WriteBlobTmpFails, RenameBlobFails, WriteMetaTmpFails,
                  RenameMetaFails, RemoveBlobFails
    <3> QED BY <3>1 DEF Fail, Stop
  <2>6. CASE Answer
    BY <2>6 DEF Answer, RegisterDone, SetAllowedProgramsDone, DeleteCommitted, FinishDone
  <2> QED BY <2>1, <2>2, <2>3, <2>4, <2>5, <2>6 DEF Next
<1>3. UNCHANGED <<phaseBar, listBar>>
  BY <1>1 DEF phaseBar, listBar
<1>4. CASE using' = using
  BY <1>3, <1>4 DEF Contract!cvars, phaseBar, listBar
<1>5. CASE using' = [w \in Workers |-> {}]
  <2>1. Contract!Halt
    BY <1>3, <1>5 DEF Contract!Halt, phaseBar, listBar
  <2> QED BY <2>1 DEF Contract!ContractNext
<1>6. ASSUME NEW w \in Workers, using' = [using EXCEPT ![w] = {}]
      PROVE  Contract!ContractNext
  <2>1. Contract!GiveBack(w)
    BY <1>3, <1>6 DEF Contract!GiveBack, phaseBar, listBar
  <2> QED BY <2>1 DEF Contract!ContractNext
<1> QED BY <1>2, <1>4, <1>5, <1>6

\* Every behaviour of the code, crashes and failures included, is one the
\* contract of DataContract allows.
THEOREM ImplementsContract == Spec => RefinesContract
<1>1. Init => Contract!ContractInit
  BY ContractAtFirst
<1>2. IInv /\ PromiseInv /\ [Next]_vars => [Contract!ContractNext]_(Contract!cvars)
  <2> SUFFICES ASSUME IInv, PromiseInv, [Next]_vars
               PROVE  Contract!ContractNext \/ UNCHANGED Contract!cvars
    OBVIOUS
  <2>1. CASE UNCHANGED vars
    BY <2>1 DEF vars, disk, memory, Contract!cvars
  <2>2. CASE RenameMeta
    BY <2>2, RenameMetaImplements
  <2>3. CASE \E w \in Workers, ids \in SUBSET Ids, p \in Programs : BeginExecute(w, ids, p)
    BY <2>3, BeginExecuteImplements
  <2> QED BY <2>1, <2>2, <2>3, OtherStepsImplement
<1> QED BY <1>1, <1>2, PromisesHold, PTL DEF Spec, RefinesContract, Contract!ContractSpec

-----------------------------------------------------------------------------
(* Files without a record, and the answers to edits                        *)

\* What a registration leaves that did not come to its end (Lifecycle_orphan.cfg) belongs
\* to nobody: no process has a record of it, and no client was ever told of its id, neither
\* a phase nor a certificate (register, status, proof).
THEOREM LeftoversAreUntold ==
    Spec => [](\A id \in Ids : op.id # id /\ meta[id] = Blank =>
                  entries[id] = Blank /\ observed[id] = 0 /\ granted[id] = {} /\ shown[id] = {})
<1>1. ASSUME IInv, PromiseInv, NEW id \in Ids, op.id # id, meta[id] = Blank
      PROVE  entries[id] = Blank /\ observed[id] = 0 /\ granted[id] = {} /\ shown[id] = {}
  <2>1. meta[id].state = "ABSENT" /\ observed[id] \in 0..3
    BY <1>1 DEF Blank, IInv, TypeOK
  <2>2. shown[id] = {}
    BY <1>1, <2>1 DEF IInv, CertInv, Gone
  <2>3. granted[id] = {}
    BY <1>1, <2>1 DEF PromiseInv, GrantInv
  <2>4. observed[id] = 0
    BY <1>1, <2>1 DEF PromiseInv, ObservedInv, Gone
  <2>5. entries[id] = Blank
    BY <1>1, <2>1 DEF IInv, ModeInv, RestInv, AtRest, Gone
  <2> QED BY <2>2, <2>3, <2>4, <2>5
<1>2. IInv /\ PromiseInv =>
        \A id \in Ids : op.id # id /\ meta[id] = Blank =>
           entries[id] = Blank /\ observed[id] = 0 /\ granted[id] = {} /\ shown[id] = {}
  BY <1>1
<1> QED BY <1>2, PromisesHold, PTL

\* A handler that has still to answer an edit has a record to read.
UnreadInv == unread \subseteq Edits /\ \A e \in unread : mode = "up" /\ Exists(e.id)

\* The edit that is done now.
DoneNow(e) == op.kind = "put" /\ op.pc = "done" /\ e.id = op.id /\ e.sent = op.rec.allowed

\* The handlers that read lists leave the lifecycle alone.
LEMMA RepliesAreSteps == [ReplyNext]_rvars => [Next]_vars
  BY DEF ReplyNext, rvars, LifecycleStep, ReadReply

LEMMA ReplyIsLifecycle == ReplySpec => Spec
<1>1. ReplyInit => Init
  BY DEF ReplyInit
<1> QED BY <1>1, RepliesAreSteps, PTL DEF ReplySpec, Spec

\* A process that keeps serving forgets no record.
LEMMA RecordsRemain ==
    ASSUME IInv, Next, mode = "up", mode' # "down", NEW id \in Ids, Exists(id)
    PROVE  mode' = "up" /\ Exists(id)'
<1> USE DEF Exists
<1>t. /\ op \in Operation /\ entries \in [Ids -> MetaRecord]
      /\ entries[id] \in MetaRecord /\ entries[id].state # "ABSENT"
  BY DEF IInv, TypeOK
<1>1. CASE Boot \/ Recovery \/ Crash
  BY <1>1 DEF Boot, Recovery, Serve, Recover, Crash, Stop
<1>2. CASE Request
  <2>1. ASSUME NEW i \in Ids, NEW key \in Keys, NEW list \in Lists, Register(i, key, list)
        PROVE  mode' = "up" /\ Exists(id)'
    BY <1>t, <2>1 DEF Register
  <2>2. ASSUME NEW i \in Ids, NEW key \in Keys, NEW list \in Lists, SetAllowedPrograms(i, key, list)
        PROVE  mode' = "up" /\ Exists(id)'
    BY <1>t, <2>2 DEF SetAllowedPrograms, MetaRecord
  <2>3. ASSUME NEW i \in Ids, NEW key \in Keys, Delete(i, key)
        PROVE  mode' = "up" /\ Exists(id)'
    BY <1>t, <2>3 DEF Delete, Shredded, MetaRecord
  <2>4. ASSUME NEW w \in Workers, NEW ids \in SUBSET Ids, NEW p \in Programs, BeginExecute(w, ids, p)
        PROVE  mode' = "up" /\ Exists(id)'
    BY <1>t, <2>4 DEF BeginExecute, MetaRecord
  <2>5. ASSUME NEW i \in Ids, Status(i) \/ Proof(i)
        PROVE  mode' = "up" /\ Exists(id)'
    BY <1>t, <2>5 DEF Status, Proof, memory
  <2> QED BY <1>2, <2>1, <2>2, <2>3, <2>4, <2>5 DEF Request
<1>3. ASSUME NEW w \in Workers, EndExecute(w)
      PROVE  mode' = "up" /\ Exists(id)'
  BY <1>t, <1>3 DEF EndExecute, GivenBack, MetaRecord
<1>4. CASE FileStep
  <2>1. ASSUME WriteBlobTmp \/ RenameBlob \/ WriteMetaTmp \/ RenameMeta
        PROVE  mode' = "up" /\ Exists(id)'
    BY <1>t, <2>1 DEF WriteBlobTmp, RenameBlob, WriteMetaTmp, RenameMeta
  <2>2. ASSUME RemoveBlob PROVE mode' = "up" /\ Exists(id)'
    <3> DEFINE cert == [hash |-> entries[op.id].hash, signer |-> boots]
               rec  == [entries[op.id] EXCEPT !.state = "DELETED", !.cert = cert]
    <3>1. mode' = mode /\ entries' = [entries EXCEPT ![op.id] = rec]
      BY <2>2 DEF RemoveBlob
    <3>2. CASE op.id = id
      BY <1>t, <3>1, <3>2 DEF MetaRecord
    <3>3. CASE op.id # id
      <4> HIDE DEF rec
      <4> QED BY <1>t, <3>1, <3>3
    <3> QED BY <3>2, <3>3
  <2> QED BY <1>4, <2>1, <2>2 DEF FileStep
<1>5. CASE FileFault
  <2>1. Fail
    BY <1>5 DEF FileFault, WriteBlobTmpFails, RenameBlobFails, WriteMetaTmpFails,
                RenameMetaFails, RemoveBlobFails
  <2>2. mode' = "up" /\ entries' = Rollback
    BY <2>1 DEF Fail, Stop
  <2> QED BY <1>t, <2>2 DEF Rollback, MetaRecord
<1>6. CASE Answer
  <2>1. ASSUME RegisterDone PROVE mode' = "up" /\ Exists(id)'
    BY <1>t, <2>1 DEF RegisterDone, IInv, RegisterInv, Blank
  <2>2. ASSUME SetAllowedProgramsDone \/ DeleteCommitted \/ FinishDone
        PROVE  mode' = "up" /\ Exists(id)'
    BY <1>t, <2>2 DEF SetAllowedProgramsDone, DeleteCommitted, FinishDone
  <2> QED BY <1>6, <2>1, <2>2 DEF Answer
<1> QED BY <1>1, <1>2, <1>3, <1>4, <1>5, <1>6 DEF Next

\* What clients may rely on of a list changes when the process stops or starts, and when
\* a registration or an edit is answered.
LEMMA PromisesChange ==
    ASSUME Next, mode = "up", mode' # "down"
    PROVE  \/ promised' = promised
           \/ RegisterDone
           \/ SetAllowedProgramsDone
<1>1. CASE Boot \/ Recovery \/ Crash
  BY <1>1 DEF Boot, Recovery, Serve, Recover, Crash, Stop, clients
<1>2. CASE Request
  BY <1>2 DEF Request, Register, SetAllowedPrograms, Delete, BeginExecute, Status, Proof, clients
<1>3. ASSUME NEW w \in Workers, EndExecute(w) PROVE promised' = promised
  BY <1>3 DEF EndExecute, clients
<1>4. CASE FileStep
  BY <1>4 DEF FileStep, WriteBlobTmp, RenameBlob, WriteMetaTmp, RenameMeta, RemoveBlob, clients
<1>5. CASE FileFault
  BY <1>5 DEF FileFault, WriteBlobTmpFails, RenameBlobFails, WriteMetaTmpFails,
              RenameMetaFails, RemoveBlobFails, Fail, clients
<1>6. CASE Answer
  BY <1>6 DEF Answer, DeleteCommitted, FinishDone, clients
<1> QED BY <1>1, <1>2, <1>3, <1>4, <1>5, <1>6 DEF Next

\* An edit that is done is answered next.
LEMMA DoneIsAnswered ==
    ASSUME IInv, Next, mode' # "down", op.kind = "put", op.pc = "done"
    PROVE  SetAllowedProgramsDone
<1>1. op # Idle /\ ~Serving
  BY DEF Idle, Serving
<1>2. mode # "down"
  BY <1>1 DEF IInv, ModeInv
<1>3. ~(Boot \/ Recovery \/ Crash)
  <2>1. ~Boot
    BY <1>2 DEF Boot
  <2>2. ~Recovery
    BY <1>1 DEF Recovery, Serve, Recover
  <2>3. ~Crash
    BY DEF Crash, Stop
  <2> QED BY <2>1, <2>2, <2>3
<1>4. ~Request
  BY <1>1 DEF Request, Register, SetAllowedPrograms, Delete, BeginExecute, Status, Proof
<1>5. ~\E w \in Workers : EndExecute(w)
  BY <1>1 DEF EndExecute
<1>6. ~FileStep /\ ~FileFault
  BY DEF FileStep, FileFault, WriteBlobTmp, RenameBlob, WriteMetaTmp, RenameMeta, RemoveBlob,
         WriteBlobTmpFails, RenameBlobFails, WriteMetaTmpFails, RenameMetaFails, RemoveBlobFails, At
<1>7. ~RegisterDone /\ ~DeleteCommitted /\ ~FinishDone
  BY DEF RegisterDone, DeleteCommitted, FinishDone
<1> QED BY <1>3, <1>4, <1>5, <1>6, <1>7 DEF Next, Answer

LEMMA UnreadStep == IInv /\ UnreadInv /\ [ReplyNext]_rvars => UnreadInv'
<1> SUFFICES ASSUME IInv, UnreadInv, [ReplyNext]_rvars PROVE UnreadInv'
  OBVIOUS
<1>1. CASE LifecycleStep
  <2>1. CASE mode' = "down"
    BY <1>1, <2>1 DEF LifecycleStep, UnreadInv
  <2>2. CASE mode' # "down"
    <3>1. unread' = unread \cup {e \in Edits : DoneNow(e)} /\ Next
      BY <1>1, <2>2 DEF LifecycleStep, DoneNow
    <3>2. ASSUME NEW e \in unread' PROVE e \in Edits /\ mode = "up" /\ Exists(e.id)
      <4>1. CASE e \in unread
        BY <4>1 DEF UnreadInv
      <4>2. CASE e \in Edits /\ DoneNow(e)
        BY <4>2 DEF DoneNow, IInv, OpInv, PutInv, Live, Exists, Idle, ModeInv, TypeOK
      <4> QED BY <3>1, <4>1, <4>2
    <3>3. ASSUME NEW e \in unread' PROVE e \in Edits /\ mode' = "up" /\ Exists(e.id)'
      <4>1. e.id \in Ids
        BY <3>2 DEF Edits
      <4> QED BY <2>2, <3>1, <3>2, <4>1, RecordsRemain
    <3> QED BY <3>3 DEF UnreadInv
  <2> QED BY <2>1, <2>2
<1>2. ASSUME NEW e \in Edits, ReadReply(e) PROVE UnreadInv'
  BY <1>2 DEF ReadReply, UnreadInv, vars, memory, Exists
<1>3. CASE UNCHANGED rvars
  BY <1>3 DEF rvars, vars, memory, UnreadInv, Exists
<1> QED BY <1>1, <1>2, <1>3 DEF ReplyNext

\* An edit that is done is what its client may rely on, ...
DoneIsPromised == \A e \in unread' : e \notin unread => promised'[e.id] = {e.sent}

\* ... until another edit of the same data is answered, or the process ends, ...
LaterEditsAlone ==
    \A e \in unread :
        \/ promised'[e.id] = promised[e.id]
        \/ op.kind = "put" /\ op.pc = "done" /\ op.id = e.id
        \/ mode' = "down"

\* ... and as long as none is at work it is what its handler answers with.
LoneEditsAreAnswered ==
    \A e \in unread :
        ReadReply(e) /\ promised[e.id] = {e.sent} /\ ~(op.kind = "put" /\ op.id = e.id)
          => reply' = [sent |-> e.sent, got |-> e.sent]

\* The answer to an edit has another list than the one it set (WhitelistReply.cfg) only
\* if another edit of the same data was answered, or at work, in between: no use, deletion,
\* failed operation or other data changes what the handler reads without the lock.
THEOREM OnlyEditsDisturbReplies ==
    ReplySpec => [][DoneIsPromised /\ LaterEditsAlone /\ LoneEditsAreAnswered]_rvars
<1>1. ReplyInit => UnreadInv
  BY DEF ReplyInit, UnreadInv
<1>2. ASSUME IInv, UnreadInv, LifecycleStep, mode' # "down"
      PROVE  DoneIsPromised /\ LaterEditsAlone
  <2>1. unread' = unread \cup {e \in Edits : DoneNow(e)} /\ Next
    BY <1>2 DEF LifecycleStep, DoneNow
  <2>2. promised \in [Ids -> SUBSET Lists]
    BY <1>2 DEF IInv, TypeOK
  <2>3. ASSUME NEW e \in Edits, DoneNow(e) PROVE promised'[e.id] = {e.sent}
    <3>1. SetAllowedProgramsDone /\ e.id \in Ids
      BY <1>2, <2>1, <2>3, DoneIsAnswered DEF DoneNow, Edits
    <3> QED BY <2>2, <2>3, <3>1 DEF SetAllowedProgramsDone, DoneNow
  <2>4. ASSUME NEW e \in unread, promised'[e.id] # promised[e.id]
        PROVE  op.kind = "put" /\ op.pc = "done" /\ op.id = e.id
    <3>1. e \in Edits /\ e.id \in Ids /\ mode = "up" /\ Exists(e.id)
      BY <1>2 DEF UnreadInv, Edits
    <3>2. RegisterDone \/ SetAllowedProgramsDone
      BY <1>2, <2>1, <2>4, <3>1, PromisesChange
    <3>3. promised' = [promised EXCEPT ![op.id] = {op.rec.allowed}] /\ op.pc = "done"
      BY <3>2 DEF RegisterDone, SetAllowedProgramsDone, At
    <3>4. op.id = e.id
      BY <2>2, <2>4, <3>1, <3>3
    <3>5. ~RegisterDone
      BY <1>2, <3>1, <3>4 DEF RegisterDone, IInv, RegisterInv, Blank, Exists
    <3> QED BY <3>2, <3>3, <3>4, <3>5 DEF SetAllowedProgramsDone
  <2>5. DoneIsPromised
    BY <2>1, <2>3 DEF DoneIsPromised
  <2>6. LaterEditsAlone
    BY <2>4 DEF LaterEditsAlone
  <2> QED BY <2>5, <2>6
<1>3. ASSUME LifecycleStep, mode' = "down"
      PROVE  DoneIsPromised /\ LaterEditsAlone
  BY <1>3 DEF LifecycleStep, DoneIsPromised, LaterEditsAlone
<1>4. ASSUME NEW e \in Edits, ReadReply(e)
      PROVE  DoneIsPromised /\ LaterEditsAlone
  BY <1>4 DEF ReadReply, DoneIsPromised, LaterEditsAlone, vars, clients
<1>5. ASSUME IInv, PromiseInv, UnreadInv
      PROVE  LoneEditsAreAnswered
  <2> SUFFICES ASSUME NEW e \in unread, ReadReply(e), promised[e.id] = {e.sent},
                      ~(op.kind = "put" /\ op.id = e.id)
               PROVE  reply' = [sent |-> e.sent, got |-> e.sent]
    BY DEF LoneEditsAreAnswered
  <2>1. e.id \in Ids /\ Exists(e.id)
    BY <1>5 DEF UnreadInv, Edits
  <2>2. ~(op.kind = "register" /\ op.id = e.id)
    BY <1>5, <2>1 DEF IInv, RegisterInv, Blank, Exists
  <2>3. entries[e.id].allowed = e.sent
    BY <1>5, <2>1, <2>2 DEF PromiseInv, ListInv
  <2>4. Readable(e.id) = {e.sent}
    BY <2>3 DEF Readable
  <2> QED BY <2>4 DEF ReadReply
<1>6. IInv /\ PromiseInv /\ UnreadInv /\ [ReplyNext]_rvars =>
        [DoneIsPromised /\ LaterEditsAlone /\ LoneEditsAreAnswered]_rvars
  BY <1>2, <1>3, <1>4, <1>5 DEF ReplyNext
<1> QED BY <1>1, <1>6, UnreadStep, ReplyIsLifecycle, PromisesHold, PTL DEF ReplySpec

==============================================================================
