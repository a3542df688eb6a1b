------------------------------ MODULE Lifecycle ------------------------------
(***************************************************************************)
(* The data lifecycle of wasm-runner: registration, use by executions,     *)
(* whitelist edits and deletion with a certificate (lifecycle.go), over    *)
(* the files those operations write (storage.go) and the signing key a     *)
(* process generates when it starts (attestation.go).                      *)
(*                                                                         *)
(* lifecycleManager.mu is held for the whole of every operation, file      *)
(* writes included, so at most one operation is in progress: it is the     *)
(* variable op, and each of its file operations is a step of its own.      *)
(* A crash, or a failure of the file operation, can fall between any two.  *)
(* Requests that are refused change nothing and are not actions.           *)
(***************************************************************************)
EXTENDS Naturals, FiniteSets

CONSTANTS
    Ids,          \* data ids newDataID may draw
    Programs,     \* program ids
    Keys,         \* public keys that sign requests
    Owner,        \* the registered owner's key
    NoId, NoKey,  \* the empty strings
    Workers,      \* handler goroutines that run executions
    MaxKeys,      \* bound: data keys drawn, i.e. registrations attempted
    MaxFaults,    \* bound: file operations that fail
    MaxCrashes    \* bound: times the process is killed

ASSUME IdsAssumption == NoId \notin Ids
ASSUME KeysAssumption == Owner \in Keys /\ NoKey \notin Keys
ASSUME BoundsAssumption == MaxKeys \in Nat /\ MaxFaults \in Nat /\ MaxCrashes \in Nat

VARIABLES
    mode,       \* "down", "boot" (newLifecycleManager runs) or "up" (serving)
    boots,      \* processes started so far; identifies the prover's signing key
    entries,    \* lm.entries: the records in memory
    todo,       \* records the recovery loop has still to treat
    op,         \* the operation that holds lm.mu
    using,      \* data ids each running execution was given
    meta,       \* files meta/<id>.json
    metaTmp,    \* files meta/<id>.json.tmp
    blob,       \* files blobs/<id>.bin: the data key the content is sealed with
    blobTmp,    \* files blobs/<id>.bin.tmp
    drawn,      \* data keys drawn so far
    faults,     \* file operations that have failed
    crashes,    \* times the process was killed
    promised,   \* what clients may rely on: the whitelists an answer left possible
    granted,    \* certificates returned by DELETE with status 200
    shown,      \* certificates any client has been given
    observed    \* the last lifecycle phase any client was told of

memory  == <<mode, boots, entries, todo, op, using>>
disk    == <<meta, metaTmp, blob, blobTmp>>
bounds  == <<drawn, faults, crashes>>
clients == <<promised, granted, shown, observed>>
vars    == <<memory, disk, bounds, clients>>

-----------------------------------------------------------------------------
(* Records, files and the operation in progress                            *)

Lists  == SUBSET Programs
States == {"ABSENT", "REGISTERED", "IN_USE", "DELETING", "DELETED"}

\* A certificate names the content's hash and is signed with a process's key;
\* the n-th content ever registered stands for its own hash.
Certificate == [hash : Nat, signer : Nat]
NoCert      == [hash |-> 0, signer |-> 0]

\* metaRecord. dek is the number of the data key, 0 when it has been removed.
MetaRecord == [state : States, uploader : Keys \cup {NoKey}, allowed : Lists,
               hash : Nat, dek : Nat, cert : Certificate]

\* No record in memory, or no file (or nothing of use in it) on disk.
Blank == [state |-> "ABSENT", uploader |-> NoKey, allowed |-> {},
          hash |-> 0, dek |-> 0, cert |-> NoCert]

Kinds == {"none", "register", "put", "delete", "finish", "resume"}
Pcs   == {"idle", "blobTmp", "blobRename", "metaTmp", "metaRename", "removeBlob", "done"}

\* rec is the record being written, undo the entry as it was before.
Operation == [pc : Pcs, kind : Kinds, id : Ids \cup {NoId}, rec : MetaRecord, undo : MetaRecord]
Idle      == [pc |-> "idle", kind |-> "none", id |-> NoId, rec |-> Blank, undo |-> Blank]

\* Faulty variants.  Each operator marked "Variant" is a mistake the code could
\* contain; putting it in place of the operator after it must break a property.

\* Variant: the record is written to disk as it is in memory.
PersistedAsIs(rec) == rec

\* An IN_USE record is written to disk as REGISTERED.
Persisted(rec) == IF rec.state = "IN_USE" THEN [rec EXCEPT !.state = "REGISTERED"] ELSE rec

Exists(id) == entries[id].state # "ABSENT"
Serving    == mode = "up" /\ op = Idle      \* a request can take lm.mu

\* What a client is told of a record; the order is the only legal order of answers.
Rank == [state \in States |-> IF state = "ABSENT" THEN 0
                              ELSE IF state = "DELETING" THEN 2
                              ELSE IF state = "DELETED" THEN 3 ELSE 1]

TypeOK ==
    /\ mode \in {"down", "boot", "up"}
    /\ boots \in Nat
    /\ entries \in [Ids -> MetaRecord]
    /\ todo \subseteq Ids
    /\ op \in Operation /\ (op.pc # "idle" => op.id \in Ids)
    /\ using \in [Workers -> SUBSET Ids]
    /\ meta \in [Ids -> MetaRecord]
    /\ metaTmp \in [Ids -> MetaRecord]
    /\ blob \in [Ids -> Nat]
    /\ blobTmp \in [Ids -> Nat]
    /\ drawn \in Nat /\ faults \in Nat /\ crashes \in Nat
    /\ promised \in [Ids -> SUBSET Lists]
    /\ granted \in [Ids -> SUBSET Certificate]
    /\ shown \in [Ids -> SUBSET Certificate]
    /\ observed \in [Ids -> 0..3]

Init ==
    /\ mode = "down" /\ boots = 0 /\ todo = {} /\ op = Idle
    /\ entries = [id \in Ids |-> Blank]
    /\ using = [w \in Workers |-> {}]
    /\ meta = [id \in Ids |-> Blank] /\ metaTmp = [id \in Ids |-> Blank]
    /\ blob = [id \in Ids |-> 0] /\ blobTmp = [id \in Ids |-> 0]
    /\ drawn = 0 /\ faults = 0 /\ crashes = 0
    /\ promised = [id \in Ids |-> {}]
    /\ granted = [id \in Ids |-> {}] /\ shown = [id \in Ids |-> {}]
    /\ observed = [id \in Ids |-> 0]

-----------------------------------------------------------------------------
(* The process: start, recovery, end                                       *)

\* The process is gone: memory, the lock's holder and the executions with it.
Stop ==
    /\ mode' = "down" /\ op' = Idle /\ todo' = {}
    /\ entries' = [id \in Ids |-> Blank]
    /\ using' = [w \in Workers |-> {}]

\* Variant: interrupted deletions are left as they are.
UnfinishedUse(state) == state = "IN_USE"

\* Variant: finished deletions are finished once more.
UnfinishedOrDeleted(state) == state \in {"IN_USE", "DELETING", "DELETED"}

\* The states the recovery loop acts on.
Unfinished(state) == state \in {"IN_USE", "DELETING"}

\* main builds a prover with a new signing key, then loads the metadata files.
\* A client that got no answer before now learns which list is in effect.
Boot ==
    /\ mode = "down"
    /\ mode' = "boot" /\ boots' = boots + 1
    /\ entries' = meta
    /\ todo' = {id \in Ids : Unfinished(meta[id].state)}
    /\ promised' = [id \in Ids |-> IF meta[id] = Blank THEN {} ELSE {meta[id].allowed}]
    /\ UNCHANGED <<op, using, disk, bounds, granted, shown, observed>>

\* The recovery loop: an interrupted use is undone, an interrupted deletion finished.
Recover(id) ==
    /\ mode = "boot" /\ op = Idle /\ id \in todo
    /\ todo' = todo \ {id}
    /\ LET rec == Persisted(entries[id])
           resume == entries[id].state = "IN_USE"
       IN /\ entries' = [entries EXCEPT ![id] = rec]
          /\ op' = [pc |-> IF resume THEN "metaTmp" ELSE "removeBlob",
                    kind |-> IF resume THEN "resume" ELSE "finish",
                    id |-> id, rec |-> rec, undo |-> Blank]
    /\ UNCHANGED <<mode, boots, using, disk, bounds, clients>>

Serve ==
    /\ mode = "boot" /\ op = Idle /\ todo = {}
    /\ mode' = "up"
    /\ UNCHANGED <<boots, entries, todo, op, using, disk, bounds, clients>>

\* What a WriteFile that did not complete leaves under the .tmp name: the old
\* content, too little to be of use, or all of the new content.
TornMeta(id, rec) == {metaTmp[id], Blank, rec}
TornBlob(id, key) == {blobTmp[id], 0, key}

\* The process is killed, perhaps in the middle of a WriteFile. A registration
\* or an edit in progress is left unanswered: its list may or may not apply.
Crash ==
    /\ mode # "down" /\ crashes < MaxCrashes
    /\ crashes' = crashes + 1
    /\ Stop
    /\ \/ /\ op.pc = "metaTmp"
          /\ \E rec \in TornMeta(op.id, op.rec) : metaTmp' = [metaTmp EXCEPT ![op.id] = rec]
          /\ UNCHANGED blobTmp
       \/ /\ op.pc = "blobTmp"
          /\ \E key \in TornBlob(op.id, op.rec.dek) : blobTmp' = [blobTmp EXCEPT ![op.id] = key]
          /\ UNCHANGED metaTmp
       \/ op.pc \notin {"metaTmp", "blobTmp"} /\ UNCHANGED <<metaTmp, blobTmp>>
    /\ promised' = [id \in Ids |->
                      IF id = op.id /\ op.kind \in {"register", "put"}
                      THEN promised[id] \cup {op.rec.allowed} ELSE promised[id]]
    /\ UNCHANGED <<boots, meta, blob, drawn, faults, granted, shown, observed>>

-----------------------------------------------------------------------------
(* Requests                                                                *)

\* Take lm.mu for an operation on id that starts at pc and persists rec.
Begin(pc, kind, id, rec) ==
    op' = [pc |-> pc, kind |-> kind, id |-> id, rec |-> rec, undo |-> entries[id]]

\* POST /data: a fresh id, a fresh data key; the blob is written before the record.
Register(id, uploader, list) ==
    /\ Serving /\ ~Exists(id) /\ drawn < MaxKeys
    /\ drawn' = drawn + 1
    /\ Begin("blobTmp", "register", id,
             [state |-> "REGISTERED", uploader |-> uploader, allowed |-> list,
              hash |-> drawn + 1, dek |-> drawn + 1, cert |-> NoCert])
    /\ UNCHANGED <<mode, boots, entries, todo, using, disk, faults, crashes, clients>>

\* PUT /data/{id}/programs: by the uploader alone, until deletion has begun.
SetAllowedPrograms(id, requester, list) ==
    /\ Serving
    /\ entries[id].state \in {"REGISTERED", "IN_USE"}
    /\ requester = entries[id].uploader
    /\ entries' = [entries EXCEPT ![id].allowed = list]
    /\ Begin("metaTmp", "put", id, Persisted([entries[id] EXCEPT !.allowed = list]))
    /\ UNCHANGED <<mode, boots, todo, using, disk, bounds, clients>>

\* Variant: deletion is not refused while an execution has the data.
DeletableUnlessDeleting(rec) == rec.state \in {"REGISTERED", "IN_USE"}

Deletable(rec) == rec.state = "REGISTERED"

\* Variants: the key stays in the record; the state does not change.
ShreddedKeepingKey(rec) == [rec EXCEPT !.state = "DELETING"]
ShreddedStillRegistered(rec) == [rec EXCEPT !.dek = 0]

\* The record that commits a deletion.
Shredded(rec) == [rec EXCEPT !.state = "DELETING", !.dek = 0]

\* DELETE /data/{id}: by the owner or the uploader, when no execution uses the data.
Delete(id, requester) ==
    /\ Serving /\ Deletable(entries[id])
    /\ requester \in {Owner, entries[id].uploader}
    /\ entries' = [entries EXCEPT ![id] = Shredded(@)]
    /\ Begin("metaTmp", "delete", id, Shredded(entries[id]))
    /\ UNCHANGED <<mode, boots, todo, using, disk, bounds, clients>>

\* Variant: data in use is not refused.
UsableWhileInUse(id, program) ==
    /\ program \in entries[id].allowed
    /\ entries[id].state \in {"REGISTERED", "IN_USE"}
    /\ blob[id] = entries[id].dek

\* The data exists, allows the program, is free, and its blob opens with its key.
Usable(id, program) ==
    /\ program \in entries[id].allowed
    /\ entries[id].state = "REGISTERED"
    /\ blob[id] = entries[id].dek

\* POST /execute, all or nothing. The plaintexts are then with worker w.
BeginExecute(w, ids, program) ==
    /\ Serving /\ using[w] = {} /\ ids # {}
    /\ \A id \in ids : Usable(id, program)
    /\ entries' = [id \in Ids |-> IF id \in ids THEN [entries[id] EXCEPT !.state = "IN_USE"]
                                  ELSE entries[id]]
    /\ using' = [using EXCEPT ![w] = ids]
    /\ observed' = [id \in Ids |-> IF id \in ids THEN Rank["IN_USE"] ELSE observed[id]]
    /\ UNCHANGED <<mode, boots, todo, op, disk, bounds, promised, granted, shown>>

\* Variant: the state is tested against the wrong value.
GivenBackIfRegistered(rec) ==
    IF rec.state = "REGISTERED" THEN [rec EXCEPT !.state = "REGISTERED"] ELSE rec

GivenBack(rec) == IF rec.state = "IN_USE" THEN [rec EXCEPT !.state = "REGISTERED"] ELSE rec

\* The deferred endExecute, whatever the run's outcome.
EndExecute(w) ==
    /\ Serving /\ using[w] # {}
    /\ entries' = [id \in Ids |-> IF id \in using[w] THEN GivenBack(entries[id]) ELSE entries[id]]
    /\ using' = [using EXCEPT ![w] = {}]
    /\ UNCHANGED <<mode, boots, todo, op, disk, bounds, clients>>

\* GET /data/{id}/status: the phase the caller is told of; an unknown id is a 404.
Status(id) ==
    /\ Serving
    /\ observed' = [observed EXCEPT ![id] = Rank[entries[id].state]]
    /\ UNCHANGED <<memory, disk, bounds, promised, granted, shown>>

\* GET /data/{id}/proof: the certificate kept in the record.
Proof(id) ==
    /\ Serving /\ entries[id].state = "DELETED"
    /\ shown' = [shown EXCEPT ![id] = @ \cup {entries[id].cert}]
    /\ UNCHANGED <<memory, disk, bounds, promised, granted, observed>>

-----------------------------------------------------------------------------
(* File operations of the operation in progress                            *)

At(pc)   == op.pc = pc
Goto(pc) == op' = [op EXCEPT !.pc = pc]

WriteBlobTmp ==
    /\ At("blobTmp")
    /\ blobTmp' = [blobTmp EXCEPT ![op.id] = op.rec.dek]
    /\ Goto("blobRename")
    /\ UNCHANGED <<mode, boots, entries, todo, using, meta, metaTmp, blob, bounds, clients>>

RenameBlob ==
    /\ At("blobRename")
    /\ blob' = [blob EXCEPT ![op.id] = blobTmp[op.id]]
    /\ blobTmp' = [blobTmp EXCEPT ![op.id] = 0]
    /\ Goto("metaTmp")
    /\ UNCHANGED <<mode, boots, entries, todo, using, meta, metaTmp, bounds, clients>>

WriteMetaTmp ==
    /\ At("metaTmp")
    /\ metaTmp' = [metaTmp EXCEPT ![op.id] = op.rec]
    /\ Goto("metaRename")
    /\ UNCHANGED <<mode, boots, entries, todo, using, meta, blob, blobTmp, bounds, clients>>

RenameMeta ==
    /\ At("metaRename")
    /\ meta' = [meta EXCEPT ![op.id] = metaTmp[op.id]]
    /\ metaTmp' = [metaTmp EXCEPT ![op.id] = Blank]
    /\ Goto("done")
    /\ UNCHANGED <<mode, boots, entries, todo, using, blob, blobTmp, bounds, clients>>

\* finishDelete: once the blob is gone the record becomes DELETED in memory,
\* with a certificate of this process, and is then written.
RemoveBlob ==
    /\ At("removeBlob")
    /\ blob' = [blob EXCEPT ![op.id] = 0]
    /\ LET rec == [entries[op.id] EXCEPT
                     !.state = "DELETED",
                     !.cert = [hash |-> entries[op.id].hash, signer |-> boots]]
       IN /\ entries' = [entries EXCEPT ![op.id] = rec]
          /\ op' = [op EXCEPT !.pc = "metaTmp", !.rec = rec]
    /\ UNCHANGED <<mode, boots, todo, using, meta, metaTmp, blobTmp, bounds, clients>>

\* Variants: the error path of an edit restores nothing; that of a deletion
\* forgets the key; that of a deletion puts back a state it never saved, the empty
\* dataState.
RollbackDeletionOnly ==
    IF op.kind = "delete"
    THEN [entries EXCEPT ![op.id].state = "REGISTERED", ![op.id].dek = op.undo.dek]
    ELSE entries
RollbackWithoutKey ==
    CASE op.kind = "put"    -> [entries EXCEPT ![op.id].allowed = op.undo.allowed]
      [] op.kind = "delete" -> [entries EXCEPT ![op.id].state = "REGISTERED"]
      [] OTHER              -> entries
RollbackToEmpty ==
    CASE op.kind = "put"    -> [entries EXCEPT ![op.id].allowed = op.undo.allowed]
      [] op.kind = "delete" -> [entries EXCEPT ![op.id].state = "",
                                               ![op.id].dek = op.undo.dek]
      [] OTHER              -> entries

\* What the error path of the operation restores in the record.
Rollback ==
    CASE op.kind = "put"    -> [entries EXCEPT ![op.id].allowed = op.undo.allowed]
      [] op.kind = "delete" -> [entries EXCEPT ![op.id].state = "REGISTERED",
                                               ![op.id].dek = op.undo.dek]
      [] OTHER              -> entries

\* A file operation fails: the request is answered with an error; during
\* recovery the error ends the process.
Fail ==
    /\ faults < MaxFaults /\ faults' = faults + 1
    /\ \/ mode = "boot" /\ Stop
       \/ /\ mode = "up"
          /\ entries' = Rollback /\ op' = Idle
          /\ UNCHANGED <<mode, todo, using>>
    /\ UNCHANGED <<boots, drawn, crashes, clients>>

WriteBlobTmpFails ==
    /\ At("blobTmp") /\ Fail
    /\ \E key \in TornBlob(op.id, op.rec.dek) : blobTmp' = [blobTmp EXCEPT ![op.id] = key]
    /\ UNCHANGED <<meta, metaTmp, blob>>

\* A failed rename is followed by a Remove of the .tmp file, which may fail too.
RenameBlobFails ==
    /\ At("blobRename") /\ Fail
    /\ \E key \in {blobTmp[op.id], 0} : blobTmp' = [blobTmp EXCEPT ![op.id] = key]
    /\ UNCHANGED <<meta, metaTmp, blob>>

WriteMetaTmpFails ==
    /\ At("metaTmp") /\ Fail
    /\ \E rec \in TornMeta(op.id, op.rec) : metaTmp' = [metaTmp EXCEPT ![op.id] = rec]
    /\ UNCHANGED <<meta, blob, blobTmp>>

RenameMetaFails ==
    /\ At("metaRename") /\ Fail
    /\ \E rec \in {metaTmp[op.id], Blank} : metaTmp' = [metaTmp EXCEPT ![op.id] = rec]
    /\ UNCHANGED <<meta, blob, blobTmp>>

\* Variant: the error of removeBlob is not looked at.
RemoveBlobErrorIgnored ==
    /\ At("removeBlob") /\ faults < MaxFaults /\ faults' = faults + 1
    /\ LET rec == [entries[op.id] EXCEPT
                     !.state = "DELETED",
                     !.cert = [hash |-> entries[op.id].hash, signer |-> boots]]
       IN /\ entries' = [entries EXCEPT ![op.id] = rec]
          /\ op' = [op EXCEPT !.pc = "metaTmp", !.rec = rec]
    /\ UNCHANGED <<mode, boots, todo, using, disk, drawn, crashes, clients>>

RemoveBlobFails ==
    /\ At("removeBlob") /\ Fail
    /\ UNCHANGED disk

-----------------------------------------------------------------------------
(* After the record is on disk                                             *)

RegisterDone ==
    /\ At("done") /\ op.kind = "register"
    /\ entries' = [entries EXCEPT ![op.id] = op.rec]
    /\ op' = Idle
    /\ promised' = [promised EXCEPT ![op.id] = {op.rec.allowed}]
    /\ observed' = [observed EXCEPT ![op.id] = Rank["REGISTERED"]]
    /\ UNCHANGED <<mode, boots, todo, using, disk, bounds, granted, shown>>

SetAllowedProgramsDone ==
    /\ At("done") /\ op.kind = "put"
    /\ op' = Idle
    /\ promised' = [promised EXCEPT ![op.id] = {op.rec.allowed}]
    /\ UNCHANGED <<mode, boots, entries, todo, using, disk, bounds, granted, shown, observed>>

\* The commit point of crypto-shredding is past: the key is wiped, the rest follows.
DeleteCommitted ==
    /\ At("done") /\ op.kind = "delete"
    /\ op' = [op EXCEPT !.pc = "removeBlob", !.kind = "finish", !.undo = Blank]
    /\ UNCHANGED <<mode, boots, entries, todo, using, disk, bounds, clients>>

\* The last record of an operation is on disk: a DELETE is answered with its
\* certificate; the recovery loop just goes on.
FinishDone ==
    /\ At("done") /\ op.kind \in {"finish", "resume"}
    /\ op' = Idle
    /\ LET certs == IF mode = "up" THEN {entries[op.id].cert} ELSE {}
       IN /\ granted' = [granted EXCEPT ![op.id] = @ \cup certs]
          /\ shown' = [shown EXCEPT ![op.id] = @ \cup certs]
    /\ observed' = [observed EXCEPT ![op.id] = IF mode = "up" THEN Rank["DELETED"] ELSE @]
    /\ UNCHANGED <<mode, boots, entries, todo, using, disk, bounds, promised>>

-----------------------------------------------------------------------------

FileStep == WriteBlobTmp \/ RenameBlob \/ WriteMetaTmp \/ RenameMeta \/ RemoveBlob

FileFault == \/ WriteBlobTmpFails \/ RenameBlobFails
             \/ WriteMetaTmpFails \/ RenameMetaFails \/ RemoveBlobFails

Answer == RegisterDone \/ SetAllowedProgramsDone \/ DeleteCommitted \/ FinishDone

Request ==
    \/ \E id \in Ids, key \in Keys, list \in Lists :
         Register(id, key, list) \/ SetAllowedPrograms(id, key, list)
    \/ \E id \in Ids, key \in Keys : Delete(id, key)
    \/ \E w \in Workers, ids \in SUBSET Ids, p \in Programs : BeginExecute(w, ids, p)
    \/ \E id \in Ids : Status(id) \/ Proof(id)

Recovery == Serve \/ \E id \in Ids : Recover(id)

Next ==
    \/ Boot \/ Recovery \/ Crash
    \/ Request
    \/ \E w \in Workers : EndExecute(w)
    \/ FileStep \/ FileFault \/ Answer

Spec == Init /\ [][Next]_vars

-----------------------------------------------------------------------------
(* Fairness: the goroutine that holds lm.mu runs on, and so does recovery; *)
(* a run is ended by its timeout, and sync.Mutex hands the lock to a       *)
(* waiter it has starved, so a finished run does get to endExecute.        *)

Progress == FileStep \/ FileFault \/ Answer \/ Recovery

FairSpec ==
    /\ Spec
    /\ WF_vars(Progress)
    /\ \A w \in Workers : SF_vars(EndExecute(w))

-----------------------------------------------------------------------------
(* Safety                                                                  *)

\* Two executions never hold the same data, and a record is IN_USE exactly
\* while some execution holds its plaintext (beginExecute, endExecute).
UseIsExclusive ==
    /\ \A v, w \in Workers : v # w => using[v] \cap using[w] = {}
    /\ \A id \in Ids : entries[id].state = "IN_USE" <=> \E w \in Workers : id \in using[w]

\* IN_USE is a state of memory alone: no file ever says IN_USE, so a crash
\* leaves data usable (comment of beginExecute, persist in setAllowedPrograms).
InUseNotPersisted ==
    \A id \in Ids : meta[id].state # "IN_USE" /\ metaTmp[id].state # "IN_USE"

\* A record that a restart would load as REGISTERED has a blob that opens with
\* the record's key to the content the record was registered for.
RegisteredIsReadable ==
    \A id \in Ids : meta[id].state = "REGISTERED" =>
        blob[id] = meta[id].dek /\ meta[id].dek = meta[id].hash /\ meta[id].dek # 0

\* Once the DELETING record is in place no file and no record in memory holds
\* the data key: not the .tmp file of an earlier failed write either.
NoKeyAfterCommit ==
    \A id \in Ids : meta[id].state \in {"DELETING", "DELETED"} =>
        meta[id].dek = 0 /\ metaTmp[id].dek = 0 /\ entries[id].dek = 0

\* What a certificate attests: as soon as one exists, in memory, on disk or with
\* a client, no ciphertext and no key of the data is left.
CertifiedIsErased ==
    \A id \in Ids :
        shown[id] # {} \/ entries[id].cert # NoCert \/ meta[id].cert # NoCert =>
            /\ blob[id] = 0 /\ blobTmp[id] = 0
            /\ meta[id].dek = 0 /\ metaTmp[id].dek = 0 /\ entries[id].dek = 0

\* A certificate returned by a successful DELETE is what every later proof
\* returns, whatever crashes and failures follow.
GrantedCertificateStands ==
    \A id \in Ids : \A cert \in granted[id] :
        meta[id].state = "DELETED" /\ meta[id].cert = cert /\ shown[id] = {cert}

\* When no operation is in progress memory says what a restart would load, but
\* for an execution in progress and a deletion whose last write failed.
MemoryMatchesDisk ==
    Serving => \A id \in Ids :
        \/ entries[id] = meta[id]
        \/ entries[id] = [meta[id] EXCEPT !.state = "IN_USE"] /\ meta[id].state = "REGISTERED"
        \/ entries[id].state = "DELETED" /\ meta[id].state = "DELETING"

\* The whitelist in effect, now and after any crash, is the last one a client
\* was told is set, or one left unanswered by the crash since: an edit that
\* was answered with an error never takes effect.
WhitelistAsPromised ==
    \A id \in Ids : op.id # id =>
        /\ meta[id] # Blank => meta[id].allowed \in promised[id]
        /\ Exists(id) => entries[id].allowed \in promised[id]

\* What clients are told only moves forward, crashes included: data whose
\* registration was answered is found, and data once reported as being deleted
\* is never reported as usable, nor used, again.
AnswersMoveForward == [][\A id \in Ids : observed'[id] >= observed[id]]_vars

-----------------------------------------------------------------------------
(* Liveness                                                                *)

\* Data taken by an execution is given back (deferred endExecute), or the process ends.
UseEnds == \A id \in Ids : entries[id].state = "IN_USE" ~> entries[id].state # "IN_USE"

\* A start that finds a deletion interrupted after its commit point completes
\* it, or ends with an error (newLifecycleManager); it does not serve instead.
DeletionResumes ==
    \A id \in Ids : mode = "boot" /\ meta[id].state = "DELETING"
                      ~> meta[id].state = "DELETED" \/ mode = "down"

-----------------------------------------------------------------------------
(* What the comments say and the code does not do                          *)

\* proof returns the certificate that was issued (comment of proof): every
\* client is given the same one. A DELETE whose last write fails breaks it.
OneCertificate == \A id \in Ids : Cardinality(shown[id]) <= 1

\* A blob without a record has no key left (comment in register). A registration
\* that stops between WriteFile and Rename of the record breaks it.
OrphanBlobHasNoKey ==
    \A id \in Ids : op.id # id /\ meta[id] = Blank /\ blob[id] # 0 => metaTmp[id].dek # blob[id]

=============================================================================
