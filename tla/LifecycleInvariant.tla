-------------------------- MODULE LifecycleInvariant --------------------------
(***************************************************************************)
(* The inductive invariants from which the safety properties of Lifecycle  *)
(* follow.  IInv says, for every record, how memory, the metadata file,    *)
(* the .tmp file and the blob relate, at rest and at each step of the      *)
(* operation in progress; PromiseInv, what they owe to the answers given.  *)
(***************************************************************************)
EXTENDS Lifecycle

Gone(state) == state \in {"DELETING", "DELETED"}
Live(state) == state \in {"REGISTERED", "IN_USE"}

\* A process that is down remembers nothing and does nothing; one that boots
\* only finishes deletions, since no file says IN_USE.
ModeInv ==
    /\ mode = "down" => op = Idle /\ \A id \in Ids : entries[id] = Blank
    /\ mode # "up" => \A w \in Workers : using[w] = {}
    /\ mode # "boot" => todo = {}
    /\ \A id \in todo : entries[id].state = "DELETING" /\ id # op.id

\* Which steps each kind of operation has.
OpInv ==
    /\ op = Idle \/ (op.id \in Ids /\ mode # "down")
    /\ op.id = NoId => op = Idle
    /\ op.kind \in {"none", "register", "put", "delete", "finish"}
    /\ op.kind = "none" <=> op.pc = "idle"
    /\ op.kind = "none" <=> op.id = NoId
    /\ mode = "boot" => op.kind \in {"none", "finish"}
    /\ op.pc \in {"blobTmp", "blobRename"} => op.kind = "register"
    /\ op.pc = "removeBlob" => op.kind = "finish"
    /\ op.pc = "metaRename" => metaTmp[op.id] = op.rec

\* Registration: no record yet, in memory or on disk, until the last rename.
RegisterInv ==
    op.kind = "register" =>
        /\ entries[op.id] = Blank
        /\ op.rec.state = "REGISTERED" /\ op.rec.cert = NoCert
        /\ op.rec.dek = op.rec.hash /\ op.rec.dek # 0
        /\ meta[op.id] = IF op.pc = "done" THEN op.rec ELSE Blank
        /\ op.pc = "blobRename" => blobTmp[op.id] = op.rec.dek
        /\ op.pc \in {"metaTmp", "metaRename", "done"} =>
             blob[op.id] = op.rec.dek /\ blobTmp[op.id] = 0

\* Edit: the record being written differs from the file in the list alone.
PutInv ==
    op.kind = "put" =>
        /\ Live(entries[op.id].state) /\ meta[op.id].state = "REGISTERED"
        /\ op.rec.state = "REGISTERED" /\ op.rec.cert = NoCert /\ entries[op.id].cert = NoCert
        /\ op.rec.dek = meta[op.id].dek /\ entries[op.id].dek = meta[op.id].dek
        /\ op.rec.hash = meta[op.id].hash /\ entries[op.id].hash = meta[op.id].hash

\* Deletion up to its commit point: the key is held for the error path only.
DeleteInv ==
    op.kind = "delete" =>
        /\ entries[op.id].state = "DELETING"
        /\ entries[op.id].dek = 0 /\ entries[op.id].cert = NoCert
        /\ op.rec.state = "DELETING" /\ op.rec.dek = 0 /\ op.rec.cert = NoCert
        /\ op.pc = "done" => meta[op.id] = op.rec
        /\ op.pc # "done" => /\ meta[op.id].state = "REGISTERED"
                             /\ op.undo.dek = meta[op.id].dek
                             /\ entries[op.id].hash = meta[op.id].hash

\* After the commit point: the blob goes before there is a certificate.
FinishInv ==
    op.kind = "finish" =>
        /\ entries[op.id].dek = 0
        /\ meta[op.id].state = IF op.pc = "done" THEN "DELETED" ELSE "DELETING"
        /\ op.pc = "removeBlob" => entries[op.id].state = "DELETING" /\ entries[op.id].cert = NoCert
        /\ op.pc # "removeBlob" => op.rec = entries[op.id] /\ op.rec.state = "DELETED"

\* A record no operation is at work on: memory agrees with the file.
AtRest(e, m) ==
    \/ e = Blank /\ m = Blank
    \/ /\ Live(e.state) /\ m.state = "REGISTERED"
       /\ e.dek = m.dek /\ e.hash = m.hash /\ e.cert = NoCert
    \/ e.state = "DELETING" /\ m.state = "DELETING" /\ e.dek = 0 /\ e.cert = NoCert
    \/ e.state = "DELETED" /\ Gone(m.state) /\ e.dek = 0

RestInv == mode # "down" => \A id \in Ids : op.id # id => AtRest(entries[id], meta[id])

\* What each file says, whatever the process does.
FileInv(id) ==
    /\ meta[id].state # "IN_USE" /\ metaTmp[id].state # "IN_USE"
    /\ meta[id].state = "ABSENT" => meta[id] = Blank
    /\ meta[id].state = "REGISTERED" =>
         blob[id] = meta[id].dek /\ meta[id].dek = meta[id].hash /\ meta[id].dek # 0
    /\ Gone(meta[id].state) => meta[id].dek = 0 /\ metaTmp[id].dek = 0
    /\ meta[id].state # "ABSENT" => blobTmp[id] = 0
    /\ meta[id].state # "DELETED" => meta[id].cert = NoCert

\* A certificate exists only for a record whose blob is gone for good.
CertInv(id) ==
    /\ meta[id].state = "DELETED" \/ entries[id].state = "DELETED" => blob[id] = 0
    /\ shown[id] # {} => Gone(meta[id].state) /\ blob[id] = 0
    /\ entries[id].cert # NoCert => entries[id].state = "DELETED"

IInv ==
    /\ TypeOK
    /\ UseIsExclusive
    /\ ModeInv /\ OpInv /\ RegisterInv /\ PutInv /\ DeleteInv /\ FinishInv
    /\ RestInv
    /\ \A id \in Ids : FileInv(id) /\ CertInv(id)

-----------------------------------------------------------------------------
(* What clients were told.  The second part of the invariant follows whole *)
(* records, and says what memory and disk owe to the answers given.        *)

\* A record no operation is at work on: the file's, but for its use by an
\* execution and for a deletion whose last write failed.
Settled(e, m) ==
    \/ e = m
    \/ e = [m EXCEPT !.state = "IN_USE"] /\ m.state = "REGISTERED"
    \/ e.state = "DELETED" /\ m.state = "DELETING"

SettledInv == mode # "down" => \A id \in Ids : op.id # id => Settled(entries[id], meta[id])

\* The error path of an edit or a deletion brings back a settled record, its
\* success leaves one.
PutTells ==
    op.kind = "put" =>
        /\ Live(op.undo.state)
        /\ entries[op.id] = [op.undo EXCEPT !.allowed = op.rec.allowed]
        /\ op.rec = Persisted(entries[op.id])
        /\ IF op.pc = "done" THEN meta[op.id] = op.rec ELSE Settled(op.undo, meta[op.id])

DeleteTells ==
    op.kind = "delete" =>
        /\ entries[op.id] = op.rec
        /\ op.pc # "done" => op.undo = meta[op.id] /\ op.rec = Shredded(op.undo)

\* The certificate of a DELETE in progress is the first one any client sees.
FinishTells ==
    /\ op.kind = "finish" => entries[op.id].allowed = meta[op.id].allowed
    /\ op.kind = "finish" /\ op.pc \in {"removeBlob", "done"} => entries[op.id] = meta[op.id]
    /\ op.kind = "delete" \/ (op.kind = "finish" /\ mode = "up") => shown[op.id] = {}

\* Recovery has interrupted deletions left only in the records still to treat.
BootTells ==
    mode = "boot" => \A id \in Ids :
        entries[id].state = "DELETING" => id \in todo \/ op.id = id

\* The list in effect is one that was promised, but for an edit in progress.
ListInv(id) ==
    IF op.id = id /\ op.kind \in {"register", "put"}
    THEN op.kind = "put" => op.undo.allowed \in promised[id]
    ELSE /\ meta[id] # Blank => meta[id].allowed \in promised[id]
         /\ Exists(id) => entries[id].allowed \in promised[id]

GrantInv(id) ==
    \A cert \in granted[id] :
        meta[id].state = "DELETED" /\ meta[id].cert = cert /\ shown[id] = {cert}

\* The next answer about a record is not behind the last one.
ObservedInv(id) ==
    /\ observed[id] = 1 => meta[id].state # "ABSENT"
    /\ observed[id] > 1 => Gone(meta[id].state)
    /\ mode = "up" => observed[id] <= Rank[entries[id].state]

PromiseInv ==
    /\ SettledInv /\ PutTells /\ DeleteTells /\ FinishTells /\ BootTells
    /\ \A id \in Ids : ListInv(id) /\ GrantInv(id) /\ ObservedInv(id)

=============================================================================
