------------------------------- MODULE PowerLoss -------------------------------
(***************************************************************************)
(* The store (storage.go) on a machine that loses power.  atomicWrite,     *)
(* register, delete and finishDelete sync nothing, so what they did is in  *)
(* the operating system's memory until it is written back.  log has the    *)
(* file operations that are not on the disk yet, each with the files as it *)
(* left them; a power loss keeps a beginning of them, and a write that was *)
(* under way may leave a torn file.  An ordered file system writes the     *)
(* content of a file before a rename of it.  On one that does not, a       *)
(* rename can be on the disk before its content, and the file is torn      *)
(* under its proper name.  Failures of file operations are in Lifecycle.   *)
(***************************************************************************)
EXTENDS Naturals, Sequences

CONSTANTS
    Ids,
    MaxLosses       \* bound: power losses and kills of the process

\* What the constants have to be.
PowerBounds == MaxLosses \in Nat /\ Ids # {}

VARIABLES
    disk,       \* files as they are on the disk
    log,        \* file operations since, in their order, and what they made of the files
    plan,       \* file operations the process has still to make, under lm.mu
    answers,    \* what the client is told of whom when they are made
    told,       \* what clients were told of each piece of data
    mode,       \* "down", "boot", "up", or "broken": a record could not be read
    losses,
    ordered     \* whether the file system is ordered

vars == <<disk, log, plan, answers, told, mode, losses, ordered>>

\* blob and meta files, each with its .tmp.
Names    == Ids \X {"blob", "meta", "blob.tmp", "meta.tmp"}
Contents == {"none", "torn", "sealed", "REGISTERED", "DELETING", "DELETED"}
Ops      == [kind : {"write", "rename", "remove"}, id : Ids, file : {"blob", "meta"},
             content : Contents]

Blob(id) == <<id, "blob">>
Meta(id) == <<id, "meta">>
Tmp(op)  == <<op.id, IF op.file = "blob" THEN "blob.tmp" ELSE "meta.tmp">>

\* Variant: files are written under their proper name.
ApplyInPlace(files, op) ==
    CASE op.kind = "write"  -> [files EXCEPT ![<<op.id, op.file>>] = op.content]
      [] op.kind = "rename" -> files
      [] op.kind = "remove" -> [files EXCEPT ![<<op.id, op.file>>] = "none"]

\* What an operation makes of the files.
Apply(files, op) ==
    CASE op.kind = "write"  -> [files EXCEPT ![Tmp(op)] = op.content]
      [] op.kind = "rename" -> [files EXCEPT ![<<op.id, op.file>>] = files[Tmp(op)], ![Tmp(op)] = "none"]
      [] op.kind = "remove" -> [files EXCEPT ![<<op.id, op.file>>] = "none"]

\* The files after the first n operations of the log.
After(n) == IF n = 0 THEN disk ELSE log[n].files

\* The files as processes see them.
Files == After(Len(log))

TypeOK ==
    /\ disk \in [Names -> Contents]
    /\ log \in Seq([op : Ops, files : [Names -> Contents]]) /\ plan \in Seq(Ops)
    /\ answers \in [id : Ids, state : {"REGISTERED", "DELETED"}]
    /\ told \in [Ids -> {"nothing", "asked", "REGISTERED", "DELETED"}]
    /\ mode \in {"down", "boot", "up", "broken"} /\ losses \in Nat /\ ordered \in BOOLEAN

Init ==
    /\ disk = [name \in Names |-> "none"] /\ log = <<>> /\ plan = <<>>
    /\ answers = [id |-> CHOOSE id \in Ids : TRUE, state |-> "REGISTERED"]
    /\ told = [id \in Ids |-> "nothing"] /\ mode = "up" /\ losses = 0
    /\ ordered \in BOOLEAN

-----------------------------------------------------------------------------
(* The operations as sequences of file operations                          *)

Op(kind, id, file, content) == [kind |-> kind, id |-> id, file |-> file, content |-> content]

\* Variant: the old file makes room first.
WriteOverRemoved(id, file, content) ==
    <<Op("remove", id, file, "none"), Op("write", id, file, content), Op("rename", id, file, "none")>>

\* atomicWrite.
AtomicWrite(id, file, content) ==
    <<Op("write", id, file, content), Op("rename", id, file, "none")>>

FinishDelete(id) == <<Op("remove", id, "blob", "none")>> \o AtomicWrite(id, "meta", "DELETED")

\* Variant: the blob is gone before the record says so.
EraseFirst(id) == FinishDelete(id) \o AtomicWrite(id, "meta", "DELETING") \o FinishDelete(id)

Delete(id) == AtomicWrite(id, "meta", "DELETING") \o FinishDelete(id)

Register(id) == AtomicWrite(id, "blob", "sealed") \o AtomicWrite(id, "meta", "REGISTERED")

-----------------------------------------------------------------------------

Idle == mode = "up" /\ plan = <<>>

Starts(id, state, operations) ==
    /\ Idle /\ plan' = operations
    /\ answers' = [id |-> id, state |-> state]
    /\ UNCHANGED <<disk, log, mode, losses, ordered>>

\* Every registration has an ID of its own.
BeginRegister(id) ==
    /\ told[id] = "nothing" /\ told' = [told EXCEPT ![id] = "asked"]
    /\ Starts(id, "REGISTERED", Register(id))

\* A client deletes what it knows of, again if it is back.
BeginDelete(id) ==
    /\ told[id] \in {"REGISTERED", "DELETED"} /\ Files[Meta(id)] = "REGISTERED"
    /\ Starts(id, "DELETED", Delete(id)) /\ UNCHANGED told

\* The next file operation; after the last one the client has its answer.
Step ==
    /\ plan # <<>> /\ plan' = Tail(plan)
    /\ log' = Append(log, [op |-> Head(plan), files |-> Apply(Files, Head(plan))])
    /\ told' = IF mode = "up" /\ Len(plan) = 1
               THEN [told EXCEPT ![answers.id] = answers.state] ELSE told
    /\ UNCHANGED <<disk, answers, mode, losses, ordered>>

\* The operating system has written everything back.
WriteBack ==
    /\ log # <<>> /\ log' = <<>> /\ disk' = Files
    /\ UNCHANGED <<plan, answers, told, mode, losses, ordered>>

\* The n-th operation was a write, of which a part reached the disk.
Torn(n) == Apply(After(n - 1), [log[n].op EXCEPT !.content = "torn"])

\* The files that the first n operations have renamed and not removed.
Renamed(n) ==
    {name \in {<<log[i].op.id, log[i].op.file>> : i \in {j \in 1..n : log[j].op.kind = "rename"}} :
       After(n)[name] # "none"}

\* The first n operations are on the disk, but for the content of late.
Behind(n, late) == [name \in Names |-> IF name \in late THEN "torn" ELSE After(n)[name]]

\* The first n operations reach the disk, the last one perhaps in part; without their
\* content, if the file system is not ordered.
PowerLoss ==
    /\ losses < MaxLosses /\ losses' = losses + 1
    /\ \E n \in 0..Len(log) :
         \/ disk' = After(n)
         \/ n > 0 /\ log[n].op.kind = "write" /\ disk' = Torn(n)
         \/ ~ordered /\ \E late \in SUBSET Renamed(n) : disk' = Behind(n, late)
    /\ log' = <<>> /\ plan' = <<>> /\ mode' = "down"
    /\ UNCHANGED <<answers, told, ordered>>

\* The process alone is killed.
Crash ==
    /\ mode \in {"boot", "up"} /\ mode' = "down" /\ plan' = <<>>
    /\ losses < MaxLosses /\ losses' = losses + 1
    /\ UNCHANGED <<disk, log, answers, told, ordered>>

\* loadMetas fails on a record that it cannot read.
Start ==
    /\ mode = "down"
    /\ mode' = IF \E id \in Ids : Files[Meta(id)] = "torn" THEN "broken" ELSE "boot"
    /\ UNCHANGED <<disk, log, plan, answers, told, losses, ordered>>

\* newLifecycleManager finishes the deletions that it finds begun.
Recover(id) ==
    /\ mode = "boot" /\ plan = <<>> /\ Files[Meta(id)] = "DELETING"
    /\ plan' = FinishDelete(id)
    /\ UNCHANGED <<disk, log, answers, told, mode, losses, ordered>>

Serve ==
    /\ mode = "boot" /\ plan = <<>> /\ \A id \in Ids : Files[Meta(id)] # "DELETING"
    /\ mode' = "up"
    /\ UNCHANGED <<disk, log, plan, answers, told, losses, ordered>>

Next ==
    \/ \E id \in Ids : BeginRegister(id) \/ BeginDelete(id) \/ Recover(id)
    \/ Step \/ WriteBack \/ PowerLoss \/ Crash \/ Start \/ Serve

Spec == Init /\ [][Next]_vars

-----------------------------------------------------------------------------
(* Properties                                                              *)

\* On an ordered file system no file is torn under its proper name, whatever was lost
\* (atomicWrite: what was begun does not stay under the proper name). On any, the server
\* does not start with a torn record, nor makes one (loadMetas).
ProperFilesAreWhole ==
    /\ ordered => \A id \in Ids : Files[Blob(id)] # "torn" /\ Files[Meta(id)] # "torn"
    /\ mode \in {"boot", "up"} => \A id \in Ids : Files[Meta(id)] # "torn"

\* On an ordered file system a record that has its key has its blob: the order of
\* operations is enough, over a power loss too, because a later one is not kept without
\* an earlier one (register writes the blob first, delete removes it last).
KeyHasItsBlob ==
    ordered /\ mode = "up" /\ plan = <<>> =>
        \A id \in Ids : Files[Meta(id)] = "REGISTERED" => Files[Blob(id)] = "sealed"

Age == [content \in Contents |-> CASE content = "REGISTERED" -> 1 [] content = "DELETING" -> 2
                                   [] content = "DELETED" -> 3 [] OTHER -> 0]

\* On an ordered file system a record on the disk is replaced by a later one of the same
\* data only, and is never missing meanwhile: what is durable is not undone by what
\* follows.
DiskMovesForward ==
    [][ordered => \A id \in Ids : Age[disk'[Meta(id)]] >= Age[disk[Meta(id)]]]_vars

=============================================================================
