---------------------------- MODULE ProgramRegistry ----------------------------
(***************************************************************************)
(* The registry of uploaded WASM programs (programs.go) over its files     *)
(* programs/<id>.bin and programs/<id>.json (storage.go).  An id is the   *)
(* hash of the binary, so a file holds the binary or it does not.          *)
(* programRegistry.mu is held for the whole of put, get and delete; each   *)
(* file operation is a step, which can fail or be cut short by a crash.    *)
(***************************************************************************)
EXTENDS Naturals, Sequences

CONSTANTS
    Programs,     \* program ids
    MaxFaults,    \* bound: file operations that fail
    MaxCrashes    \* bound: times the process is killed

\* What the constants have to be.
RegistryBounds == MaxFaults \in Nat /\ MaxCrashes \in Nat

VARIABLES
    up,         \* the process serves requests
    entries,    \* programRegistry.entries
    op,         \* the operation that holds programRegistry.mu
    file,       \* the files of each kind
    tmp,        \* their .tmp files
    faults, crashes,
    told        \* what the last answer about a program makes certain

vars == <<up, entries, op, file, tmp, faults, crashes, told>>

Kinds   == {"blob", "meta"}
Content == {"none", "torn", "whole"}
Files   == [Kinds -> [Programs -> Content]]

\* left: the files the operation has still to write or to remove.
Operation == [kind : {"put", "delete"}, pc : {"write", "rename", "remove", "done"}, id : Programs,
              left : {<<>>, <<"blob">>, <<"meta">>, <<"blob", "meta">>, <<"meta", "blob">>}]
Idle      == [pc |-> "idle"]

TypeOK ==
    /\ up \in BOOLEAN
    /\ entries \subseteq Programs
    /\ op \in Operation \cup {Idle}
    /\ file \in Files /\ tmp \in Files
    /\ faults \in Nat /\ crashes \in Nat
    /\ told \in [Programs -> {"unknown", "there", "gone"}]

Empty == [kind \in Kinds |-> [id \in Programs |-> "none"]]

Init ==
    /\ up = FALSE /\ entries = {} /\ op = Idle
    /\ file = Empty /\ tmp = Empty
    /\ faults = 0 /\ crashes = 0
    /\ told = [id \in Programs |-> "unknown"]

Serving == up /\ op = Idle
Tell(id, what) == told' = [told EXCEPT ![id] = what]

\* Variants: the files are written in the other order; the entry goes with the
\* blob.
PutOrderReversed == <<"meta", "blob">>
EntryGoesWithBlob == "blob"

Loaded == {id \in Programs : file["meta"][id] = "whole"}
PutOrder == <<"blob", "meta">>
DeleteOrder == <<"meta", "blob">>
EntryGoesWith == "meta"

\* Metadata that cannot be parsed keeps the process from starting.
Boot ==
    /\ ~up /\ \A id \in Programs : file["meta"][id] # "torn"
    /\ up' = TRUE /\ entries' = Loaded
    /\ UNCHANGED <<op, file, tmp, faults, crashes, told>>

\* POST /programs: a known program is left as it is.
Put(id) ==
    /\ Serving /\ id \notin entries
    /\ op' = [kind |-> "put", pc |-> "write", id |-> id, left |-> PutOrder]
    /\ Tell(id, "unknown")
    /\ UNCHANGED <<up, entries, file, tmp, faults, crashes>>

PutKnown(id) ==
    /\ Serving /\ id \in entries
    /\ Tell(id, "there")
    /\ UNCHANGED <<up, entries, op, file, tmp, faults, crashes>>

\* DELETE /programs/{id}.
Delete(id) ==
    /\ Serving /\ id \in entries
    /\ op' = [kind |-> "delete", pc |-> "remove", id |-> id, left |-> DeleteOrder]
    /\ Tell(id, "unknown")
    /\ UNCHANGED <<up, entries, file, tmp, faults, crashes>>

\* POST /execute, or DELETE, of a program the registry does not have: a 404.
NotFound(id) ==
    /\ Serving /\ id \notin entries
    /\ Tell(id, "gone")
    /\ UNCHANGED <<up, entries, op, file, tmp, faults, crashes>>

\* get: the binary is read back and its hash compared with the id.
Get(id) ==
    /\ Serving /\ id \in entries /\ file["blob"][id] = "whole"
    /\ Tell(id, "there")
    /\ UNCHANGED <<up, entries, op, file, tmp, faults, crashes>>

-----------------------------------------------------------------------------
(* File operations                                                         *)

Current == Head(op.left)

\* Go on with the next file.
Advance(pc) == op' = [op EXCEPT !.pc = IF Len(op.left) = 1 THEN "done" ELSE pc, !.left = Tail(@)]

WriteTmp ==
    /\ op.pc = "write"
    /\ tmp' = [tmp EXCEPT ![Current][op.id] = "whole"]
    /\ op' = [op EXCEPT !.pc = "rename"]
    /\ UNCHANGED <<up, entries, file, faults, crashes, told>>

Rename ==
    /\ op.pc = "rename"
    /\ file' = [file EXCEPT ![Current][op.id] = tmp[Current][op.id]]
    /\ tmp' = [tmp EXCEPT ![Current][op.id] = "none"]
    /\ Advance("write")
    /\ UNCHANGED <<up, entries, faults, crashes, told>>

\* A file that is not there counts as removed.
Remove ==
    /\ op.pc = "remove"
    /\ file' = [file EXCEPT ![Current][op.id] = "none"]
    /\ entries' = IF Current = EntryGoesWith THEN entries \ {op.id} ELSE entries
    /\ Advance("remove")
    /\ UNCHANGED <<up, tmp, faults, crashes, told>>

\* An upload enters memory; either operation is answered.
Answer ==
    /\ op.pc = "done" /\ op' = Idle
    /\ entries' = IF op.kind = "put" THEN entries \cup {op.id} ELSE entries
    /\ Tell(op.id, IF op.kind = "put" THEN "there" ELSE "gone")
    /\ UNCHANGED <<up, file, tmp, faults, crashes>>

\* The operation ends with an error. After a failed upload the program is not
\* there; after a failed deletion it may be or not.
Fail ==
    /\ faults < MaxFaults /\ faults' = faults + 1
    /\ op' = Idle
    /\ Tell(op.id, IF op.kind = "delete" THEN "unknown" ELSE "gone")
    /\ UNCHANGED <<up, entries, file, crashes>>

WriteTmpFails ==
    /\ op.pc = "write" /\ Fail
    /\ \E left \in {tmp[Current][op.id], "torn", "whole"} :
         tmp' = [tmp EXCEPT ![Current][op.id] = left]

\* A failed rename is followed by a Remove of the .tmp file, which may fail too.
RenameFails ==
    /\ op.pc = "rename" /\ Fail
    /\ \E left \in {tmp[Current][op.id], "none"} :
         tmp' = [tmp EXCEPT ![Current][op.id] = left]

\* Variant: the error of os.Remove is not looked at.
RemoveErrorIgnored ==
    /\ op.pc = "remove" /\ faults < MaxFaults /\ faults' = faults + 1
    /\ entries' = entries \ {op.id}
    /\ Advance("remove")
    /\ UNCHANGED <<up, file, tmp, crashes, told>>

RemoveFails ==
    /\ op.pc = "remove" /\ Fail
    /\ UNCHANGED tmp

\* The process is killed, perhaps in the middle of a WriteFile.
Crash ==
    /\ up /\ crashes < MaxCrashes
    /\ crashes' = crashes + 1
    /\ up' = FALSE /\ entries' = {} /\ op' = Idle
    /\ \/ /\ op.pc = "write"
          /\ \E left \in {tmp[Current][op.id], "torn", "whole"} :
               tmp' = [tmp EXCEPT ![Current][op.id] = left]
       \/ op.pc # "write" /\ UNCHANGED tmp
    /\ UNCHANGED <<file, faults, told>>

Next ==
    \/ Boot \/ Crash
    \/ \E id \in Programs : Put(id) \/ PutKnown(id) \/ Delete(id) \/ NotFound(id) \/ Get(id)
    \/ WriteTmp \/ Rename \/ Remove \/ Answer
    \/ WriteTmpFails \/ RenameFails \/ RemoveFails

Spec == Init /\ [][Next]_vars

-----------------------------------------------------------------------------

\* A program that is listed, or that a restart would list, has its binary, so
\* get finds neither a missing nor a truncated file (order of put and delete).
ListedIsRunnable ==
    \A id \in Programs : id \in entries \/ file["meta"][id] # "none" =>
        file["blob"][id] = "whole"

\* When no operation is in progress a restart would list what is listed now.
ListedIsLasting == Serving => entries = Loaded

\* What the last answer made certain stays so until the next operation on the
\* program, over failures and crashes: a program is there, in memory and on
\* disk, or it is gone from both.
AnswersStand ==
    \A id \in Programs :
        /\ told[id] = "there" => file["meta"][id] = "whole" /\ (up => id \in entries)
        /\ told[id] = "gone" => file["meta"][id] = "none" /\ id \notin entries

=============================================================================
