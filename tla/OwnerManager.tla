----------------------------- MODULE OwnerManager -----------------------------
(***************************************************************************)
(* The owner's key (owner.go): the first key registered is the owner for   *)
(* good (trust on first use), kept in owner.json (storage.go) and read by  *)
(* every command (authenticateCommand).  ownerManager.mu is held for the   *)
(* whole of register, its two file operations included.                    *)
(***************************************************************************)
EXTENDS Naturals

CONSTANTS
    Keys,         \* public keys
    NoKey,        \* no owner
    Torn,         \* a file cut short
    MaxFaults,    \* bound: file operations that fail
    MaxCrashes    \* bound: times the process is killed

ASSUME OwnerKeys == NoKey \notin Keys /\ Torn \notin Keys /\ Torn # NoKey
ASSUME OwnerBounds == MaxFaults \in Nat /\ MaxCrashes \in Nat

VARIABLES
    up,         \* the process serves requests
    rec,        \* ownerManager.rec
    op,         \* the registration that holds ownerManager.mu
    file,       \* owner.json
    tmp,        \* owner.json.tmp
    faults, crashes,
    accepted,   \* keys whose registration was answered 201
    refused,    \* keys whose last registration failed to be written
    obeyed      \* keys that commands were checked against

vars == <<up, rec, op, file, tmp, faults, crashes, accepted, refused, obeyed>>

Idle == [pc |-> "idle", key |-> NoKey]

TypeOK ==
    /\ up \in BOOLEAN
    /\ rec \in Keys \cup {NoKey}
    /\ op \in [pc : {"write", "rename", "done"}, key : Keys] \cup {Idle}
    /\ file \in Keys \cup {NoKey, Torn}
    /\ tmp \in Keys \cup {NoKey, Torn}
    /\ faults \in Nat /\ crashes \in Nat
    /\ accepted \subseteq Keys /\ refused \subseteq Keys /\ obeyed \subseteq Keys

Init ==
    /\ up = FALSE /\ rec = NoKey /\ op = Idle
    /\ file = NoKey /\ tmp = NoKey
    /\ faults = 0 /\ crashes = 0
    /\ accepted = {} /\ refused = {} /\ obeyed = {}

\* Variants: the .tmp file is read, unparsed, when there is no other; nothing is read.
LoadedFromTmp == IF file = NoKey THEN tmp ELSE file
LoadedNothing == NoKey

\* No file is no owner yet.
Loaded == file

\* A file that cannot be parsed keeps the process from starting.
Boot ==
    /\ ~up /\ file # Torn
    /\ up' = TRUE /\ rec' = Loaded
    /\ UNCHANGED <<op, file, tmp, faults, crashes, accepted, refused, obeyed>>

\* POST /owner.
Register(key) ==
    /\ up /\ op = Idle /\ rec = NoKey
    /\ op' = [pc |-> "write", key |-> key]
    /\ refused' = refused \ {key}
    /\ UNCHANGED <<up, rec, file, tmp, faults, crashes, accepted, obeyed>>

WriteTmp ==
    /\ op.pc = "write"
    /\ tmp' = op.key
    /\ op' = [op EXCEPT !.pc = "rename"]
    /\ UNCHANGED <<up, rec, file, faults, crashes, accepted, refused, obeyed>>

Rename ==
    /\ op.pc = "rename"
    /\ file' = tmp /\ tmp' = NoKey
    /\ op' = [op EXCEPT !.pc = "done"]
    /\ UNCHANGED <<up, rec, faults, crashes, accepted, refused, obeyed>>

\* The key is in place: it is taken into memory and answered 201.
Registered ==
    /\ op.pc = "done"
    /\ rec' = op.key /\ op' = Idle
    /\ accepted' = accepted \cup {op.key}
    /\ UNCHANGED <<up, file, tmp, faults, crashes, refused, obeyed>>

\* What a file operation that fails leaves under the .tmp name. A failed
\* rename is followed by a Remove, which may fail too.
TornTmp == IF op.pc = "write" THEN {tmp, Torn, op.key} ELSE {tmp, NoKey}

\* Variant: the key is taken into memory before the file is written.
FailAfterSet ==
    /\ op.pc \in {"write", "rename"} /\ faults < MaxFaults /\ faults' = faults + 1
    /\ tmp' \in TornTmp
    /\ op' = Idle
    /\ rec' = op.key
    /\ refused' = refused \cup {op.key}
    /\ UNCHANGED <<up, file, crashes, accepted, obeyed>>

\* Either file operation fails: the registration is answered with an error.
Fail ==
    /\ op.pc \in {"write", "rename"} /\ faults < MaxFaults /\ faults' = faults + 1
    /\ tmp' \in TornTmp
    /\ op' = Idle
    /\ refused' = refused \cup {op.key}
    /\ UNCHANGED <<up, rec, file, crashes, accepted, obeyed>>

\* A command is let through to the check of its signer against the owner.
Command ==
    /\ up /\ op = Idle /\ rec # NoKey
    /\ obeyed' = obeyed \cup {rec}
    /\ UNCHANGED <<up, rec, op, file, tmp, faults, crashes, accepted, refused>>

\* The process is killed, perhaps in the middle of a WriteFile.
Crash ==
    /\ up /\ crashes < MaxCrashes
    /\ crashes' = crashes + 1
    /\ up' = FALSE /\ rec' = NoKey /\ op' = Idle
    /\ IF op.pc = "write" THEN tmp' \in TornTmp ELSE UNCHANGED tmp
    /\ UNCHANGED <<file, faults, accepted, refused, obeyed>>

Next ==
    \/ Boot \/ Crash \/ Command
    \/ \E key \in Keys : Register(key)
    \/ WriteTmp \/ Rename \/ Registered \/ Fail

Spec == Init /\ [][Next]_vars

-----------------------------------------------------------------------------

\* Trust on first use: the key whose registration was answered 201 is the one
\* in the file ever after, and commands are checked against no other, over any
\* number of restarts. So there is never a second owner (register, loadOwner).
OwnerIsLasting == \A key \in accepted \cup obeyed : file = key

\* A key whose registration was answered with a write error is not the owner,
\* now or after a restart, unless it is registered again.
RefusedIsNotOwner == rec \notin refused /\ file \notin refused

=============================================================================
