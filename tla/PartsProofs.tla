------------------------------- MODULE PartsProofs ------------------------------
(***************************************************************************)
(* Proofs about the parts of MCParts, for any programs, data, passwords,   *)
(* outputs, failures and crashes.  The program registry and the prover are *)
(* proved here; what is proved of the sandbox, the vault and the store     *)
(* over power losses comes from the modules of their own proofs.           *)
(***************************************************************************)
EXTENDS MCParts, TLAPS

SP == INSTANCE SandboxProofs WITH stage <- runStage
VP == INSTANCE VaultProofs WITH
        stage <- vaultStage, Names <- VaultNames, outputCap <- MAX_FILE_BYTES,
        Passwords <- VaultPasswords, Bytes <- LineBytes, First <- FirstLines
PP == INSTANCE PowerLossProofs WITH told <- clientTold

-----------------------------------------------------------------------------
(* The program registry                                                    *)

\* The stages of the operation in progress: what it has still to do, and what that
\* says of its program.
Uploading ==
    /\ op \in Operation /\ op.kind = "put" /\ op.pc \in {"write", "rename"}
    /\ op.id \notin Loaded
    /\ \/ op.left = <<"blob", "meta">>
       \/ op.left = <<"meta">> /\ file["blob"][op.id] = "whole"
    /\ op.pc = "rename" => tmp[Head(op.left)][op.id] = "whole"

Uploaded ==
    op \in Operation /\ op.kind = "put" /\ op.pc = "done" /\ op.id \in Loaded

Removing ==
    /\ op \in Operation /\ op.kind = "delete"
    /\ \/ op.pc = "remove" /\ op.left = <<"meta", "blob">> /\ op.id \in Loaded
       \/ op.pc = "remove" /\ op.left = <<"blob">> /\ op.id \notin Loaded
       \/ op.pc = "done" /\ op.id \notin Loaded

\* Memory lists what the files do, but for an upload that is not answered yet.
ListInv ==
    /\ ~up => entries = {} /\ op = Idle
    /\ up => entries = IF Uploaded THEN Loaded \ {op.id} ELSE Loaded

FileInv ==
    \A id \in Programs :
        /\ file["meta"][id] \in {"none", "whole"}
        /\ file["meta"][id] = "whole" => file["blob"][id] = "whole"

ToldInv ==
    \A id \in Programs :
        /\ told[id] = "there" => id \in Loaded
        /\ told[id] = "gone" => id \notin Loaded
        /\ op # Idle /\ op.id = id => told[id] = "unknown"

RegistryInv ==
    /\ TypeOK /\ ListInv /\ FileInv /\ ToldInv
    /\ op = Idle \/ Uploading \/ Uploaded \/ Removing

-----------------------------------------------------------------------------

\* Setting one file of one program changes no other file.
LEMMA SetFile ==
    ASSUME NEW f \in Files, NEW k \in Kinds, NEW i \in Programs, NEW c \in Content
    PROVE  /\ [f EXCEPT ![k][i] = c] \in Files
           /\ \A kind \in Kinds, id \in Programs :
                [f EXCEPT ![k][i] = c][kind][id] = IF kind = k /\ id = i THEN c ELSE f[kind][id]
  BY DEF Files

\* The sequences that left can be.
LEMMA TwoFiles ==
    /\ Head(<<"blob", "meta">>) = "blob" /\ Tail(<<"blob", "meta">>) = <<"meta">>
    /\ Head(<<"meta", "blob">>) = "meta" /\ Tail(<<"meta", "blob">>) = <<"blob">>
    /\ Len(<<"blob", "meta">>) = 2 /\ Len(<<"meta", "blob">>) = 2
  OBVIOUS

\* Likewise for one file.
LEMMA OneFile ==
    /\ Head(<<"blob">>) = "blob" /\ Tail(<<"blob">>) = <<>> /\ Len(<<"blob">>) = 1
    /\ Head(<<"meta">>) = "meta" /\ Tail(<<"meta">>) = <<>> /\ Len(<<"meta">>) = 1
  OBVIOUS

\* An operation that goes on is of the same kind and program.
LEMMA Advanced ==
    ASSUME NEW pc \in {"write", "remove"}, op \in Operation, Advance(pc),
           Tail(op.left) \in {<<>>, <<"blob">>, <<"meta">>}
    PROVE  /\ op' \in Operation /\ op'.kind = op.kind /\ op'.id = op.id
           /\ op'.pc = (IF Len(op.left) = 1 THEN "done" ELSE pc) /\ op'.left = Tail(op.left)
           /\ op' # Idle
  BY DEF Advance, Operation, Idle

\* The registry that holds its mutex is not idle.
LEMMA IdleIsNoOperation == Idle \notin Operation
  BY DEF Idle, Operation

\* Nothing is there at first.
LEMMA RegistryInit == Init => RegistryInv
<1> SUFFICES ASSUME Init PROVE RegistryInv
  OBVIOUS
<1>1. file \in Files /\ tmp \in Files /\ \A k \in Kinds, id \in Programs : file[k][id] = "none"
  BY DEF Init, Empty, Files, Content
<1>2. Loaded = {} /\ FileInv
  BY <1>1 DEF Loaded, FileInv, Kinds
<1>3. TypeOK
  BY <1>1 DEF Init, TypeOK
<1>4. ListInv /\ ToldInv
  BY <1>2 DEF Init, ListInv, ToldInv
<1> QED BY <1>2, <1>3, <1>4 DEF RegistryInv, Init

-----------------------------------------------------------------------------
(* Requests, start and end                                                 *)

\* A start lists what the files say.
LEMMA BootStep == RegistryInv /\ Boot => RegistryInv'
<1> SUFFICES ASSUME RegistryInv, Boot PROVE RegistryInv'
  OBVIOUS
<1> USE DEF RegistryInv, Boot
<1>1. op = Idle /\ ~Uploaded
  BY IdleIsNoOperation DEF ListInv, Uploaded
<1>2. Loaded' = Loaded /\ Loaded \subseteq Programs
  BY DEF Loaded
<1>3. TypeOK'
  BY <1>2 DEF TypeOK
<1>4. ListInv'
  BY <1>1, <1>2, IdleIsNoOperation DEF ListInv, Uploaded
<1>5. FileInv' /\ ToldInv'
  BY <1>1, <1>2 DEF FileInv, ToldInv
<1> QED BY <1>1, <1>3, <1>4, <1>5

\* A request that changes neither files nor memory, and tells what they say.
LEMMA AnswerStep ==
    ASSUME RegistryInv, NEW id \in Programs, PutKnown(id) \/ NotFound(id) \/ Get(id)
    PROVE  RegistryInv'
<1> USE DEF RegistryInv, Serving, Tell
<1>1. /\ up /\ op = Idle /\ UNCHANGED <<up, entries, op, file, tmp, faults, crashes>>
      /\ Loaded' = Loaded
  BY DEF PutKnown, NotFound, Get, Loaded
<1>2. entries = Loaded
  BY <1>1, IdleIsNoOperation DEF ListInv, Uploaded
<1>3. \/ id \in entries /\ told' = [told EXCEPT ![id] = "there"]
      \/ id \notin entries /\ told' = [told EXCEPT ![id] = "gone"]
  BY DEF PutKnown, NotFound, Get
<1>4. TypeOK'
  BY <1>1, <1>3 DEF TypeOK
<1>5. ToldInv'
  BY <1>1, <1>2, <1>3 DEF ToldInv, TypeOK
<1>6. ListInv' /\ FileInv'
  BY <1>1, <1>2, IdleIsNoOperation DEF ListInv, FileInv, Uploaded
<1> QED BY <1>1, <1>4, <1>5, <1>6

\* An operation begins, and nothing is certain of its program any more.
LEMMA BeginStep ==
    ASSUME RegistryInv, NEW id \in Programs, Put(id) \/ Delete(id)
    PROVE  RegistryInv'
<1> USE DEF RegistryInv, Serving, Tell
<1>1. /\ up /\ op = Idle /\ UNCHANGED <<up, entries, file, tmp, faults, crashes>>
      /\ Loaded' = Loaded /\ told' = [told EXCEPT ![id] = "unknown"]
  BY DEF Put, Delete, Loaded
<1>2. entries = Loaded
  BY <1>1, IdleIsNoOperation DEF ListInv, Uploaded
<1>3. op' \in Operation /\ op'.id = id /\ op'.pc # "done"
  BY DEF Put, Delete, Operation, PutOrder, DeleteOrder
<1>4. TypeOK'
  BY <1>1, <1>3 DEF TypeOK
<1>5. ToldInv'
  BY <1>1, <1>3 DEF ToldInv, TypeOK
<1>6. ListInv' /\ FileInv'
  BY <1>1, <1>2, <1>3 DEF ListInv, FileInv, Uploaded
<1>7. Uploading' \/ Removing'
  BY <1>1, <1>2, <1>3 DEF Put, Delete, PutOrder, DeleteOrder, Uploading, Removing
<1> QED BY <1>4, <1>5, <1>6, <1>7

\* The process ends: what is listed is in the files, and the .tmp files say nothing.
LEMMA CrashStep == RegistryInv /\ Crash => RegistryInv'
<1> SUFFICES ASSUME RegistryInv, Crash PROVE RegistryInv'
  OBVIOUS
<1> USE DEF RegistryInv
<1>1. /\ up' = FALSE /\ entries' = {} /\ op' = Idle /\ crashes' = crashes + 1
      /\ UNCHANGED <<file, faults, told>> /\ Loaded' = Loaded
  BY DEF Crash, Loaded
<1>2. tmp' \in Files
  <2>1. CASE op.pc = "write"
    <3>1. Uploading
      BY <2>1, IdleIsNoOperation DEF Uploaded, Removing, Idle
    <3>2. Current \in Kinds /\ op.id \in Programs
      BY <3>1, TwoFiles, OneFile DEF Uploading, Operation, Current, Kinds
    <3>3. PICK remains \in Content : tmp' = [tmp EXCEPT ![Current][op.id] = remains]
      BY <2>1, <3>2 DEF Crash, TypeOK, Files, Content
    <3>4. [tmp EXCEPT ![Current][op.id] = remains] \in Files
      BY <3>2, SetFile DEF TypeOK
    <3> QED BY <3>3, <3>4
  <2>2. CASE op.pc # "write"
    BY <2>2 DEF Crash, TypeOK
  <2> QED BY <2>1, <2>2
<1>3. TypeOK'
  <2>1. up' \in BOOLEAN
    BY <1>1, Zenon
  <2> QED BY <1>1, <1>2, <2>1 DEF TypeOK
<1>4. ListInv' /\ FileInv' /\ ToldInv'
  BY <1>1 DEF ListInv, FileInv, ToldInv
<1> QED BY <1>1, <1>3, <1>4

-----------------------------------------------------------------------------
(* File operations                                                         *)

\* The first half of atomicWrite.
LEMMA WriteTmpStep == RegistryInv /\ WriteTmp => RegistryInv'
<1> SUFFICES ASSUME RegistryInv, WriteTmp PROVE RegistryInv'
  OBVIOUS
<1> USE DEF RegistryInv
<1>1. Uploading
  BY IdleIsNoOperation DEF WriteTmp, Uploaded, Removing, Idle
<1>2. Current \in Kinds /\ op.id \in Programs
  BY <1>1, TwoFiles, OneFile DEF Uploading, Operation, Current, Kinds
<1>3. /\ UNCHANGED <<up, entries, file, faults, crashes, told>> /\ Loaded' = Loaded
      /\ tmp' = [tmp EXCEPT ![Current][op.id] = "whole"]
  BY DEF WriteTmp, Loaded
<1>4. /\ op' \in Operation /\ op'.pc = "rename"
      /\ op'.kind = op.kind /\ op'.id = op.id /\ op'.left = op.left
  BY <1>1 DEF WriteTmp, Uploading, Operation
<1>5. tmp' \in Files /\ tmp'[Current][op.id] = "whole"
  <2>1. tmp \in Files /\ "whole" \in Content
    BY DEF TypeOK, Content
  <2> HIDE DEF RegistryInv
  <2> QED BY <1>2, <1>3, <2>1 DEF Files
<1>6. TypeOK'
  BY <1>3, <1>4, <1>5 DEF TypeOK
<1>7. Uploading'
  BY <1>1, <1>3, <1>4, <1>5 DEF Uploading, Current
<1>8. ~Uploaded /\ ~Uploaded'
  BY <1>1, <1>4 DEF Uploading, Uploaded
<1>9. ListInv' /\ FileInv'
  BY <1>1, <1>3, <1>8, IdleIsNoOperation DEF ListInv, FileInv, Uploading
<1>10. ToldInv'
  BY <1>1, <1>3, <1>4, IdleIsNoOperation DEF ToldInv, Uploading
<1> QED BY <1>6, <1>7, <1>9, <1>10

\* The second half: the binary first, and the metadata makes it a program.
LEMMA RenameStep == RegistryInv /\ Rename => RegistryInv'
<1> SUFFICES ASSUME RegistryInv, Rename PROVE RegistryInv'
  OBVIOUS
<1> USE DEF RegistryInv
<1>1. Uploading
  BY IdleIsNoOperation DEF Rename, Uploaded, Removing, Idle
<1>2. /\ Current \in Kinds /\ op.id \in Programs /\ op \in Operation
      /\ tmp[Current][op.id] = "whole"
  BY <1>1, TwoFiles, OneFile DEF Uploading, Operation, Current, Kinds, Rename
<1>3. /\ UNCHANGED <<up, entries, faults, crashes, told>> /\ Advance("write")
      /\ file' = [file EXCEPT ![Current][op.id] = "whole"]
      /\ tmp' = [tmp EXCEPT ![Current][op.id] = "none"]
  BY <1>2 DEF Rename
<1>4. /\ file' \in Files /\ tmp' \in Files
      /\ \A k \in Kinds, id \in Programs :
           file'[k][id] = IF k = Current /\ id = op.id THEN "whole" ELSE file[k][id]
  <2>1. [tmp EXCEPT ![Current][op.id] = "none"] \in Files
    BY <1>2, SetFile DEF TypeOK, Content
  <2>2. file \in Files /\ "whole" \in Content
    BY DEF TypeOK, Content
  <2>3. /\ file' \in Files
        /\ \A k \in Kinds, id \in Programs :
             file'[k][id] = IF k = Current /\ id = op.id THEN "whole" ELSE file[k][id]
    <3> HIDE DEF RegistryInv
    <3> QED BY <1>2, <1>3, <2>2 DEF Files
  <2> QED BY <1>3, <2>1, <2>3
<1>5. Tail(op.left) \in {<<>>, <<"blob">>, <<"meta">>}
  BY <1>1, TwoFiles, OneFile DEF Uploading
<1>6. /\ op' \in Operation /\ op'.kind = "put" /\ op'.id = op.id /\ op'.left = Tail(op.left)
      /\ op'.pc = IF Len(op.left) = 1 THEN "done" ELSE "write"
  BY <1>1, <1>2, <1>3, <1>5, Advanced DEF Uploading
<1>7. TypeOK'
  BY <1>3, <1>4, <1>6 DEF TypeOK
<1>8. ~Uploaded /\ up /\ entries = Loaded /\ told[op.id] = "unknown"
  BY <1>1, <1>2, IdleIsNoOperation DEF Uploading, Uploaded, ListInv, ToldInv
<1>9. CASE op.left = <<"blob", "meta">>
  <2>1. Current = "blob" /\ op'.left = <<"meta">> /\ op'.pc = "write"
    BY <1>6, <1>9, TwoFiles DEF Current
  <2>2. Loaded' = Loaded
    BY <1>4, <2>1 DEF Loaded, Kinds
  <2>3. Uploading' /\ ~Uploaded'
    BY <1>1, <1>2, <1>4, <1>6, <2>1, <2>2 DEF Uploading, Uploaded, Kinds
  <2>4. ListInv' /\ ToldInv'
    BY <1>3, <1>6, <1>8, <2>2, <2>3 DEF ListInv, ToldInv
  <2>5. FileInv'
    BY <1>4, <2>1 DEF FileInv, Kinds
  <2> QED BY <1>7, <2>3, <2>4, <2>5
<1>10. CASE op.left = <<"meta">>
  <2>1. Current = "meta" /\ op'.pc = "done" /\ file["blob"][op.id] = "whole"
    BY <1>1, <1>6, <1>10, OneFile, TwoFiles DEF Current, Uploading
  <2>2. Loaded' = Loaded \cup {op.id} /\ op.id \notin Loaded
    BY <1>1, <1>2, <1>4, <2>1 DEF Loaded, Kinds, Uploading
  <2>3. Uploaded'
    BY <1>6, <2>1, <2>2 DEF Uploaded
  <2>4. ListInv' /\ ToldInv'
    BY <1>3, <1>6, <1>8, <2>2, <2>3 DEF ListInv, ToldInv
  <2>5. FileInv'
    BY <1>4, <2>1 DEF FileInv, Kinds
  <2> QED BY <1>7, <2>3, <2>4, <2>5
<1> QED BY <1>1, <1>9, <1>10 DEF Uploading

\* The metadata goes first, and the entry with it; then the binary of no program.
LEMMA RemoveStep == RegistryInv /\ Remove => RegistryInv'
<1> SUFFICES ASSUME RegistryInv, Remove PROVE RegistryInv'
  OBVIOUS
<1> USE DEF RegistryInv
<1>1. Removing /\ op.pc = "remove" /\ op \in Operation
  BY IdleIsNoOperation DEF Remove, Uploaded, Uploading, Removing, Idle
<1>2. Current \in Kinds /\ op.id \in Programs
  BY <1>1, TwoFiles, OneFile DEF Removing, Operation, Current, Kinds
<1>3. /\ UNCHANGED <<up, tmp, faults, crashes, told>> /\ Advance("remove")
      /\ file' = [file EXCEPT ![Current][op.id] = "none"]
      /\ entries' = IF Current = "meta" THEN entries \ {op.id} ELSE entries
  BY DEF Remove, EntryGoesWith
<1>4. /\ file' \in Files
      /\ \A k \in Kinds, id \in Programs :
           file'[k][id] = IF k = Current /\ id = op.id THEN "none" ELSE file[k][id]
  <2>1. file \in Files /\ "none" \in Content
    BY DEF TypeOK, Content
  <2> HIDE DEF RegistryInv
  <2> QED BY <1>2, <1>3, <2>1 DEF Files
<1>5. Tail(op.left) \in {<<>>, <<"blob">>, <<"meta">>}
  BY <1>1, TwoFiles, OneFile DEF Removing
<1>6. /\ op' \in Operation /\ op'.kind = "delete" /\ op'.id = op.id /\ op'.left = Tail(op.left)
      /\ op'.pc = IF Len(op.left) = 1 THEN "done" ELSE "remove"
  BY <1>1, <1>3, <1>5, Advanced DEF Removing
<1>7. TypeOK'
  BY <1>3, <1>4, <1>6 DEF TypeOK
<1>8. ~Uploaded /\ ~Uploaded' /\ up /\ entries = Loaded /\ told[op.id] = "unknown"
  BY <1>1, <1>2, <1>6, IdleIsNoOperation DEF Removing, Uploaded, ListInv, ToldInv
<1>9. CASE op.left = <<"meta", "blob">>
  <2>1. Current = "meta" /\ op'.left = <<"blob">> /\ op'.pc = "remove"
    BY <1>6, <1>9, TwoFiles DEF Current
  <2>2. Loaded' = Loaded \ {op.id}
    BY <1>2, <1>4, <2>1 DEF Loaded, Kinds
  <2>3. Removing'
    BY <1>6, <2>1, <2>2 DEF Removing
  <2>4. FileInv'
    BY <1>2, <1>4, <2>1 DEF FileInv, Kinds
  <2>5. ListInv' /\ ToldInv'
    BY <1>3, <1>6, <1>8, <2>1, <2>2 DEF ListInv, ToldInv
  <2> QED BY <1>7, <2>3, <2>4, <2>5
<1>10. CASE op.left = <<"blob">>
  <2>1. Current = "blob" /\ op'.pc = "done" /\ op.id \notin Loaded
    BY <1>1, <1>6, <1>10, OneFile, TwoFiles DEF Current, Removing
  <2>2. Loaded' = Loaded
    BY <1>4, <2>1 DEF Loaded, Kinds
  <2>3. Removing' /\ FileInv'
    BY <1>2, <1>4, <1>6, <2>1, <2>2 DEF Removing, FileInv, Kinds, Loaded
  <2>4. ListInv' /\ ToldInv'
    BY <1>3, <1>6, <1>8, <2>1, <2>2 DEF ListInv, ToldInv
  <2> QED BY <1>7, <2>3, <2>4
<1> QED BY <1>1, <1>9, <1>10 DEF Removing

\* An operation that is done is answered.
LEMMA EndStep == RegistryInv /\ Answer => RegistryInv'
<1> SUFFICES ASSUME RegistryInv, Answer PROVE RegistryInv'
  OBVIOUS
<1> USE DEF RegistryInv
<1>1. /\ op' = Idle /\ UNCHANGED <<up, file, tmp, faults, crashes>> /\ Loaded' = Loaded
      /\ op.pc = "done"
  BY DEF Answer, Loaded
<1>2. ~Uploaded'
  BY <1>1, IdleIsNoOperation DEF Uploaded
<1>3. op # Idle /\ op \in Operation /\ op.id \in Programs
  BY <1>1, IdleIsNoOperation DEF TypeOK, Operation, Idle
<1>4. /\ up /\ entries = IF Uploaded THEN Loaded \ {op.id} ELSE Loaded
  BY <1>3 DEF ListInv
<1>5. CASE Uploaded
  <2>1. op.id \in Loaded /\ entries' = entries \cup {op.id} /\ told' = [told EXCEPT ![op.id] = "there"]
    BY <1>5 DEF Uploaded, Answer, Tell
  <2>2. entries' = Loaded
    BY <1>4, <1>5, <2>1
  <2>3. TypeOK'
    BY <1>1, <1>3, <2>1, <2>2 DEF TypeOK
  <2>4. ListInv'
    BY <1>1, <1>2, <1>4, <2>2 DEF ListInv
  <2>5. FileInv' /\ ToldInv'
    BY <1>1, <1>3, <2>1 DEF FileInv, ToldInv, TypeOK
  <2> QED BY <1>1, <2>3, <2>4, <2>5
<1>6. CASE Removing
  <2>1. op.id \notin Loaded /\ entries' = entries /\ told' = [told EXCEPT ![op.id] = "gone"]
    BY <1>1, <1>6 DEF Removing, Answer, Tell
  <2>2. ~Uploaded
    BY <2>1 DEF Uploaded
  <2>3. TypeOK'
    BY <1>1, <1>3, <2>1 DEF TypeOK
  <2>4. ListInv'
    BY <1>1, <1>2, <1>4, <2>1, <2>2 DEF ListInv
  <2>5. FileInv' /\ ToldInv'
    BY <1>1, <1>3, <2>1 DEF FileInv, ToldInv, TypeOK
  <2> QED BY <1>1, <2>3, <2>4, <2>5
<1> QED BY <1>1, <1>3, <1>5, <1>6 DEF Uploading

\* An operation that fails ends as if it had not reached its last file.
LEMMA FailStep == RegistryInv /\ (WriteTmpFails \/ RenameFails \/ RemoveFails) => RegistryInv'
<1> SUFFICES ASSUME RegistryInv, WriteTmpFails \/ RenameFails \/ RemoveFails PROVE RegistryInv'
  OBVIOUS
<1> USE DEF RegistryInv
<1>1. /\ op' = Idle /\ UNCHANGED <<up, entries, file, crashes>> /\ Loaded' = Loaded
      /\ faults' = faults + 1
      /\ told' = [told EXCEPT ![op.id] = IF op.kind = "delete" THEN "unknown" ELSE "gone"]
      /\ op.pc \in {"write", "rename", "remove"}
  BY DEF WriteTmpFails, RenameFails, RemoveFails, Fail, Tell, Loaded
<1>2. ~Uploaded /\ ~Uploaded' /\ op # Idle
  BY <1>1, IdleIsNoOperation DEF Uploaded, Idle
<1>3. Uploading \/ Removing
  BY <1>2
<1>4. op \in Operation /\ op.id \in Programs /\ Current \in Kinds
  BY <1>1, <1>3, TwoFiles, OneFile DEF Uploading, Removing, Operation, Current, Kinds
<1>5. tmp' \in Files
  <2>1. CASE RemoveFails
    BY <2>1 DEF RemoveFails, TypeOK
  <2>2. CASE WriteTmpFails \/ RenameFails
    <3>1. tmp[Current][op.id] \in Content
      BY <1>4 DEF TypeOK, Files
    <3>2. PICK remains \in Content : tmp' = [tmp EXCEPT ![Current][op.id] = remains]
      BY <2>2, <3>1 DEF WriteTmpFails, RenameFails, Content
    <3>3. [tmp EXCEPT ![Current][op.id] = remains] \in Files
      BY <1>4, SetFile DEF TypeOK
    <3> QED BY <3>2, <3>3
  <2> QED BY <2>1, <2>2
<1>6. TypeOK'
  BY <1>1, <1>4, <1>5 DEF TypeOK
<1>7. ListInv' /\ FileInv'
  BY <1>1, <1>2 DEF ListInv, FileInv
<1>8. ToldInv'
  <2>1. op.kind = "delete" \/ op.id \notin Loaded
    BY <1>3 DEF Uploading, Removing
  <2> QED BY <1>1, <1>4, <2>1 DEF ToldInv, TypeOK
<1> QED BY <1>1, <1>6, <1>7, <1>8

-----------------------------------------------------------------------------
(* The invariant and what follows from it                                  *)

\* Every step keeps the invariant.
LEMMA RegistryStep == RegistryInv /\ [Next]_vars => RegistryInv'
<1> SUFFICES ASSUME RegistryInv, [Next]_vars PROVE RegistryInv'
  OBVIOUS
<1>1. CASE Boot
  BY <1>1, BootStep
<1>2. CASE Crash
  BY <1>2, CrashStep
<1>3. CASE \E id \in Programs : Put(id) \/ PutKnown(id) \/ Delete(id) \/ NotFound(id) \/ Get(id)
  <2>1. PICK id \in Programs : Put(id) \/ PutKnown(id) \/ Delete(id) \/ NotFound(id) \/ Get(id)
    BY <1>3
  <2>2. CASE Put(id) \/ Delete(id)
    BY <2>2, BeginStep
  <2>3. CASE PutKnown(id) \/ NotFound(id) \/ Get(id)
    BY <2>3, AnswerStep
  <2> QED BY <2>1, <2>2, <2>3
<1>4. CASE WriteTmp
  BY <1>4, WriteTmpStep
<1>5. CASE Rename
  BY <1>5, RenameStep
<1>6. CASE Remove
  BY <1>6, RemoveStep
<1>7. CASE Answer
  BY <1>7, EndStep
<1>8. CASE WriteTmpFails \/ RenameFails \/ RemoveFails
  BY <1>8, FailStep
<1>9. CASE UNCHANGED vars
  BY <1>9 DEF vars, RegistryInv, TypeOK, ListInv, FileInv, ToldInv, Uploading, Uploaded,
              Removing, Loaded
<1> QED BY <1>1, <1>2, <1>3, <1>4, <1>5, <1>6, <1>7, <1>8, <1>9 DEF Next

\* So the invariant always holds.
LEMMA RegistryInvariant == Spec => []RegistryInv
  BY RegistryInit, RegistryStep, PTL DEF Spec

\* The registry's state has its type, whatever fails and whenever it is killed.
THEOREM RegistryTypes == Spec => []TypeOK
<1>1. RegistryInv => TypeOK
  BY DEF RegistryInv
<1> QED BY <1>1, RegistryInvariant, PTL

\* A program that is listed, or that a restart would list, has its whole binary: put
\* writes the metadata last and delete removes it first, over failures and crashes.
THEOREM RunnablePrograms == Spec => []ListedIsRunnable
<1>1. RegistryInv => ListedIsRunnable
  <2> SUFFICES ASSUME RegistryInv, NEW id \in Programs,
                      id \in entries \/ file["meta"][id] # "none"
               PROVE  file["blob"][id] = "whole"
    BY DEF ListedIsRunnable
  <2>1. entries \subseteq Loaded
    BY DEF RegistryInv, ListInv, TypeOK
  <2>2. file["meta"][id] = "whole"
    BY <2>1 DEF Loaded, RegistryInv, FileInv
  <2> QED BY <2>2 DEF RegistryInv, FileInv
<1> QED BY <1>1, RegistryInvariant, PTL

\* With no operation in progress, memory lists exactly what a restart would.
THEOREM LastingList == Spec => []ListedIsLasting
<1>1. RegistryInv => ListedIsLasting
  BY IdleIsNoOperation DEF RegistryInv, ListInv, Uploaded, ListedIsLasting, Serving
<1> QED BY <1>1, RegistryInvariant, PTL

\* What put, get and delete have answered of a program stands until the next operation
\* on it, over failures of other operations and over crashes.
THEOREM LastingAnswers == Spec => []AnswersStand
<1>1. RegistryInv => AnswersStand
  <2> SUFFICES ASSUME RegistryInv, NEW id \in Programs
               PROVE  /\ told[id] = "there" => file["meta"][id] = "whole" /\ (up => id \in entries)
                      /\ told[id] = "gone" => file["meta"][id] = "none" /\ id \notin entries
    BY DEF AnswersStand
  <2>1. Uploaded => op # Idle
    BY IdleIsNoOperation DEF Uploaded
  <2>2. ASSUME told[id] = "there"
        PROVE  file["meta"][id] = "whole" /\ (up => id \in entries)
    <3>1. id \in Loaded
      BY <2>2 DEF RegistryInv, ToldInv
    <3>2. ~(Uploaded /\ op.id = id)
      BY <2>1, <2>2 DEF RegistryInv, ToldInv
    <3> QED BY <3>1, <3>2 DEF RegistryInv, ListInv, Loaded
  <2>3. ASSUME told[id] = "gone"
        PROVE  file["meta"][id] = "none" /\ id \notin entries
    <3>1. id \notin Loaded
      BY <2>3 DEF RegistryInv, ToldInv
    <3>2. file["meta"][id] = "none"
      BY <3>1 DEF RegistryInv, FileInv, Loaded
    <3> QED BY <3>1, <3>2 DEF RegistryInv, ListInv
  <2> QED BY <2>2, <2>3
<1> QED BY <1>1, RegistryInvariant, PTL

-----------------------------------------------------------------------------
(* The prover                                                              *)

\* A process has, once it issues certificates, a quote of its own key or none.
DeviceInv ==
    /\ proverStage = "key" => key < MaxStarts
    /\ proverStage \in {"key", "report"} => quote = A!None
    /\ proverStage = "quote" => quote = A!None /\ reportData = key
    /\ quote # A!None => quote = key /\ measured

\* Nothing was deleted in a file that memory does not know of.
RecordInv == \A id \in Ids : memory[id].state = "live" => metaFile[id].state = "live"

\* Certificates verify wherever they are kept.
KeptInv ==
    /\ \A id \in Ids : memory[id].state = "deleted" => A!Verifies(memory[id].certificate)
    /\ \A id \in Ids : metaFile[id].state = "deleted" => A!Verifies(metaFile[id].certificate)
    /\ A!AuditPasses

CertInv == A!TypeOK /\ DeviceInv /\ RecordInv /\ KeptInv

-----------------------------------------------------------------------------

\* A record of a kind can be put in place of another.
LEMMA RecordKinds ==
    /\ A!Live \in A!Record /\ A!Live.state = "live"
    /\ [state |-> "deleting", certificate |-> NoCertificate] \in A!Record
    /\ \A certificate \in A!Certificate :
         [state |-> "deleted", certificate |-> certificate] \in A!Record
    /\ \A record \in A!Record : /\ record.state = "deleted" => record.certificate \in A!Certificate
                              /\ record.state = "live" => record = A!Live
  BY DEF A!Record, A!Live

\* Before the first process has drawn its key.
LEMMA CertInit == A!AttestationBounds /\ A!Init => CertInv
<1> SUFFICES ASSUME A!AttestationBounds, A!Init PROVE CertInv
  OBVIOUS
<1>1. memory \in [Ids -> A!Record] /\ metaFile = memory /\ \A id \in Ids : memory[id].state = "live"
  BY RecordKinds DEF A!Init
<1>2. A!TypeOK
  <2>1. measured \in BOOLEAN
    BY Zenon DEF A!Init
  <2> QED BY <1>1, <2>1 DEF A!Init, A!TypeOK, A!Keys, A!None, A!AttestationBounds
<1>3. DeviceInv
  BY DEF A!Init, DeviceInv, A!None, A!AttestationBounds
<1>4. RecordInv /\ KeptInv
  BY <1>1 DEF A!Init, RecordInv, KeptInv, A!AuditPasses
<1> QED BY <1>2, <1>3, <1>4 DEF CertInv

\* newProver and the ends and starts of processes leave certificates alone.
LEMMA DeviceStep ==
    A!AttestationBounds /\ CertInv /\ (A!GenerateKey \/ A!WriteReportData \/ A!ReadQuote \/ A!Serve \/ A!Crash)
        => CertInv'
<1> SUFFICES ASSUME A!AttestationBounds, CertInv,
                    A!GenerateKey \/ A!WriteReportData \/ A!ReadQuote \/ A!Serve \/ A!Crash
             PROVE  CertInv'
  OBVIOUS
<1>1. UNCHANGED <<memory, metaFile, shown>> /\ deleting' \in {deleting, NoId}
  BY DEF A!GenerateKey, A!WriteReportData, A!ReadQuote, A!Serve, A!Crash, A!Undisturbed
<1>2. RecordInv' /\ KeptInv'
  BY <1>1 DEF CertInv, RecordInv, KeptInv, A!AuditPasses, A!Verifies
<1>3. A!TypeOK' /\ DeviceInv'
  <2> USE DEF CertInv, A!TypeOK, DeviceInv, A!Keys, A!None, A!AttestationBounds, A!device
  <2>1. CASE A!GenerateKey
    BY <1>1, <2>1 DEF A!GenerateKey
  <2>2. CASE A!WriteReportData
    BY <1>1, <2>2 DEF A!WriteReportData
  <2>3. CASE A!ReadQuote
    BY <1>1, <2>3 DEF A!ReadQuote
  <2>4. CASE A!Serve
    BY <1>1, <2>4 DEF A!Serve
  <2>5. CASE A!Crash
    BY <1>1, <2>5 DEF A!Crash
  <2> QED BY <2>1, <2>2, <2>3, <2>4, <2>5
<1> QED BY <1>2, <1>3 DEF CertInv

\* A start reads the files.
LEMMA StartStep == A!AttestationBounds /\ CertInv /\ A!Start => CertInv'
<1> SUFFICES ASSUME A!AttestationBounds, CertInv, A!Start PROVE CertInv'
  OBVIOUS
<1> USE DEF CertInv, A!Start
<1>1. A!TypeOK'
  <2>1. measured' \in BOOLEAN
    BY Zenon
  <2> QED BY <2>1 DEF A!TypeOK, A!Keys, A!None, A!AttestationBounds
<1>2. DeviceInv'
  BY DEF DeviceInv, A!TypeOK, A!Keys, A!None, A!AttestationBounds
<1>3. RecordInv' /\ KeptInv'
  BY DEF RecordInv, KeptInv, A!AuditPasses, A!Verifies
<1> QED BY <1>1, <1>2, <1>3

\* A deletion commits: there is no certificate yet.
LEMMA DeleteStep == ASSUME CertInv, NEW id \in Ids, A!Delete(id) PROVE CertInv'
<1> DEFINE deletingRecord == [state |-> "deleting", certificate |-> NoCertificate]
<1> USE DEF CertInv
<1>1. memory[id] = A!Live /\ metaFile[id] = A!Live
  <2>1. memory[id] \in A!Record /\ metaFile[id] \in A!Record
    BY DEF A!TypeOK
  <2> QED BY <2>1, RecordKinds DEF A!Delete, RecordInv
<1>2. /\ memory' = [memory EXCEPT ![id] = deletingRecord]
      /\ metaFile' = [metaFile EXCEPT ![id] = deletingRecord]
  <2>1. [A!Live EXCEPT !.state = "deleting"] = deletingRecord
    BY DEF A!Live
  <2>2. /\ memory' = [memory EXCEPT ![id] = [memory[id] EXCEPT !.state = "deleting"]]
        /\ metaFile' = [metaFile EXCEPT ![id] = [metaFile[id] EXCEPT !.state = "deleting"]]
    BY Zenon DEF A!Delete
  <2> HIDE DEF deletingRecord, CertInv
  <2> QED BY <1>1, <2>1, <2>2, Zenon
<1>3. deletingRecord \in A!Record /\ deletingRecord.state = "deleting"
  BY RecordKinds
<1> HIDE DEF deletingRecord
<1>4. UNCHANGED <<proverStage, A!device, shown>> /\ deleting' = id
  BY DEF A!Delete
<1>5. A!TypeOK'
  BY <1>2, <1>3, <1>4 DEF A!TypeOK, A!device
<1>6. DeviceInv'
  BY <1>4 DEF DeviceInv, A!device
<1>7. RecordInv' /\ KeptInv'
  BY <1>2, <1>3, <1>4 DEF RecordInv, KeptInv, A!TypeOK, A!AuditPasses, A!Verifies
<1> QED BY <1>5, <1>6, <1>7

\* What a process issues verifies.
LEMMA IssuedVerifies ==
    ASSUME CertInv, NEW id \in Ids, A!Finishing(id)
    PROVE  /\ A!Issued(id) \in A!Certificate /\ A!Verifies(A!Issued(id))
           /\ A!Finished(id) \in A!Record /\ A!Finished(id).state = "deleted"
           /\ A!Finished(id).certificate = A!Issued(id)
<1>1. A!Issued(id) \in A!Certificate
  BY DEF CertInv, A!TypeOK, A!Issued, A!Certificate
<1>2. A!Verifies(A!Issued(id))
  BY DEF CertInv, DeviceInv, A!Issued, A!Verifies
<1> QED BY <1>1, <1>2, RecordKinds DEF A!Finished

\* finishDelete, whether or not its record can be written.
LEMMA FinishStep ==
    ASSUME CertInv, NEW id \in Ids, A!Finish(id) \/ A!FinishFails(id)
    PROVE  CertInv'
<1> USE DEF CertInv
<1>1. A!Finishing(id)
  BY DEF A!Finish, A!FinishFails
<1>2. PICK issued \in A!Certificate, record \in A!Record :
        /\ issued = A!Issued(id) /\ A!Verifies(issued)
        /\ record = A!Finished(id) /\ record.state = "deleted" /\ record.certificate = issued
  BY <1>1, IssuedVerifies
<1>3. /\ memory' \in {memory, [memory EXCEPT ![id] = record]}
      /\ metaFile' \in {metaFile, [metaFile EXCEPT ![id] = record]}
      /\ metaFile' # metaFile => memory' = [memory EXCEPT ![id] = record]
      /\ shown' \in {shown, shown \cup {issued}}
      /\ proverStage' \in {proverStage, "down"} /\ deleting' = NoId /\ UNCHANGED A!device
  BY <1>2 DEF A!Finish, A!FinishFails
<1>4. A!TypeOK'
  BY <1>2, <1>3 DEF A!TypeOK, A!device
<1>5. DeviceInv'
  BY <1>3 DEF DeviceInv, A!device
<1>6. RecordInv' /\ KeptInv'
  <2>1. \A i \in Ids : /\ memory'[i] = memory[i] \/ memory'[i] = record
                       /\ metaFile'[i] = metaFile[i] \/ (i = id /\ metaFile'[i] = record)
    BY <1>3 DEF A!TypeOK
  <2>2. metaFile'[id] = metaFile[id] \/ memory'[id] = record
    BY <1>3 DEF A!TypeOK
  <2>3. RecordInv'
    BY <1>2, <2>1, <2>2 DEF RecordInv
  <2> QED BY <1>2, <1>3, <2>1, <2>3 DEF KeptInv, A!AuditPasses, A!Verifies
<1> QED BY <1>4, <1>5, <1>6

\* A certificate is handed out again as it was issued.
LEMMA ProofStep == ASSUME CertInv, NEW id \in Ids, A!Proof(id) PROVE CertInv'
<1> USE DEF CertInv
<1>1. /\ shown' = shown \cup {memory[id].certificate} /\ memory[id].state = "deleted"
      /\ UNCHANGED <<proverStage, A!device, deleting, memory, metaFile>>
  BY DEF A!Proof, A!AsIssued
<1>2. memory[id].certificate \in A!Certificate /\ A!Verifies(memory[id].certificate)
  <2>1. memory[id] \in A!Record /\ A!Verifies(memory[id].certificate)
    BY <1>1 DEF A!TypeOK, KeptInv
  <2>2. memory[id].state = "deleted"
    BY <1>1
  <2>3. \A record \in A!Record : record.state = "deleted" => record.certificate \in A!Certificate
    BY DEF A!Record
  <2> QED BY ONLY <2>1, <2>2, <2>3
<1>3. A!TypeOK' /\ DeviceInv' /\ RecordInv'
  BY <1>1, <1>2 DEF A!TypeOK, DeviceInv, RecordInv, A!device
<1>4. KeptInv'
  BY <1>1, <1>2 DEF KeptInv, A!AuditPasses, A!Verifies
<1> QED BY <1>3, <1>4

\* Every step keeps the invariant.
LEMMA CertStep == A!AttestationBounds /\ CertInv /\ [A!Next]_(A!vars) => CertInv'
<1> SUFFICES ASSUME A!AttestationBounds, CertInv, [A!Next]_(A!vars) PROVE CertInv'
  OBVIOUS
<1>1. CASE A!GenerateKey \/ A!WriteReportData \/ A!ReadQuote \/ A!Serve \/ A!Crash
  BY <1>1, DeviceStep
<1>2. CASE A!Start
  BY <1>2, StartStep
<1>3. CASE \E id \in Ids : A!Delete(id) \/ A!Finish(id) \/ A!FinishFails(id) \/ A!Proof(id)
  BY <1>3, DeleteStep, FinishStep, ProofStep
<1>4. CASE UNCHANGED A!vars
  BY <1>4 DEF A!vars, A!device, CertInv, A!TypeOK, DeviceInv, RecordInv, KeptInv, A!AuditPasses, A!Verifies
<1> QED BY <1>1, <1>2, <1>3, <1>4 DEF A!Next

-----------------------------------------------------------------------------
(* The composition                                                         *)

\* A behaviour of the composition is one of each part: a part that was not chosen
\* stays in its initial state.
THEOREM EachPartIsItself == PartsSpec => S!Spec /\ V!Spec /\ P!Spec /\ A!Spec /\ Spec
<1>1. PartsInit => S!Init /\ V!Init /\ P!Init /\ A!Init /\ Init
  BY DEF PartsInit
<1>2. [PartsNext]_partsVars =>
        [S!Next]_(S!vars) /\ [V!Next]_(V!vars) /\ [P!Next]_(P!vars) /\ [A!Next]_(A!vars) /\ [Next]_vars
  <2>1. ASSUME UNCHANGED partsVars
        PROVE  UNCHANGED <<S!vars, V!vars, P!vars, A!vars, vars>>
    BY <2>1 DEF partsVars, sandbox, manager, store, prover, registry,
                S!vars, V!vars, P!vars, A!vars, A!device
  <2>2. ASSUME InSandbox PROVE UNCHANGED <<V!vars, P!vars, A!vars, vars>>
    BY <2>2 DEF InSandbox, manager, store, prover, registry, V!vars, P!vars, A!vars, A!device
  <2>3. ASSUME InVault PROVE UNCHANGED <<S!vars, P!vars, A!vars, vars>>
    BY <2>3 DEF InVault, sandbox, store, prover, registry, S!vars, P!vars, A!vars, A!device
  <2>4. ASSUME InPowerLoss PROVE UNCHANGED <<S!vars, V!vars, A!vars, vars>>
    BY <2>4 DEF InPowerLoss, sandbox, manager, prover, registry, S!vars, V!vars, A!vars, A!device
  <2>5. ASSUME InAttestation PROVE UNCHANGED <<S!vars, V!vars, P!vars, vars>>
    BY <2>5 DEF InAttestation, sandbox, manager, store, registry, S!vars, V!vars, P!vars
  <2>6. ASSUME InProgramRegistry PROVE UNCHANGED <<S!vars, V!vars, P!vars, A!vars>>
    BY <2>6 DEF InProgramRegistry, sandbox, manager, store, prover,
                S!vars, V!vars, P!vars, A!vars, A!device
  <2> QED BY <2>1, <2>2, <2>3, <2>4, <2>5, <2>6 DEF PartsNext
<1> QED BY <1>1, <1>2, PTL DEF PartsSpec, S!Spec, V!Spec, P!Spec, A!Spec, Spec

\* The proofs of the sandbox are about the sandbox of the composition.
LEMMA SandboxIsPart == S!Spec => SP!Spec
<1>1. S!Init => SP!Init
  BY DEF S!Init, SP!Init, S!Nothing, SP!Nothing
<1>2. S!vars = SP!vars
  BY DEF S!vars, SP!vars
<1>3. S!Next => SP!Next
  BY DEF S!Next, SP!Next, S!Begin, SP!Begin, S!Exit, SP!Exit, S!Trap, SP!Trap, S!Expire, SP!Expire,
     S!Close, SP!Close, S!Answer, SP!Answer, S!Repeat, SP!Repeat, S!Ignore, SP!Ignore, S!Emit, SP!Emit,
     S!Write, SP!Write, S!End, SP!End, S!Keeps, SP!Keeps, S!Reports, SP!Reports, S!Room, SP!Room,
     S!Least, SP!Least, S!Succeeds, SP!Succeeds, S!Nothing, SP!Nothing
<1>4. [S!Next]_(S!vars) => [SP!Next]_(SP!vars)
  BY <1>2, <1>3 DEF S!vars, SP!vars
<1> QED BY <1>1, <1>4, PTL DEF S!Spec, SP!Spec

\* The proofs of the vault are about the vault of the composition: what is computed of
\* lines and files is the same, ...
LEMMA VaultOperators ==
    /\ \A lines : V!Length(lines) = VP!Length(lines)
    /\ \A f : V!Entries(f) = VP!Entries(f)
    /\ \A lines : V!File(lines) = VP!File(lines)
    /\ \A f : V!Readable(f) = VP!Readable(f)
    /\ \A list, name : V!Found(list, name) = VP!Found(list, name)
    /\ \A list : V!BookOf(list) = VP!BookOf(list)
<1>1. \A lines : V!Length(lines) = VP!Length(lines)
  BY DEF V!Length, VP!Length, V!Size, VP!Size
<1>2. \A f : V!Entries(f) = VP!Entries(f)
  BY DEF V!Entries, VP!Entries, V!Read, VP!Read
<1>3. \A lines : V!File(lines) = VP!File(lines)
  BY <1>1 DEF V!File, VP!File
<1>4. \A f : V!Readable(f) = VP!Readable(f)
  BY <1>2 DEF V!Readable, VP!Readable, V!Bare, VP!Bare, V!Read, VP!Read, V!Empty, VP!Empty
<1>5. \A list, name : V!Found(list, name) = VP!Found(list, name)
  BY DEF V!Found, VP!Found
<1>6. \A list : V!BookOf(list) = VP!BookOf(list)
  BY DEF V!BookOf, VP!BookOf, V!Found, VP!Found
<1> QED BY <1>1, <1>2, <1>3, <1>4, <1>5, <1>6

\* ... and so are the updates.
LEMMA VaultIsPart == V!Spec => VP!Spec
<1>1. V!Init => VP!Init
  BY VaultOperators DEF V!Init, VP!Init
<1>2. \A list : V!Prints(list) => VP!Prints(list)
  BY VaultOperators DEF V!Prints, VP!Prints
<1>3. ASSUME NEW name \in VaultNames, V!Del(name)
      PROVE  VP!Del(name)
  BY <1>2, <1>3, VaultOperators DEF V!Del, VP!Del, V!Without, VP!Without
<1>4. ASSUME NEW name \in VaultNames, NEW password \in VaultPasswords, V!Add(name, password)
      PROVE  VP!Add(name, password)
  BY <1>2, <1>4, VaultOperators DEF V!Add, VP!Add, V!Free, VP!Free, V!Full, VP!Full, V!Empty, VP!Empty
<1>5. V!Register \/ V!StartOver \/ V!DeleteOld => VP!Register \/ VP!StartOver \/ VP!DeleteOld
  BY DEF V!Register, VP!Register, V!StartOver, VP!StartOver, V!DeleteOld, VP!DeleteOld
<1>6. [V!Next]_(V!vars) => [VP!Next]_(VP!vars)
  BY <1>3, <1>4, <1>5 DEF V!Next, VP!Next, V!vars, VP!vars
<1> QED BY <1>1, <1>6, PTL DEF V!Spec, VP!Spec

\* The proofs of the store over power losses are about the store of the composition.
LEMMA StoreIsPart == P!Spec => PP!Spec
<1>1. P!Init => PP!Init
  BY DEF P!Init, PP!Init, P!Names, PP!Names
<1>2. /\ P!Files = PP!Files
      /\ \A n : P!After(n) = PP!After(n)
      /\ \A n : P!Torn(n) = PP!Torn(n) /\ P!Renamed(n) = PP!Renamed(n)
      /\ \A n, late : P!Behind(n, late) = PP!Behind(n, late)
      /\ \A files, operation : P!Apply(files, operation) = PP!Apply(files, operation)
  BY DEF P!Files, PP!Files, P!After, PP!After, P!Torn, PP!Torn, P!Apply, PP!Apply, P!Tmp, PP!Tmp,
     P!Renamed, PP!Renamed, P!Behind, PP!Behind, P!Names, PP!Names
<1>3. \A id : /\ P!Register(id) = PP!Register(id) /\ P!Delete(id) = PP!Delete(id)
             /\ P!FinishDelete(id) = PP!FinishDelete(id)
             /\ P!Meta(id) = PP!Meta(id) /\ P!Blob(id) = PP!Blob(id)
  BY DEF P!Register, PP!Register, P!Delete, PP!Delete, P!FinishDelete, PP!FinishDelete,
         P!AtomicWrite, PP!AtomicWrite, P!Op, PP!Op, P!Meta, PP!Meta, P!Blob, PP!Blob
<1>4. ASSUME NEW id \in Ids, P!BeginRegister(id) \/ P!BeginDelete(id) \/ P!Recover(id)
      PROVE  PP!Next
  BY <1>2, <1>3, <1>4 DEF P!BeginRegister, PP!BeginRegister, P!BeginDelete, PP!BeginDelete,
     P!Recover, PP!Recover, P!Starts, PP!Starts, P!Idle, PP!Idle, PP!Next
<1>5. P!Step => PP!Step
  BY <1>2 DEF P!Step, PP!Step
<1>6. P!WriteBack => PP!WriteBack
  BY <1>2 DEF P!WriteBack, PP!WriteBack
<1>7. P!PowerLoss => PP!PowerLoss
  BY <1>2 DEF P!PowerLoss, PP!PowerLoss
<1>8. P!Crash => PP!Crash
  BY DEF P!Crash, PP!Crash
<1>9. P!Start => PP!Start
  BY <1>2, <1>3 DEF P!Start, PP!Start
<1>10. P!Serve => PP!Serve
  BY <1>2, <1>3 DEF P!Serve, PP!Serve
<1>11. [P!Next]_(P!vars) => [PP!Next]_(PP!vars)
  BY <1>4, <1>5, <1>6, <1>7, <1>8, <1>9, <1>10 DEF P!Next, PP!Next, P!vars, PP!vars
<1> QED BY <1>1, <1>11, PTL DEF P!Spec, PP!Spec

\* The answer to an execution is, on each stream, the longest beginning of what the
\* program printed that fits, if the program came to its end, and else nothing.
THEOREM PartsAnswerBeginnings == PartsSpec => []AnswerIsBeginning
<1>1. SP!SandboxBounds
  BY PartsBounds DEF S!SandboxBounds, SP!SandboxBounds
<1>2. SP!AnswerIsBeginning => AnswerIsBeginning
  BY DEF AnswerIsBeginning, S!AnswerIsBeginning, SP!AnswerIsBeginning, S!Least, SP!Least,
         S!Nothing, SP!Nothing
<1> QED BY <1>1, <1>2, EachPartIsItself, SandboxIsPart, SP!AnswersAreBeginnings, PTL

\* The invariant of the prover, in the composition.
LEMMA ProverInvariant == PartsSpec => []CertInv
<1>1. A!Init => CertInv
  BY PartsBounds, CertInit
<1>2. CertInv /\ [A!Next]_(A!vars) => CertInv'
  BY PartsBounds, CertStep
<1> QED BY <1>1, <1>2, EachPartIsItself, PTL DEF A!Spec

\* Every certificate that is handed out verifies by itself: it names the key that signed
\* it, and its quote, if it has one, is of that key, by whichever process it was issued
\* and however many have run since (newProver, issueCertificate, proof).
THEOREM PartsPassAudits == PartsSpec => []AuditPasses
<1>1. CertInv => AuditPasses
  BY DEF CertInv, KeptInv, AuditPasses
<1> QED BY <1>1, ProverInvariant, PTL

\* Every part's state has its type: no buffer holds more than the cap, a name has one line
\* in every vault, what a power loss leaves are files, and what is kept of a deletion is a
\* certificate.
THEOREM PartsTypes == PartsSpec => []TypesOK
<1>1. SP!SandboxBounds /\ VP!VaultBounds /\ PP!PowerBounds
  BY PartsBounds DEF S!SandboxBounds, SP!SandboxBounds, P!PowerBounds, PP!PowerBounds,
     V!VaultBounds, VP!VaultBounds, V!Line, VP!Line, V!Password, VP!Password,
     V!OneLineEach, VP!OneLineEach
<1>2. SP!TypeOK => S!TypeOK
  BY DEF SP!TypeOK, S!TypeOK, SP!Bytes, S!Bytes, SP!Ends, S!Ends
<1>3. VP!TypeOK => V!TypeOK
  BY DEF VP!TypeOK, V!TypeOK, V!Line, VP!Line, V!Password, VP!Password, V!OneLineEach, VP!OneLineEach
<1>4. PP!TypeOK => P!TypeOK
  BY DEF PP!TypeOK, P!TypeOK, PP!Names, P!Names, PP!Contents, P!Contents, PP!Ops, P!Ops
<1>5. CertInv => A!TypeOK
  BY DEF CertInv
<1>6. S!TypeOK /\ V!TypeOK /\ P!TypeOK /\ A!TypeOK /\ TypeOK => TypesOK
  BY DEF TypesOK
<1> QED BY <1>1, <1>2, <1>3, <1>4, <1>5, <1>6, EachPartIsItself, SandboxIsPart, VaultIsPart, StoreIsPart,
        SP!SandboxTypes, VP!VaultTypes, PP!StoreTypes, ProverInvariant, RegistryTypes, PTL

\* The vault is a book of passwords, over updates that are given up, repeated and
\* completed, comments, carriage returns, and files that the runner has cut, until it is
\* lost as a whole.
THEOREM PartsVaultIsABook == PartsSpec => ImplementsBook
<1>1. VP!VaultBounds
  BY PartsBounds DEF V!VaultBounds, VP!VaultBounds, V!Line, VP!Line, V!Password, VP!Password,
     V!OneLineEach, VP!OneLineEach
<1> DEFINE lost  == ~V!Readable(vault)
           book  == IF V!Readable(vault) THEN V!BookOf(V!Entries(vault)) ELSE [name \in {} |-> NoWord]
           lost1 == ~VP!Readable(vault)
           book1 == IF VP!Readable(vault) THEN VP!BookOf(VP!Entries(vault)) ELSE [name \in {} |-> NoWord]
<1>2. lost = lost1 /\ book = book1
  BY VaultOperators
<1>3. lost' = lost1' /\ book' = book1'
  <2>1. V!Readable(vault)' = VP!Readable(vault)'
    BY DEF V!Readable, VP!Readable, V!Bare, VP!Bare, V!Read, VP!Read, V!Empty, VP!Empty,
           V!Entries, VP!Entries
  <2>2. V!BookOf(V!Entries(vault))' = VP!BookOf(VP!Entries(vault))'
    BY DEF V!BookOf, VP!BookOf, V!Found, VP!Found, V!Entries, VP!Entries, V!Read, VP!Read
  <2> QED BY <2>1, <2>2
<1>4. VP!Book!BookInit => V!Book!BookInit
  BY VaultOperators DEF VP!Book!BookInit, V!Book!BookInit, VP!Book!Nothing, V!Book!Nothing
<1>5. [VP!Book!BookNext]_<<book1, lost1>> => [V!Book!BookNext]_<<book, lost>>
  <2>1. ASSUME NEW name \in VaultNames, NEW word \in Words, VP!Book!Add(name, word)
        PROVE  V!Book!Add(name, word)
    BY <1>2, <1>3, <2>1 DEF VP!Book!Add, V!Book!Add
  <2>2. ASSUME NEW name \in VaultNames, VP!Book!Remove(name)
        PROVE  V!Book!Remove(name)
    BY <1>2, <1>3, <2>2 DEF VP!Book!Remove, V!Book!Remove
  <2>3. VP!Book!Lose => V!Book!Lose
    BY <1>2, <1>3 DEF VP!Book!Lose, V!Book!Lose, VP!Book!Nothing, V!Book!Nothing
  <2>4. VP!Book!BookNext => V!Book!BookNext
    BY <2>1, <2>2, <2>3 DEF VP!Book!BookNext, V!Book!BookNext
  <2> QED BY <1>2, <1>3, <2>4
<1> QED BY <1>1, <1>4, <1>5, EachPartIsItself, VaultIsPart, VP!VaultIsABook, PTL
        DEF ImplementsBook, V!ImplementsBook, VP!ImplementsBook, V!Book!BookSpec, VP!Book!BookSpec

\* An update that loses the vault has made it too long, or it holds a password of carriage
\* returns alone.
THEOREM PartsKnownLosses == PartsSpec => LossesAreKnown
<1>1. VP!VaultBounds
  BY PartsBounds DEF V!VaultBounds, VP!VaultBounds, V!Line, VP!Line, V!Password, VP!Password,
     V!OneLineEach, VP!OneLineEach
<1>2. V!Readable(vault) = VP!Readable(vault) /\ V!Readable(vault)' = VP!Readable(vault)'
  BY DEF V!Readable, VP!Readable, V!Bare, VP!Bare, V!Read, VP!Read, V!Empty, VP!Empty,
     V!Entries, VP!Entries
<1>3. V!vars = VP!vars /\ V!vars' = VP!vars'
  BY DEF V!vars, VP!vars
<1> DEFINE Known == \/ vault'.bytes >= MAX_FILE_BYTES
                    \/ \E i \in DOMAIN vault'.lines : vault'.lines[i].password.word = NoWord
<1>4. ASSUME [vault' # vault /\ VP!Readable(vault) /\ ~VP!Readable(vault)' => Known]_(VP!vars)
      PROVE  [vault' # vault /\ V!Readable(vault) /\ ~V!Readable(vault)' => Known]_(V!vars)
  BY <1>2, <1>3, <1>4
<1> QED BY <1>1, <1>4, EachPartIsItself, VaultIsPart, VP!KnownLosses, PTL
        DEF LossesAreKnown, V!LossesAreKnown, VP!LossesAreKnown

\* What a file of the store is under its proper name after power losses, though nothing is
\* ever synced: never a part of what was written on an ordered file system (atomicWrite),
\* and on any no record that a server has started with (loadMetas).
THEOREM PartsFilesAreWhole == PartsSpec => []ProperFilesAreWhole
<1>1. PP!ProperFilesAreWhole => ProperFilesAreWhole
  BY DEF ProperFilesAreWhole, P!ProperFilesAreWhole, PP!ProperFilesAreWhole, P!Files, PP!Files,
         P!After, PP!After, P!Blob, PP!Blob, P!Meta, PP!Meta
<1> QED BY <1>1, EachPartIsItself, StoreIsPart, PP!WholeFiles, PTL

\* On an ordered file system a record that has its key has its blob, over power losses too
\* (register, delete).
THEOREM PartsKeysHaveBlobs == PartsSpec => []KeyHasItsBlob
<1>1. PP!KeyHasItsBlob => KeyHasItsBlob
  BY DEF KeyHasItsBlob, P!KeyHasItsBlob, PP!KeyHasItsBlob, P!Files, PP!Files,
         P!After, PP!After, P!Blob, PP!Blob, P!Meta, PP!Meta
<1> QED BY <1>1, EachPartIsItself, StoreIsPart, PP!KeysHaveBlobs, PTL

\* On the disk of an ordered file system a record is replaced by a later one of the same
\* data only.
THEOREM PartsRecordsMoveOn == PartsSpec => DiskMovesForward
<1>1. ASSUME [ordered => \A id \in Ids : PP!Age[disk'[PP!Meta(id)]] >= PP!Age[disk[PP!Meta(id)]]]_(PP!vars)
      PROVE  [ordered => \A id \in Ids : P!Age[disk'[P!Meta(id)]] >= P!Age[disk[P!Meta(id)]]]_(P!vars)
  BY <1>1 DEF P!Age, PP!Age, P!Contents, PP!Contents, P!Meta, PP!Meta, P!vars, PP!vars
<1> QED BY <1>1, EachPartIsItself, StoreIsPart, PP!RecordsMoveOn, PTL
        DEF DiskMovesForward, P!DiskMovesForward, PP!DiskMovesForward

\* A program that is listed can be run, memory lists what a restart would, and what the
\* registry has answered of a program stands.
THEOREM PartsKeepPrograms == PartsSpec => [](ListedIsRunnable /\ ListedIsLasting /\ AnswersStand)
  BY EachPartIsItself, RunnablePrograms, LastingList, LastingAnswers, PTL

=============================================================================
