-------------------------------- MODULE MCParts --------------------------------
(***************************************************************************)
(* Five parts that share no state, for TLC in one run: the sandbox, the    *)
(* password manager's vault, the store without its power, the prover and   *)
(* the program registry, which this module extends.  A behaviour is one of *)
(* the part it chose in the beginning; the others stay as they were.       *)
(***************************************************************************)
EXTENDS ProgramRegistry

CONSTANTS
    Parts,          \* names of parts
    Streams, outputCap, MaxPrint, MaxPrinted,               \* Sandbox
    VaultNames, Words, NoWord, Comments,                    \* Vault
    hash, short, long,
    MAX_ENTRIES, MAX_FILE_BYTES,
    Ids, MaxLosses,                                         \* PowerLoss
    NoId, NoCertificate, MaxStarts                          \* Attestation

VARIABLES
    part,
    runStage, done, how, buf, left, printed, answer,
    vault, vaultStage, output,
    disk, log, plan, answers, clientTold, mode, losses, ordered,
    proverStage, key, reportData, quote, measured, deleting, memory, metaFile, shown

\* Passwords of a line that is short, perhaps with a carriage return, or long, and of
\* carriage returns alone; and a vault with a comment (there is no empty one).
VaultPasswords ==
    [word : {long}, crs : {0}] \cup [word : {short}, crs : 0..1] \cup [word : {NoWord}, crs : 0..2]
LineBytes      == [word \in Words |-> IF word = long THEN 3 ELSE 1]
FirstLines     == <<[name |-> hash, password |-> [word |-> NoWord, crs |-> 0]]>>

S == INSTANCE Sandbox WITH stage <- runStage
V == INSTANCE Vault WITH
        stage <- vaultStage, Names <- VaultNames, outputCap <- MAX_FILE_BYTES,
        Passwords <- VaultPasswords, Bytes <- LineBytes, First <- FirstLines
P == INSTANCE PowerLoss WITH told <- clientTold
A == INSTANCE Attestation WITH stage <- proverStage, file <- metaFile

ASSUME PartsBounds ==
    S!SandboxBounds /\ V!VaultBounds /\ P!PowerBounds /\ A!AttestationBounds /\ RegistryBounds

sandbox  == <<runStage, done, how, buf, left, printed, answer>>
manager  == <<vault, vaultStage, output>>
store    == <<disk, log, plan, answers, clientTold, mode, losses, ordered>>
prover   == <<proverStage, key, reportData, quote, measured, deleting, memory, metaFile, shown>>
registry == vars

partsVars == <<part, sandbox, manager, store, prover, registry>>

PartsInit ==
    /\ part \in Parts
    /\ S!Init /\ V!Init /\ P!Init /\ A!Init /\ Init

InSandbox         == part = "sandbox" /\ UNCHANGED <<part, manager, store, prover, registry>>
InVault           == part = "vault" /\ UNCHANGED <<part, sandbox, store, prover, registry>>
InPowerLoss       == part = "power" /\ UNCHANGED <<part, sandbox, manager, prover, registry>>
InAttestation     == part = "prover" /\ UNCHANGED <<part, sandbox, manager, store, registry>>
InProgramRegistry == part = "registry" /\ UNCHANGED <<part, sandbox, manager, store, prover>>

PartsNext ==
    \/ InSandbox /\ S!Next
    \/ InVault /\ V!Next
    \/ InPowerLoss /\ P!Next
    \/ InAttestation /\ A!Next
    \/ InProgramRegistry /\ Next

\* What the sandbox owes, and nobody else anything (FairSpec of Sandbox).
Fairness ==
    /\ WF_partsVars(InSandbox /\ S!Begin) /\ WF_partsVars(InSandbox /\ S!Expire)
    /\ WF_partsVars(InSandbox /\ S!Close) /\ WF_partsVars(InSandbox /\ S!Answer)

PartsSpec == PartsInit /\ [][PartsNext]_partsVars /\ Fairness

-----------------------------------------------------------------------------
(* The properties of the other parts                                       *)

\* The types of all parts; in the vault a name has one line.
TypesOK == S!TypeOK /\ V!TypeOK /\ P!TypeOK /\ A!TypeOK /\ TypeOK

\* Sandbox: the answer is the longest beginning of the output that fits, of a
\* program that came to its end.
AnswerIsBeginning == S!AnswerIsBeginning

\* Sandbox: run returns, whatever the program does: one that loops is closed at
\* its deadline, and one that ends before it is answered (execTimeout).
RunReturns == part = "sandbox" ~> S!Returned

\* Vault: an update loses the vault by its size, or by a password of carriage returns.
LossesAreKnown == V!LossesAreKnown

\* Vault: over all updates the vault is a book of passwords, until it is lost.
ImplementsBook == V!ImplementsBook

\* PowerLoss: no file is torn under its proper name on an ordered file system, and no
\* record that a server starts with on any.
ProperFilesAreWhole == P!ProperFilesAreWhole

\* PowerLoss: a record that has its key has its blob, on an ordered file system.
KeyHasItsBlob == P!KeyHasItsBlob

\* PowerLoss: what is durable is not undone by what follows, on an ordered file system.
DiskMovesForward == P!DiskMovesForward

\* Attestation: every certificate that is handed out verifies by itself.
AuditPasses == A!AuditPasses

===============================================================================
