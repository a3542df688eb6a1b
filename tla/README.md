# A verification project for wasm-runner

wasm-runner stores confidential data inside an SGX enclave (Gramine), runs
uploaded WASM programs over it, and deletes it with a signed certificate. The
TLA+ modules here model `src/wasm_runner` and the password manager that comes
with it, wherever correctness depends on the order of steps: the files an
operation writes, the memory it changes, the lock it holds, what a handler has
read before, and what clients have been told by then. TLC checks them on small
instances; TLAPS proves the safety properties for any number of data, programs,
keys, passwords, requests, executions, failures and crashes.

Paths below are relative to `src/wasm_runner` unless they say otherwise.

## 1. The system

| Component | State | Operations | Talks to |
|---|---|---|---|
| Lifecycle manager (`lifecycle.go`) | `entries`: id → record (state, uploader, whitelist, content hash, data key, certificate), under `lm.mu` | `register`, `beginExecute`, `endExecute`, `setAllowedPrograms`, `delete`/`finishDelete`, `status`, `proof`; recovery in `newLifecycleManager` | store, prover |
| Sealed store (`storage.go`) | files `meta/<id>.json`, `blobs/<id>.bin`, `programs/<id>.{json,bin}`, `owner.json`, each with a `.tmp` | `atomicWrite` (WriteFile to `.tmp`, Rename), remove, load | – |
| Authenticator (`auth.go`) | `seen`: key and signature → expiry, under `a.mu` | `authenticate` (timestamp window, signature), `checkReplay` | clock |
| Owner manager (`owner.go`) | the owner's key, under `om.mu` | `register` (first use), `key` | store |
| Program registry (`programs.go`) | `entries`: id → metadata, under `pr.mu` | `put`, `get`, `delete` | store |
| HTTP handlers (`handlers.go`) | none; one goroutine per request | decode, authenticate, authorise, act, answer | all of the above |
| Prover (`attestation.go`) | a signing key made when the process starts, a quote of it | `issueCertificate` | Gramine's `/dev/attestation` |
| Sandbox (`sandbox.go`) | per run: wazero runtime, two capped output buffers | `run`, ended by a timeout at the latest | wazero |
| Server process (`main.go`) | – | start in a fixed order, `Shutdown` with five seconds | all |
| Password manager (`src/wasm_module/passman`) | one vault file of lines | add, get, delete, list | WASI files |
| Sample programs, client script, build and deployment files | none that outlives a call | – | – |

How they interact. Every request is a goroutine that calls into the managers;
each manager has one mutex, held for the whole of an operation, file writes
included. An execution takes `lm.mu` twice, in `beginExecute` and in the
deferred `endExecute`, and runs in between without it. Nothing runs in the
background. All that survives a restart is files; there is no log, and no file
is synced.

What is hard, and what has to be true of each component:

* **Lifecycle manager and store.** A deletion commits by replacing the record
  with one that has no key; then the blob goes, then a certificate is made. A
  crash or a failed file operation can fall between any two steps, and the
  `.tmp` file of an earlier failure can still be there. Correct means: data is
  either usable with its key or has no key anywhere; a certificate exists only
  when neither ciphertext nor key does; executions exclude each other and
  deletion; an interrupted use leaves no trace; what clients were told is never
  taken back; the whitelist in effect is one the uploader can account for.
* **Authenticator.** The time is read once, before the signature check and
  before the mutex; other requests' readings purge the cache in between.
  Correct means: a signed request is accepted once; a restart, which empties
  the cache, extends a request's life by a bounded time.
* **Owner manager.** Correct means: the first key registered is the owner over
  every restart, and a registration answered with an error never takes effect.
* **Program registry.** Two files per program, written and removed in opposite
  orders. Correct means: what is listed can be run; what was answered stays.
* **Handlers and process.** A request reads the owner's key, uses up its
  signature, looks up the program, takes the data, runs and answers, and other
  requests do the same in between; it can be delivered again, its answer can be
  lost, and `Shutdown` waits five seconds only. `handleSetAllowedPrograms` goes
  on to read the record after the lock is free. Correct means: a command takes
  effect once, for those who may give it; a refusal and an edit that a client
  was told of stand; a run has the consent of the owner and of each uploader;
  an answer tells what its request did.
* **Prover.** The key dies with the process, the certificates do not. Correct
  means: each certificate brings the key and the quote that verify it.
* **Sandbox.** A write can meet the cap, the deadline the end of the program.
  Correct means: a run ends, and its answer is the beginning of its output, of
  a program that came to its end.
* **Store without power.** Nothing is synced. Correct means, as far as the file
  system keeps its order: whole files, and no key without the blob it opens,
  whatever was not on the disk yet; on any: no record is served that is torn.
* **Password manager.** An update is three requests, and what it prints may be
  cut, and is parsed again by the next. Correct means: the client is left with a
  vault that can be read and has one entry more or less.

`PROJECT.json` lists the hazards, each at its line, with the properties that
would catch it.

## 2. The modules

| Module | Models | Kind |
|---|---|---|
| `Lifecycle` | `lifecycle.go` over `storage.go`, one step per file operation | state machine, properties |
| `MCLifecycle` | symmetry sets for TLC | model |
| `DataContract` | what the system promises about data | abstract specification |
| `LifecycleRefinement` | `Lifecycle` implements `DataContract` | refinement |
| `WhitelistReply` | the end of `handleSetAllowedPrograms`, composed with `Lifecycle` | composition |
| `LifecycleInvariant` | the inductive invariants `IInv` and `PromiseInv` | definitions |
| `LifecycleProofs` | type correctness; `IInv`, `PromiseInv` and their consequences; `Lifecycle` implements `DataContract`; what holds in spite of the findings `orphan` and `reply` | proofs |
| `ReplayCache`, `ReplayCacheProofs` | `authenticate` and `checkReplay` | state machine, proofs |
| `OwnerManager`, `OwnerManagerProofs` | `owner.go` over `owner.json` | state machine, proofs |
| `ProgramRegistry` | `programs.go` over its files | state machine |
| `Server` | requests through `handlers.go`, `auth.go` and the calls of the managers; the process of `main.go` | composition |
| `MCServer` | the sessions of clients that TLC tries | model |
| `ServerRefinement` | `Server` implements `DataContract` | refinement |
| `ServerInvariant` | the inductive invariant `IInv` of `Server` | definitions |
| `ServerProofs` | `IInv` and its consequences; `Server` implements `DataContract` | proofs |
| `Sandbox`, `SandboxProofs` | `run` and `cappedBuffer` of `sandbox.go`, with any program | state machine, proofs |
| `Attestation` | `newProver`, `issueCertificate`, and audits over restarts | state machine |
| `PowerLoss`, `PowerLossProofs` | `storage.go` under a log of operations that a power loss cuts | fault model, proofs |
| `Vault`, `PasswordBook`, `VaultProofs` | updates with `passman` and the runner; a book of passwords | state machine, abstract specification, proofs |
| `MCVault`, `MCParts` | instances of `Vault`; five parts without shared state in one run | model |
| `PartsProofs` | `ProgramRegistry` and `Attestation`, and what is proved of each other part carried over to `MCParts` | proofs |

### Lifecycle

`op` is the operation that holds `lm.mu`: its kind, the next file operation
(`pc`), the record being written (`rec`) and the entry as it was (`undo`). All
requests need `op = Idle`. Memory is `entries`, and `using`, the data each
running execution was given. The disk is four functions on ids: `meta` and
`blob` and their `.tmp` files. A data key is the number of its drawing, and the
n-th content registered stands for its own hash; a blob is the number of the
key it is sealed with, so "the blob opens" is `blob[id] = entries[id].dek`. A
certificate is the content's hash and the process that signed it.

| Action | Code |
|---|---|
| `Boot`, `Recover`, `Serve` | `main`, `loadMetas`, the recovery loop of `newLifecycleManager` |
| `Register`, `SetAllowedPrograms`, `Delete` | the operation up to its first file operation: checks and changes of memory |
| `BeginExecute`, `EndExecute` | whole: they touch no file but the blobs that are read |
| `WriteBlobTmp`, `RenameBlob`, `WriteMetaTmp`, `RenameMeta`, `RemoveBlob` | the halves of `atomicWrite`, and `removeBlob` with the part of `finishDelete` that follows it |
| `…Fails` | the same file operation returns an error: `Fail` takes the error path of the operation in progress (`Rollback`), or ends the process during recovery |
| `RegisterDone`, `SetAllowedProgramsDone`, `DeleteCommitted`, `FinishDone` | what follows the last write; the answer to the client |
| `Status`, `Proof` | what a client learns |
| `Crash` | the process is killed; a WriteFile in progress leaves the old content, a torn file, or all of the new |

`loadMetas` reads only names that end in `.json`, so a `.tmp` file is never
loaded; a torn `.tmp` file is therefore `Blank` (or 0). A rename is atomic. The
variables `promised`, `granted`, `shown` and `observed` record what clients
were told, and only properties read them. Requests that are refused change
nothing and have no action, except the 404 of `Status`.

### Server

Each worker is a handler's goroutine, at a `stage`: `Accept` reads the body and,
in `authenticateCommand`, the owner's key; `Authenticate` reads the clock, before
`a.mu` is taken, and checks the timestamp's window with that reading;
`CheckReplay`, later and with the same reading, is the critical section, which
purges every entry that has expired, looks for the signature and enters it for
two windows, and what follows it, `requireOwner` and the checks of the body; each
command is one call of a manager, which holds its mutex throughout (what happens inside is in the
manager's own module, and how it fails is a branch here); an execution goes on
over `GetProgram`, `BeginExecute` and the run to `Ends`, which gives the data
back; `Answer` reaches the client or is lost. `Crash`, `Shutdown`, `Exit`,
`Boot`, `Recover` and `Serve` are the process.

A request is what its sender signed: command, key, timestamp, data, program and
list. `form` says how its body fares. `Tick` is the clock. `Ahead` bounds how far a
client's clock may be ahead of the server's, and `Latency` the time a handler may
take from its reading to `CheckReplay`; late deliveries and clocks that run behind
are not bounded. `Timely` says that `Ahead + Latency` is no more than the window.
The code does not enforce it; the run `replay_late` shows what happens without it,
and the promises below that need it say so. `took` counts the effects of each request, `sent`,
`settled`, `refused`, `denied` and `gone` are what clients know; `Accept` uses
`sent` and `settled` for the one thing that is assumed of clients: they send
their next change of a list or program when the outcome of the last is known.

| Promise | Property |
|---|---|
| one effect of each signed command, if `Timely` | `EffectOnce` |
| a command that was refused stays refused, if `Timely` | `RefusedForGood` |
| an edit that was answered holds for every run that begins later, if `Timely` | `EditStands` |
| a deleted program is not run for a later request, if `Timely` | `DeletedProgramStaysOut` |
| the owner and every uploader signed for a run | `RunsByConsent` |
| data is IN_USE while one handler runs on it, and not longer | `HeldByOneRun` |
| all this is the contract of data | `KeepsContract` |

### The others

`ReplayCache`: `Deliver` is `authenticate` up to the window check, with its one
reading of the clock; `CheckReplay` is the critical section. `Latency` bounds
the time between them, `Ahead` a client clock that runs ahead of the server's;
a clock that runs behind, and late delivery, are not bounded.

`OwnerManager` and `ProgramRegistry` follow the pattern of `Lifecycle`: `op` is
the holder of the mutex, every file operation a step that can fail or be cut
short. A program's id is the hash of its binary, so a file of it is whole, torn
or not there. `told` is what the last answer about a program makes certain.

`Sandbox`: a byte is its place in what the program prints on a stream, so a
buffer shows what was left out or written twice. `Repeat` and `Ignore` are what
programs do with the count that `Write` reports; `Trap`, `Exit` and `Close` are
the ends, and a program may end by itself after its deadline, before it is
closed.

`Attestation`: the n-th process draws the n-th key. A quote is the key whose
hash is in it; a certificate has the key it names, the key that signed it and
the quote. `Finish` and `FinishFails` are `finishDelete`, of a request or of the
recovery.

`PowerLoss`: `plan` is the list of file operations that the process still has to
make, `log` those that are not on the disk, each with the files as it left them,
so `After(n)` is what a power loss leaves that keeps the first n of them, and
`Torn(n)` if it cuts the n-th in its middle. `ordered`, chosen once, says whether
the file system writes the content of a file before a rename of it, as ext4 does by
default for a rename over a file. If it does not, `Behind(n, late)` is what a power
loss leaves: any of the files that were renamed are torn under their proper names.
Nothing in `storage.go` makes up for it. `Start` is `loadMetas`, which ends the process
when it cannot read a record.

`Vault`: a file is its lines, with their length in bytes. A password is a word and
the carriage returns behind it; `Read` takes one off, as `parse_vault` does to every
line, and `Readable` has the three ways in which a run refuses a file: its size, a
line with less than three fields (`Bare`: a password of carriage returns alone, when
the last was taken off), too many entries. Lines whose name begins with `#` are
skipped. `Prints` is `print_vault` into the runner's `cappedBuffer`: what does not fit
is gone, whole lines and a part of one. Since the cap is no smaller than
`MAX_FILE_BYTES`, a file that was cut is refused before its lines are looked at, and
its last part of a line needs no value. `Register`, `StartOver` and `DeleteOld` are the
client's next steps. `PasswordBook` is a function from names to words that changes at
one name at a time, until it is lost as a whole.

`DataContract` has no files, memory or failures: data goes from absent to live,
shredded and certified; its list can be edited while it is live; executions of
programs on the list use it one at a time; it is shredded only while unused;
the process may stop. The refinement mapping reads phase and list from the
metadata files and the users from the executions. `ServerRefinement` reads them
from the managers' state and the handlers that run; there data whose deletion
was begun counts as shredded.

## 3. What TLC checks

| Run | Shows | Instance |
|---|---|---|
| `safety` | all invariants of `Lifecycle`, that answers only move forward, and that it implements `DataContract` | 2 data, 1 program, the owner and another key, 2 executions, 2 keys drawn, 2 failures, 2 crashes; 1.4 million states up to symmetry |
| `liveness` | `UseEnds`, `DeletionResumes` under `FairSpec` | 1 id, 1 execution, 2 keys drawn, 2 failures, 2 crashes |
| `replay` | `AtMostOnce`, `AcceptedAgainWithinReach` | 2 requests, 2 handlers, window 2, skew and latency 1, clock up to 6 |
| `owner` | `OwnerIsLasting`, `RefusedIsNotOwner` | 2 keys, 2 failures, 2 crashes |
| `server` | the table above | 2 handlers, 2 data, 1 program, 2 keys, and the five sessions of `MCServer`; window 1, skew 0, latency 1, clock up to 4; 1.4 million states up to symmetry |
| `parts` | the properties of `Sandbox`, `Vault`, `PowerLoss`, `Attestation` and `ProgramRegistry` | 2 streams with a cap of 3 and 5 bytes; 5 names with one comment, words of one and three bytes and none, up to two carriage returns, 3 entries, a limit and cap of 5 bytes; 2 data and 2 losses of power or process, on an ordered file system and another; 3 processes and 2 data; 2 programs, 2 failures and 2 crashes |
| `orphan`, `proof`, `reply`, `replay_late`, `replay_restart`, `vault_size` | the findings of section 6 | the smallest that show them |

The sessions of `server` are what clients send, out of which TLC takes any
deliveries in any order, the commands that touch the same state together:
`EditSession` edits the list of one piece of data around uses of it;
`ProgramSession` deletes a program and uploads it again around executions;
`ConsentSession` has two keys that compete to be the owner and try what the
other may do, bodies that are refused, and a process that starts again within
the window; `DataSession` uses two data together and one by one, and deletes
one; in `ExpirySession` the clock goes on until the entries of commands, some of
them refused, have expired, and other handlers purge them while deliveries of these
commands are between their two steps. All but the last have one end of the process,
which with `Shutdown` before it or without may fall anywhere; calls fail in the
sessions on programs and on consent. Four or five deliveries are enough for a
command, its repetition or contradiction, and the executions that notice. Window,
skew and latency are at the limit of `Timely` (0 + 1 = 1), and four ticks are more
than an entry's two windows and the latency after them: with a retention of one
window instead of two `EffectOnce` fails in this instance, and so it does with a
latency of 2, which is the finding `replay_late` as a command that acts twice.

`parts` chooses one part in the initial state and leaves the others alone; the
parts share no variable, so nothing is lost. Neither it nor `server` is checked
for deadlock: a sandbox that has answered, a process beyond its last end and
clients with nothing left to send rightly stop. That a handler is not blocked is
left to the modules with the mutexes: in `Lifecycle`, `ProgramRegistry` and
`OwnerManager` the operation that holds the mutex is a variable, `safety` and `owner`
are checked for deadlock, and `liveness` says that uses end.

Why the bounds are enough. Every operation works on one id, so one id shows all
that happens to files; the second id is there for executions that name two data
and for recovery of several records. Two workers are two competitors for the
same data. A second drawing of a key lets an id whose registration failed be
drawn again over the files the first attempt left. One failure makes an
operation fail; the second hits its retry, its recovery, or leaves a second
`.tmp` file behind. One crash interrupts an operation; the second interrupts
the recovery from the first. One program makes two lists (deny all, allow), and
`WhitelistReply` has two programs because its question is which list. Five
bytes on a stream with a cap of three, printed in ones and twos, fall below, on
and across the cap, and go on after it. The vault of `parts` meets every limit: three
entries of one byte fill the count below the five bytes, one of three bytes and others
reach the size on the line and go over it, with whole lines before the cut; passwords
with a carriage return lose it, and those of carriage returns alone make the file
unreadable with the next update, below the size. So `LossesAreKnown` shows that the
count is right and that there is no third way. The clock
of `ReplayCache` runs for longer than a retention of two windows and a
request's whole life. What the proofs cover does not depend on any bound.

The mutants in `PROJECT.json` put a plausible mistake into the code ("Variant"
definitions beside the definitions they replace: a key left in the record, a
missing rollback, an ignored error, files removed in the wrong order, a shorter
retention) and each breaks the property it is listed with.

## 4. Fairness

`FairSpec` assumes weak fairness of `Progress`: the goroutine that holds
`lm.mu` takes its next step, or its file operation fails, and the recovery loop
goes on. Nothing in these can block: no channel, no other lock, only files. It
assumes strong fairness of `EndExecute(w)`: `sandbox.run` has a context with a
timeout and `WithCloseOnContextDone`, so it returns; `endExecute` is deferred,
so it is called whatever the outcome, a panic included; and a `sync.Mutex` that
other goroutines take again and again is handed to a waiter after a
millisecond (starvation mode). Strong rather than weak fairness is needed
because the lock is not free all the time. No fairness is assumed of requests,
of crashes, or of a restart: a process that is down may stay down. Hence
`DeletionResumes` promises that a start that finds an interrupted deletion
completes it *or ends*, and nothing is promised to a deletion whose
`finishDelete` failed in a process that keeps running, because the code does
not retry it before the next start.

`MCParts` assumes weak fairness of `Begin`, `Expire`, `Close` and `Answer` of the
sandbox: contexts expire, wazero stops a closed module at the next call or loop
(`WithCloseOnContextDone`), and `run` itself only goes on. The program owes
nothing: it may print or loop for ever.

## 5. What is proved

Assumptions: `NoId` is no id, `NoKey` is no key, the owner's key is a key, the
bounds are naturals (for the replay cache, also a positive window, for the prover
at least one process, for power losses at least one piece of data). For `Vault`: the
runner's cap is no smaller than the program's limit, a line has a length, and no
name has two lines in the vault that is registered first; names, passwords, comments
and limits are any. For `PowerLoss` the file system is ordered or not, and what needs
the order says so. For `Server`: the sessions are made of requests, and a
request to edit or to delete names one piece of data, which is in its path
(`ServerTargets`); the sessions themselves are any, with any number of requests,
handlers, data, deliveries, failures and ends of the process. Nothing is assumed
about the size of any set.

| Theorem | Says |
|---|---|
| `TypeCorrect` | `[]TypeOK` of `Lifecycle` |
| `InvariantHolds` | `[]IInv` |
| `ExclusiveUse` | `[]UseIsExclusive`: a record is IN_USE exactly while one execution has its data |
| `InUseStaysInMemory` | `[]InUseNotPersisted` |
| `RegisteredStaysReadable` | `[]RegisteredIsReadable` |
| `ShreddingIsFinal` | `[]NoKeyAfterCommit` |
| `CertificatesAreTrue` | `[]CertifiedIsErased` |
| `PromisesHold` | `[](IInv /\ PromiseInv)` |
| `CertificatesStand` | `[]GrantedCertificateStands`: a certificate that was granted is the only one ever shown |
| `MemoryIsOnDisk` | `[]MemoryMatchesDisk` |
| `WhitelistsStand` | `[]WhitelistAsPromised` |
| `AnswersForward` | `AnswersMoveForward`: what is told of a record only moves forward |
| `ImplementsContract` | `RefinesContract`: every behaviour of `Lifecycle` is one `DataContract` allows |
| `LeftoversAreUntold` | files without a record are of ids that no process has and no client was told of |
| `OnlyEditsDisturbReplies` | an edit is answered with its own list unless another edit of the data was answered or at work in between |
| `AcceptedOnce` | if `Ahead + Latency <= Window`, `[]AtMostOnce` |
| `ReplayReach` | `[]AcceptedAgainWithinReach`, without that condition |
| `CacheTypes`, `OwnerTypes` | `[]TypeOK` of `ReplayCache` and of `OwnerManager` |
| `OwnerLasts`, `RefusedStaysOut` | `[]OwnerIsLasting`, `[]RefusedIsNotOwner` |
| `ServerInvariantHolds`, `ServerTypes` | `[]IInv` and `[]TypeOK` of `Server` |
| `OneRunHoldsData`, `RunsHaveConsent` | `[]HeldByOneRun`, `[]RunsByConsent` |
| `CommandsActOnce`, `RefusalsAreFinal` | if `Timely`, `[]EffectOnce`, `RefusedForGood` |
| `EditsStand`, `DeletedProgramsStayOut` | if `Timely`, `EditStands`, `[]DeletedProgramStaysOut` |
| `ServerKeepsContract` | `KeepsContract`: every behaviour of `Server` is one `DataContract` allows |
| `RunnablePrograms`, `LastingList`, `LastingAnswers`, `RegistryTypes` | `[]ListedIsRunnable`, `[]ListedIsLasting`, `[]AnswersStand`, `[]TypeOK` of `ProgramRegistry` |
| `AnswersAreBeginnings`, `SandboxTypes` | `[]AnswerIsBeginning`, `[]TypeOK` of `Sandbox` |
| `WholeFiles`, `KeysHaveBlobs`, `RecordsMoveOn`, `StoreTypes` | `[]ProperFilesAreWhole`, `[]KeyHasItsBlob`, `DiskMovesForward`, `[]TypeOK` of `PowerLoss`; the first in part, the next two only for an ordered file system |
| `VaultTypes` | `[]TypeOK` of `Vault`: no name ever has two lines |
| `VaultIsABook` | `ImplementsBook`: every behaviour of `Vault` is one `PasswordBook` allows |
| `KnownLosses` | `LossesAreKnown`: a vault that can be read is replaced by one that can, unless that is as long as the size limit or has a password of carriage returns alone |
| `EachPartIsItself` | a behaviour of `MCParts` is one of each of its parts |
| `PartsPassAudits` | `[]AuditPasses`: every certificate handed out verifies by itself |
| `PartsTypes` | `[]TypesOK`: the types of all five parts |
| `PartsAnswerBeginnings`, `PartsVaultIsABook`, `PartsKnownLosses`, `PartsFilesAreWhole`, `PartsKeysHaveBlobs`, `PartsRecordsMoveOn`, `PartsKeepPrograms` | what is proved of each part, of `MCParts`, which the run `parts` checks |

The argument for `Lifecycle`. None of the safety properties is inductive:
"the blob opens with the key in the file" needs to know, in the middle of a
registration, that the blob in place is the one being registered; "no key after
the commit" needs to know what a failed write may have left in the `.tmp` file
and that the record about to be renamed has no key; a certificate's truth
needs to know that a record that is DELETED in memory was so after its blob was
removed, even when its last write failed. `IInv` therefore says, for an id no
operation is at work on, that memory agrees with the file up to IN_USE and an
unwritten DELETED (`RestInv`); for the operation in progress, which of memory,
`.tmp`, file and blob have what at each `pc` (`RegisterInv`, `PutInv`,
`DeleteInv`, `FinishInv`); and for every file what it may hold at all
(`FileInv`, `CertInv`). An important part is that the `.tmp` record of an id
with a committed deletion has no key: the commit itself is a rename of that
`.tmp` file, so any older one is overwritten first, and later writes have no key
to leave behind. The proof has one lemma per action, and one
for the failures' common part; the theorems follow from `IInv` by definition.

What clients were told needs more than `IInv`, which compares the keys, hashes and
states of memory and file but not whole records, and does not look at answers.
`PromiseInv`, inductive on top of it, says that a record at rest equals its file up
to IN_USE and an unwritten DELETED (`SettledInv`); that the error path of an edit or
a deletion in progress brings such a record back, and its success leaves one
(`PutTells`, `DeleteTells`); that no client has a certificate before the DELETE that
will return the first (`FinishTells`); that a process that boots has unfinished
deletions only in the records still to treat (`BootTells`), without which a client
told DELETED by a process that could not write it might be told DELETING by the
next; and, for each id, that the list, the certificates and the phase told stand
(`ListInv`, `GrantInv`, `ObservedInv`). Both invariants are also checked by TLC on
the instance of the run `safety`.

For the refinement the last rename of an operation is its step of the contract:
`RegisterInv`, `PutTells`, `DeleteTells` and `FinishInv` say which record it puts in
place of which, and `UseIsExclusive` that no execution has data whose record is
DELETING in memory. `SettledInv` gives an execution the list the contract has. A
crash and an error during recovery end all executions; no other step is seen.

The argument for `Server`. `IInv` says for each handler what its stage has got past
(`HandlerInv`): a command that may still act has entered its signature, the key that
it read is that of the owner, and only the owner's requests are past `requireOwner`.
Between its two steps of authentication a handler has a reading in the window of the
timestamp, which the clock is at most `Latency` ahead of (`TimeInv`); and an entry
expires no earlier than two windows after the timestamp less `Ahead` (`CacheInv`). So
an entry is purged only with a reading later than that, and then, if `Timely`, a
handler that still had a reading in the window would be later than `Latency`: no
delivery is in the window any more, or will be (`Dead`). A signature that was accepted
is therefore `Closed` for the life of the process: it has its entry, or it is dead
(`SpentInv`), and of all its deliveries one at most is past the replay check
(`OneIsFinal`). These parts are claimed if `Timely`, the others without. With that:

* `EffectInv` counts: a request has taken effect once less than it may while it can
  still be accepted or is under way, so its one effect brings it to the bound. A start
  within the window forgets the signatures, and raises the bound by one.
* `HeldInv` says without counting that IN_USE data have one run; `HeldByOneRun` follows
  with the cardinality of a singleton.
* `ConsentInv` says that every program on a list is there by an upload or an edit that
  took effect, signed by the uploader. A run keeps the consent it began with, since
  data in use is not deleted and its uploader does not change.
* A request is `Open` while a delivery of it may still act or be answered as done: its
  signature is not `Closed`, or a handler past the replay check has it. What
  was refused, and what a client has settled, is not open (`RefusedInv`, `SentInv`).
  Since clients send their next change of a list or a program when the last is
  settled, one change of it is open at a time; hence an edit that is about to be
  answered is still in effect (`ReplyInv`), and what was taken off a list, or deleted,
  has no open request that would bring it back (`DeniedInv`, `GoneInv`). An execution
  that reads the binary did so when the program was there (`BarredInv`). These parts
  are claimed of sessions without a restart within the window.

`IInv` was checked by TLC on the instance of the run `server` before it was proved. For
the refinement, the steps of the managers are the steps of the contract: a
registration, an edit and a deletion change one record, `BeginExecute` and the end of a
run add and take the user, where `HeldInv` says that nobody else is there, and an end of
the process takes all; every other step leaves the contract's variables alone.

The argument for `PowerLoss`. On an ordered file system what a power loss leaves is the
files after some operation of the log, but for a torn file, which is a `.tmp` file. So what must be true
of any disk must be true of `After(n)` for every n, not only of the files that the
process sees (`SoundInv`): whole files under proper names, the blob there when the
record is REGISTERED, the record not behind that of the disk, and none before its
registration. A step of the process appends one operation; `PlanInv` says what the
operations still to come are (the rest of a registration, of a deletion before its
commit, or of a deletion to finish) and which files and `.tmp` files they find, so each
leaves sound files (`PlanStep`). A kill or a loss leaves a beginning of an operation;
a `.tmp` file that it leaves is written again before it is renamed, as every rename in a
plan follows its write. On any file system a record that is torn when the process
starts ends it, and what it writes itself is whole in its own eyes until the next power
loss (`ServedInv`).

The argument for `Vault`. The length of a file is a sum over its lines and its entries
are those lines that are no comments, so what is proved of them is proved by induction
over the lines. The library's induction takes an operator, which no prover here can
instantiate; `CountUp` says it of a set of numbers (if it has 0 and with each number the
next, it has all) and follows from the least number that is missing. `Recursion` gives
the functions in the two `LET`s, which are defined by recursion on the place in the
file, and `EntriesOfEntries` and `EntriesOfMore` what the updates need: what is read
back of printed entries are these entries, each with one carriage return less.
`PrintedInv` says that what was printed and is not registered yet has the vault's
entries, one more of a new name, or one less, unless it is as long as the cap. Since
the cap is no smaller than the limit, such a file is refused, and `Register` loses the
book; otherwise, with `OneLineEach`, it is the step of the book at one name, as the
words of the other lines are untouched, and every other step is a stutter
(`VaultIsABook`). For `KnownLosses`: `add` is refused at `MAX_ENTRIES`, so what is
printed whole has no more entries than can be read, and of the three ways to be refused
the size and a line without a third field are left; such a line has no word.

What the findings leave standing. `LeftoversAreUntold` follows from `PromiseInv`: what a
client was told has a record on disk. For `OnlyEditsDisturbReplies`, the record that a
handler goes on to read is never forgotten by a process that serves (`RecordsRemain`),
what was promised of its list is changed by the answer to another edit alone
(`PromisesChange`), and `ListInv` says that memory has a promised list unless an edit is
at work.

`EachPartIsItself` holds since a part that was not chosen stays in its initial state.
What is proved in the modules of the parts is carried over by instances of them.

For `ReplayCache`: an entry that was purged was purged with a reading later
than its expiry, so the clock is past the last acceptance plus two windows,
while a delivery still on its way to the cache was read at most `Latency` ago
and within a window of a timestamp at most `Ahead` after that acceptance.

For `ProgramRegistry`: the operation that holds the mutex is uploading, uploaded
or removing, and each stage says which of its program's files are there and
what is still to do; memory lists what the files do, but for a program whose
upload is on disk and not answered yet. With that, metadata without a binary
would need a put that renames the metadata first or a delete that removes it
last, and what was told of a program no longer holds only when an operation on
it has begun, which forgets it.

For `Sandbox`: what is left of a print are the bytes after those passed to the
buffer, and the buffer has the beginning of what was passed, as far as it fits. A
write keeps this since a buffer with room has everything that was passed; one
without room takes all the rest (`BufferKeeps`). For `Attestation`: a process has
a quote of its own key or none by the time it issues certificates, and those that
are kept are of the process that made them.

Only model-checked, and why:

* `UseEnds`, `DeletionResumes`, `RunReturns`: liveness under fairness is out of the
  prover's reach.
* The properties of the runs that are expected to fail, which are false.

## 6. Findings

* `proof`: `finishDelete` puts the certificate and DELETED into memory before
  the last write and leaves them there when it fails. `GET …/proof` then serves
  a certificate that the next start replaces by another, though the comment of
  `proof` speaks of the certificate that was issued, and `lifecycle_test.go`
  compares the one after a restart with the original.
* `orphan`: a registration that stops between WriteFile and Rename of the
  record leaves the blob and, in `meta/<id>.json.tmp`, its key; the comment in
  `register` says such a blob has no key. Nothing removes either file.
* `reply`: the list in the answer to a PUT is read from the shared record
  after the lock is free, and can be the list of another edit.
* `replay_late`: the comment that two windows of retention are enough leaves
  out the time between the window check and the purge. It takes a timestamp
  at the future edge of the window and a handler that is delayed there.
* `replay_restart`: `SPEC.md` bounds a replay over a restart by one window;
  for a timestamp ahead of the server's clock it can be up to two.

* `vault_size`: `passman` refuses a vault of exactly `MAX_FILE_BYTES` (1 MiB, the
  runner's cap of stdout) or more when it reads it, and checks only the number
  of entries before it prints one. An `add` that brings the vault to the limit is
  cut by the runner, answered 200, and can be read by no later run; with the
  update of `src/wasm_module/passman/README.md` the old vault is then deleted.

Seen while modelling, without a run of their own:

* `check_field` of `passman` accepts a password of carriage returns alone. `add`
  prints it and the runner answers 200; `parse_vault` takes one off at every reading,
  and when none is left the line has two fields and every later run ends with
  "expected 3 tab-separated fields". `LossesAreKnown` names this as the second way to
  lose a vault. A password with carriage returns at its end loses one with every
  update of any entry.
* It accepts a name that begins with `#`, whose line the next run skips as a comment:
  `add` answers with a vault in which the entry is not to be found again. For the book
  nothing has happened.
* The vault without its last entry is empty data, which `handleRegister` refuses
  (line 242), so it cannot be registered in the way its README describes.
* `SPEC.md` (402-405) accepts one more use of a signature over a restart since
  only `execute` is not idempotent; a repeated `POST /data` registers the
  content once more, under an id that nobody was told. `EffectOnce` allows it.
* `handlers.go` (344-345) says 403 when one piece of data does not allow the
  program; `beginExecute` answers 404 or 409 when an earlier one is deleted or
  in use (`BeginCode`).
* On a file system that may write a file's content later than its rename, a
  power loss can leave a torn file under its proper name, against the comment of
  `atomicWrite` (`Behind`): a server does not start with a torn record, and a torn blob
  is found when it is read. On any file system a power loss can undo a commit that was
  answered, against the comment in `delete` (282-284), because nothing is synced; no
  property excludes it, and `BeginDelete` lets clients delete once more.

## 7. What is not modelled, and why

* The text of answers, and the decoding of bodies beyond whether it succeeds.
  Signatures and AES-GCM are taken to do what they promise.
* File systems that reorder operations on different names, and Gramine's protected
  files.
* The byte layout of quotes and certificates; `Attestation` has what a verifier
  compares.
* wazero, and what a WASM program computes; its memory limit.
* Times and sizes in records, and the uploader of a program: nothing acts on
  them.
* `passman`: how a command line is split, user names, and `list` and `get`, which
  change nothing. `ImplementsBook` leaves carriage returns at the end of a password out.
* How long a mutex is waited for in `Server`, and whether a handler that could finish
  within the five seconds of `Shutdown` does.
* The sample programs, the client script (it keeps no state; its clock is the
  timestamp in `ReplayCache`) and the build files.

## 8. Plan

Done: the lifecycle over its files with its contract, the reply of an edit, the
replay cache, the owner, the program registry, requests through the server, the
sandbox, the prover, power losses and the password manager, with the proofs
above: every safety property that a passing run checks is a theorem.

Next, if the findings are fixed in the code: the models with the fixes, of which
`OneCertificate`, `OrphanBlobHasNoKey`, `EditAnsweredWithItsList`, `UpdateKeepsVault`
and, without `Timely`, `AtMostOnce` and `EffectOnce` should become theorems; and with
files that are synced, that an answered deletion is not undone by a power loss.
