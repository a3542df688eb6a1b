------------------------------ MODULE Attestation ------------------------------
(***************************************************************************)
(* The prover (attestation.go) and the certificates it issues for the      *)
(* lifecycle manager.  A process draws a signing key, puts its hash into   *)
(* the enclave's report data, and takes one quote of it, or a local report *)
(* when there is no quote, or neither; the deletions that it finds         *)
(* unfinished, and all later ones, get a certificate with what it has.     *)
(* The n-th process draws the n-th key.  What happens to the data's own    *)
(* files is in Lifecycle.                                                  *)
(***************************************************************************)
EXTENDS Naturals

CONSTANTS
    Ids,
    NoId, NoCertificate,
    MaxStarts       \* bound: processes

\* What the constants have to be.
AttestationBounds == NoId \notin Ids /\ MaxStarts \in Nat \ {0}

None == 0           \* no key, no quote

VARIABLES
    stage,      \* "down", "key", "report", "quote", "boot" (recovery) or "up"
    key,        \* the signing key
    reportData, \* the key whose hash is in user_report_data
    quote,      \* the report data in the quote
    measured,   \* mrenclave and mrsigner are known
    deleting,   \* the deletion that holds lm.mu
    memory,     \* state and certificate of the records in memory
    file,       \* and in their files
    shown       \* certificates that were handed out

device == <<key, reportData, quote, measured>>
vars   == <<stage, device, deleting, memory, file, shown>>

Keys == 0..MaxStarts

\* The signature is over id, time and content hash, by signer.
Certificate == [id : Ids, publicKey : Keys, signer : Keys, quote : Keys, measured : BOOLEAN]
Record == [state : {"live", "deleting"}, certificate : {NoCertificate}]
          \cup [state : {"deleted"}, certificate : Certificate]
Live   == [state |-> "live", certificate |-> NoCertificate]

TypeOK ==
    /\ stage \in {"down", "key", "report", "quote", "boot", "up"}
    /\ {key, reportData, quote} \subseteq Keys /\ measured \in BOOLEAN
    /\ deleting \in Ids \cup {NoId}
    /\ memory \in [Ids -> Record] /\ file \in [Ids -> Record]
    /\ shown \subseteq Certificate

Init ==
    /\ stage = "key" /\ key = None /\ reportData = None /\ quote = None /\ measured = FALSE
    /\ deleting = NoId /\ shown = {}
    /\ memory = [id \in Ids |-> Live] /\ file = memory

-----------------------------------------------------------------------------
(* newProver                                                               *)

Undisturbed == UNCHANGED <<deleting, memory, file, shown>>

GenerateKey ==
    /\ stage = "key" /\ stage' = "report" /\ key' = key + 1
    /\ UNCHANGED <<reportData, quote, measured>> /\ Undisturbed

\* Outside SGX the write fails, and that is all.
WriteReportData ==
    /\ stage = "report"
    /\ \/ stage' = "quote" /\ reportData' = key
       \/ stage' = "boot" /\ UNCHANGED reportData
    /\ UNCHANGED <<key, quote, measured>> /\ Undisturbed

\* A quote, or a local report, or neither can be read.
ReadQuote ==
    /\ stage = "quote" /\ stage' = "boot"
    /\ \/ quote' = reportData /\ measured' = TRUE
       \/ quote' = None /\ measured' \in BOOLEAN
    /\ UNCHANGED <<key, reportData>> /\ Undisturbed

-----------------------------------------------------------------------------
(* Deletions                                                               *)

\* issueCertificate.
Issued(id) ==
    [id |-> id, publicKey |-> key, signer |-> key, quote |-> quote, measured |-> measured]

Delete(id) ==
    /\ stage = "up" /\ deleting = NoId /\ memory[id].state = "live"
    /\ deleting' = id
    /\ memory' = [memory EXCEPT ![id].state = "deleting"]
    /\ file' = [file EXCEPT ![id].state = "deleting"]
    /\ UNCHANGED <<stage, device, shown>>

Finished(id) == [state |-> "deleted", certificate |-> Issued(id)]

\* finishDelete is at work on id: for its request, or for the recovery.
Finishing(id) ==
    /\ memory[id].state = "deleting"
    /\ stage = "boot" \/ deleting = id

\* The client of a deletion that ends has the certificate.
Finish(id) ==
    /\ Finishing(id)
    /\ memory' = [memory EXCEPT ![id] = Finished(id)]
    /\ file' = [file EXCEPT ![id] = Finished(id)]
    /\ shown' = IF stage = "up" THEN shown \cup {Issued(id)} ELSE shown
    /\ deleting' = NoId
    /\ UNCHANGED <<stage, device>>

\* The blob cannot be removed, or the record not be written: memory has the
\* certificate then. A start that fails is the end of the process.
FinishFails(id) ==
    /\ Finishing(id)
    /\ \/ UNCHANGED memory
       \/ stage = "up" /\ memory' = [memory EXCEPT ![id] = Finished(id)]
    /\ stage' = IF stage = "boot" THEN "down" ELSE stage
    /\ deleting' = NoId
    /\ UNCHANGED <<device, file, shown>>

Serve ==
    /\ stage = "boot" /\ \A id \in Ids : memory[id].state # "deleting"
    /\ stage' = "up"
    /\ UNCHANGED <<device, deleting, memory, file, shown>>

\* Variant: the stored signature is shown with what this process knows of itself.
WithPresentReport(certificate) ==
    [certificate EXCEPT !.publicKey = key, !.quote = quote, !.measured = measured]

\* proof gives the certificate as it was issued.
AsIssued(certificate) == certificate

Proof(id) ==
    /\ stage = "up" /\ deleting = NoId /\ memory[id].state = "deleted"
    /\ shown' = shown \cup {AsIssued(memory[id].certificate)}
    /\ UNCHANGED <<stage, device, deleting, memory, file>>

\* The key and the quote are only in memory, the report data in the enclave.
Crash ==
    /\ stage # "down" /\ stage' = "down" /\ deleting' = NoId
    /\ UNCHANGED <<device, memory, file, shown>>

Start ==
    /\ stage = "down" /\ key < MaxStarts /\ stage' = "key"
    /\ reportData' = None /\ quote' = None /\ measured' = FALSE
    /\ memory' = file
    /\ UNCHANGED <<key, deleting, file, shown>>

Next ==
    \/ GenerateKey \/ WriteReportData \/ ReadQuote \/ Serve \/ Crash \/ Start
    \/ \E id \in Ids : Delete(id) \/ Finish(id) \/ FinishFails(id) \/ Proof(id)

Spec == Init /\ [][Next]_vars

-----------------------------------------------------------------------------
(* Properties                                                              *)

\* The steps of a verifier (README.md, deletion certificate): the quote, if there is
\* one, is of the public key, and the signature is by it.
Verifies(certificate) ==
    /\ certificate.signer = certificate.publicKey
    /\ certificate.quote # None => /\ certificate.quote = certificate.publicKey
                                   /\ certificate.measured

\* Every certificate that is handed out verifies by itself, by whichever process it
\* was issued and however many have run since (newProver, issueCertificate, proof).
AuditPasses == \A certificate \in shown : Verifies(certificate)

===============================================================================
