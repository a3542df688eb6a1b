--------------------------- MODULE ServerRefinement ---------------------------
(***************************************************************************)
(* The server with its handlers keeps the contract of registered data,     *)
(* DataContract: whatever requests are delivered, repeated, refused or     *)
(* cut off, data is used by one execution at a time, of a program on its   *)
(* list, and is shredded only while unused.                                *)
(***************************************************************************)
EXTENDS MCServer

\* A deletion whose certificate is not written yet is no different to handlers.
PhaseOf(state) == CASE state = "ABSENT"                   -> "absent"
                    [] state \in {"REGISTERED", "IN_USE"} -> "live"
                    [] state \in {"DELETING", "DELETED"}  -> "shredded"

Contract == INSTANCE DataContract WITH
    phase <- [id \in Ids |-> PhaseOf(data[id].state)],
    list  <- [id \in Ids |-> data[id].allowed],
    users <- [w \in Workers |-> IF Running(w) THEN Has(Req(w)) ELSE {}]

\* Every behaviour of the handlers, the process and the clients is one that the
\* contract of registered data allows.
KeepsContract == Contract!ContractSpec

===============================================================================
