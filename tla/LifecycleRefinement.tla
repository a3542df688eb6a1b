-------------------------- MODULE LifecycleRefinement --------------------------
(***************************************************************************)
(* Lifecycle implements DataContract.  The phase of a piece of data and    *)
(* its whitelist are what its metadata file says, so the contract holds of *)
(* the durable state, whatever memory holds; the users are the executions. *)
(***************************************************************************)
EXTENDS MCLifecycle

PhaseOf(state) == CASE state = "ABSENT"                  -> "absent"
                    [] state \in {"REGISTERED", "IN_USE"} -> "live"
                    [] state = "DELETING"                -> "shredded"
                    [] state = "DELETED"                 -> "certified"

Contract == INSTANCE DataContract WITH
    phase <- [id \in Ids |-> PhaseOf(meta[id].state)],
    list  <- [id \in Ids |-> meta[id].allowed],
    users <- using

\* Every behaviour of the code, with its crashes and failed writes, is one the
\* contract allows.
RefinesContract == Contract!ContractSpec

=============================================================================
