---------------------------- MODULE WhitelistReply ----------------------------
(***************************************************************************)
(* The end of handleSetAllowedPrograms: setAllowedPrograms has returned    *)
(* the record itself, lm.mu is free, and the handler reads the record's    *)
(* list to answer with it.                                                 *)
(***************************************************************************)
EXTENDS Lifecycle

VARIABLES
    unread,     \* edits that are done and whose handler has not read the list
    reply       \* the last answer: the list the client sent, the list it got

rvars == <<vars, unread, reply>>

Edits == [id : Ids, sent : Lists]

ReplyTypeOK == unread \subseteq Edits /\ reply \in [sent : Lists, got : Lists]

ReplyInit == Init /\ unread = {} /\ reply = [sent |-> {}, got |-> {}]

\* A step of the lifecycle; a finished edit leaves its handler to answer.
LifecycleStep ==
    /\ Next
    /\ unread' = IF mode' = "down" THEN {}
                 ELSE unread \cup {e \in Edits : /\ op.kind = "put" /\ op.pc = "done"
                                                 /\ e.id = op.id /\ e.sent = op.rec.allowed}
    /\ UNCHANGED reply

\* The read is not synchronised. While another edit of the record is at work
\* the words of the slice may be of the old list or of the new one.
Readable(id) ==
    {entries[id].allowed} \cup
    (IF op.kind = "put" /\ op.id = id
     THEN SUBSET (op.undo.allowed \cup entries[id].allowed) ELSE {})

ReadReply(e) ==
    /\ e \in unread
    /\ unread' = unread \ {e}
    /\ \E got \in Readable(e.id) : reply' = [sent |-> e.sent, got |-> got]
    /\ UNCHANGED vars

ReplyNext == LifecycleStep \/ \E e \in Edits : ReadReply(e)

ReplySpec == ReplyInit /\ [][ReplyNext]_rvars

-----------------------------------------------------------------------------

\* A successful PUT is answered with the list it has set (TestAPIWhitelistEdit
\* expects the program it allowed in the answer).
EditAnsweredWithItsList == reply.got = reply.sent

=============================================================================
