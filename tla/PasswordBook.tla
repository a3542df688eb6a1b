----------------------------- MODULE PasswordBook -----------------------------
(***************************************************************************)
(* What the password manager is for: a function from the names that have   *)
(* an entry to passwords, which changes at one name at a time, by an       *)
(* addition of a name that has none or the removal of one that has.  It    *)
(* can be lost, as a whole and for good.                                   *)
(***************************************************************************)
CONSTANTS Names, Words, NoWord

VARIABLES book, lost

Nothing == [name \in {} |-> NoWord]

Add(name, word) ==
    /\ ~lost /\ name \notin DOMAIN book
    /\ book' = [n \in DOMAIN book \cup {name} |-> IF n = name THEN word ELSE book[n]]
    /\ UNCHANGED lost

Remove(name) ==
    /\ ~lost /\ name \in DOMAIN book
    /\ book' = [n \in DOMAIN book \ {name} |-> book[n]]
    /\ UNCHANGED lost

Lose == ~lost /\ lost' = TRUE /\ book' = Nothing

BookInit ==
    /\ lost \in BOOLEAN
    /\ IF lost THEN book = Nothing ELSE \E names \in SUBSET Names : book \in [names -> Words]

BookNext ==
    Lose \/ \E name \in Names : Remove(name) \/ \E word \in Words : Add(name, word)

BookSpec == BookInit /\ [][BookNext]_<<book, lost>>

===============================================================================
