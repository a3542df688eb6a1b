----------------------------- MODULE ReplayCache -----------------------------
(***************************************************************************)
(* authenticate and checkReplay of auth.go: a signed request is accepted   *)
(* if its timestamp is within the window of the time the handler reads,    *)
(* and its signature is not in the cache of signatures already used.       *)
(*                                                                         *)
(* The handler reads the time once, before it verifies the signature and   *)
(* before it takes authenticator.mu; the window check, the purge of the    *)
(* cache and the new entry's expiry all use that one reading.  Other       *)
(* handlers run, and time passes, in between.  A request may be delivered  *)
(* any number of times.  Requests whose signature does not verify change   *)
(* nothing and are left out.                                               *)
(***************************************************************************)
EXTENDS Naturals

CONSTANTS
    Requests,   \* signed requests; each stands for its cache key, key and signature
    Handlers,   \* goroutines that authenticate
    Window,     \* authenticator.window
    Ahead,      \* how far a client's clock may be ahead of the server's
    Latency,    \* time a handler may take from reading the time to checkReplay
    MaxClock    \* bound: the clock stops

ASSUME WindowAssumption == Window \in Nat \ {0}
ASSUME ClockAssumption == Ahead \in Nat /\ Latency \in Nat /\ MaxClock \in Nat

VARIABLES
    clock,      \* the server's clock
    stamp,      \* the timestamp each request is signed with
    pending,    \* handlers between the window check and checkReplay
    seen,       \* authenticator.seen: expiry of each cached key, 0 for none
    count,      \* times each request was accepted by this process
    first,      \* reading with which each request was first accepted, by any process
    last        \* reading with which it was last accepted

vars == <<clock, stamp, pending, seen, count, first, last>>

Delivery == [handler : Handlers, req : Requests, now : Nat]

TypeOK ==
    /\ clock \in Nat
    /\ stamp \in [Requests -> Nat]
    /\ pending \subseteq Delivery
    /\ seen \in [Requests -> Nat]
    /\ count \in [Requests -> Nat]
    /\ first \in [Requests -> Nat]
    /\ last \in [Requests -> Nat]

Init ==
    /\ clock \in 1..MaxClock
    /\ stamp \in [Requests -> 1..MaxClock]
    /\ pending = {}
    /\ seen = [r \in Requests |-> 0] /\ count = [r \in Requests |-> 0]
    /\ first = [r \in Requests |-> 0] /\ last = [r \in Requests |-> 0]

\* Variant: only timestamps in the future are refused.
NotTooNew(r) == stamp[r] <= clock + Window

InWindow(r) == clock <= stamp[r] + Window /\ stamp[r] <= clock + Window

\* A request signed by a client whose clock reads stamp[r] reaches a handler.
Deliver(h, r) ==
    /\ \A d \in pending : d.handler # h
    /\ stamp[r] <= clock + Ahead
    /\ InWindow(r)
    /\ pending' = pending \cup {[handler |-> h, req |-> r, now |-> clock]}
    /\ UNCHANGED <<clock, stamp, seen, count, first, last>>

\* Variants: entries are kept for one window; the sign of the expiry is wrong.
RetentionOfOneWindow == Window
RetentionBackwards == 0 - 2 * Window

Retention == 2 * Window

\* The entries that survive the purge made with the reading now.
Purged(now) == [r \in Requests |-> IF now > seen[r] THEN 0 ELSE seen[r]]

\* checkReplay, with the reading taken in authenticate.
CheckReplay(d) ==
    /\ d \in pending
    /\ pending' = pending \ {d}
    /\ \/ /\ Purged(d.now)[d.req] # 0
          /\ seen' = Purged(d.now)
          /\ UNCHANGED <<count, first, last>>
       \/ /\ Purged(d.now)[d.req] = 0
          /\ seen' = [Purged(d.now) EXCEPT ![d.req] = d.now + Retention]
          /\ count' = [count EXCEPT ![d.req] = @ + 1]
          /\ first' = [first EXCEPT ![d.req] = IF @ = 0 THEN d.now ELSE @]
          /\ last' = [last EXCEPT ![d.req] = d.now]
    /\ UNCHANGED <<clock, stamp>>

Tick ==
    /\ clock < MaxClock
    /\ \A d \in pending : clock < d.now + Latency
    /\ clock' = clock + 1
    /\ UNCHANGED <<stamp, pending, seen, count, first, last>>

\* The cache lives in memory only.
Restart ==
    /\ pending' = {}
    /\ seen' = [r \in Requests |-> 0]
    /\ count' = [r \in Requests |-> 0]
    /\ UNCHANGED <<clock, stamp, first, last>>

Next ==
    \/ \E h \in Handlers, r \in Requests : Deliver(h, r)
    \/ \E d \in pending : CheckReplay(d)
    \/ Tick
    \/ Restart

Spec == Init /\ [][Next]_vars

-----------------------------------------------------------------------------

\* A signed request is accepted at most once by one process, however often it
\* is delivered and however its deliveries interleave with those of others.
AtMostOnce == \A r \in Requests : count[r] <= 1

\* Over restarts, which empty the cache, a request is accepted again no later
\* than Window + Ahead after the first time.
AcceptedAgainWithinReach == \A r \in Requests : last[r] <= first[r] + Window + Ahead

\* "Over a restart a replay is tolerated for at most the window" (SPEC.md,
\* section on replay protection). A timestamp ahead of the clock breaks it.
AcceptedAgainWithinWindow == \A r \in Requests : last[r] <= first[r] + Window

=============================================================================
