--------------------------- MODULE ReplayCacheProofs ---------------------------
(***************************************************************************)
(* Proofs about ReplayCache, for any requests, handlers, window, clock     *)
(* skew and latency.  The retention of two windows is shown sufficient     *)
(* when skew and latency together are at most one window.                  *)
(***************************************************************************)
EXTENDS ReplayCache, TLAPS

USE WindowAssumption, ClockAssumption

\* A delivery between its window check and checkReplay holds a reading that is
\* not ahead of the clock, at most Latency behind it, and within the window.
PendingInv ==
    \A d \in pending :
        /\ d.now <= clock /\ clock <= d.now + Latency
        /\ d.now <= stamp[d.req] + Window
        /\ stamp[d.req] <= d.now + Ahead

\* A cached entry is that of the one acceptance; an entry that is gone was
\* purged with a reading past its expiry.
CacheInv ==
    \A r \in Requests :
        /\ count[r] <= 1
        /\ seen[r] # 0 => count[r] = 1 /\ seen[r] = last[r] + 2 * Window
        /\ count[r] # 0 => stamp[r] <= last[r] + Ahead
        /\ count[r] # 0 /\ seen[r] = 0 => clock > last[r] + 2 * Window

\* Every acceptance lies within the window of the request's timestamp.
HistoryInv ==
    \A r \in Requests :
        /\ first[r] = 0 => last[r] = 0
        /\ first[r] # 0 => stamp[r] <= first[r] + Ahead
        /\ last[r] <= first[r] + Window + Ahead

\* Every action keeps every variable within its type.
LEMMA ReplayTypeStep == TypeOK /\ [Next]_vars => TypeOK'
<1> SUFFICES ASSUME TypeOK, [Next]_vars PROVE TypeOK'
  OBVIOUS
<1> USE DEF TypeOK
<1>1. ASSUME NEW h \in Handlers, NEW r \in Requests, Deliver(h, r) PROVE TypeOK'
  BY <1>1 DEF Deliver, Delivery
<1>2. ASSUME NEW d \in pending, CheckReplay(d) PROVE TypeOK'
  <2>1. d.now \in Nat /\ d.req \in Requests
    BY DEF Delivery
  <2>2. Purged(d.now) \in [Requests -> Nat]
    BY DEF Purged
  <2> QED BY <1>2, <2>1, <2>2 DEF CheckReplay, Retention
<1>3. CASE Tick
  BY <1>3 DEF Tick
<1>4. CASE Restart
  BY <1>4 DEF Restart
<1>5. CASE UNCHANGED vars
  BY <1>5 DEF vars
<1> QED BY <1>1, <1>2, <1>3, <1>4, <1>5 DEF Next

\* Readings stay within their bounds: the clock waits for a slow handler.
LEMMA PendingStep == TypeOK /\ PendingInv /\ [Next]_vars => PendingInv'
<1> SUFFICES ASSUME TypeOK, PendingInv, [Next]_vars PROVE PendingInv'
  OBVIOUS
<1> USE DEF TypeOK, PendingInv, Delivery
<1>1. ASSUME NEW h \in Handlers, NEW r \in Requests, Deliver(h, r) PROVE PendingInv'
  BY <1>1 DEF Deliver, InWindow
<1>2. ASSUME NEW d \in pending, CheckReplay(d) PROVE PendingInv'
  BY <1>2 DEF CheckReplay
<1>3. CASE Tick
  BY <1>3 DEF Tick
<1>4. CASE Restart
  BY <1>4 DEF Restart
<1>5. CASE UNCHANGED vars
  BY <1>5 DEF vars
<1> QED BY <1>1, <1>2, <1>3, <1>4, <1>5 DEF Next

\* The cache outlives every delivery that could repeat an accepted request.
LEMMA CacheStep ==
    ASSUME Ahead + Latency <= Window, TypeOK, PendingInv, CacheInv, [Next]_vars
    PROVE  CacheInv'
<1> USE DEF TypeOK, CacheInv
<1>1. ASSUME NEW h \in Handlers, NEW r \in Requests, Deliver(h, r) PROVE CacheInv'
  BY <1>1 DEF Deliver
<1>2. ASSUME NEW d \in pending, CheckReplay(d) PROVE CacheInv'
  <2>1. d.now \in Nat /\ d.req \in Requests
    BY DEF Delivery
  <2>2. \A r \in Requests : Purged(d.now)[r] = IF d.now > seen[r] THEN 0 ELSE seen[r]
    BY DEF Purged
  <2>3. Purged(d.now) \in [Requests -> Nat]
    BY <2>1 DEF Purged
  <2>4. d.now <= clock /\ clock <= d.now + Latency
    BY DEF PendingInv
  <2>5. CASE Purged(d.now)[d.req] # 0
    BY <1>2, <2>1, <2>2, <2>4, <2>5 DEF CheckReplay
  <2>6. CASE Purged(d.now)[d.req] = 0
    <3>1. count[d.req] = 0
      <4>1. SUFFICES ASSUME count[d.req] # 0 PROVE FALSE
        OBVIOUS
      <4>2. d.now <= last[d.req] + Ahead + Window
        BY <2>1, <4>1 DEF PendingInv
      <4>3. clock > last[d.req] + 2 * Window
        BY <2>1, <2>2, <2>4, <2>6, <4>1
      <4> QED BY <2>1, <2>4, <4>2, <4>3
    <3>2. stamp[d.req] <= d.now + Ahead
      BY DEF PendingInv
    <3>3. /\ seen' = [Purged(d.now) EXCEPT ![d.req] = d.now + Retention]
          /\ count' = [count EXCEPT ![d.req] = @ + 1]
          /\ last' = [last EXCEPT ![d.req] = d.now]
          /\ UNCHANGED <<clock, stamp>>
      BY <1>2, <2>6 DEF CheckReplay
    <3> QED BY <2>1, <2>2, <2>3, <2>4, <3>1, <3>2, <3>3 DEF Retention
  <2> QED BY <2>5, <2>6
<1>3. CASE Tick
  BY <1>3 DEF Tick
<1>4. CASE Restart
  BY <1>4 DEF Restart
<1>5. CASE UNCHANGED vars
  BY <1>5 DEF vars
<1> QED BY <1>1, <1>2, <1>3, <1>4, <1>5 DEF Next

\* Acceptances stay within reach of the first one, restarts included.
LEMMA HistoryStep == TypeOK /\ PendingInv /\ HistoryInv /\ [Next]_vars => HistoryInv'
<1> SUFFICES ASSUME TypeOK, PendingInv, HistoryInv, [Next]_vars PROVE HistoryInv'
  OBVIOUS
<1> USE DEF TypeOK, HistoryInv
<1>1. ASSUME NEW h \in Handlers, NEW r \in Requests, Deliver(h, r) PROVE HistoryInv'
  BY <1>1 DEF Deliver
<1>2. ASSUME NEW d \in pending, CheckReplay(d) PROVE HistoryInv'
  <2>1. /\ d.now \in Nat /\ d.req \in Requests
        /\ d.now <= stamp[d.req] + Window /\ stamp[d.req] <= d.now + Ahead
    BY DEF Delivery, PendingInv
  <2>2. CASE UNCHANGED <<first, last>>
    BY <1>2, <2>2 DEF CheckReplay
  <2>3. CASE /\ first' = [first EXCEPT ![d.req] = IF @ = 0 THEN d.now ELSE @]
             /\ last' = [last EXCEPT ![d.req] = d.now]
    BY <1>2, <2>1, <2>3 DEF CheckReplay
  <2> QED BY <1>2, <2>2, <2>3 DEF CheckReplay
<1>3. CASE Tick
  BY <1>3 DEF Tick
<1>4. CASE Restart
  BY <1>4 DEF Restart
<1>5. CASE UNCHANGED vars
  BY <1>5 DEF vars
<1> QED BY <1>1, <1>2, <1>3, <1>4, <1>5 DEF Next

\* The initial state satisfies every part of the invariant.
LEMMA ReplayInit == Init => TypeOK /\ PendingInv /\ CacheInv /\ HistoryInv
  BY DEF Init, TypeOK, PendingInv, CacheInv, HistoryInv

\* Every variable of the cache has its type: expiries, readings and counts are numbers.
THEOREM CacheTypes == Spec => []TypeOK
  BY ReplayInit, ReplayTypeStep, PTL DEF Spec

\* A process accepts a signed request at most once, provided that a handler
\* reaches checkReplay within what the window leaves over the clock skew.
THEOREM AcceptedOnce ==
    ASSUME Ahead + Latency <= Window
    PROVE  Spec => []AtMostOnce
<1> DEFINE Inv == TypeOK /\ PendingInv /\ CacheInv
<1>1. Init => Inv
  BY ReplayInit
<1>2. Inv /\ [Next]_vars => Inv'
  BY ReplayTypeStep, PendingStep, CacheStep
<1>3. Inv => AtMostOnce
  BY DEF CacheInv, AtMostOnce
<1> QED BY <1>1, <1>2, <1>3, PTL DEF Spec

\* Over any number of restarts a request is accepted again no later than
\* Window + Ahead after its first acceptance, whatever the latency.
THEOREM ReplayReach == Spec => []AcceptedAgainWithinReach
<1> DEFINE Inv == TypeOK /\ PendingInv /\ HistoryInv
<1>1. Init => Inv
  BY ReplayInit
<1>2. Inv /\ [Next]_vars => Inv'
  BY ReplayTypeStep, PendingStep, HistoryStep
<1>3. Inv => AcceptedAgainWithinReach
  BY DEF HistoryInv, AcceptedAgainWithinReach
<1> QED BY <1>1, <1>2, <1>3, PTL DEF Spec

=============================================================================
