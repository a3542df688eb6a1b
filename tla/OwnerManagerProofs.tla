-------------------------- MODULE OwnerManagerProofs --------------------------
(***************************************************************************)
(* Proofs about OwnerManager, for any keys, failures and crashes.          *)
(***************************************************************************)
EXTENDS OwnerManager, TLAPS

USE OwnerKeys, OwnerBounds

\* A process that is up remembers what the file says, but for the registration
\* in progress, of which memory learns last.
OwnerInv ==
    /\ TypeOK
    /\ file # Torn
    /\ ~up => op = Idle
    /\ op = Idle /\ up => rec = file
    /\ op.pc \in {"write", "rename"} => rec = NoKey /\ file = NoKey /\ op.key \notin refused
    /\ op.pc = "rename" => tmp = op.key
    /\ op.pc = "done" => rec = NoKey /\ file = op.key /\ op.key \notin refused
    /\ ~up => rec = NoKey
    /\ OwnerIsLasting
    /\ RefusedIsNotOwner

\* Nothing is registered, refused or obeyed at first.
LEMMA OwnerInit == Init => OwnerInv
<1> SUFFICES ASSUME Init PROVE OwnerInv
  OBVIOUS
<1> USE DEF Init
<1>1. TypeOK
  BY DEF TypeOK
<1>2. OwnerIsLasting /\ RefusedIsNotOwner
  BY DEF OwnerIsLasting, RefusedIsNotOwner
<1> QED BY <1>1, <1>2 DEF OwnerInv, Idle

\* Every action preserves the invariant.
LEMMA OwnerStep == OwnerInv /\ [Next]_vars => OwnerInv'
<1> SUFFICES ASSUME OwnerInv, [Next]_vars PROVE OwnerInv'
  OBVIOUS
<1> USE DEF OwnerInv, TypeOK, Idle, OwnerIsLasting, RefusedIsNotOwner
<1>1. CASE Boot
  BY <1>1 DEF Boot, Loaded
<1>2. CASE Crash
  <2>1. op.key \in Keys \cup {NoKey}
    OBVIOUS
  <2>2. tmp' \in Keys \cup {NoKey, Torn}
    <3>1. CASE op.pc = "write"
      BY <1>2, <2>1, <3>1 DEF Crash, TornTmp
    <3>2. CASE op.pc # "write"
      BY <1>2, <3>2 DEF Crash
    <3> QED BY <3>1, <3>2
  <2>3. /\ up' = FALSE /\ rec' = NoKey /\ op' = Idle /\ crashes' = crashes + 1
        /\ UNCHANGED <<file, faults, accepted, refused, obeyed>>
    BY <1>2 DEF Crash
  <2>4. TypeOK'
    <3>0. up' \in BOOLEAN
      BY <2>3, Zenon
    <3>1. crashes' \in Nat /\ rec' \in Keys \cup {NoKey}
      BY <2>3
    <3>2. op' \in [pc : {"write", "rename", "done"}, key : Keys] \cup {Idle}
      BY <2>3
    <3> QED BY <2>2, <2>3, <3>0, <3>1, <3>2
  <2>5. OwnerIsLasting' /\ RefusedIsNotOwner'
    BY <2>3
  <2> QED BY <2>3, <2>4, <2>5
<1>3. CASE Command
  BY <1>3 DEF Command
<1>4. ASSUME NEW key \in Keys, Register(key) PROVE OwnerInv'
  BY <1>4 DEF Register
<1>5. CASE WriteTmp
  BY <1>5 DEF WriteTmp
<1>6. CASE Rename
  BY <1>6 DEF Rename
<1>7. CASE Registered
  BY <1>7 DEF Registered
<1>8. CASE Fail
  BY <1>8 DEF Fail, TornTmp
<1>9. CASE UNCHANGED vars
  BY <1>9 DEF vars
<1> QED BY <1>1, <1>2, <1>3, <1>4, <1>5, <1>6, <1>7, <1>8, <1>9 DEF Next

\* Every variable of the owner manager has its type; memory never has a torn key.
THEOREM OwnerTypes == Spec => []TypeOK
<1>1. OwnerInv => TypeOK
  BY DEF OwnerInv
<1> QED BY <1>1, OwnerInit, OwnerStep, PTL DEF Spec

\* The first registered key is the owner over every crash and restart.
THEOREM OwnerLasts == Spec => []OwnerIsLasting
<1>1. OwnerInv => OwnerIsLasting
  BY DEF OwnerInv
<1> QED BY <1>1, OwnerInit, OwnerStep, PTL DEF Spec

\* A registration answered with an error leaves no trace that could take effect.
THEOREM RefusedStaysOut == Spec => []RefusedIsNotOwner
<1>1. OwnerInv => RefusedIsNotOwner
  BY DEF OwnerInv
<1> QED BY <1>1, OwnerInit, OwnerStep, PTL DEF Spec

=============================================================================
