SPECIFICATION Spec
CONSTANTS
  Keys = {alice, bob}
  NoKey = NoKey
  Torn = Torn
  MaxFaults = 2
  MaxCrashes = 2
INVARIANTS
  TypeOK
  OwnerIsLasting
  RefusedIsNotOwner
