-------------------------------- MODULE MCVault --------------------------------
(* Instances of Vault for TLC.                                             *)
EXTENDS Vault

CONSTANTS bank, short, long

Lengths == [word \in Words |-> IF word = long THEN 2 ELSE 1]
Plain   == [word : {short, long}, crs : {0}]
OneLine == <<[name |-> bank, password |-> [word |-> short, crs |-> 0]]>>

===============================================================================
