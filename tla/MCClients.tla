------------------------------ MODULE MCClients -----------------------------
(* Two payments.  Light: a deposit key before and one after the derivation  *)
(* key.                                                                     *)
EXTENDS Clients

CONSTANTS j1, j2

MCAmount == (j1 :> 1000) @@ (j2 :> 720)
OneClient == [j \in Jobs |-> "a"]

\* A coin for both payments with change, one whose change would be dust and
\* one that costs more than it is worth.
MCDeposits == << [key |-> 2, value |-> 4000], [key |-> 1, value |-> 900],
                 [key |-> 2, value |-> 60] >>
=============================================================================
