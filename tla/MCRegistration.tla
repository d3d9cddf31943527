--------------------------- MODULE MCRegistration ---------------------------
(* A vault with two collateral currencies: both registered by the faucet;  *)
(* one with an amount of its own, and more faults; and the same with a     *)
(* faucet whose list for vaults has an unknown symbol.                     *)
EXTENDS Registration

CONSTANTS a1, c1, c2
ByFaucet == [c \in {c1, c2} |-> NoAmount]
OneAmount == [ByFaucet EXCEPT ![c2] = 1]
MCConfigs ==
    {[amount |-> ByFaucet, unknown |-> {}, spent |-> 1],
     [amount |-> OneAmount, unknown |-> {}, spent |-> 0],
     [amount |-> OneAmount, unknown |-> {"Vault"}, spent |-> 0]}

=============================================================================
