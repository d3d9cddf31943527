------------------------------ MODULE Clients -------------------------------
(***************************************************************************)
(* The two implementations of BitcoinCoreApi.  The command line decides    *)
(* which one the vault runs with (BitcoinOpts::new_client): the light      *)
(* client of Wallet or the client of Bitcoin Core.                         *)
(***************************************************************************)
EXTENDS Wallet, Core

VARIABLE light      \* --light

NewClient ==
    /\ light \in BOOLEAN
    /\ Init /\ CoreInit
    /\ light => node = "up" /\ file = "absent"         \* there is no node
    /\ ~ light => feeRate = CHOOSE r \in Rates : TRUE   \* and no wallet here

ClientsNext ==
    \/ light /\ Next /\ UNCHANGED <<coreVars, light>>
    \/ ~ light /\ CoreNext /\ UNCHANGED <<vars, light>>

ClientsSpec ==
    NewClient /\ [][ClientsNext]_<<vars, coreVars, light>> /\ CoreFairness
=============================================================================
