---------------------------- MODULE Registration ----------------------------
(***************************************************************************)
(* How a vault registers itself (vault/src/system.rs, vault/src/faucet.rs) *)
(* with the help of the faucet: the composition of the vault's start with  *)
(* the module Faucet.                                                      *)
(*                                                                         *)
(* On every start the vault asks the faucet to fund its account, registers *)
(* a public key, and then, for all collateral currencies of auto_register  *)
(* at once, registers a vault, with an amount of the configuration or with *)
(* the faucet's allowance; in the second case it asks the faucet again, as *)
(* a vault, and deposits part of that allowance.  An error of any currency *)
(* ends the start, and the service loop starts it again.                   *)
(***************************************************************************)
EXTENDS Faucet

CONSTANTS
    Operator,      \* the vault's account
    TxFees,        \* TX_FEES
    NoAmount,      \* a currency without an amount is registered by the faucet
    Configs        \* amounts of auto_register, the faucet's unknown symbols, and
                   \* how much of MaxFaults is not to be used with them

ASSUME RegistrationAssumption ==
    /\ Operator \in Accounts
    /\ TxFees \in Nat /\ TxFees < UserAllowance
    /\ \A cf \in Configs : /\ \A c \in Currencies : cf.amount[c] \in Nat \cup {NoAmount}
                           /\ cf.unknown \subseteq Kinds /\ cf.spent \in 0..MaxFaults

VARIABLES
    vault,      \* the process: "off", "key" (registers its key), "register", "up"
    key,        \* chain: the public key is registered
    task,       \* maybe_register_vault of each currency
    waits,      \* the slot of the request that is waited for, by currency
    amount,     \* the configured amounts
    collateral, \* chain: collateral of the vault in each currency
    late,       \* deposits that were sent, given up, and may still be executed
    deposits,   \* history: deposits made in each currency
    resends     \* history: how often a deposit was sent again

startVars == <<vault, key, task, waits, amount, collateral, late, deposits, resends>>
vars == <<faucetVars, startVars>>

\* "fund": first get_funding; "refund": the second.  The funding that goes
\* before the key waits under the name AtStart.
Tasks == {"none", "fund", "register", "refund", "deposit", "done", "failed"}
AtStart == "start"
NoSlot == 0
Waiters == Currencies \cup {AtStart}

TypeOK ==
    /\ FaucetTypeOK
    /\ vault \in {"off", "key", "register", "up"}
    /\ key \in BOOLEAN
    /\ task \in [Currencies -> Tasks]
    /\ waits \in [Waiters -> Slots \cup {NoSlot}]
    /\ \E cf \in Configs : amount = cf.amount /\ unknown = cf.unknown
    /\ collateral \in [Currencies -> Nat]
    /\ deposits \in [Currencies -> Nat]
    /\ late \in [Currencies -> Nat] /\ resends \in [Currencies -> Nat]

Init ==
    /\ FaucetInit
    /\ vault = "off" /\ key = FALSE
    /\ task = [c \in Currencies |-> "none"]
    /\ waits = [w \in Waiters |-> NoSlot]
    /\ \E cf \in Configs : amount = cf.amount /\ unknown = cf.unknown /\ faults = cf.spent
    /\ collateral = [c \in Currencies |-> 0]
    /\ deposits = [c \in Currencies |-> 0]
    /\ late = deposits /\ resends = deposits

\* balance counts what is reserved too; this part is free.
Free(c) == balance[Operator][c] - collateral[c]
Awaited(r) == \E w \in Waiters : waits[w] = r

-----------------------------------------------------------------------------
(* Requests of the vault, answered by the faucet.                          *)

GetFunding(w) ==
    /\ waits[w] = NoSlot
    /\ \E r \in Slots : Request(r, Operator) /\ waits' = [waits EXCEPT ![w] = r]

\* The answer: Ok or an error.  A handler that gave up its transfer answered
\* with an error.
Answered(w, ok) ==
    /\ waits[w] # NoSlot
    /\ IF ok THEN req[waits[w]].st = "ok" ELSE req[waits[w]].st \in {"err", "adrift"}
    /\ req' = IF req[waits[w]].st = "adrift" THEN req ELSE [req EXCEPT ![waits[w]] = Idle]
    /\ waits' = [waits EXCEPT ![w] = NoSlot]

\* An answer nobody waits for is thrown away.
Unclaimed(r) ==
    /\ req[r].st \in {"ok", "err"} /\ ~Awaited(r)
    /\ req' = [req EXCEPT ![r] = Idle]
    /\ UNCHANGED <<store, disk, chainVars, unknown, history, faults, startVars>>

faucetRest == <<store, disk, chainVars, unknown, history, faults>>

-----------------------------------------------------------------------------
(* The start of the vault.                                                 *)

\* maybe_register_public_key: fund the account; a failure is only logged.
FundAtStart ==
    /\ vault = "off"
    /\ GetFunding(AtStart)
    /\ vault' = "key"
    /\ UNCHANGED <<faucetRest, key, task, amount, collateral, late, deposits, resends>>

\* Mutant: a registered vault goes on with the faucet's second allowance
MaybeRegisterVault_Resume(c) ==
    IF c \in registered[Operator] THEN "refund"
    ELSE IF amount[c] = NoAmount THEN "fund" ELSE "register"

\* maybe_register_vault: a registered vault is left alone; one without an
\* amount is registered by the faucet.
MaybeRegisterVault(c) ==
    IF c \in registered[Operator] THEN "done"
    ELSE IF amount[c] = NoAmount THEN "fund" ELSE "register"

\* ... then register a key if there is none, and start the registrations.
MaybeRegisterPublicKey ==
    /\ vault = "key"
    /\ \E ok \in BOOLEAN : Answered(AtStart, ok)
    /\ key' = TRUE
    /\ vault' = "register"
    /\ task' = [c \in Currencies |-> MaybeRegisterVault(c)]
    /\ UNCHANGED <<faucetRest, amount, collateral, late, deposits, resends>>

\* get_funding, the first and the second time.
AskFaucet(c) ==
    /\ task[c] \in {"fund", "refund"}
    /\ GetFunding(c)
    /\ UNCHANGED <<faucetRest, vault, key, task, amount, collateral, late, deposits, resends>>

\* fund_account and fund_and_register: an error of the first funding is only
\* logged, one of the second ends the registration.
Funded(c) ==
    /\ \/ /\ task[c] = "fund"
          /\ \E ok \in BOOLEAN : Answered(c, ok)
          /\ task' = [task EXCEPT ![c] = "register"]
       \/ /\ task[c] = "refund"
          /\ \E ok \in BOOLEAN :
                /\ Answered(c, ok)
                /\ task' = [task EXCEPT ![c] = IF ok THEN "deposit" ELSE "failed"]
    /\ UNCHANGED <<faucetRest, vault, key, amount, collateral, late, deposits, resends>>

\* What the vault is registered with: the configured amount or what is free
\* of it; the user allowance less the fees.
RegistrationCollateral(c) ==
    IF amount[c] = NoAmount THEN UserAllowance - TxFees
    ELSE IF amount[c] > Free(c) THEN Free(c) ELSE amount[c]

\* register_vault: refused without collateral, by the client if it is zero.
\* An error may hide that the transaction was executed.
RegisterVault(c) ==
    LET coll == RegistrationCollateral(c)
        possible == coll > 0 /\ coll <= Free(c) /\ c \notin registered[Operator]
        after == IF amount[c] = NoAmount THEN "refund" ELSE "done"
    IN
    /\ task[c] = "register"
    /\ \/ /\ possible
          /\ registered' = [registered EXCEPT ![Operator] = @ \cup {c}]
          /\ collateral' = [collateral EXCEPT ![c] = @ + coll]
          /\ \/ task' = [task EXCEPT ![c] = after] /\ UNCHANGED faults
             \/ task' = [task EXCEPT ![c] = "failed"] /\ Fault
       \/ /\ \/ ~possible /\ UNCHANGED faults
             \/ possible /\ Fault
          /\ task' = [task EXCEPT ![c] = "failed"]
          /\ UNCHANGED <<registered, collateral>>
    /\ UNCHANGED <<store, disk, req, balance, unknown, history,
                   vault, key, waits, amount, late, deposits, resends>>

\* A deposit of two thirds of the vault allowance is executed.
DepositExecuted(c) ==
    LET coll == (VaultAllowance \div 3) * 2 IN
    /\ coll <= Free(c)
    /\ collateral' = [collateral EXCEPT ![c] = @ + coll]
    /\ deposits' = [deposits EXCEPT ![c] = @ + 1]

\* deposit_collateral: executed, or refused, or given up with an error, and
\* then it may be executed all the same.
DepositCollateral(c) ==
    /\ task[c] = "deposit"
    /\ \/ /\ DepositExecuted(c)
          /\ task' = [task EXCEPT ![c] = "done"]
          /\ UNCHANGED <<late, faults>>
       \/ /\ \/ Free(c) < (VaultAllowance \div 3) * 2 /\ UNCHANGED <<late, faults>>
             \/ Fault /\ late' = [late EXCEPT ![c] = @ + 1]
          /\ task' = [task EXCEPT ![c] = "failed"]
          /\ UNCHANGED <<collateral, deposits>>
    /\ UNCHANGED <<store, disk, req, chainVars, unknown, history,
                   vault, key, waits, amount, resends>>

\* with_unique_signer: the block of the transaction is not found (a fork); it is
\* sent again with a fresh nonce, although the first may still be executed.
ResendDeposit(c) ==
    /\ task[c] = "deposit"
    /\ Fault
    /\ late' = [late EXCEPT ![c] = @ + 1]
    /\ resends' = [resends EXCEPT ![c] = @ + 1]
    /\ UNCHANGED <<store, disk, req, chainVars, unknown, history,
                   vault, key, task, waits, amount, collateral, deposits>>

\* A deposit that was given up is executed after all, or dropped by the pool.
LateDeposit(c) ==
    /\ late[c] > 0
    /\ late' = [late EXCEPT ![c] = @ - 1]
    /\ DepositExecuted(c) \/ UNCHANGED <<collateral, deposits>>
    /\ UNCHANGED <<faucetVars, vault, key, task, waits, amount, resends>>

\* Mutant: the results of join_all are not looked at
Registered_Ignored ==
    /\ vault = "register"
    /\ \A c \in Currencies : task[c] \in {"done", "failed"}
    /\ vault' = "up"
    /\ task' = [c \in Currencies |-> "none"]
    /\ UNCHANGED <<faucetVars, key, waits, amount, collateral, late, deposits, resends>>

\* run_service: join_all waits for every registration; an error ends the start.
Registered ==
    /\ vault = "register"
    /\ \A c \in Currencies : task[c] \in {"done", "failed"}
    /\ vault' = IF \E c \in Currencies : task[c] = "failed" THEN "off" ELSE "up"
    /\ task' = [c \in Currencies |-> "none"]
    /\ UNCHANGED <<faucetVars, key, waits, amount, collateral, late, deposits, resends>>

\* The vault is killed; what it asked of the faucet goes on.
KillVault ==
    /\ vault # "off"
    /\ Fault
    /\ vault' = "off"
    /\ task' = [c \in Currencies |-> "none"]
    /\ waits' = [w \in Waiters |-> NoSlot]
    /\ UNCHANGED <<store, disk, req, chainVars, unknown, history,
                   key, amount, collateral, late, deposits, resends>>

VaultStep ==
    \/ FundAtStart
    \/ MaybeRegisterPublicKey
    \/ \E c \in Currencies :
          \/ AskFaucet(c)
          \/ Funded(c)
          \/ RegisterVault(c)
          \/ DepositCollateral(c)
    \/ Registered

Next ==
    \/ FaucetStep /\ UNCHANGED startVars
    \/ \E r \in Slots : Unclaimed(r)
    \/ VaultStep
    \/ KillVault
    \/ \E c \in Currencies : ResendDeposit(c) \/ LateDeposit(c)

\* The faucet's handlers, the parachain and the clock go on, and a vault that
\* ended is started again.  Strangers and faults are owed to nobody.
Fairness ==
    /\ \A r \in Slots : WF_vars(HandlerStep(r) /\ UNCHANGED startVars) /\ WF_vars(Unclaimed(r))
    /\ WF_vars(Tick /\ UNCHANGED startVars)
    /\ WF_vars(VaultStep)

Spec == Init /\ [][Next]_vars /\ Fairness

-----------------------------------------------------------------------------
(* Properties                                                              *)

\* Wherever the vault is killed and restarted, and however the concurrent
\* registrations of its currencies meet, the faucet's allowances are put up
\* once: the collateral is never more than one registration and one deposit,
\* and one more deposit for every time that it was sent again after an apparent
\* fork.
PutUpOnce ==
    \A c \in Currencies :
        /\ deposits[c] <= 1 + resends[c]
        /\ collateral[c] <= (IF amount[c] = NoAmount THEN UserAllowance ELSE amount[c])
                            + deposits[c] * VaultAllowance
        /\ amount[c] # NoAmount => deposits[c] = 0

\* With a faucet whose lists name known symbols, the vault comes up with every
\* currency registered once faults stop, unless its account is above the
\* faucet's maximum in some currency: then it gets nothing in any other, and
\* starts over and over.
ComesUp ==
    <>[](\/ vault = "up" /\ key /\ registered[Operator] = Currencies
         \/ /\ \E c \in Currencies : balance[Operator][c] > MaxBalance
            /\ registered[Operator] # Currencies
         \/ unknown # {})

=============================================================================
