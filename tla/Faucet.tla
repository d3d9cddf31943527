------------------------------- MODULE Faucet -------------------------------
(***************************************************************************)
(* The faucet (faucet/src/http.rs): its handler of fund_account, any       *)
(* number of which run at once, the key-value store with the last claim of *)
(* every account, and what the parachain makes of the transfers.           *)
(*                                                                         *)
(* Time is kept as ages: a record knows how many ticks ago it was written, *)
(* and one older than the cooldown can tell apart is the same as none.  A  *)
(* tick is an hour of faucet_cooldown_hours or less.                       *)
(***************************************************************************)
EXTENDS Naturals, FiniteSets

CONSTANTS
    Accounts,       \* accounts that are funded
    Currencies,     \* symbols of the allowance lists
    NumSlots,       \* bound: requests (and stray transfers) at a time
    Cooldown,       \* faucet_cooldown_hours
    UserAllowance, VaultAllowance, \* amounts, the same for every symbol
    MaxBalance,     \* max_fundable_client_balance
    MaxFaults       \* bound: errors, interrupted batches, crashes, stray requests

Kinds == {"User", "Vault"}   \* FundingRequestAccountType

ASSUME FaucetAssumption ==
    /\ Cooldown \in Nat \ {0}
    /\ UserAllowance \in Nat \ {0} /\ VaultAllowance \in Nat \ {0}
    /\ MaxBalance \in Nat
    /\ NumSlots \in Nat /\ MaxFaults \in Nat

Slots == 1..NumSlots
Old == 2 * Cooldown + 1   \* the age at which ages stop: long ago, or never
Older(age) == IF age < Old THEN age + 1 ELSE age

VARIABLES
    store,      \* the last claim of each account in the key-value store
    disk,       \* the store as it was flushed before the last tick
    req,        \* the handlers of fund_account
    registered, \* chain: currencies for which an account has a vault
    balance,    \* chain: free and reserved balance of each account
    unknown,    \* config: kinds whose allowance list names an unknown symbol
    paid,       \* history: age of the youngest claim that was paid, by kind
    tooSoon,    \* history: accounts paid twice for claims within a cooldown
    excused,    \* history: accounts whose last claim was dropped from the store, or
                \* whose transfer was sent twice
    faults      \* faults so far

chainVars == <<registered, balance>>
history == <<paid, tooSoon, excused>>
faucetVars == <<store, disk, req, chainVars, unknown, history, faults>>

NoClaim == [kind |-> "User", age |-> Old]
Claims == [kind : Kinds, age : 0..Old - 1] \cup {NoClaim}

\* Where a handler is.  "kind": get_account_type; "checks": signature and
\* balances; "lock": waits for LOCK with its threshold computed; "write": holds
\* LOCK; "transfer": the batch is submitted; "remove": the record is to be
\* dropped; "ok", "err": the answer.  A transfer "adrift" has lost its handler,
\* whose client got an error, but may still be executed.
Steps == {"idle", "kind", "checks", "lock", "write", "transfer", "remove", "ok", "err",
          "adrift"}
Handlers == [st : Steps, acct : Accounts, kind : Kinds, age : 0..Old]

FaucetTypeOK ==
    /\ store \in [Accounts -> Claims] /\ disk \in [Accounts -> Claims]
    /\ req \in [Slots -> Handlers]
    /\ registered \in [Accounts -> SUBSET Currencies]
    /\ balance \in [Accounts -> [Currencies -> Nat]]
    /\ unknown \subseteq Kinds
    /\ paid \in [Accounts -> [Kinds -> 0..Old]]
    /\ tooSoon \subseteq Accounts /\ excused \subseteq Accounts
    /\ faults \in 0..MaxFaults

Idle == [st |-> "idle", acct |-> CHOOSE a \in Accounts : TRUE, kind |-> "User", age |-> 0]

FaucetInit ==
    /\ store = [a \in Accounts |-> NoClaim] /\ disk = store
    /\ req = [r \in Slots |-> Idle]
    /\ registered = [a \in Accounts |-> {}]
    /\ balance = [a \in Accounts |-> [c \in Currencies |-> 0]]
    /\ paid = [a \in Accounts |-> [k \in Kinds |-> Old]]
    /\ tooSoon = {} /\ excused = {}

Fault == faults < MaxFaults /\ faults' = faults + 1
Goto(r, st) == req' = [req EXCEPT ![r].st = st]
Answer(r, st) == req' = [req EXCEPT ![r] = [Idle EXCEPT !.st = st]]
Allowance(kind) == IF kind = "User" THEN UserAllowance ELSE VaultAllowance

-----------------------------------------------------------------------------
(* The handler of fund_account.                                            *)

\* fund_account: a request arrives and opens the bucket.  The permit it asks
\* of CONCURRENCY_LIMITER is not awaited and its refusal is dropped, so it
\* holds nobody back.
Request(r, a) ==
    /\ req[r].st = "idle" /\ \A q \in 1..r - 1 : req[q].st # "idle"
    /\ req' = [req EXCEPT ![r] = [Idle EXCEPT !.st = "kind", !.acct = a]]

\* get_account_type: an account with a vault is a Vault; an error of the
\* query makes it a User.
GetAccountType(r) ==
    LET a == req[r].acct IN
    /\ req[r].st = "kind"
    /\ \/ /\ req' = [req EXCEPT ![r].st = "checks",
                                ![r].kind = IF registered[a] = {} THEN "User" ELSE "Vault"]
          /\ UNCHANGED faults
       \/ /\ registered[a] # {} /\ Fault
          /\ req' = [req EXCEPT ![r].st = "checks", ![r].kind = "User"]
    /\ UNCHANGED <<store, disk, chainVars, unknown, history>>

\* Mutant: the balances are not looked at
EnsureFundingAllowed_AnyBalance(r) ==
    /\ req[r].st = "checks"
    /\ Goto(r, "lock")
    /\ UNCHANGED <<store, disk, chainVars, unknown, history, faults>>

\* ensure_funding_allowed, up to the lock: the signature, the symbols of the
\* list (AssetNotFound is an error that drops the record), the balances, and
\* the threshold of the cooldown as of now.
EnsureFundingAllowed(r) ==
    LET h == req[r]
        tooRich == \E c \in Currencies : balance[h.acct][c] > MaxBalance
    IN
    /\ h.st = "checks"
    /\ \/ /\ h.kind \in unknown
          /\ req' = [req EXCEPT ![r].st = "remove", ![r].age = Old]
          /\ UNCHANGED faults
       \/ /\ h.kind \notin unknown
          /\ IF tooRich THEN Answer(r, "err") ELSE Goto(r, "lock")
          /\ UNCHANGED faults
       \/ Fault /\ Answer(r, "err")
    /\ UNCHANGED <<store, disk, chainVars, unknown, history>>

\* has_request_expired, is_type_and_was_user.  The threshold is elapsed ticks
\* old; an account without a record is never refused.
HasRequestExpired(claim, elapsed, kind) ==
    claim.age > Cooldown + elapsed \/ (kind = "Vault" /\ claim.kind = "User")

Locked == \E r \in Slots : req[r].st = "write"

\* ensure_funding_allowed, under LOCK: look up the last claim.
CheckCooldown(r) ==
    LET h == req[r] IN
    /\ h.st = "lock" /\ ~Locked
    /\ IF HasRequestExpired(store[h.acct], h.age, h.kind)
       THEN Goto(r, "write") ELSE Answer(r, "err")
    /\ UNCHANGED <<store, disk, chainVars, unknown, history, faults>>

\* Mutant: the claim is recorded only once the transfer was executed
UpdateKvStore_Late(r) ==
    /\ req[r].st = "write"
    /\ req' = [req EXCEPT ![r].st = "transfer", ![r].age = 0]
    /\ UNCHANGED <<store, disk, chainVars, unknown, history, faults>>

\* atomic_faucet_funding, update_kv_store: record the claim, release LOCK,
\* submit the batch of transfers.
UpdateKvStore(r) ==
    /\ req[r].st = "write"
    /\ store' = [store EXCEPT ![req[r].acct] = [kind |-> req[r].kind, age |-> 0]]
    /\ req' = [req EXCEPT ![r].st = "transfer", ![r].age = 0]
    /\ UNCHANGED <<disk, chainVars, unknown, history, faults>>

Apart(m, n) == IF m > n THEN m - n ELSE n - m

\* The parachain executes the batch.  utility.batch stops at the first
\* transfer that fails (the faucet ran out of a currency), keeps the ones
\* before it and reports success all the same.  transfer_to returns Ok, or an
\* error if the connection was lost meanwhile.
ExecuteTransfer(r) ==
    LET h == req[r]  a == req[r].acct IN
    /\ h.st \in {"transfer", "adrift"}
    /\ \E S \in SUBSET Currencies, st \in {"ok", "err"} :
          /\ balance' = [balance EXCEPT
                ![a] = [c \in Currencies |-> @[c] + IF c \in S THEN Allowance(h.kind) ELSE 0]]
          /\ Answer(r, st)
          /\ IF S = Currencies /\ st = (IF h.st = "transfer" THEN "ok" ELSE "err")
             THEN UNCHANGED faults ELSE Fault
          /\ h.st = "adrift" => st = "err"
    /\ tooSoon' = IF Apart(paid[a][h.kind], h.age) <= Cooldown THEN tooSoon \cup {a} ELSE tooSoon
    /\ paid' = [paid EXCEPT ![a][h.kind] = IF @ < h.age THEN @ ELSE h.age]
    /\ UNCHANGED <<store, disk, registered, unknown, excused>>

\* transfer_to fails before that.  A time-out or a lost connection keeps the
\* record, and the transaction may still be executed; the error of a pallet
\* means that it was refused.
TransferFails(r) ==
    /\ req[r].st = "transfer"
    /\ Fault
    /\ \E st \in {"adrift", "remove"} : Goto(r, st)
    /\ UNCHANGED <<store, disk, chainVars, unknown, history>>

\* with_unique_signer: the block of the transaction is not found (a fork), and
\* the batch is sent again with a fresh nonce.  The first one is adrift, in a
\* slot of its own: it may still be executed.
ResendTransfer(r) ==
    /\ req[r].st = "transfer"
    /\ Fault
    /\ \E q \in Slots : /\ req[q].st = "idle" /\ \A p \in 1..q - 1 : req[p].st # "idle"
                        /\ req' = [req EXCEPT ![q] = [req[r] EXCEPT !.st = "adrift"]]
    /\ excused' = excused \cup {req[r].acct}
    /\ UNCHANGED <<store, disk, chainVars, unknown, paid, tooSoon>>

\* Another claim of the account than r's was paid, or is about to be, within
\* the last cooldown, or within the one that a request at the lock looks for.
CoolingDown(r, a) ==
    \/ \E k \in Kinds : paid[a][k] <= Cooldown
    \/ \E q \in Slots \ {r} :
          /\ req[q].acct = a
          /\ \/ req[q].st \in {"write", "transfer", "adrift"}
             \/ req[q].st = "lock" /\ \E k \in Kinds : paid[a][k] <= Cooldown + req[q].age

\* fund_account: after the errors it takes for a failed transfer the account's
\* record is dropped, without LOCK and whoever wrote it.
RemoveRecord(r) ==
    LET a == req[r].acct IN
    /\ req[r].st = "remove"
    /\ store' = [store EXCEPT ![a] = NoClaim]
    /\ excused' = IF CoolingDown(r, a) THEN excused \cup {a} ELSE excused
    /\ Answer(r, "err")
    /\ UNCHANGED <<disk, chainVars, unknown, paid, tooSoon, faults>>

-----------------------------------------------------------------------------
(* The store, the clock, clients that are not modelled.                    *)

\* The faucet ends and is started again.  The store is flushed every 100 ms:
\* of what was written since the last tick, any part may be lost.  So is every
\* handler; submitted transfers are not.
Crash ==
    /\ Fault
    /\ \E lost \in SUBSET {a \in Accounts : store[a] # disk[a]} :
          /\ store' = [a \in Accounts |-> IF a \in lost THEN disk[a] ELSE store[a]]
          /\ disk' = store'
          /\ excused' = excused \cup lost
    /\ req' = [r \in Slots |->
                 CASE req[r].st \in {"idle", "ok", "err", "adrift"} -> req[r]
                   [] req[r].st = "transfer" -> [req[r] EXCEPT !.st = "adrift"]
                   [] OTHER -> [Idle EXCEPT !.st = "err"]]
    /\ UNCHANGED <<chainVars, unknown, paid, tooSoon>>

\* A transaction that was not executed in time is dropped by the pool.
DropTransfer(r) ==
    /\ req[r].st = "adrift"
    /\ Answer(r, "err")
    /\ UNCHANGED <<store, disk, chainVars, unknown, history, faults>>

\* A tick; the store was flushed before it.  LOCK is free within one tick, and
\* a transaction is executed or dropped within a cooldown (time-outs of minutes,
\* cooldowns of hours).
Tick ==
    LET Aged(claim) == IF claim.age + 1 >= Old THEN NoClaim ELSE [claim EXCEPT !.age = @ + 1] IN
    /\ \A r \in Slots : /\ req[r].st # "write"
                        /\ req[r].st = "lock" => req[r].age = 0
                        /\ req[r].st \in {"transfer", "adrift"} => req[r].age < Cooldown
    /\ store' = [a \in Accounts |-> Aged(store[a])]
    /\ disk' = store'
    /\ req' = [r \in Slots |->
                 IF req[r].st \in {"lock", "transfer", "adrift", "remove"}
                 THEN [req[r] EXCEPT !.age = Older(@)] ELSE req[r]]
    /\ paid' = [a \in Accounts |-> [k \in Kinds |-> Older(paid[a][k])]]
    /\ UNCHANGED <<chainVars, unknown, tooSoon, excused, faults>>

\* Somebody else asks the faucet to fund an account.
StrangerRequests(r, a) ==
    /\ Fault
    /\ Request(r, a)
    /\ UNCHANGED <<store, disk, chainVars, unknown, history>>

HandlerStep(r) ==
    \/ GetAccountType(r)
    \/ EnsureFundingAllowed(r)
    \/ CheckCooldown(r)
    \/ UpdateKvStore(r)
    \/ ExecuteTransfer(r)
    \/ TransferFails(r)
    \/ RemoveRecord(r)
    \/ DropTransfer(r)

FaucetStep ==
    \/ \E r \in Slots : \/ HandlerStep(r) \/ ResendTransfer(r)
                       \/ \E a \in Accounts : StrangerRequests(r, a)
    \/ Crash
    \/ Tick

-----------------------------------------------------------------------------
(* Properties                                                              *)

\* No account is paid twice as the same kind for claims within one cooldown,
\* however its requests interleave with each other, with its registration as
\* a vault and with errors: unless a crash lost a claim that was not flushed,
\* a failing request dropped the record of another one (RemoveRecord), or the
\* transfer was sent again after an apparent fork (ResendTransfer).
CooldownKept == tooSoon \subseteq excused

\* The balances are checked long before the transfer is executed.  Still an
\* account ends at most one claim of each kind above the maximum: the cooldown
\* leaves room for no more between the check and the transfer.
BalanceBounded ==
    \A a \in Accounts \ excused : \A c \in Currencies :
        balance[a][c] <= MaxBalance + UserAllowance + VaultAllowance

=============================================================================
