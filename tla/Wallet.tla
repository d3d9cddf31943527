------------------------------- MODULE Wallet -------------------------------
(***************************************************************************)
(* The wallet of the light bitcoin client (bitcoin/src/light): how it      *)
(* chooses the coins of a payment, signs and sends it, and replaces it     *)
(* when the fee rate rises.                                                *)
(*                                                                         *)
(* Every vault id has a client of its own, with its own key store and its  *)
(* own transaction_creation_lock, but all are made from the same private   *)
(* key and so share the coins of its address.  The client stores no coins: *)
(* it asks electrs for the unspent outputs of one address after the other. *)
(*                                                                         *)
(* Abstractions.  The index of a key is its place in the order of          *)
(* addresses, the order of the key store.  A coin is a deposit or the      *)
(* change of one of the wallet's transactions; the output to the recipient *)
(* belongs to somebody else.  All addresses are p2wpkh and every payment   *)
(* carries an OP_RETURN.  Electrs and its node are one external service    *)
(* that is consistent with itself; amounts, sizes and fees are exact.      *)
(***************************************************************************)
EXTENDS Integers, Sequences, FiniteSets, FiniteSetsExt, SequencesExt

CONSTANTS
    Clients,        \* the clients of the vault's vault ids
    Jobs,           \* payments, one per request
    ClientOf,       \* the client that makes a payment
    Amount,         \* the amount of a payment
    NumKeys,        \* number of keys, in the order of their addresses
    OwnKey,         \* the derivation key, which every client has
    Deposits,       \* sequence of the deposits that arrive: key and value
    Rates,          \* fee rates, in satoshi per vbyte
    MaxTxs,         \* bound: transactions sent
    MaxChanges,     \* bound: changes of the fee rate
    MaxFaults       \* bound: failed calls, lost answers and evictions

Keys == 1..NumKeys
Coin == ({"deposit"} \X (1..Len(Deposits))) \cup ({"change"} \X (1..MaxTxs))

ASSUME WalletAssumption ==
    /\ ClientOf \in [Jobs -> Clients]
    /\ Amount \in [Jobs -> Nat \ {0}]
    /\ OwnKey \in Keys
    /\ Deposits \in Seq([key : Keys, value : Nat])
    /\ Rates \subseteq Nat \ {0}
    /\ {MaxTxs, MaxChanges, MaxFaults} \subseteq Nat

VARIABLES
    \* bitcoin, as electrs sees it
    arrived,        \* deposits that have arrived
    txs,            \* transactions the node accepted, in order
    mempool,        \* those in the mempool
    mined,          \* those in the chain
    evicted,        \* those the node dropped from the mempool of itself
    feeRate,        \* the fee rate the parachain reports
    changes,        \* changes of it so far
    \* the vault
    keyStore,       \* key_store of each client
    lock,           \* holder of transaction_creation_lock, {} or one job
    task,           \* where each payment is
    events,         \* fee rates its subscription holds for a payment
    faults          \* faults so far

btcVars == <<arrived, txs, mempool, mined, evicted>>
vars == <<btcVars, feeRate, changes, keyStore, lock, task, events, faults>>

\* A task: its fee rate, the transaction it follows or replaces (0: none),
\* the change address, the addresses not yet asked for and the coins chosen.
NoTask == [pc |-> "idle", rate |-> 0, txid |-> 0, change |-> OwnKey,
           addresses |-> {}, inputs |-> <<>>]

----------------------------------------------------------------------------
(***************************************************************************)
(* Sizes and fees, in vbytes and satoshi.                                  *)
(***************************************************************************)

\* get_serialize_size: a value, the length of a script and the script.
TxOutSize(script) == 8 + 1 + script
ChangeSize == TxOutSize(22)
OpReturnSize == TxOutSize(34)
\* outpoint, sequence and an empty script; a witness of a 72-byte signature
\* and a public key counts a quarter.
TxInSize == 32 + 4 + 4 + 1
WitnessSize == 1 + (1 + 72) + (1 + 33)
VBytes(weight) == (weight + 3) \div 4
CalculateMaximumSignedInputSize == VBytes(TxInSize * 3 + TxInSize + WitnessSize)

\* calculate_maximum_signed_tx_size: weight of a payment of n inputs.
CalculateMaximumSignedTxSize(n, outputs) ==
    VBytes(4 * (4 + 1 + n * TxInSize + 1 + outputs + 4) + 2 + n * WitnessSize)

GetFee(rate, bytes) == rate * bytes
DustRate == 3
GetDustThreshold ==
    GetFee(DustRate, ChangeSize + 32 + 4 + 1 + (107 \div 4) + 4)
MinViableChange ==
    LET spend == GetFee(DustRate, CalculateMaximumSignedInputSize) + 1
    IN  IF spend > GetDustThreshold THEN spend ELSE GetDustThreshold

PaymentOutputs == TxOutSize(22) + OpReturnSize

----------------------------------------------------------------------------
(***************************************************************************)
(* Coins and transactions.                                                 *)
(***************************************************************************)

Value(c) == IF c[1] = "deposit" THEN Deposits[c[2]].value ELSE txs[c[2]].change
KeyOf(c) == IF c[1] = "deposit" THEN Deposits[c[2]].key ELSE txs[c[2]].key

Total(op(_), s) == MapThenSumSet(LAMBDA i : op(s[i]), DOMAIN s)
SelectedValue(s) == Total(Value, s)

\* CoinOutput::get_effective_value: a coin less what it costs to spend it,
\* never below zero.
EffectiveValue(rate, c) ==
    LET fee == GetFee(rate, CalculateMaximumSignedInputSize)
    IN  IF Value(c) > fee THEN Value(c) - fee ELSE 0
SelectedEffectiveValue(rate, s) == Total(LAMBDA c : EffectiveValue(rate, c), s)

\* Mutant: the OP_RETURN is not counted.
TxNoInputsSize_NoOpReturn == 10 + 1 + TxOutSize(22)

\* The size of everything but the inputs.
TxNoInputsSize == 10 + 1 + PaymentOutputs

\* What the coins must be worth, change and its fee excluded.
SelectionTarget(j, rate) == Amount[j] + GetFee(rate, TxNoInputsSize)

\* SelectCoins::get_change: what is left over, or nothing if it is dust.
GetChange(j, rate, s) ==
    LET change == SelectedEffectiveValue(rate, s) - SelectionTarget(j, rate)
                    - GetFee(rate, ChangeSize)
    IN  IF change < MinViableChange THEN 0 ELSE change

\* The coins of the stream s after those chosen, up to the one that covers
\* the target.
Choose(j, rate, chosen, s) ==
    LET covering == {n \in 0..Len(s) :
                       SelectedEffectiveValue(rate, chosen \o SubSeq(s, 1, n))
                         >= SelectionTarget(j, rate)}
    IN  chosen \o (IF covering = {} THEN s ELSE SubSeq(s, 1, Min(covering)))

Covers(j, rate, s) == SelectedEffectiveValue(rate, s) >= SelectionTarget(j, rate)

\* The size of a transaction and the fee it should pay.
Size(t) ==
    CalculateMaximumSignedTxSize(Len(t.inputs),
        PaymentOutputs + (IF t.change > 0 THEN ChangeSize ELSE 0))
FeeNeeded(t) == GetFee(t.rate, Size(t))

\* The transaction of a task that has its coins: fund_transaction's change,
\* and what the fee turns out to exceed the one needed goes back to it.
FundedTx(j) ==
    LET rate == task[j].rate
        s == task[j].inputs
        change == GetChange(j, rate, s)
        tx == [job |-> j, rate |-> rate, inputs |-> s, change |-> change,
               key |-> task[j].change]
        fee == SelectedValue(s) - Amount[j] - change
        surplus == IF change > 0 /\ FeeNeeded(tx) < fee THEN fee - FeeNeeded(tx) ELSE 0
    IN  [tx EXCEPT !.change = @ + surplus]

\* What a transaction pays to the miner, and its rate as fee_rate finds it.
Fee(t) == SelectedValue(t.inputs) - Amount[t.job] - t.change
FeeRate(t) == Fee(t) \div Size(t)

Live == mempool \cup mined
Spends(i, c) == c \in Range(txs[i].inputs)
Exists(c) == IF c[1] = "deposit" THEN c[2] \in arrived
             ELSE c[2] \in Live /\ txs[c[2]].change > 0
\* The mempool transactions in S and those that spend their change, or that
\* of another such transaction.
WithChildren(S) ==
    LET closed(T) == \A i \in mempool : (\E p \in T : Spends(i, <<"change", p>>)) => i \in T
    IN  {i \in mempool : \A T \in SUBSET mempool : S \subseteq T /\ closed(T) => i \in T}

\* get_utxos_for_address, unconfirmed ones included.
GetUtxosForAddress(k) ==
    {c \in Coin : Exists(c) /\ KeyOf(c) = k /\ ~ \E i \in Live : Spends(i, c)}

TypeOK ==
    /\ arrived \subseteq 1..Len(Deposits)
    /\ txs \in Seq([job : Jobs, rate : Rates, inputs : Seq(Coin), change : Nat,
                    key : Keys])
    /\ Len(txs) <= MaxTxs
    /\ mempool \subseteq DOMAIN txs
    /\ mined \subseteq DOMAIN txs \ mempool
    /\ evicted \subseteq DOMAIN txs \ Live
    /\ feeRate \in Rates
    /\ keyStore \in [Clients -> SUBSET Keys]
    /\ lock \in [Clients -> SUBSET Jobs]
    /\ \A c \in Clients : OwnKey \in keyStore[c] /\ Cardinality(lock[c]) <= 1
    /\ \A j \in Jobs :
         /\ task[j].pc \in {"idle", "lock", "fund", "send", "wait", "done", "failed"}
         /\ task[j].pc \in {"fund", "send"} <=> lock[ClientOf[j]] = {j}
         /\ task[j].txid \in 0..Len(txs)
    /\ events \in [Jobs -> Seq(Rates)]
    /\ changes \in 0..MaxChanges
    /\ faults \in 0..MaxFaults

Init ==
    /\ arrived = {}
    /\ txs = <<>>
    /\ mempool = {}
    /\ mined = {}
    /\ evicted = {}
    /\ feeRate \in Rates
    /\ changes = 0
    /\ keyStore = [c \in Clients |-> {OwnKey}]      \* BitcoinLight::new
    /\ lock = [c \in Clients |-> {}]
    /\ task = [j \in Jobs |-> NoTask]
    /\ events = [j \in Jobs |-> <<>>]
    /\ faults = 0

----------------------------------------------------------------------------
(***************************************************************************)
(* The environment.                                                        *)
(***************************************************************************)

Deposit(d) ==
    /\ d \notin arrived
    /\ arrived' = arrived \cup {d}
    /\ UNCHANGED <<txs, mempool, mined, evicted, feeRate, changes, keyStore, lock,
                   task, events, faults>>

Mine(i) ==
    /\ i \in mempool
    /\ ~ \E p \in mempool : Spends(i, <<"change", p>>)
    /\ mempool' = mempool \ {i}
    /\ mined' = mined \cup {i}
    /\ UNCHANGED <<arrived, txs, evicted, feeRate, changes, keyStore, lock, task,
                   events, faults>>

\* The node drops a transaction, and those that depend on it.
Evict(i) ==
    /\ faults < MaxFaults
    /\ i \in mempool
    /\ faults' = faults + 1
    /\ mempool' = mempool \ WithChildren({i})
    /\ evicted' = evicted \cup WithChildren({i})
    /\ UNCHANGED <<arrived, txs, mined, feeRate, changes, keyStore, lock, task,
                   events>>

Following(j) == task[j].txid > 0 /\ task[j].pc \in {"lock", "fund", "send", "wait"}

\* The fee rate changes; the payments that wait are subscribed to it.
ChangeFeeRate(r) ==
    /\ changes < MaxChanges
    /\ r # feeRate
    /\ feeRate' = r
    /\ changes' = changes + 1
    /\ events' = [j \in Jobs |-> IF Following(j) THEN Append(events[j], r)
                                 ELSE events[j]]
    /\ UNCHANGED <<btcVars, keyStore, lock, task, faults>>

----------------------------------------------------------------------------
(***************************************************************************)
(* The client.                                                             *)
(***************************************************************************)

\* The key of an issue request is added (add_new_deposit_key).
PutP2wpkhKey(c, k) ==
    /\ k \notin keyStore[c]
    /\ keyStore' = [keyStore EXCEPT ![c] = @ \cup {k}]
    /\ UNCHANGED <<btcVars, feeRate, changes, lock, task, events, faults>>

\* The first address of the key store, which may be one of a deposit.
GetChangeAddress(c) == Min(keyStore[c])

\* create_transaction up to the lock: the change address is chosen before
\* the payment waits for it.
CreateTransaction(j) ==
    /\ task[j].pc = "idle"
    /\ task' = [task EXCEPT ![j] = [NoTask EXCEPT !.pc = "lock", !.rate = feeRate,
                                    !.change = GetChangeAddress(ClientOf[j])]]
    /\ UNCHANGED <<btcVars, feeRate, changes, keyStore, lock, events, faults>>

\* A task that could not pay: a new payment fails, a replacement leaves its
\* task with the transaction it has.
GivenUp(j) == [task[j] EXCEPT !.pc = IF task[j].txid > 0 THEN "wait" ELSE "failed",
                              !.inputs = <<>>, !.addresses = {}]

Unlocked(j) == [lock EXCEPT ![ClientOf[j]] = {}]

\* Mutant: the lock is released once the coins are chosen.
Continue_Unlock(j, s, rest) ==
    /\ task' = [task EXCEPT ![j] =
                  IF Covers(j, task[j].rate, s) THEN [@ EXCEPT !.pc = "send", !.inputs = s]
                  ELSE IF rest = {} THEN GivenUp(j)
                  ELSE [@ EXCEPT !.pc = "fund", !.inputs = s, !.addresses = rest]]
    /\ lock' = IF Covers(j, task[j].rate, s) \/ rest = {} THEN Unlocked(j)
               ELSE [lock EXCEPT ![ClientOf[j]] = {j}]

\* fund_transaction has chosen s and rest are the addresses not asked for:
\* the transaction is signed, the next address is asked or, when there is
\* none, NotEnoughInputs.  The signed transaction keeps the lock.
Continue(j, s, rest) ==
    /\ task' = [task EXCEPT ![j] =
                  IF Covers(j, task[j].rate, s) THEN [@ EXCEPT !.pc = "send", !.inputs = s]
                  ELSE IF rest = {} THEN GivenUp(j)
                  ELSE [@ EXCEPT !.pc = "fund", !.inputs = s, !.addresses = rest]]
    /\ lock' = IF ~ Covers(j, task[j].rate, s) /\ rest = {} THEN Unlocked(j)
               ELSE [lock EXCEPT ![ClientOf[j]] = {j}]

\* The inputs of the transaction that is replaced, in its order.
PreviousInputs_Fresh(j) == <<>>
PreviousInputs(j) == IF task[j].txid = 0 THEN <<>> ELSE txs[task[j].txid].inputs

\* The lock is taken, the addresses are read and the inputs of the replaced
\* transaction come first.
StartFunding(j) ==
    /\ task[j].pc = "lock"
    /\ lock[ClientOf[j]] = {}
    /\ Continue(j, Choose(j, task[j].rate, <<>>, PreviousInputs(j)),
                keyStore[ClientOf[j]])
    /\ UNCHANGED <<btcVars, feeRate, changes, keyStore, events, faults>>

\* The stream of coins ends: NotEnoughInputs.
FundFails(j) ==
    /\ task' = [task EXCEPT ![j] = GivenUp(j)]
    /\ lock' = Unlocked(j)

\* available_coins asks for the next address.  Its coins come in any order;
\* one that has none ends the stream.  The change of the replaced
\* transaction is skipped.
FundFromAddress(j) ==
    /\ task[j].pc = "fund"
    /\ LET k == Min(task[j].addresses)
           utxos == GetUtxosForAddress(k)
       IN  IF utxos = {} THEN FundFails(j)
           ELSE \E s \in SetToSeqs(utxos \ {<<"change", task[j].txid>>}) :
                  Continue(j, Choose(j, task[j].rate, task[j].inputs, s),
                           task[j].addresses \ {k})
    /\ UNCHANGED <<btcVars, feeRate, changes, keyStore, events, faults>>

\* A call to electrs fails while the coins are looked up.
ElectrsFails(j) ==
    /\ task[j].pc = "fund"
    /\ faults < MaxFaults
    /\ faults' = faults + 1
    /\ FundFails(j)
    /\ UNCHANGED <<btcVars, feeRate, changes, keyStore, events>>

\* Mempool transactions that tx would replace, with their children.
Replaced(tx) ==
    WithChildren({i \in mempool : Range(txs[i].inputs) \cap Range(tx.inputs) # {}})

\* The node accepts tx: its coins exist once each, are not spent in the
\* chain nor made by what it replaces, and it pays for what it replaces.
NodeAccepts(tx) ==
    /\ Cardinality(Range(tx.inputs)) = Len(tx.inputs)
    /\ \A c \in Range(tx.inputs) :
         /\ Exists(c)
         /\ ~ \E i \in mined : Spends(i, c)
         /\ c[1] = "change" => c[2] \notin Replaced(tx)
    /\ Replaced(tx) # {} =>
         Fee(tx) >= MapThenSumSet(LAMBDA i : Fee(txs[i]), Replaced(tx)) + Size(tx)

\* The transaction enters the mempool; told is whether the answer reaches
\* the client.  The lock is released either way.
Accepted(j, told) ==
    LET tx == FundedTx(j) IN
    /\ NodeAccepts(tx)
    /\ txs' = Append(txs, tx)
    /\ mempool' = (mempool \ Replaced(tx)) \cup {Len(txs) + 1}
    /\ task' = [task EXCEPT ![j] =
                  IF told THEN [NoTask EXCEPT !.pc = "wait", !.rate = tx.rate,
                                              !.txid = Len(txs) + 1]
                  ELSE GivenUp(j)]
    \* a payment that replaced another subscribes anew
    /\ events' = IF told THEN [events EXCEPT ![j] = <<>>] ELSE events
    /\ lock' = Unlocked(j)
    /\ UNCHANGED <<arrived, mined, evicted, feeRate, changes, keyStore>>

SendTransaction(j) ==
    /\ task[j].pc = "send"
    /\ Len(txs) < MaxTxs
    /\ \/ Accepted(j, TRUE) /\ UNCHANGED faults
       \/ faults < MaxFaults /\ faults' = faults + 1 /\ Accepted(j, FALSE)
       \/ /\ ~ NodeAccepts(FundedTx(j))
          /\ FundFails(j)
          /\ UNCHANGED <<btcVars, feeRate, changes, keyStore, events, faults>>

\* The call does not reach the node, or the node's policy refuses.
SendFails(j) ==
    /\ task[j].pc = "send"
    /\ faults < MaxFaults
    /\ faults' = faults + 1
    /\ FundFails(j)
    /\ UNCHANGED <<btcVars, feeRate, changes, keyStore, events>>

\* wait_for_inclusion takes a fee rate from its subscription.  It replaces
\* the transaction if the rate is above the one it pays and it is still in
\* the mempool; bump_fee panics when there is no change to pay from.
BumpFee(j) ==
    /\ task[j].pc = "wait"
    /\ events[j] # <<>>
    /\ events' = [events EXCEPT ![j] = Tail(@)]
    /\ LET i == task[j].txid
           bumps == Head(events[j]) > FeeRate(txs[i]) /\ i \in mempool
       IN  task' = [task EXCEPT ![j] =
                      IF ~ bumps THEN @
                      ELSE IF txs[i].change = 0 THEN [@ EXCEPT !.pc = "failed"]
                      ELSE [@ EXCEPT !.pc = "lock", !.rate = Head(events[j]),
                                     !.change = txs[i].key]]
    /\ UNCHANGED <<btcVars, feeRate, changes, keyStore, lock, faults>>

\* wait_for_transaction_metadata finds the transaction confirmed.
Included(j) ==
    /\ task[j].pc = "wait"
    /\ task[j].txid \in mined
    /\ task' = [task EXCEPT ![j] = [NoTask EXCEPT !.pc = "done", !.txid = task[j].txid]]
    /\ UNCHANGED <<btcVars, feeRate, changes, keyStore, lock, events, faults>>

Next ==
    \/ \E d \in 1..Len(Deposits) : Deposit(d)
    \/ \E i \in DOMAIN txs : Mine(i) \/ Evict(i)
    \/ \E r \in Rates : ChangeFeeRate(r)
    \/ \E c \in Clients, k \in Keys : PutP2wpkhKey(c, k)
    \/ \E j \in Jobs : \/ CreateTransaction(j) \/ StartFunding(j)
                       \/ FundFromAddress(j) \/ SendTransaction(j)
                       \/ ElectrsFails(j) \/ SendFails(j)
                       \/ BumpFee(j) \/ Included(j)

Spec == Init /\ [][Next]_vars

----------------------------------------------------------------------------
(***************************************************************************)
(* Properties.                                                             *)
(***************************************************************************)

\* Two transactions that pay the same request share a coin, so that at most
\* one of them can be mined: bump_fee funds the replacement with the inputs
\* of the one it replaces, whatever the new fee rate makes of them.
PaidOnce ==
    \A i, k \in DOMAIN txs :
        txs[i].job = txs[k].job => Range(txs[i].inputs) \cap Range(txs[k].inputs) # {}

\* What the uneconomic coins of s cost more than they bring.
Loss(rate, s) ==
    LET cost == GetFee(rate, CalculateMaximumSignedInputSize)
    IN  Total(LAMBDA c : IF Value(c) < cost THEN cost - Value(c) ELSE 0, s)

PaysRightFee(t) ==
    LET paid == Fee(t) + Loss(t.rate, t.inputs)
    IN  IF t.change > 0
        THEN t.change >= MinViableChange /\ paid = FeeNeeded(t)
        ELSE paid \in FeeNeeded(t) ..
                (FeeNeeded(t) + MinViableChange + GetFee(t.rate, ChangeSize) - 1)

\* The fee is the one the rate asks of the transaction's real size, less
\* what uneconomic coins cost more than they bring; without change it may
\* exceed that by no more than a change output not worth having.  Change is
\* never dust.
FeeIsRight == \A i \in DOMAIN txs : PaysRightFee(txs[i])

\* A payment leaves the mempool for another's sake only when it, or a
\* transaction it depends on, is replaced by a payment of the same request:
\* the lock is held from the choice of coins until they are spent.  Except by
\* a payment of another vault id, which has a lock of its own over the same
\* key; and except if the transaction that bump_fee replaces is itself gone,
\* evicted or lost with one it depended on while the payment waited for the
\* lock: its coins may have been chosen for another payment by then.
NoDoubleSpend ==
    [][\A i \in mempool \ (mempool' \cup mined' \cup evicted') :
         \E n \in DOMAIN txs' \ DOMAIN txs :
           \/ \E p \in mempool \ mempool' :
                /\ i \in WithChildren({p})
                /\ \/ txs[p].job = txs'[n].job
                   \/ ClientOf[txs[p].job] # ClientOf[txs'[n].job]
           \/ task[txs'[n].job].txid \notin Live \cup {0}]_vars
=============================================================================
