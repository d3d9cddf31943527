-------------------------------- MODULE Core --------------------------------
(***************************************************************************)
(* The client of Bitcoin Core (bitcoin/src/lib.rs): it connects to a node, *)
(* waits for it to sync and loads the wallet; payments of concurrent tasks *)
(* are then funded, signed, sent and replaced through the one client of    *)
(* their vault id.                                                         *)
(*                                                                         *)
(* The node chooses the coins and does not reserve them, so that the       *)
(* client keeps transaction_creation_lock from the choice until the        *)
(* transaction is sent.  The node can stop at any time; when it is back    *)
(* the wallet is not loaded, and whichever call finds that loads it.  It   *)
(* can also hang, accept connections and answer none of them in time.      *)
(*                                                                         *)
(* Abstractions.  A coin is one the wallet has from the start or the       *)
(* change of one of its transactions.  Amounts and fees are left out: the  *)
(* node may choose any spendable coins, may find the funds insufficient,   *)
(* and accepts a replacement or refuses it.                                *)
(***************************************************************************)
EXTENDS Integers, Sequences, FiniteSets

CONSTANTS
    Calls,          \* payments made through the client
    NumCoins,       \* number of coins the wallet has from the start
    MaxSent,        \* bound: transactions the node accepts
    MaxUpsets       \* bound: stops of the node, lost answers, wallet errors

ASSUME CoreAssumption == {NumCoins, MaxSent, MaxUpsets} \subseteq Nat

VARIABLES
    \* the node
    node,           \* "down", "warmup", "syncing", "up" or "hung"
    file,           \* the wallet: "absent", "unloaded" or "loaded"
    sent,           \* transactions it accepted, in order
    pool,           \* those in its mempool
    blocks,         \* those in its chain
    upsets,         \* upsets so far
    \* the vault
    boot,           \* how far new_client is
    holder,         \* holder of transaction_creation_lock, {} or one call
    call            \* where each call is

nodeVars == <<node, file, sent, pool, blocks>>
coreVars == <<nodeVars, upsets, boot, holder, call>>

Purse == {"own"} \X (1..NumCoins)
CoreCoin == Purse \cup ({"change"} \X (1..MaxSent))

\* A call: the transaction it follows or replaces (0: none), the coins of
\* the transaction it has signed, whether that has change, and what
\* create_or_load_wallet found the wallet to be.
NoCall == [pc |-> "idle", txid |-> 0, coins |-> {}, change |-> FALSE, saw |-> "loaded"]
InCall == {"fund", "backoff", "look", "load", "send"}

CoreTypeOK ==
    /\ node \in {"down", "warmup", "syncing", "up", "hung"}
    /\ file \in {"absent", "unloaded", "loaded"}
    /\ file = "loaded" => node \in {"syncing", "up", "hung"}
    /\ sent \in Seq([of : Calls, coins : SUBSET CoreCoin, change : BOOLEAN])
    /\ Len(sent) <= MaxSent
    /\ pool \subseteq DOMAIN sent
    /\ blocks \subseteq DOMAIN sent \ pool
    /\ upsets \in 0..MaxUpsets
    /\ boot \in {"connect", "sync", "look", "load", "ready", "failed"}
    /\ holder \subseteq Calls
    /\ \A p \in Calls :
         /\ call[p].pc \in InCall \cup {"idle", "wait", "done", "failed"}
         /\ call[p].txid \in 0..Len(sent)
         /\ call[p].coins \subseteq CoreCoin

CoreInit ==
    /\ node \in {"warmup", "up"}
    /\ file \in IF node = "up" THEN {"absent", "loaded"} ELSE {"unloaded"}
    /\ sent = <<>>
    /\ pool = {}
    /\ blocks = {}
    /\ upsets = 0
    /\ boot = "connect"
    /\ holder = {}
    /\ call = [p \in Calls |-> NoCall]

----------------------------------------------------------------------------
(***************************************************************************)
(* The node.                                                               *)
(***************************************************************************)

Upset == upsets < MaxUpsets /\ upsets' = upsets + 1

NodeStops ==
    /\ node # "down"
    /\ Upset
    /\ node' = "down"
    /\ file' = IF file = "loaded" THEN "unloaded" ELSE file
    /\ UNCHANGED <<sent, pool, blocks, boot, holder, call>>

NodeProceeds ==
    /\ \E s \in {<<"down", "warmup">>, <<"warmup", "syncing">>, <<"syncing", "up">>,
                  <<"hung", "syncing">>} :
         node = s[1] /\ node' = s[2]
    /\ UNCHANGED <<file, sent, pool, blocks, upsets, boot, holder, call>>

Answers == node \in {"syncing", "up"}

\* Calls time out from here on (TRANSPORT_TIMEOUT).
NodeHangs ==
    /\ Answers
    /\ Upset
    /\ node' = "hung"
    /\ UNCHANGED <<file, sent, pool, blocks, boot, holder, call>>

CoreMine(i) ==
    /\ node = "up" /\ i \in pool
    /\ ~ \E k \in pool : <<"change", k>> \in sent[i].coins
    /\ pool' = pool \ {i}
    /\ blocks' = blocks \cup {i}
    /\ UNCHANGED <<node, file, sent, upsets, boot, holder, call>>

\* The transactions of N that are in S or, over any number of transactions of
\* N, depend on the change of one in S.
Dependents(S, N) ==
    LET closed(T) == \A i \in N : (\E k \in T : <<"change", k>> \in sent[i].coins) => i \in T
    IN  {i \in N : \A T \in SUBSET N : S \subseteq T /\ closed(T) => i \in T}

\* The mempool transactions in S and their descendants.
Descendants(S) == Dependents(S, pool)

\* Transactions no block can hold any more, since one that spends the same
\* coin is in the chain.
Clash == {i \in DOMAIN sent \ blocks :
            \E k \in blocks : sent[i].coins \cap sent[k].coins # {}}
Conflicted == Dependents(Clash, DOMAIN sent \ blocks)

\* What fundrawtransaction may choose from: the wallet counts the coins of
\* all its transactions as spent, unless they are conflicted.
Spendable ==
    {c \in Purse \cup {<<"change", i>> : i \in {k \in pool \cup blocks : sent[k].change}} :
        ~ \E i \in DOMAIN sent \ Conflicted : c \in sent[i].coins}

\* Mempool transactions that one with these coins would replace.
Displaced(coins) == Descendants({i \in pool : sent[i].coins \cap coins # {}})

\* sendrawtransaction can succeed: the coins exist, are not spent in the
\* chain, and none is made by what the transaction replaces.
Acceptable(coins) ==
    \A c \in coins :
        /\ ~ \E i \in blocks : c \in sent[i].coins
        /\ c[1] = "change" => c[2] \in (pool \cup blocks) \ Displaced(coins)

----------------------------------------------------------------------------
(***************************************************************************)
(* new_client: connect, sync, create_or_load_wallet.                       *)
(***************************************************************************)

\* connect tries again while the node is down or in warm-up, until it times
\* out; a node that answers may be too new.
Connect ==
    /\ boot = "connect"
    /\ boot' \in IF Answers THEN {"sync", "failed"} ELSE {"failed"}
    /\ UNCHANGED <<nodeVars, upsets, holder, call>>

\* sync waits for a node that answers; any error ends it.
Sync ==
    /\ boot = "sync"
    /\ node # "syncing"
    /\ boot' = IF node = "up" THEN "look" ELSE "failed"
    /\ UNCHANGED <<nodeVars, upsets, holder, call>>

\* create_or_load_wallet: list_wallets and list_wallet_dir, then loadwallet or
\* createwallet.  with_retry_on_timeout begins it again, without a limit, as
\* long as the node hangs; by then the wallet may have been loaded.
BootLooks ==
    /\ boot = "look"
    /\ node # "hung"
    /\ boot' = IF ~ Answers THEN "failed" ELSE IF file = "loaded" THEN "ready" ELSE "load"
    /\ UNCHANGED <<nodeVars, upsets, holder, call>>

BootLoads ==
    /\ boot = "load"
    /\ \/ Answers /\ boot' = "ready" /\ file' = "loaded"
       \/ node = "hung" /\ boot' = "look" /\ file' \in {file, "loaded"}
       \/ node \in {"down", "warmup"} /\ boot' = "failed" /\ file' = file
    /\ UNCHANGED <<node, sent, pool, blocks, upsets, holder, call>>

\* The process is started again.
BootAgain ==
    /\ boot = "failed"
    /\ boot' = "connect"
    /\ UNCHANGED <<nodeVars, upsets, holder, call>>

----------------------------------------------------------------------------
(***************************************************************************)
(* Payments.                                                               *)
(***************************************************************************)

\* A call that ends in an error: a payment fails, a replacement leaves its
\* task with the transaction it follows.
Failed(p) == [NoCall EXCEPT !.pc = IF call[p].txid = 0 THEN "failed" ELSE "wait",
                            !.txid = call[p].txid]

\* with_wallet_inner after error e: a wallet that is not loaded is loaded
\* in any case, a wallet error is retried unless the caller opted out, and
\* anything else is returned.
WithWalletInner(p, e) ==
    CASE e = "WalletNotFound" -> [call[p] EXCEPT !.pc = "look"]
      [] e = "WalletError" /\ call[p].txid = 0 -> [call[p] EXCEPT !.pc = "backoff"]
      [] OTHER -> Failed(p)

CreateRawTransaction(p) ==
    /\ boot = "ready"
    /\ call[p].pc = "idle"
    /\ call' = [call EXCEPT ![p].pc = IF Answers THEN "fund" ELSE "failed"]
    /\ UNCHANGED <<nodeVars, upsets, boot, holder>>

\* Index of the return-to-self output, if there is one.
ExtractReturnToSelf(i) == IF sent[i].change THEN {<<"change", i>>} ELSE {}

\* bump_fee reads the transaction, which the node has only while it is in
\* the mempool, and takes the return-to-self output off.
GetRawTransaction(p) ==
    /\ call[p].pc = "wait"
    /\ Answers /\ call[p].txid \in pool
    /\ Len(sent) < MaxSent
    /\ call' = [call EXCEPT ![p].pc = "fund"]
    /\ UNCHANGED <<nodeVars, upsets, boot, holder>>

\* Mutant: a replacement is funded with other coins.
Base_Fresh(p) == {}

\* The coins a replacement keeps.
Base(p) == IF call[p].txid = 0 THEN {} ELSE sent[call[p].txid].coins

\* What the node may answer to fundrawtransaction.
FundErrors(p) ==
    IF ~ Answers THEN {"Transport"}
    ELSE IF file # "loaded" THEN {"WalletNotFound"}
    ELSE IF Base(p) \cup Spendable = {} THEN {"WalletError"} ELSE {}

\* Mutant: the lock is kept when funding fails.
FundAndSign_Keeps(p) ==
    /\ call[p].pc = "fund"
    /\ holder = {}
    /\ \/ /\ FundErrors(p) = {}
          /\ holder' = {p}
          /\ \E coins \in SUBSET Spendable, change \in BOOLEAN :
               /\ Cardinality(coins) <= 1 /\ Base(p) \cup coins # {}
               /\ call' = [call EXCEPT ![p].pc = "send", ![p].coins = Base(p) \cup coins,
                                       ![p].change = change]
       \/ \E e \in FundErrors(p) :
             call' = [call EXCEPT ![p] = WithWalletInner(p, e)] /\ holder' = {p}
    /\ UNCHANGED <<nodeVars, upsets, boot>>

\* Mutant: the lock is released once the transaction is signed.
FundAndSign_Unlocks(p) ==
    /\ call[p].pc = "fund"
    /\ holder = {}
    /\ \/ /\ FundErrors(p) = {}
          /\ \E coins \in SUBSET Spendable, change \in BOOLEAN :
               /\ Cardinality(coins) <= 1 /\ Base(p) \cup coins # {}
               /\ call' = [call EXCEPT ![p].pc = "send", ![p].coins = Base(p) \cup coins,
                                       ![p].change = change]
       \/ \E e \in FundErrors(p) : call' = [call EXCEPT ![p] = WithWalletInner(p, e)]
    /\ UNCHANGED <<nodeVars, upsets, boot, holder>>

\* fund_and_sign_transaction: the lock is taken, and kept only with the
\* signed transaction.
FundAndSign(p) ==
    /\ call[p].pc = "fund"
    /\ holder = {}
    /\ \/ /\ FundErrors(p) = {}
          /\ holder' = {p}
          /\ \E coins \in SUBSET Spendable, change \in BOOLEAN :
               /\ Cardinality(coins) <= 1 /\ Base(p) \cup coins # {}
               /\ call' = [call EXCEPT ![p].pc = "send", ![p].coins = Base(p) \cup coins,
                                       ![p].change = change]
       \/ \E e \in FundErrors(p) :
             call' = [call EXCEPT ![p] = WithWalletInner(p, e)] /\ UNCHANGED holder
    /\ UNCHANGED <<nodeVars, upsets, boot>>

\* The wallet refuses for another reason, or the signature fails.
FundFailsOtherwise(p) ==
    /\ call[p].pc = "fund"
    /\ holder = {}
    /\ Upset
    /\ \E e \in {"WalletError", "TransactionSigningError"} :
         call' = [call EXCEPT ![p] = WithWalletInner(p, e)]
    /\ UNCHANGED <<nodeVars, boot, holder>>

\* A call that holds the lock keeps it to its end, over all attempts to send
\* the transaction: the lock is a part of LockedTransaction.
UnlockedAtEnd(p) == holder' = IF call'[p].pc \in InCall THEN holder ELSE holder \ {p}

\* create_or_load_wallet looks for the wallet.  While the node hangs, this
\* times out and is done again (with_retry_on_timeout); any other error ends
\* the call.
LookForWallet(p) ==
    /\ call[p].pc = "look"
    /\ node # "hung"
    /\ call' = [call EXCEPT ![p] = IF ~ Answers THEN Failed(p)
                                   ELSE IF file = "loaded" THEN [@ EXCEPT !.pc = "backoff"]
                                   ELSE [@ EXCEPT !.pc = "load", !.saw = file]]
    /\ UnlockedAtEnd(p)
    /\ UNCHANGED <<nodeVars, upsets, boot>>

\* It loads or creates the wallet, which fails if somebody else was faster.
\* After a time-out it looks again, and the node may have done it.
LoadWallet(p) ==
    /\ call[p].pc = "load"
    /\ \/ /\ Answers /\ file = call[p].saw
          /\ file' = "loaded" /\ call' = [call EXCEPT ![p].pc = "backoff"]
       \/ /\ node \in {"down", "warmup"} \/ (Answers /\ file # call[p].saw)
          /\ file' = file /\ call' = [call EXCEPT ![p] = Failed(p)]
       \/ /\ node = "hung"
          /\ file' \in {file, "loaded"} /\ call' = [call EXCEPT ![p].pc = "look"]
    /\ UnlockedAtEnd(p)
    /\ UNCHANGED <<node, sent, pool, blocks, upsets, boot>>

\* The wait before the next attempt is over: to send, by the holder of the lock.
Retry(p) ==
    /\ call[p].pc = "backoff"
    /\ call' = [call EXCEPT ![p].pc = IF p \in holder THEN "send" ELSE "fund"]
    /\ UNCHANGED <<nodeVars, upsets, boot, holder>>

\* A day has passed since the first attempt: ConnectionRefused.
GiveUp(p) ==
    /\ call[p].pc = "backoff"
    /\ call' = [call EXCEPT ![p] = Failed(p)]
    /\ UnlockedAtEnd(p)
    /\ UNCHANGED <<nodeVars, upsets, boot>>

\* The node takes the transaction of p into its mempool.
Taken(p) ==
    /\ Answers /\ Acceptable(call[p].coins)
    /\ sent' = Append(sent, [of |-> p, coins |-> call[p].coins, change |-> call[p].change])
    /\ pool' = (pool \ Displaced(call[p].coins)) \cup {Len(sent) + 1}
    /\ UNCHANGED <<node, file, blocks>>

\* create_and_send_transaction returns the txid, and the task waits for it.
SentAs(txid) == [NoCall EXCEPT !.pc = "wait", !.txid = txid]

\* send_transaction and the end of bump_fee, with the lock: an answer about
\* the wallet leads to another attempt (with_wallet), any other outcome is
\* the call's.
SendRawTransaction(p) ==
    /\ call[p].pc = "send"
    /\ \/ /\ Len(sent) < MaxSent /\ Taken(p)
          /\ \/ call' = [call EXCEPT ![p] = SentAs(Len(sent) + 1)] /\ UNCHANGED upsets
             \/ Upset /\ call' = [call EXCEPT ![p] = Failed(p)]     \* the answer is lost
       \/ /\ \/ ~ Answers \/ ~ Acceptable(call[p].coins) \/ Len(sent) = MaxSent
             \/ Displaced(call[p].coins) # {}      \* the fee does not suffice
          /\ call' = [call EXCEPT ![p] = Failed(p)]
          /\ UNCHANGED <<nodeVars, upsets>>
       \/ /\ Answers /\ file # "loaded"
          /\ call' = [call EXCEPT ![p] = WithWalletInner(p, "WalletNotFound")]
          /\ UNCHANGED <<nodeVars, upsets>>
       \/ /\ Answers /\ Upset
          /\ call' = [call EXCEPT ![p] = WithWalletInner(p, "WalletError")]
          /\ UNCHANGED nodeVars
    /\ UnlockedAtEnd(p)
    /\ UNCHANGED boot

\* wait_for_transaction_metadata finds the transaction in a block.
CoreIncluded(p) ==
    /\ call[p].pc = "wait"
    /\ Answers /\ file = "loaded" /\ call[p].txid \in blocks
    /\ call' = [call EXCEPT ![p].pc = "done"]
    /\ UNCHANGED <<nodeVars, upsets, boot, holder>>

CoreNext ==
    \/ NodeStops \/ NodeHangs \/ NodeProceeds
    \/ Connect \/ Sync \/ BootLooks \/ BootLoads \/ BootAgain
    \/ \E i \in DOMAIN sent : CoreMine(i)
    \/ \E p \in Calls : \/ CreateRawTransaction(p) \/ GetRawTransaction(p)
                        \/ FundAndSign(p) \/ FundFailsOtherwise(p) \/ Retry(p)
                        \/ LookForWallet(p) \/ LoadWallet(p) \/ GiveUp(p)
                        \/ SendRawTransaction(p) \/ CoreIncluded(p)

\* The calls of the client go on; tokio's mutex is fair, and the time of a
\* backoff is limited.  Nothing is assumed of the node here.
CoreFairness ==
    \A p \in Calls :
        /\ WF_coreVars(\/ Retry(p) \/ GiveUp(p) \/ LookForWallet(p) \/ LoadWallet(p)
                       \/ SendRawTransaction(p))
        /\ SF_coreVars(GiveUp(p)) /\ SF_coreVars(FundAndSign(p))

CoreSpec == CoreInit /\ [][CoreNext]_coreVars /\ CoreFairness

----------------------------------------------------------------------------
(***************************************************************************)
(* Properties.                                                             *)
(***************************************************************************)

\* However often a payment is replaced, and whatever answers are lost, all
\* its transactions have a coin in common: bump_fee keeps the inputs, so
\* that no two can be mined.
CorePaidOnce ==
    \A i, k \in DOMAIN sent :
        sent[i].of = sent[k].of => sent[i].coins \cap sent[k].coins # {}

\* A payment leaves the mempool unmined only when it, or one it depends on,
\* is replaced by a transaction of the same request: "While the returned
\* value is alive, no other transactions can be created".
CoreNoDoubleSpend ==
    [][\A i \in pool \ (pool' \cup blocks') :
         \E n \in DOMAIN sent' \ DOMAIN sent, k \in pool \ pool' :
           sent[k].of = sent'[n].of /\ i \in Descendants({k})]_coreVars

\* Every call returns, with a transaction or an error, however the node stops
\* and starts, unless it hangs for ever: with_retry_on_timeout has no limit,
\* and a call may keep the lock meanwhile.  A node that merely hangs for a
\* time leaves no task waiting for a lock that nobody will release.
CallsReturn ==
    <>[](node # "hung") =>
        \A p \in Calls : call[p].pc \in InCall ~> call[p].pc \notin InCall
=============================================================================
