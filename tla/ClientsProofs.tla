--------------------------- MODULE ClientsProofs ----------------------------
(***************************************************************************)
(* Proofs about the two bitcoin clients: with either, a payment is made at *)
(* most once however often it is replaced and whatever answers are lost;   *)
(* no payment drives one of another request out of the mempool; and the    *)
(* light client pays the right fees.                                       *)
(***************************************************************************)
EXTENDS Clients, FiniteSetTheorems, WellFoundedInduction, TLAPS

CallRecord ==
    [pc : InCall \cup {"idle", "wait", "done", "failed"}, txid : Nat,
     coins : SUBSET CoreCoin, change : BOOLEAN, saw : {"absent", "unloaded", "loaded"}]

Tx == [of : Calls, coins : SUBSET CoreCoin, change : BOOLEAN]

\* The types, as far as the payments are concerned.
CoreType ==
    /\ sent \in Seq(Tx) /\ Len(sent) <= MaxSent
    /\ pool \subseteq DOMAIN sent /\ blocks \subseteq DOMAIN sent
    /\ file \in {"absent", "unloaded", "loaded"}
    /\ call \in [Calls -> CallRecord]

-----------------------------------------------------------------------------
(* Payments and their replacements.                                        *)

\* A call follows a transaction of its own, and has sent none if it follows
\* none, unless it failed (perhaps because an answer was lost).
Follows ==
    \A p \in Calls :
        /\ call[p].txid # 0 => call[p].txid \in DOMAIN sent /\ sent[call[p].txid].of = p
        /\ call[p].txid = 0 /\ call[p].pc # "failed" => \A i \in DOMAIN sent : sent[i].of # p

\* transaction_creation_lock: one call at most holds it, and so does whoever
\* sends.
Locked ==
    \A p \in Calls : /\ call[p].pc = "send" => p \in holder
                     /\ p \in holder => holder = {p}

\* What the holder of the lock sends keeps the coins of what it replaces.
Keeps ==
    \A p \in Calls : p \in holder =>
        call[p].coins # {} /\ Base(p) \subseteq call[p].coins

\* All transactions of a call spend one and the same coin.
SameCoin ==
    \A i \in DOMAIN sent : \E c \in sent[i].coins :
        \A k \in DOMAIN sent : sent[k].of = sent[i].of => c \in sent[k].coins

PaidInv == CoreType /\ Follows /\ Locked /\ Keeps /\ SameCoin

-----------------------------------------------------------------------------
(* Payments of different requests.                                         *)

\* The mempool agrees with itself and with the chain.
PoolAgrees ==
    /\ \A i, k \in pool : i # k => sent[i].coins \cap sent[k].coins = {}
    /\ \A i \in pool, k \in blocks : i # k /\ sent[i].coins \cap sent[k].coins = {}
    /\ \A i \in pool, k \in DOMAIN sent :
         <<"change", k>> \in sent[i].coins => k \in pool \cup blocks

\* A transaction that is gone for good: a coin of it is spent in the chain, or
\* was the change of one that is itself gone.
Dead(i) ==
    /\ i \notin pool \cup blocks
    /\ \/ \E k \in blocks : sent[i].coins \cap sent[k].coins # {}
       \/ \E k \in DOMAIN sent \ (pool \cup blocks) : <<"change", k>> \in sent[i].coins

\* Of two transactions of different calls that spend the same coin, one is
\* gone for good.
Apart ==
    \A i, k \in DOMAIN sent :
        sent[i].of # sent[k].of /\ sent[i].coins \cap sent[k].coins # {} => Dead(i) \/ Dead(k)

\* The coins that were chosen for a call are free as long as it has the lock.
StillFree ==
    \A p \in Calls : p \in holder =>
        \A i \in DOMAIN sent : sent[i].coins \cap (call[p].coins \ Base(p)) # {} => Dead(i)

SpendInv == PaidInv /\ PoolAgrees /\ Apart /\ StillFree

-----------------------------------------------------------------------------
(***************************************************************************)
(* What the steps do to the payments.                                      *)
(***************************************************************************)

bookVars == <<sent, pool, blocks>>

\* Call p goes on, or ends, with what it follows and without having sent: it
\* has no lock any more, or has the coins that it had.
GoesOn(p) ==
    /\ call[p].pc # "failed"
    /\ \E new \in CallRecord :
         /\ call' = [call EXCEPT ![p] = new]
         /\ new.txid = call[p].txid
         /\ new.pc = "send" => p \in holder'
         /\ \/ holder' = holder \ {p}
            \/ holder' = holder /\ new.coins = call[p].coins
    /\ UNCHANGED bookVars

\* Call p has a funded and signed transaction.
Funds(p) ==
    /\ call[p].pc = "fund"
    /\ holder = {} /\ holder' = {p}
    /\ \E coins \in SUBSET Spendable, new \in CallRecord :
         /\ Base(p) \cup coins # {}
         /\ call' = [call EXCEPT ![p] = new]
         /\ new.txid = call[p].txid /\ new.pc = "send" /\ new.coins = Base(p) \cup coins
    /\ UNCHANGED bookVars

\* The node has taken the transaction of p, and p may or may not know.
Sends(p) ==
    /\ call[p].pc = "send"
    /\ Len(sent) < MaxSent /\ Taken(p)
    /\ \E new \in CallRecord :
         /\ call' = [call EXCEPT ![p] = new]
         /\ \/ new.txid = Len(sent) + 1 /\ new.pc = "wait"
            \/ new.txid = call[p].txid /\ new.txid # 0 /\ new.pc = "wait"
            \/ new.txid = call[p].txid /\ new.pc = "failed"
    /\ holder' = holder \ {p}

Books ==
    \/ UNCHANGED <<bookVars, holder, call>>
    \/ \E i \in pool : CoreMine(i)
    \/ \E p \in Calls : GoesOn(p) \/ Funds(p) \/ Sends(p)

\* The types of the records that calls are set to.
LEMMA CallTypes ==
  ASSUME CoreType, NEW p \in Calls
  PROVE  /\ call[p] \in CallRecord
         /\ Failed(p) \in CallRecord /\ Failed(p).txid = call[p].txid
         /\ Failed(p).pc = IF call[p].txid = 0 THEN "failed" ELSE "wait"
         /\ \A n \in Nat : SentAs(n) \in CallRecord /\ SentAs(n).txid = n /\ SentAs(n).pc = "wait"
<1>1. call[p] \in CallRecord
  BY DEF CoreType
<1>2. NoCall \in CallRecord
  BY DEF NoCall, CallRecord
<1>3. \A n \in Nat : SentAs(n) \in CallRecord /\ SentAs(n).txid = n /\ SentAs(n).pc = "wait"
  BY DEF SentAs, NoCall, CallRecord
<1>4. /\ Failed(p) \in CallRecord /\ Failed(p).txid = call[p].txid
      /\ Failed(p).pc = IF call[p].txid = 0 THEN "failed" ELSE "wait"
  BY <1>1 DEF Failed, NoCall, CallRecord
<1> QED
  BY <1>1, <1>3, <1>4

\* Two changes of several fields at once.
LEMMA RecordTypes ==
  ASSUME NEW r \in CallRecord
  PROVE  /\ \A coins \in SUBSET CoreCoin, change \in BOOLEAN :
              [r EXCEPT !.pc = "send", !.coins = coins, !.change = change] \in CallRecord
         /\ \A saw \in {"absent", "unloaded", "loaded"} :
              /\ [r EXCEPT !.pc = "load", !.saw = saw] \in CallRecord
              /\ [r EXCEPT !.pc = "load", !.saw = saw].txid = r.txid
              /\ [r EXCEPT !.pc = "load", !.saw = saw].coins = r.coins
              /\ [r EXCEPT !.pc = "load", !.saw = saw].pc = "load"
<1>1. "send" \in InCall /\ "load" \in InCall
  BY DEF InCall
<1>2. ASSUME NEW coins \in SUBSET CoreCoin, NEW change \in BOOLEAN
      PROVE  [r EXCEPT !.pc = "send", !.coins = coins, !.change = change] \in CallRecord
  BY <1>1 DEF CallRecord
<1>3. ASSUME NEW saw \in {"absent", "unloaded", "loaded"}
      PROVE  /\ [r EXCEPT !.pc = "load", !.saw = saw] \in CallRecord
             /\ [r EXCEPT !.pc = "load", !.saw = saw].txid = r.txid
             /\ [r EXCEPT !.pc = "load", !.saw = saw].coins = r.coins
             /\ [r EXCEPT !.pc = "load", !.saw = saw].pc = "load"
  BY <1>1 DEF CallRecord
<1> QED
  BY <1>2, <1>3

\* The same for a call of which only pc changes.
LEMMA PcTypes ==
  ASSUME CoreType, NEW p \in Calls,
         NEW pc \in {"fund", "look", "backoff", "send", "done", "failed"}
  PROVE  /\ [call[p] EXCEPT !.pc = pc] \in CallRecord
         /\ [call[p] EXCEPT !.pc = pc].txid = call[p].txid
         /\ [call[p] EXCEPT !.pc = pc].coins = call[p].coins
         /\ [call[p] EXCEPT !.pc = pc].pc = pc
BY DEF CoreType, CallRecord, InCall

\* A call whose record is replaced by one with the same txid goes on.
LEMMA GoingOn ==
  ASSUME CoreType, NEW p \in Calls, call[p].pc # "failed",
         NEW new \in CallRecord, call' = [call EXCEPT ![p] = new],
         new.txid = call[p].txid, new.pc = "send" => p \in holder',
         holder' = holder \ {p} \/ (holder' = holder /\ new.coins = call[p].coins),
         UNCHANGED bookVars
  PROVE  GoesOn(p)
BY DEF GoesOn

\* So does one that keeps the lock as long as it is not at its end.
LEMMA GoingToEnd ==
  ASSUME CoreType, NEW p \in Calls, call[p].pc # "failed",
         NEW new \in CallRecord, call' = [call EXCEPT ![p] = new],
         new.txid = call[p].txid, new.pc # "send",
         new.pc \in InCall => new.coins = call[p].coins,
         UnlockedAtEnd(p), UNCHANGED bookVars
  PROVE  GoesOn(p)
<1>1. call'[p] = new
  BY DEF CoreType
<1>2. holder' = holder \ {p} \/ (holder' = holder /\ new.coins = call[p].coins)
  BY <1>1 DEF UnlockedAtEnd
<1> QED
  BY <1>2, GoingOn

\* A change of pc alone, in the form in which the actions state it.
LEMMA PcChange ==
  ASSUME CoreType, NEW p \in Calls, NEW pc, call' = [call EXCEPT ![p].pc = pc]
  PROVE  call' = [call EXCEPT ![p] = [call[p] EXCEPT !.pc = pc]]
BY DEF CoreType

\* What with_wallet_inner leaves of a call after an error.
LEMMA AfterError ==
  ASSUME CoreType, NEW p \in Calls, NEW e
  PROVE  /\ WithWalletInner(p, e) \in CallRecord
         /\ WithWalletInner(p, e).txid = call[p].txid
         /\ WithWalletInner(p, e).pc # "send"
         /\ WithWalletInner(p, e).pc \in InCall => WithWalletInner(p, e).coins = call[p].coins
<1>1. \/ WithWalletInner(p, e) = [call[p] EXCEPT !.pc = "look"]
      \/ WithWalletInner(p, e) = [call[p] EXCEPT !.pc = "backoff"]
      \/ WithWalletInner(p, e) = Failed(p)
  BY DEF WithWalletInner
<1>2. /\ Failed(p) \in CallRecord /\ Failed(p).txid = call[p].txid
      /\ Failed(p).pc # "send" /\ Failed(p).pc \notin InCall
  BY CallTypes DEF InCall
<1>3. CASE WithWalletInner(p, e) = Failed(p)
  BY <1>2, <1>3
<1>4. ASSUME NEW pc \in {"look", "backoff"}, WithWalletInner(p, e) = [call[p] EXCEPT !.pc = pc]
      PROVE  /\ WithWalletInner(p, e) \in CallRecord
             /\ WithWalletInner(p, e).txid = call[p].txid
             /\ WithWalletInner(p, e).pc # "send"
             /\ WithWalletInner(p, e).coins = call[p].coins
  <2>1. /\ [call[p] EXCEPT !.pc = pc] \in CallRecord
        /\ [call[p] EXCEPT !.pc = pc].txid = call[p].txid
        /\ [call[p] EXCEPT !.pc = pc].coins = call[p].coins
        /\ [call[p] EXCEPT !.pc = pc].pc = pc
    <3>1. pc \in {"fund", "look", "backoff", "send", "done", "failed"}
      OBVIOUS
    <3> QED
      BY <3>1, PcTypes
  <2> QED
    BY <1>4, <2>1
<1> QED
  BY <1>1, <1>3, <1>4

\* Every step is of one of these forms.
LEMMA StepForms == ASSUME CoreType, Follows, CoreNext PROVE Books
<1> USE DEF nodeVars, bookVars
<1>1. CASE \/ NodeStops \/ NodeHangs \/ NodeProceeds
           \/ Connect \/ Sync \/ BootLooks \/ BootLoads \/ BootAgain
  BY <1>1 DEF Books, NodeStops, NodeHangs, NodeProceeds, Connect, Sync, BootLooks,
     BootLoads, BootAgain
<1>2. ASSUME NEW i \in DOMAIN sent, CoreMine(i) PROVE Books
  BY <1>2 DEF Books, CoreMine
<1>3. ASSUME NEW p \in Calls,
             \/ CreateRawTransaction(p) \/ GetRawTransaction(p) \/ Retry(p) \/ CoreIncluded(p)
      PROVE  GoesOn(p)
  <2>1. PICK pc \in {"fund", "send", "failed", "done"} :
          call' = [call EXCEPT ![p].pc = pc] /\ (pc = "send" => p \in holder)
    BY <1>3 DEF CreateRawTransaction, GetRawTransaction, Retry, CoreIncluded
  <2>2. /\ [call[p] EXCEPT !.pc = pc] \in CallRecord
        /\ [call[p] EXCEPT !.pc = pc].txid = call[p].txid
        /\ [call[p] EXCEPT !.pc = pc].coins = call[p].coins
        /\ [call[p] EXCEPT !.pc = pc].pc = pc
    <3>1. pc \in {"fund", "look", "backoff", "send", "done", "failed"}
      OBVIOUS
    <3> QED
      BY <3>1, PcTypes
  <2>3. call[p].pc # "failed" /\ holder' = holder /\ UNCHANGED bookVars
    BY <1>3 DEF CreateRawTransaction, GetRawTransaction, Retry, CoreIncluded
  <2>4. call' = [call EXCEPT ![p] = [call[p] EXCEPT !.pc = pc]]
    BY <2>1, PcChange
  <2> HIDE DEF bookVars
  <2> QED
    BY <2>1, <2>2, <2>3, <2>4, GoingOn
<1>4. ASSUME NEW p \in Calls, NEW e, call' = [call EXCEPT ![p] = WithWalletInner(p, e)],
             call[p].pc = "fund", holder = {}, holder' = holder, UNCHANGED bookVars
      PROVE  GoesOn(p)
  <2>1. holder' = holder \ {p}
    BY <1>4
  <2> HIDE DEF bookVars
  <2> QED
    BY <1>4, <2>1, AfterError, GoingOn
<1>5. ASSUME NEW p \in Calls, FundFailsOtherwise(p) PROVE GoesOn(p)
  BY <1>4, <1>5 DEF FundFailsOtherwise
<1>6. ASSUME NEW p \in Calls, FundAndSign(p) PROVE GoesOn(p) \/ Funds(p)
  <2>1. CASE /\ holder' = {p}
             /\ \E coins \in SUBSET Spendable, change \in BOOLEAN :
                  /\ Cardinality(coins) <= 1 /\ Base(p) \cup coins # {}
                  /\ call' = [call EXCEPT ![p].pc = "send", ![p].coins = Base(p) \cup coins,
                                          ![p].change = change]
    <3>1. PICK coins \in SUBSET Spendable, change \in BOOLEAN :
                  /\ Base(p) \cup coins # {}
                  /\ call' = [call EXCEPT ![p].pc = "send", ![p].coins = Base(p) \cup coins,
                                          ![p].change = change]
      BY <2>1
    <3> DEFINE new == [call[p] EXCEPT !.pc = "send", !.coins = Base(p) \cup coins,
                                      !.change = change]
    <3>2. call' = [call EXCEPT ![p] = new]
      BY <3>1 DEF CoreType
    <3>3. new.txid = call[p].txid /\ new.pc = "send" /\ new.coins = Base(p) \cup coins
      BY CallTypes DEF CallRecord
    <3>4. Base(p) \cup coins \subseteq CoreCoin
      <4>1. coins \subseteq CoreCoin
        <5>1. \A i \in pool \cup blocks : i \in 1..MaxSent
          BY CoreAssumption DEF CoreType
        <5>2. \A i \in pool \cup blocks : <<"change", i>> \in CoreCoin
          BY <5>1 DEF CoreCoin
        <5> QED
          BY <5>2 DEF Spendable, CoreCoin
      <4>2. \A i \in DOMAIN sent : sent[i] \in Tx
        BY DEF CoreType
      <4>3. Base(p) \subseteq CoreCoin
        BY <4>2 DEF Base, Follows, Tx
      <4> QED
        BY <4>1, <4>3
    <3>5. new \in CallRecord
      BY <3>4, CallTypes, RecordTypes
    <3> HIDE DEF new
    <3> QED
      BY <1>6, <2>1, <3>1, <3>2, <3>3, <3>5 DEF Funds, FundAndSign
  <2>2. ASSUME NEW e \in FundErrors(p), call' = [call EXCEPT ![p] = WithWalletInner(p, e)],
               UNCHANGED holder
        PROVE  GoesOn(p)
    BY <1>4, <1>6, <2>2 DEF FundAndSign
  <2> QED
    BY <1>6, <2>1, <2>2 DEF FundAndSign
<1>7. ASSUME NEW p \in Calls, LookForWallet(p) \/ LoadWallet(p) \/ GiveUp(p) PROVE GoesOn(p)
  <2>0. call[p].pc # "failed" /\ UnlockedAtEnd(p) /\ UNCHANGED bookVars
    BY <1>7 DEF LookForWallet, LoadWallet, GiveUp
  <2>1. \/ call' = [call EXCEPT ![p] = Failed(p)]
        \/ call' = [call EXCEPT ![p] = [call[p] EXCEPT !.pc = "backoff"]]
        \/ call' = [call EXCEPT ![p] = [call[p] EXCEPT !.pc = "look"]]
        \/ call' = [call EXCEPT ![p] = [call[p] EXCEPT !.pc = "load", !.saw = file]]
    BY <1>7 DEF LookForWallet, LoadWallet, GiveUp, CoreType
  <2>2. /\ [call[p] EXCEPT !.pc = "load", !.saw = file] \in CallRecord
        /\ [call[p] EXCEPT !.pc = "load", !.saw = file].txid = call[p].txid
        /\ [call[p] EXCEPT !.pc = "load", !.saw = file].coins = call[p].coins
        /\ [call[p] EXCEPT !.pc = "load", !.saw = file].pc # "send"
    <3>1. call[p] \in CallRecord
      BY CallTypes
    <3>2. file \in {"absent", "unloaded", "loaded"}
      BY DEF CoreType
    <3> HIDE DEF bookVars
    <3> QED
      BY <3>1, <3>2, RecordTypes
  <2>3. /\ Failed(p) \in CallRecord /\ Failed(p).txid = call[p].txid
        /\ Failed(p).pc # "send" /\ Failed(p).pc \notin InCall
    BY CallTypes DEF InCall
  <2> HIDE DEF bookVars
  <2>4. CASE call' = [call EXCEPT ![p] = Failed(p)]
    BY <2>0, <2>3, <2>4, GoingToEnd
  <2>5. ASSUME NEW pc \in {"backoff", "look"},
               call' = [call EXCEPT ![p] = [call[p] EXCEPT !.pc = pc]]
        PROVE  GoesOn(p)
    BY <2>0, <2>5, PcTypes, GoingToEnd
  <2>6. CASE call' = [call EXCEPT ![p] = [call[p] EXCEPT !.pc = "load", !.saw = file]]
    BY <2>0, <2>2, <2>6, GoingToEnd
  <2> QED
    BY <2>1, <2>4, <2>5, <2>6
<1>8. ASSUME NEW p \in Calls, SendRawTransaction(p) PROVE GoesOn(p) \/ Sends(p)
  <2>0. call[p].pc = "send" /\ UnlockedAtEnd(p)
    BY <1>8 DEF SendRawTransaction
  <2>1. /\ Failed(p) \in CallRecord /\ Failed(p).txid = call[p].txid
        /\ Failed(p).pc = IF call[p].txid = 0 THEN "failed" ELSE "wait"
    BY CallTypes
  <2>a. ASSUME NEW new \in CallRecord, call' = [call EXCEPT ![p] = new], new.pc \notin InCall
        PROVE  holder' = holder \ {p}
    BY <2>0, <2>a DEF UnlockedAtEnd, CoreType
  <2>2. CASE call' = [call EXCEPT ![p] = Failed(p)] /\ UNCHANGED nodeVars
    <3>1. Failed(p).pc \notin InCall /\ Failed(p).pc # "send" /\ UNCHANGED bookVars
      BY <2>1, <2>2 DEF InCall
    <3> HIDE DEF bookVars, nodeVars
    <3> QED
      BY <2>0, <2>1, <2>2, <3>1, GoingToEnd
  <2>b. ASSUME NEW e, call' = [call EXCEPT ![p] = WithWalletInner(p, e)], UNCHANGED nodeVars
        PROVE  GoesOn(p)
    <3>1. UNCHANGED bookVars
      BY <2>b
    <3> HIDE DEF bookVars, nodeVars
    <3> QED
      BY <2>0, <2>b, <3>1, AfterError, GoingToEnd
  <2>3. CASE Len(sent) < MaxSent /\ Taken(p) /\ call' = [call EXCEPT ![p] = Failed(p)]
    <3>1. holder' = holder \ {p}
      BY <2>1, <2>3, <2>a DEF InCall
    <3> QED
      BY <2>0, <2>1, <2>3, <3>1 DEF Sends
  <2>4. CASE Len(sent) < MaxSent /\ Taken(p) /\ call' = [call EXCEPT ![p] = SentAs(Len(sent) + 1)]
    <3>1. Len(sent) + 1 \in Nat
      BY DEF CoreType
    <3>2. SentAs(Len(sent) + 1) \in CallRecord /\ SentAs(Len(sent) + 1).txid = Len(sent) + 1
          /\ SentAs(Len(sent) + 1).pc = "wait"
      BY <3>1, CallTypes
    <3>3. holder' = holder \ {p}
      BY <2>4, <2>a, <3>2 DEF InCall
    <3> QED
      BY <2>0, <2>4, <3>2, <3>3 DEF Sends
  <2> QED
    BY <1>8, <2>2, <2>3, <2>4, <2>b DEF SendRawTransaction
<1> QED
  BY <1>1, <1>2, <1>3, <1>5, <1>6, <1>7, <1>8 DEF CoreNext, Books

\* What the node's books look like after it took a transaction.
LEMMA TakenBooks ==
  ASSUME CoreType, NEW p \in Calls, Sends(p)
  PROVE  /\ Len(sent) + 1 \notin DOMAIN sent
         /\ DOMAIN sent' = DOMAIN sent \cup {Len(sent) + 1}
         /\ \A i \in DOMAIN sent : sent'[i] = sent[i] /\ i \in Nat /\ i # 0
         /\ sent'[Len(sent) + 1].of = p /\ sent'[Len(sent) + 1].coins = call[p].coins
         /\ sent' \in Seq(Tx) /\ Len(sent') <= MaxSent
         /\ pool' = (pool \ Displaced(call[p].coins)) \cup {Len(sent) + 1}
         /\ blocks' = blocks
<1> DEFINE new == [of |-> p, coins |-> call[p].coins, change |-> call[p].change]
<1>1. sent \in Seq(Tx) /\ Len(sent) \in Nat /\ DOMAIN sent = 1..Len(sent)
  BY DEF CoreType
<1>2. new \in Tx /\ new.of = p /\ new.coins = call[p].coins
  BY CallTypes DEF Tx, CallRecord
<1>3. sent' = Append(sent, new) /\ Len(sent) < MaxSent
  BY DEF Sends, Taken
<1> HIDE DEF new
<1>4. /\ sent' \in Seq(Tx) /\ Len(sent') = Len(sent) + 1
      /\ sent'[Len(sent) + 1] = new
      /\ \A i \in 1..Len(sent) : sent'[i] = sent[i]
  BY <1>1, <1>2, <1>3
<1>5. DOMAIN sent' = 1..(Len(sent) + 1)
  BY <1>4
<1>6. Len(sent') <= MaxSent
  BY <1>1, <1>3, <1>4, CoreAssumption
<1>7. pool' = (pool \ Displaced(call[p].coins)) \cup {Len(sent) + 1} /\ blocks' = blocks
  BY DEF Sends, Taken
<1> QED
  BY <1>1, <1>2, <1>4, <1>5, <1>6, <1>7

\* The call that a step is about, and all others.
LEMMA CallChange ==
  ASSUME CoreType, NEW p \in Calls, NEW new \in CallRecord, call' = [call EXCEPT ![p] = new]
  PROVE  /\ call' \in [Calls -> CallRecord]
         /\ call'[p] = new
         /\ \A q \in Calls : q # p => call'[q] = call[q]
BY DEF CoreType

\* The types are kept.
LEMMA TypeStep == ASSUME CoreType, Follows, [CoreNext]_coreVars PROVE CoreType'
<1>1. CASE UNCHANGED coreVars
  BY <1>1 DEF coreVars, nodeVars, CoreType
<1>2. CASE CoreNext
  <2>1. file' \in {"absent", "unloaded", "loaded"}
    BY <1>2 DEF CoreType, CoreNext, NodeStops, NodeHangs, NodeProceeds, Connect, Sync, BootLooks,
       BootLoads, BootAgain, CoreMine, CreateRawTransaction, GetRawTransaction, FundAndSign,
       FundFailsOtherwise, Retry, LookForWallet, LoadWallet, GiveUp, SendRawTransaction,
       Taken, CoreIncluded, nodeVars
  <2>2. Books
    BY <1>2, StepForms
  <2>3. CASE UNCHANGED <<bookVars, holder, call>>
    BY <2>1, <2>3 DEF bookVars, CoreType
  <2>4. ASSUME NEW i \in pool, CoreMine(i) PROVE CoreType'
    BY <2>1, <2>4 DEF CoreMine, CoreType
  <2>5. ASSUME NEW p \in Calls, GoesOn(p) \/ Funds(p) PROVE CoreType'
    <3>1. UNCHANGED bookVars /\ call' \in [Calls -> CallRecord]
      BY <2>5, CallChange DEF GoesOn, Funds
    <3> QED
      BY <2>1, <3>1 DEF bookVars, CoreType
  <2>6. ASSUME NEW p \in Calls, Sends(p) PROVE CoreType'
    <3>1. call' \in [Calls -> CallRecord]
      BY <2>6, CallChange DEF Sends
    <3>2. /\ DOMAIN sent' = DOMAIN sent \cup {Len(sent) + 1}
          /\ sent' \in Seq(Tx) /\ Len(sent') <= MaxSent
          /\ pool' \subseteq pool \cup {Len(sent) + 1}
          /\ blocks' = blocks
      BY <2>6, TakenBooks
    <3> QED
      BY <2>1, <3>1, <3>2 DEF CoreType
  <2> QED
    BY <2>2, <2>3, <2>4, <2>5, <2>6 DEF Books
<1> QED
  BY <1>1, <1>2

\* What a call replaces does not change while it goes on and others send.
LEMMA BaseStays ==
  ASSUME CoreType, Follows, NEW q \in Calls, call'[q].txid = call[q].txid,
         \A i \in DOMAIN sent : sent'[i] = sent[i]
  PROVE  Base(q)' = Base(q)
BY DEF Base, Follows

\* Payments keep a coin in common, whatever happens.
LEMMA PaidStep == ASSUME PaidInv, [CoreNext]_coreVars PROVE PaidInv'
<1> USE DEF PaidInv
<1>0. CoreType /\ CoreType'
  BY TypeStep
<1>1. CASE UNCHANGED <<bookVars, holder, call>>
  <2>1. Follows' /\ SameCoin'
    BY <1>1 DEF Follows, SameCoin, bookVars
  <2>2. Keeps' /\ Locked'
    BY <1>1 DEF Keeps, Locked, Base, bookVars
  <2> QED
    BY <1>0, <2>1, <2>2
<1>2. ASSUME NEW i \in pool, CoreMine(i) PROVE PaidInv'
  <2> USE <1>2 DEF CoreMine
  <2>1. Follows' /\ SameCoin'
    BY DEF Follows, SameCoin
  <2>2. Keeps' /\ Locked'
    BY DEF Keeps, Locked, Base
  <2> QED
    BY <1>0, <2>1, <2>2
<1>3. ASSUME NEW p \in Calls, GoesOn(p) PROVE PaidInv'
  <2>1. PICK new \in CallRecord :
          /\ call' = [call EXCEPT ![p] = new]
          /\ new.txid = call[p].txid
          /\ new.pc = "send" => p \in holder'
          /\ \/ holder' = holder \ {p}
             \/ holder' = holder /\ new.coins = call[p].coins
    BY <1>3 DEF GoesOn
  <2>2. call'[p] = new /\ \A q \in Calls : q # p => call'[q] = call[q]
    BY <1>0, <2>1, CallChange
  <2>3. UNCHANGED <<sent, pool, blocks>> /\ call[p].pc # "failed"
    BY <1>3 DEF GoesOn, bookVars
  <2>4. Follows'
    BY <2>1, <2>2, <2>3 DEF Follows
  <2>5. SameCoin'
    BY <2>3 DEF SameCoin
  <2>6. \A q \in Calls : Base(q)' = Base(q)
    BY <2>1, <2>2, <2>3 DEF Base
  <2>7. ASSUME NEW q \in Calls, q \in holder'
        PROVE  q \in holder /\ call'[q].coins = call[q].coins
    BY <2>1, <2>2, <2>7
  <2>8. Keeps'
    BY <2>6, <2>7 DEF Keeps
  <2>9. Locked'
    <3>1. \A q \in Calls : q \in holder' => holder' = {q}
      BY <2>1, <2>7 DEF Locked
    <3>2. \A q \in Calls \ {p} : call'[q].pc = "send" => q \in holder'
      BY <2>1, <2>2 DEF Locked
    <3> QED
      BY <2>1, <2>2, <3>1, <3>2 DEF Locked
  <2> QED
    BY <1>0, <2>4, <2>5, <2>8, <2>9
<1>4. ASSUME NEW p \in Calls, Funds(p) PROVE PaidInv'
  <2>1. PICK coins \in SUBSET Spendable, new \in CallRecord :
          /\ Base(p) \cup coins # {}
          /\ call' = [call EXCEPT ![p] = new]
          /\ new.txid = call[p].txid /\ new.pc = "send" /\ new.coins = Base(p) \cup coins
    BY <1>4 DEF Funds
  <2>2. call'[p] = new /\ \A q \in Calls : q # p => call'[q] = call[q]
    BY <1>0, <2>1, CallChange
  <2>3. UNCHANGED <<sent, pool, blocks>> /\ call[p].pc # "failed"
    BY <1>4 DEF Funds, bookVars
  <2>4. Follows'
    BY <2>1, <2>2, <2>3 DEF Follows
  <2>5. SameCoin'
    BY <2>3 DEF SameCoin
  <2>6. \A q \in Calls : Base(q)' = Base(q)
    BY <2>1, <2>2, <2>3 DEF Base
  <2>7. holder = {} /\ holder' = {p}
    BY <1>4 DEF Funds
  <2>8. Keeps'
    BY <2>1, <2>2, <2>6, <2>7 DEF Keeps
  <2>9. Locked'
    BY <2>2, <2>7 DEF Locked
  <2> QED
    BY <1>0, <2>4, <2>5, <2>8, <2>9
<1>5. ASSUME NEW p \in Calls, Sends(p) PROVE PaidInv'
  <2> DEFINE n == Len(sent) + 1
  <2>1. PICK new \in CallRecord :
          /\ call' = [call EXCEPT ![p] = new]
          /\ \/ new.txid = Len(sent) + 1 /\ new.pc = "wait"
             \/ new.txid = call[p].txid /\ new.txid # 0 /\ new.pc = "wait"
             \/ new.txid = call[p].txid /\ new.pc = "failed"
    BY <1>5 DEF Sends
  <2>2. call'[p] = new /\ \A q \in Calls : q # p => call'[q] = call[q]
    BY <1>0, <2>1, CallChange
  <2>3. /\ n \notin DOMAIN sent
        /\ DOMAIN sent' = DOMAIN sent \cup {n}
        /\ \A i \in DOMAIN sent : sent'[i] = sent[i]
        /\ sent'[n].of = p /\ sent'[n].coins = call[p].coins
    BY <1>0, <1>5, TakenBooks
  <2>4. call[p].pc = "send" /\ call[p].coins # {} /\ Base(p) \subseteq call[p].coins
    BY <1>5 DEF Sends, Keeps, Locked
  <2>5. n # 0
    BY <1>0 DEF CoreType
  <2> HIDE DEF n
  <2>6. Follows'
    <3>1. \A q \in Calls : q # p => call'[q] = call[q]
      BY <2>2
    <3>2. ASSUME NEW q \in Calls, q # p
          PROVE  /\ call'[q].txid # 0 =>
                      call'[q].txid \in DOMAIN sent' /\ sent'[call'[q].txid].of = q
                 /\ call'[q].txid = 0 /\ call'[q].pc # "failed" =>
                      \A i \in DOMAIN sent' : sent'[i].of # q
      BY <2>3, <3>1, <3>2 DEF Follows
    <3>3. /\ call'[p].txid # 0 =>
               call'[p].txid \in DOMAIN sent' /\ sent'[call'[p].txid].of = p
          /\ ~ (call'[p].txid = 0 /\ call'[p].pc # "failed")
      BY <2>1, <2>2, <2>3, <2>5 DEF Follows, n
    <3> QED
      BY <3>2, <3>3 DEF Follows
  <2>7. SameCoin'
    <3>1. ASSUME NEW i \in DOMAIN sent, sent[i].of # p
          PROVE  \E c \in sent'[i].coins :
                   \A k \in DOMAIN sent' : sent'[k].of = sent'[i].of => c \in sent'[k].coins
      BY <2>3, <3>1 DEF SameCoin
    <3>2. \E c \in call[p].coins : \A k \in DOMAIN sent : sent[k].of = p => c \in sent[k].coins
      <4>1. CASE call[p].txid = 0
        BY <2>4, <4>1 DEF Follows
      <4>2. CASE call[p].txid # 0
        BY <2>4, <4>2 DEF Follows, SameCoin, Base
      <4> QED
        BY <4>1, <4>2
    <3>3. ASSUME NEW i \in DOMAIN sent', sent'[i].of = p
          PROVE  \E c \in sent'[i].coins :
                   \A k \in DOMAIN sent' : sent'[k].of = sent'[i].of => c \in sent'[k].coins
      BY <2>3, <3>2, <3>3
    <3>4. \A i \in DOMAIN sent' : (i \in DOMAIN sent /\ sent[i].of # p) \/ sent'[i].of = p
      BY <2>3
    <3> QED
      BY <3>1, <3>3, <3>4 DEF SameCoin
  <2>8. Keeps' /\ Locked'
    <3>1. holder = {p} /\ holder' = {}
      BY <1>5, <2>4 DEF Sends, Locked
    <3>2. \A q \in Calls : call'[q].pc # "send"
      BY <2>1, <2>2, <3>1 DEF Locked
    <3> QED
      BY <3>1, <3>2 DEF Keeps, Locked
  <2> QED
    BY <1>0, <2>6, <2>7, <2>8
<1>6. CASE UNCHANGED coreVars
  BY <1>1, <1>6 DEF coreVars, nodeVars, bookVars
<1> QED
  BY <1>1, <1>2, <1>3, <1>4, <1>5, <1>6, StepForms DEF Books

\* The initial state.
LEMMA PaidInit == CoreInit => PaidInv
<1> SUFFICES ASSUME CoreInit PROVE PaidInv
  OBVIOUS
<1> USE DEF CoreInit
<1>1. NoCall \in CallRecord /\ NoCall.txid = 0 /\ NoCall.pc = "idle"
  BY DEF NoCall, CallRecord
<1>2. DOMAIN sent = {} /\ Len(sent) = 0 /\ sent \in Seq(Tx)
  OBVIOUS
<1>3. CoreType
  BY <1>1, <1>2, CoreAssumption DEF CoreType
<1>4. Follows /\ Locked /\ Keeps /\ SameCoin
  BY <1>1, <1>2 DEF Follows, Locked, Keeps, SameCoin
<1> QED
  BY <1>3, <1>4 DEF PaidInv

\* All transactions of a payment have a coin in common, for any number of
\* concurrent payments, replacements, lost answers and stops of the node: at
\* most one of them can be mined.
THEOREM CorePaysOnce == CoreSpec => []CorePaidOnce
<1>1. PaidInv => CorePaidOnce
  BY DEF PaidInv, SameCoin, CorePaidOnce
<1>2. PaidInv /\ [CoreNext]_coreVars => PaidInv'
  BY PaidStep
<1> QED
  BY <1>1, <1>2, PaidInit, PTL DEF CoreSpec

-----------------------------------------------------------------------------
(***************************************************************************)
(* Dependents is the least set that is closed: it has S, has what depends  *)
(* on it, and is contained in every closed set.                            *)
(***************************************************************************)

Closed(T, N) == \A i \in N : (\E k \in T : <<"change", k>> \in sent[i].coins) => i \in T

LEMMA DependentsContain ==
  ASSUME NEW N, NEW S \in SUBSET N
  PROVE  S \subseteq Dependents(S, N) /\ Dependents(S, N) \subseteq N
BY DEF Dependents

LEMMA DependentsClosed ==
  ASSUME NEW N, NEW S \in SUBSET N
  PROVE  Closed(Dependents(S, N), N)
<1> SUFFICES ASSUME NEW i \in N, NEW k \in Dependents(S, N), <<"change", k>> \in sent[i].coins,
                    NEW T \in SUBSET N, S \subseteq T, Closed(T, N)
             PROVE  i \in T
  BY DEF Closed, Dependents
<1>1. k \in T
  BY DEF Dependents, Closed
<1> QED
  BY <1>1 DEF Closed

LEMMA DependentsLeast ==
  ASSUME NEW N, NEW S \in SUBSET N, NEW T \in SUBSET N, S \subseteq T, Closed(T, N)
  PROVE  Dependents(S, N) \subseteq T
BY DEF Dependents, Closed

\* Every descendant of some transactions is a descendant of one of them.
LEMMA OneAncestor ==
  ASSUME NEW S \in SUBSET pool, NEW i \in Descendants(S)
  PROVE  \E k \in S : i \in Descendants({k})
<1> DEFINE U == {j \in pool : \E k \in S : j \in Dependents({k}, pool)}
<1>1. S \subseteq U
  BY DependentsContain
<1>2. Closed(U, pool)
  <2> SUFFICES ASSUME NEW j \in pool, NEW m \in U, <<"change", m>> \in sent[j].coins
               PROVE  j \in U
    BY DEF Closed
  <2>1. PICK k \in S : m \in Dependents({k}, pool)
    OBVIOUS
  <2>2. {k} \in SUBSET pool
    OBVIOUS
  <2>3. Closed(Dependents({k}, pool), pool)
    BY <2>2, DependentsClosed
  <2> QED
    BY <2>1, <2>3 DEF Closed
<1>3. Dependents(S, pool) \subseteq U
  <2> HIDE DEF U
  <2>1. U \in SUBSET pool
    BY DEF U
  <2> QED
    BY <1>1, <1>2, <2>1, DependentsLeast
<1> QED
  BY <1>3 DEF Descendants

\* What a wallet counts as conflicted is gone for good.
LEMMA ConflictedDead ==
  ASSUME CoreType, PoolAgrees, NEW i \in Conflicted
  PROVE  Dead(i)
<1> DEFINE N == DOMAIN sent \ blocks
           T == {j \in N : Dead(j)}
<1>1. Clash \subseteq T
  BY DEF Clash, Dead, PoolAgrees
<1>2. Closed(T, N)
  <2> SUFFICES ASSUME NEW j \in N, NEW k \in T, <<"change", k>> \in sent[j].coins
               PROVE  Dead(j)
    BY DEF Closed
  <2>1. k \in DOMAIN sent /\ k \notin pool \cup blocks
    BY DEF Dead
  <2>2. j \notin pool
    BY <2>1 DEF PoolAgrees
  <2> QED
    BY <2>1, <2>2 DEF Dead
<1>3. T \in SUBSET N /\ Clash \in SUBSET N
  BY DEF Clash
<1> HIDE DEF T, N
<1>4. Dependents(Clash, N) \subseteq T
  BY <1>1, <1>2, <1>3, DependentsLeast
<1> QED
  BY <1>4 DEF Conflicted, N, T

\* A transaction with all coins of one that is gone is not acceptable.
LEMMA DeadNotAcceptable ==
  ASSUME CoreType, NEW i \in DOMAIN sent, Dead(i), NEW coins, sent[i].coins \subseteq coins
  PROVE  ~ Acceptable(coins)
<1>1. CASE \E k \in blocks : sent[i].coins \cap sent[k].coins # {}
  BY <1>1 DEF Acceptable
<1>2. CASE \E k \in DOMAIN sent \ (pool \cup blocks) : <<"change", k>> \in sent[i].coins
  <2>1. PICK k \in DOMAIN sent \ (pool \cup blocks) : <<"change", k>> \in sent[i].coins
    BY <1>2
  <2>2. <<"change", k>>[1] = "change" /\ <<"change", k>>[2] = k
    OBVIOUS
  <2> QED
    BY <2>1, <2>2 DEF Acceptable
<1> QED
  BY <1>1, <1>2 DEF Dead

\* What the transaction of p displaces directly is of p.
LEMMA DisplacesOwn ==
  ASSUME SpendInv, NEW p \in Calls, Sends(p),
         NEW k \in DOMAIN sent, sent[k].coins \cap call[p].coins # {}, sent[k].of # p
  PROVE  Dead(k)
<1> USE DEF SpendInv, PaidInv
<1>1. call[p].pc = "send" /\ Acceptable(call[p].coins)
  BY DEF Sends, Taken
<1>2. PICK c : c \in sent[k].coins /\ c \in call[p].coins
  OBVIOUS
<1>3. CASE c \in Base(p)
  <2>1. call[p].txid \in DOMAIN sent /\ sent[call[p].txid].of = p /\ c \in sent[call[p].txid].coins
        /\ Base(p) = sent[call[p].txid].coins
    BY <1>3 DEF Base, Follows
  <2>2. Dead(k) \/ Dead(call[p].txid)
    BY <1>2, <2>1 DEF Apart
  <2>3. sent[call[p].txid].coins \subseteq call[p].coins
    BY <1>1, <2>1 DEF Keeps, Locked
  <2> QED
    BY <1>1, <2>1, <2>2, <2>3, DeadNotAcceptable
<1>4. CASE c \notin Base(p)
  BY <1>1, <1>2, <1>4 DEF StillFree, Locked
<1> QED
  BY <1>3, <1>4

\* The node's steps: whatever is gone stays gone.
LEMMA DeadStays ==
  ASSUME CoreType, NEW i \in DOMAIN sent, Dead(i),
         blocks \subseteq blocks', DOMAIN sent \subseteq DOMAIN sent',
         \A k \in DOMAIN sent :
            sent'[k] = sent[k] /\ (k \in pool' \cup blocks' => k \in pool \cup blocks)
  PROVE  Dead(i)'
<1>1. \A k \in blocks : k \in DOMAIN sent
  BY DEF CoreType
<1>2. i \notin pool' \cup blocks' /\ sent'[i] = sent[i]
  BY DEF Dead
<1>3. CASE \E k \in blocks : sent[i].coins \cap sent[k].coins # {}
  BY <1>1, <1>2, <1>3 DEF Dead
<1>4. CASE \E k \in DOMAIN sent \ (pool \cup blocks) : <<"change", k>> \in sent[i].coins
  BY <1>2, <1>4 DEF Dead
<1> QED
  BY <1>3, <1>4 DEF Dead

\* Mining leaves the mempool in agreement with the chain.
LEMMA MineSpend ==
  ASSUME SpendInv, NEW i \in pool, CoreMine(i), PaidInv'
  PROVE  SpendInv'
<1> USE DEF SpendInv
<1>0. CoreType /\ i \in DOMAIN sent
  BY DEF PaidInv, CoreType
<1>1. /\ pool' = pool \ {i} /\ blocks' = blocks \cup {i}
      /\ UNCHANGED <<sent, holder, call>>
  BY DEF CoreMine
<1>2. \A k \in DOMAIN sent : Dead(k) => Dead(k)'
  <2> SUFFICES ASSUME NEW k \in DOMAIN sent, Dead(k) PROVE Dead(k)'
    OBVIOUS
  <2> QED
    BY <1>0, <1>1, DeadStays
<1>4. PoolAgrees'
  BY <1>1 DEF PoolAgrees
<1>5. Apart'
  BY <1>1, <1>2 DEF Apart
<1>6. \A q \in Calls : Base(q)' = Base(q)
  BY <1>1 DEF Base
<1>7. StillFree'
  BY <1>1, <1>2, <1>6 DEF StillFree
<1> QED
  BY <1>4, <1>5, <1>7

\* A call that goes on, and a step that is about nothing of this.
LEMMA GoesOnSpend ==
  ASSUME SpendInv, PaidInv',
         UNCHANGED <<bookVars, holder, call>> \/ \E p \in Calls : GoesOn(p)
  PROVE  SpendInv'
<1> USE DEF SpendInv
<1>0. CoreType
  BY DEF PaidInv
<1>1. UNCHANGED <<sent, pool, blocks>>
  BY DEF bookVars, GoesOn
<1>2. \A k : Dead(k)' <=> Dead(k)
  BY <1>1 DEF Dead
<1>3. PoolAgrees' /\ Apart'
  BY <1>1, <1>2 DEF PoolAgrees, Apart
<1>4. ASSUME NEW q \in Calls, q \in holder'
      PROVE  q \in holder /\ call'[q].coins = call[q].coins /\ call'[q].txid = call[q].txid
  <2>1. CASE UNCHANGED <<bookVars, holder, call>>
    BY <1>4, <2>1
  <2>2. ASSUME NEW p \in Calls, GoesOn(p)
        PROVE  q \in holder /\ call'[q].coins = call[q].coins /\ call'[q].txid = call[q].txid
    <3>1. CASE q = p
      BY <1>0, <1>4, <2>2, <3>1, CallChange DEF GoesOn
    <3>2. CASE q # p
      <4>1. call'[q] = call[q]
        BY <1>0, <2>2, <3>2, CallChange DEF GoesOn
      <4> QED
        BY <1>4, <2>2, <4>1 DEF GoesOn
    <3> QED
      BY <3>1, <3>2
  <2> QED
    BY <2>1, <2>2
<1>5. StillFree'
  BY <1>1, <1>2, <1>4 DEF StillFree, Base
<1> QED
  BY <1>3, <1>5

\* The coins that fundrawtransaction chooses are free.
LEMMA FundsSpend ==
  ASSUME SpendInv, PaidInv', NEW p \in Calls, Funds(p)
  PROVE  SpendInv'
<1> USE DEF SpendInv
<1>0. CoreType
  BY DEF PaidInv
<1>1. PICK coins \in SUBSET Spendable, new \in CallRecord :
        /\ call' = [call EXCEPT ![p] = new]
        /\ new.txid = call[p].txid /\ new.pc = "send" /\ new.coins = Base(p) \cup coins
  BY DEF Funds
<1>2. call'[p] = new /\ \A q \in Calls : q # p => call'[q] = call[q]
  BY <1>0, <1>1, CallChange
<1>3. UNCHANGED <<sent, pool, blocks>> /\ holder = {} /\ holder' = {p}
  BY DEF Funds, bookVars
<1>4. \A k : Dead(k)' <=> Dead(k)
  BY <1>3 DEF Dead
<1>5. PoolAgrees' /\ Apart'
  BY <1>3, <1>4 DEF PoolAgrees, Apart
<1>8. Base(p)' = Base(p)
  BY <1>1, <1>2, <1>3 DEF Base
<1>9. ASSUME NEW i \in DOMAIN sent, sent[i].coins \cap coins # {} PROVE Dead(i)
  <2>1. i \in Conflicted
    BY <1>9 DEF Spendable
  <2> QED
    BY <1>0, <2>1, ConflictedDead
<1>10. StillFree'
  <2> SUFFICES ASSUME NEW i \in DOMAIN sent, sent[i].coins \cap (new.coins \ Base(p)) # {}
               PROVE  Dead(i)
    BY <1>2, <1>3, <1>4, <1>8 DEF StillFree
  <2> QED
    BY <1>1, <1>9
<1> QED
  BY <1>5, <1>10

\* A transaction enters the mempool.
LEMMA SendsSpend ==
  ASSUME SpendInv, PaidInv', NEW p \in Calls, Sends(p)
  PROVE  SpendInv'
<1> DEFINE n == Len(sent) + 1
           C == call[p].coins
<1> USE DEF SpendInv
<1>0. CoreType /\ pool \subseteq DOMAIN sent /\ blocks \subseteq DOMAIN sent
  BY DEF PaidInv, CoreType
<1>1. /\ n \notin DOMAIN sent
      /\ DOMAIN sent' = DOMAIN sent \cup {n}
      /\ \A i \in DOMAIN sent : sent'[i] = sent[i]
      /\ sent'[n].of = p /\ sent'[n].coins = C
      /\ pool' = (pool \ Displaced(C)) \cup {n}
      /\ blocks' = blocks
  BY <1>0, TakenBooks
<1>2. Acceptable(C) /\ call[p].pc = "send" /\ holder' = holder \ {p}
  BY DEF Sends, Taken
<1>3. /\ {i \in pool : sent[i].coins \cap C # {}} \subseteq Displaced(C)
      /\ Closed(Displaced(C), pool)
  BY DependentsContain, DependentsClosed DEF Displaced, Descendants
<1> HIDE DEF n
<1>4. ASSUME NEW k \in DOMAIN sent, Dead(k) PROVE Dead(k)'
  BY <1>0, <1>1, <1>4, DeadStays
<1>5. PoolAgrees'
  <2>1. ASSUME NEW i \in pool', NEW k \in pool', i # k
        PROVE  sent'[i].coins \cap sent'[k].coins = {}
    BY <1>0, <1>1, <1>3, <2>1 DEF PoolAgrees
  <2>2. ASSUME NEW i \in pool', NEW k \in blocks'
        PROVE  i # k /\ sent'[i].coins \cap sent'[k].coins = {}
    <3>1. CASE i = n
      BY <1>0, <1>1, <1>2, <3>1 DEF Acceptable
    <3>2. CASE i # n
      BY <1>0, <1>1, <3>2 DEF PoolAgrees
    <3> QED
      BY <3>1, <3>2
  <2>3. ASSUME NEW i \in pool', NEW k \in DOMAIN sent', <<"change", k>> \in sent'[i].coins
        PROVE  k \in pool' \cup blocks'
    <3>1. CASE i = n
      <4>1. <<"change", k>>[1] = "change" /\ <<"change", k>>[2] = k
        OBVIOUS
      <4>2. k \in (pool \cup blocks) \ Displaced(C)
        BY <1>1, <1>2, <2>3, <3>1, <4>1 DEF Acceptable
      <4> QED
        BY <1>1, <4>2
    <3>2. CASE i # n /\ k = n
      BY <1>1, <3>2
    <3>3. CASE i # n /\ k # n
      <4>1. i \in pool \ Displaced(C) /\ k \in pool \cup blocks
        BY <1>0, <1>1, <2>3, <3>3 DEF PoolAgrees
      <4>2. k \notin Displaced(C)
        BY <1>0, <1>1, <1>3, <2>3, <4>1 DEF Closed
      <4> QED
        BY <1>1, <4>1, <4>2
    <3> QED
      BY <3>1, <3>2, <3>3
  <2> QED
    BY <2>1, <2>2, <2>3 DEF PoolAgrees
<1>6. ASSUME NEW i \in DOMAIN sent, sent[i].coins \cap C # {}, sent[i].of # p PROVE Dead(i)
  BY <1>6, DisplacesOwn
<1>7. Apart'
  <2> SUFFICES ASSUME NEW i \in DOMAIN sent', NEW k \in DOMAIN sent',
                      sent'[i].of # sent'[k].of, sent'[i].coins \cap sent'[k].coins # {}
               PROVE  Dead(i)' \/ Dead(k)'
    BY DEF Apart
  <2>1. CASE i \in DOMAIN sent /\ k \in DOMAIN sent
    BY <1>1, <1>4, <2>1 DEF Apart
  <2>2. CASE i = n
    <3>1. k \in DOMAIN sent
      BY <1>1, <2>2
    <3> QED
      BY <1>1, <1>4, <1>6, <2>2, <3>1
  <2>3. CASE k = n
    <3>1. i \in DOMAIN sent
      BY <1>1, <2>3
    <3> QED
      BY <1>1, <1>4, <1>6, <2>3, <3>1
  <2> QED
    BY <1>1, <2>1, <2>2, <2>3
<1>8. StillFree'
  <2>1. holder = {p}
    BY <1>2 DEF PaidInv, Locked
  <2> QED
    BY <1>2, <2>1 DEF StillFree
<1> QED
  BY <1>5, <1>7, <1>8

\* Every step preserves the invariant.
LEMMA SpendStep == ASSUME SpendInv, [CoreNext]_coreVars PROVE SpendInv'
<1>1. PaidInv /\ PaidInv'
  BY PaidStep DEF SpendInv
<1>2. CASE UNCHANGED coreVars
  <2>1. UNCHANGED <<bookVars, holder, call>>
    BY <1>2 DEF coreVars, nodeVars, bookVars
  <2> QED
    BY <1>1, <2>1, GoesOnSpend
<1>3. CASE CoreNext
  <2>1. Books
    BY <1>1, <1>3, StepForms DEF PaidInv
  <2> QED
    BY <1>1, <2>1, GoesOnSpend, FundsSpend, SendsSpend, MineSpend DEF Books
<1> QED
  BY <1>2, <1>3

LEMMA SpendInit == CoreInit => SpendInv
<1> SUFFICES ASSUME CoreInit PROVE SpendInv
  OBVIOUS
<1> USE DEF CoreInit
<1>1. NoCall.pc = "idle" /\ DOMAIN sent = {}
  BY DEF NoCall
<1>2. PoolAgrees /\ Apart /\ StillFree
  BY <1>1 DEF PoolAgrees, Apart, StillFree
<1> QED
  BY <1>2, PaidInit DEF SpendInv

\* What a step may take out of the mempool.
NoneDisplaced ==
    \A i \in pool \ (pool' \cup blocks') :
        \E n \in DOMAIN sent' \ DOMAIN sent, k \in pool \ pool' :
            sent[k].of = sent'[n].of /\ i \in Descendants({k})

LEMMA NoneDisplacedStep == ASSUME SpendInv, [CoreNext]_coreVars PROVE [NoneDisplaced]_coreVars
<1>0. CoreType /\ Follows
  BY DEF SpendInv, PaidInv
<1>1. CASE UNCHANGED pool
  BY <1>1 DEF NoneDisplaced
<1>2. ASSUME NEW i \in pool, CoreMine(i) PROVE NoneDisplaced
  BY <1>2 DEF CoreMine, NoneDisplaced
<1>3. ASSUME NEW p \in Calls, Sends(p) PROVE NoneDisplaced
  <2> DEFINE n == Len(sent) + 1
             S == {k \in pool : sent[k].coins \cap call[p].coins # {}}
  <2>1. /\ n \notin DOMAIN sent /\ n \in DOMAIN sent' /\ sent'[n].of = p
        /\ pool' = (pool \ Descendants(S)) \cup {n}
    BY <1>0, <1>3, TakenBooks DEF Displaced
  <2>2. pool \subseteq DOMAIN sent
    BY <1>0 DEF CoreType
  <2>3. ASSUME NEW k \in S PROVE sent[k].of = p
    BY <1>3, <2>2, DisplacesOwn DEF Dead
  <2>4. S \in SUBSET pool
    OBVIOUS
  <2>5. S \subseteq Descendants(S)
    BY <2>4, DependentsContain DEF Descendants
  <2> HIDE DEF S, n
  <2>6. ASSUME NEW i \in pool \ (pool' \cup blocks')
        PROVE  \E k \in pool \ pool' : sent[k].of = p /\ i \in Descendants({k})
    <3>1. PICK k \in S : i \in Descendants({k})
      BY <2>1, <2>4, OneAncestor
    <3>2. k \in pool \ pool'
      BY <2>1, <2>2, <2>4, <2>5
    <3> QED
      BY <2>3, <3>1, <3>2
  <2> QED
    BY <2>1, <2>6 DEF NoneDisplaced
<1>4. CASE CoreNext
  BY <1>0, <1>1, <1>2, <1>3, <1>4, StepForms DEF Books, GoesOn, Funds, bookVars
<1> QED
  BY <1>4

\* No payment leaves the mempool for one of another request: while a call
\* holds transaction_creation_lock, the coins chosen for it stay free.
THEOREM CoreNeverDoubleSpends == CoreSpec => CoreNoDoubleSpend
<1>1. SpendInv /\ [CoreNext]_coreVars => SpendInv'
  BY SpendStep
<1>2. SpendInv /\ [CoreNext]_coreVars => [NoneDisplaced]_coreVars
  BY NoneDisplacedStep
<1> QED
  BY <1>1, <1>2, SpendInit, PTL DEF CoreSpec, CoreNoDoubleSpend, NoneDisplaced

\* Whichever client the vault runs with, the client of Bitcoin Core behaves as
\* specified: what is proved of CoreSpec holds in ClientsSpec.
THEOREM ClientsImplyCore == ClientsSpec => CoreSpec
<1>1. NewClient => CoreInit
  BY DEF NewClient
<1>2. [ClientsNext]_<<vars, coreVars, light>> => [CoreNext]_coreVars
  BY DEF ClientsNext
<1> QED
  BY <1>1, <1>2, PTL DEF ClientsSpec, CoreSpec
-----------------------------------------------------------------------------
(***************************************************************************)
(* Sums over sequences of coins: MapThenSumSet takes the indices one by    *)
(* one, so that facts about sums are proved by induction over sets of      *)
(* indices, which in turn is by least counterexample.                      *)
(***************************************************************************)

\* Every set of naturals has a least element.
LEMMA LeastNatural ==
    ASSUME NEW S \in SUBSET Nat, S # {}
    PROVE  \E x \in S : \A y \in S : x <= y
<1> DEFINE R == OpToRel(<, Nat)
<1>1. IsWellFoundedOn(R, Nat)
  BY NatLessThanWellFounded
<1>2. R = {ss \in Nat \X Nat : ss[1] < ss[2]}
  BY Zenon DEF OpToRel
<1> HIDE DEF R
<1>3. \E x \in S : \A y \in S : ~ (<<y, x>> \in R)
  BY <1>1, WFMin
<1>4. ASSUME NEW x \in S, NEW y \in S, ~ (<<y, x>> \in R)
      PROVE  x <= y
  <2>1. x \in Nat /\ y \in Nat
    OBVIOUS
  <2>2. <<y, x>> \in Nat \X Nat /\ <<y, x>>[1] = y /\ <<y, x>>[2] = x
    BY <2>1
  <2>3. ~ (y < x)
    BY <1>2, <1>4, <2>2
  <2> QED BY <2>1, <2>3
<1> QED BY <1>3, <1>4

LEMMA MinIn ==
    ASSUME NEW S \in SUBSET Nat, S # {}
    PROVE  Min(S) \in S
<1>1. \E x \in S : \A y \in S : x <= y
  BY LeastNatural
<1> QED BY <1>1 DEF Min

\* Induction: a set of naturals with zero and the successors of its elements.
LEMMA NaturalsIn ==
    ASSUME NEW S \in SUBSET Nat, 0 \in S, \A n \in S : n + 1 \in S
    PROVE  S = Nat
<1>1. SUFFICES ASSUME Nat \ S # {}
               PROVE  FALSE
  OBVIOUS
<1>2. PICK m \in Nat \ S : \A y \in Nat \ S : m <= y
  BY <1>1, LeastNatural
<1>3. m # 0 /\ m - 1 \in Nat /\ m - 1 \in S
  BY <1>2
<1> QED BY <1>2, <1>3

\* The recursion over sets of indices that MapThenSumSet is defined by.
Some(t) == CHOOSE x \in t : TRUE
SumStep(it, v, D) ==
    [t \in SUBSET D |-> IF t = {} THEN 0 ELSE v[Some(t)] + it[t \ {Some(t)}]]
SumOf(v) == (CHOOSE it : it = SumStep(it, v, DOMAIN v))[DOMAIN v]

LEMMA Subsets ==
    ASSUME NEW n \in Nat, NEW t \in SUBSET (1..n)
    PROVE  /\ IsFiniteSet(t) /\ Cardinality(t) \in Nat /\ Cardinality(t) <= n
           /\ t = {} <=> Cardinality(t) = 0
           /\ t # {} => /\ Some(t) \in t
                        /\ t \ {Some(t)} \in SUBSET (1..n)
                        /\ Cardinality(t \ {Some(t)}) = Cardinality(t) - 1
<1>1. IsFiniteSet(1..n) /\ Cardinality(1..n) = n
  BY FS_Interval
<1>2. IsFiniteSet(t) /\ Cardinality(t) <= n
  BY <1>1, FS_Subset
<1>3. Cardinality(t) \in Nat
  BY <1>2, FS_CardinalityType
<1>4. t = {} <=> Cardinality(t) = 0
  BY <1>2, FS_EmptySet
<1>5. t # {} => Some(t) \in t
  BY DEF Some
<1>6. t # {} => Cardinality(t \ {Some(t)}) = Cardinality(t) - 1
  BY <1>2, <1>5, FS_RemoveElement
<1> QED BY <1>2, <1>3, <1>4, <1>5, <1>6

LEMMA SubsetInduction ==
    ASSUME NEW n \in Nat, NEW P \in SUBSET SUBSET (1..n), {} \in P,
           \A t \in SUBSET (1..n) : t # {} /\ t \ {Some(t)} \in P => t \in P
    PROVE  P = SUBSET (1..n)
<1> DEFINE S == {m \in Nat : \A t \in SUBSET (1..n) : Cardinality(t) = m => t \in P}
<1>1. 0 \in S
  <2>1. ASSUME NEW t \in SUBSET (1..n), Cardinality(t) = 0
        PROVE  t \in P
    <3>1. t = {} <=> Cardinality(t) = 0
      BY Subsets
    <3> QED BY <2>1, <3>1
  <2> QED BY <2>1
<1>2. ASSUME NEW m \in S
      PROVE  m + 1 \in S
  <2>1. ASSUME NEW t \in SUBSET (1..n), Cardinality(t) = m + 1
        PROVE  t \in P
    <3>1. /\ t = {} <=> Cardinality(t) = 0
          /\ t # {} => /\ t \ {Some(t)} \in SUBSET (1..n)
                       /\ Cardinality(t \ {Some(t)}) = Cardinality(t) - 1
      BY Subsets
    <3>2. t # {} /\ t \ {Some(t)} \in SUBSET (1..n) /\ Cardinality(t \ {Some(t)}) = m
      BY <2>1, <3>1
    <3> QED BY <3>2
  <2> QED BY <2>1
<1>3. S = Nat
  <2>1. S \in SUBSET Nat
    OBVIOUS
  <2> HIDE DEF S
  <2> QED BY <1>1, <1>2, <2>1, NaturalsIn
<1> QED BY <1>3, Subsets

LEMMA SumExists ==
    ASSUME NEW n \in Nat, NEW v, DOMAIN v = 1..n
    PROVE  \E it : it = SumStep(it, v, 1..n)
<1> DEFINE At(it, t) == it[t] = IF t = {} THEN 0 ELSE v[Some(t)] + it[t \ {Some(t)}]
           S == {m \in Nat : \E it : \A t \in SUBSET (1..n) : Cardinality(t) <= m => At(it, t)}
<1>1. 0 \in S
  <2> DEFINE f == [t \in SUBSET (1..n) |-> 0]
  <2>1. ASSUME NEW t \in SUBSET (1..n), Cardinality(t) <= 0
        PROVE  At(f, t)
    <3>1. Cardinality(t) \in Nat /\ (t = {} <=> Cardinality(t) = 0)
      BY Subsets
    <3>2. t = {}
      BY <2>1, <3>1
    <3> QED BY <3>2
  <2> HIDE DEF f, At
  <2> QED BY <2>1
<1>2. ASSUME NEW m \in S
      PROVE  m + 1 \in S
  <2>1. m \in Nat /\ m + 1 \in Nat
    OBVIOUS
  <2>2. PICK f : \A t \in SUBSET (1..n) : Cardinality(t) <= m => At(f, t)
    OBVIOUS
  <2> DEFINE g == [t \in SUBSET (1..n) |->
                     IF Cardinality(t) <= m THEN f[t] ELSE v[Some(t)] + f[t \ {Some(t)}]]
  <2>3. ASSUME NEW t \in SUBSET (1..n), Cardinality(t) <= m + 1
        PROVE  At(g, t)
    <3>1. CASE t = {}
      <4>1. Cardinality(t) = 0 /\ 0 <= m
        BY <2>1, <3>1, FS_EmptySet
      <4>2. f[t] = 0
        BY <2>2, <3>1, <4>1
      <4> QED BY <3>1, <4>1, <4>2
    <3>2. CASE t # {}
      <4>1. /\ t \ {Some(t)} \in SUBSET (1..n)
            /\ Cardinality(t) \in Nat
            /\ Cardinality(t \ {Some(t)}) = Cardinality(t) - 1
        BY <3>2, Subsets
      <4>2. Cardinality(t \ {Some(t)}) <= m
        BY <2>1, <2>3, <4>1
      <4>3. g[t \ {Some(t)}] = f[t \ {Some(t)}]
        BY <4>1, <4>2
      <4>4. Cardinality(t) <= m => f[t] = v[Some(t)] + f[t \ {Some(t)}]
        BY <2>2, <3>2
      <4>5. g[t] = v[Some(t)] + f[t \ {Some(t)}]
        BY <4>4
      <4> HIDE DEF g
      <4> QED BY <3>2, <4>3, <4>5
    <3> QED BY <3>1, <3>2
  <2> HIDE DEF g, At
  <2> QED BY <2>1, <2>3
<1>3. S = Nat
  <2>1. S \in SUBSET Nat
    OBVIOUS
  <2> HIDE DEF S
  <2> QED BY <1>1, <1>2, <2>1, NaturalsIn
<1>4. PICK f : \A t \in SUBSET (1..n) : At(f, t)
  <2>1. n \in S
    BY <1>3
  <2> HIDE DEF At
  <2> QED BY <2>1, Subsets
<1> DEFINE g == [t \in SUBSET (1..n) |-> f[t]]
<1>5. ASSUME NEW t \in SUBSET (1..n)
      PROVE  g[t] = IF t = {} THEN 0 ELSE v[Some(t)] + g[t \ {Some(t)}]
  <2>1. t \ {Some(t)} \in SUBSET (1..n)
    OBVIOUS
  <2> QED BY <1>4, <2>1
<1>6. g = SumStep(g, v, 1..n)
  <2>1. g = [t \in SUBSET (1..n) |-> g[t]]
    OBVIOUS
  <2> HIDE DEF g
  <2> QED BY <1>5, <2>1 DEF SumStep
<1> QED BY <1>6

\* There is one such function.
LEMMA SumUnique ==
    ASSUME NEW n \in Nat, NEW v, NEW f, NEW g,
           f = SumStep(f, v, 1..n), g = SumStep(g, v, 1..n)
    PROVE  f[1..n] = g[1..n]
<1> DEFINE P == {t \in SUBSET (1..n) : f[t] = g[t]}
<1>1. \A t \in SUBSET (1..n) :
          /\ f[t] = IF t = {} THEN 0 ELSE v[Some(t)] + f[t \ {Some(t)}]
          /\ g[t] = IF t = {} THEN 0 ELSE v[Some(t)] + g[t \ {Some(t)}]
  BY DEF SumStep
<1>2. {} \in P
  BY <1>1
<1>3. ASSUME NEW t \in SUBSET (1..n), t # {}, t \ {Some(t)} \in P
      PROVE  t \in P
  BY <1>1, <1>3
<1>4. P \in SUBSET SUBSET (1..n)
  OBVIOUS
<1>5. P = SUBSET (1..n)
  <2> HIDE DEF P
  <2> QED BY <1>2, <1>3, <1>4, SubsetInduction
<1> QED BY <1>5

\* x is the sum of the values of v.
IsSum(x, v) == \E f : f = SumStep(f, v, DOMAIN v) /\ x = f[DOMAIN v]

\* Each of the n values of v is made up of one of e and a cost, less one of l.
Balances(n, cost, v, e, l) ==
    /\ DOMAIN v = 1..n /\ DOMAIN e = 1..n /\ DOMAIN l = 1..n
    /\ \A i \in 1..n : /\ v[i] \in Nat /\ e[i] \in Nat /\ l[i] \in Nat
                       /\ v[i] = e[i] + cost - l[i]

\* So are the sums.
LEMMA SumLinear ==
    ASSUME NEW n \in Nat, NEW cost \in Nat, NEW v, NEW e, NEW l, Balances(n, cost, v, e, l),
           NEW x, IsSum(x, v), NEW y, IsSum(y, e), NEW z, IsSum(z, l)
    PROVE  x \in Nat /\ y \in Nat /\ z \in Nat /\ x = y + n * cost - z
<1>a. PICK f : f = SumStep(f, v, 1..n) /\ x = f[1..n]
  BY DEF IsSum, Balances
<1>b. PICK g : g = SumStep(g, e, 1..n) /\ y = g[1..n]
  BY DEF IsSum, Balances
<1>c. PICK h : h = SumStep(h, l, 1..n) /\ z = h[1..n]
  BY DEF IsSum, Balances
<1> DEFINE Even(t) == /\ f[t] \in Nat /\ g[t] \in Nat /\ h[t] \in Nat
                      /\ f[t] = g[t] + Cardinality(t) * cost - h[t]
           P == {t \in SUBSET (1..n) : Even(t)}
<1>1. \A t \in SUBSET (1..n) :
          /\ f[t] = IF t = {} THEN 0 ELSE v[Some(t)] + f[t \ {Some(t)}]
          /\ g[t] = IF t = {} THEN 0 ELSE e[Some(t)] + g[t \ {Some(t)}]
          /\ h[t] = IF t = {} THEN 0 ELSE l[Some(t)] + h[t \ {Some(t)}]
  BY <1>a, <1>b, <1>c DEF SumStep
<1>2. {} \in P
  <2>1. f[{}] = 0 /\ g[{}] = 0 /\ h[{}] = 0
    BY <1>1
  <2>2. Cardinality({}) = 0
    BY FS_EmptySet
  <2>3. Cardinality({}) * cost = 0
    BY <2>2
  <2>4. Even({})
    BY <2>1, <2>3
  <2> QED BY <2>4
<1>3. ASSUME NEW t \in SUBSET (1..n), t # {}, t \ {Some(t)} \in P
      PROVE  t \in P
  <2> DEFINE k == Some(t)
             u == t \ {k}
             w == Cardinality(u) * cost
  <2>1. k \in 1..n /\ Cardinality(t) \in Nat /\ Cardinality(u) = Cardinality(t) - 1
    BY <1>3, Subsets
  <2>2. v[k] \in Nat /\ e[k] \in Nat /\ l[k] \in Nat /\ v[k] = e[k] + cost - l[k]
    BY <2>1 DEF Balances
  <2>3. f[t] = v[k] + f[u] /\ g[t] = e[k] + g[u] /\ h[t] = l[k] + h[u]
    BY <1>1, <1>3
  <2>4. f[u] \in Nat /\ g[u] \in Nat /\ h[u] \in Nat /\ f[u] = g[u] + w - h[u]
    BY <1>3
  <2> HIDE DEF k, u
  <2>5. Cardinality(t) * cost = w + cost /\ w \in Int
    BY <2>1
  <2> HIDE DEF w, P
  <2>6. PICK a \in Nat, b \in Nat, c \in Nat, p \in Nat, q \in Nat, r \in Nat :
          a = v[k] /\ b = e[k] /\ c = l[k] /\ p = f[u] /\ q = g[u] /\ r = h[u]
    BY <2>2, <2>4
  <2>7. a = b + cost - c /\ p = q + w - r
    BY <2>2, <2>4, <2>6
  <2>8. /\ a + p = (b + q) + (w + cost) - (c + r)
        /\ a + p \in Nat /\ b + q \in Nat /\ c + r \in Nat
    BY <2>5, <2>7
  <2>9. f[t] = a + p /\ g[t] = b + q /\ h[t] = c + r
    BY <2>3, <2>6
  <2>10. Even(t)
    BY <2>5, <2>8, <2>9
  <2> QED BY <2>10 DEF P
<1>4. P \in SUBSET SUBSET (1..n)
  OBVIOUS
<1>5. P = SUBSET (1..n)
  <2> HIDE DEF P
  <2> QED BY <1>2, <1>3, <1>4, SubsetInduction
<1>6. Cardinality(1..n) = n
  BY FS_Interval
<1> QED BY <1>a, <1>b, <1>c, <1>5, <1>6

(***************************************************************************)
(* The light client.                                                       *)
(***************************************************************************)

Values(s) == [i \in DOMAIN s |-> Value(s[i])]
Effective(rate, s) == [i \in DOMAIN s |-> EffectiveValue(rate, s[i])]
Cost(rate) == GetFee(rate, CalculateMaximumSignedInputSize)
Lost(rate, c) == IF Value(c) < Cost(rate) THEN Cost(rate) - Value(c) ELSE 0
Losses(rate, s) == [i \in DOMAIN s |-> Lost(rate, s[i])]

ValuesAddUp ==
    \A n \in Nat : \A s : DOMAIN s = 1..n => IsSum(SelectedValue(s), Values(s))
EffectiveAddUp ==
    \A n \in Nat : \A rate, s : DOMAIN s = 1..n =>
        IsSum(SelectedEffectiveValue(rate, s), Effective(rate, s))
LossesAddUp ==
    \A n \in Nat : \A rate, s : DOMAIN s = 1..n => IsSum(Loss(rate, s), Losses(rate, s))

LEMMA SumOfValues == ValuesAddUp
<1> SUFFICES ASSUME NEW n \in Nat, NEW s, DOMAIN s = 1..n
             PROVE  IsSum(SelectedValue(s), Values(s))
  BY DEF ValuesAddUp
<1> DEFINE body(it) == [t \in SUBSET (DOMAIN s) |->
                 IF t = {} THEN 0
                 ELSE Value(s[Some(t)]) + it[t \ {Some(t)}]]
           iter == CHOOSE it : it = body(it)
<1>1. SelectedValue(s) = iter[DOMAIN s]
  BY DEF SelectedValue, Total, MapThenSumSet, MapThenFoldSet, Some
<1>2. ASSUME NEW it
      PROVE  body(it) = SumStep(it, Values(s), DOMAIN s)
  <2>1. \A t \in SUBSET (DOMAIN s) : t # {} => Values(s)[Some(t)] = Value(s[Some(t)])
    BY DEF Values, Some
  <2>2. \A t \in SUBSET (DOMAIN s) :
          (IF t = {} THEN 0 ELSE Value(s[Some(t)]) + it[t \ {Some(t)}])
            = (IF t = {} THEN 0 ELSE Values(s)[Some(t)] + it[t \ {Some(t)}])
    BY <2>1
  <2> QED BY <2>2 DEF SumStep
<1>3. \E it : it = body(it)
  <2>1. DOMAIN Values(s) = 1..n
    BY DEF Values
  <2>2. PICK it : it = SumStep(it, Values(s), 1..n)
    BY <2>1, SumExists
  <2> HIDE DEF body
  <2> QED BY <1>2, <2>2
<1>4. iter = body(iter)
  <2> HIDE DEF body
  <2> QED BY <1>3
<1> HIDE DEF iter, body
<1>5. iter = SumStep(iter, Values(s), DOMAIN s) /\ DOMAIN Values(s) = DOMAIN s
  BY <1>2, <1>4 DEF Values
<1> QED BY <1>1, <1>5 DEF IsSum
LEMMA SumOfEffective == EffectiveAddUp
<1> SUFFICES ASSUME NEW n \in Nat, NEW rate, NEW s, DOMAIN s = 1..n
             PROVE  IsSum(SelectedEffectiveValue(rate, s), Effective(rate, s))
  BY DEF EffectiveAddUp
<1> DEFINE body(it) == [t \in SUBSET (DOMAIN s) |->
                 IF t = {} THEN 0
                 ELSE EffectiveValue(rate, s[Some(t)]) + it[t \ {Some(t)}]]
           iter == CHOOSE it : it = body(it)
<1>1. SelectedEffectiveValue(rate, s) = iter[DOMAIN s]
  BY DEF SelectedEffectiveValue, Total, MapThenSumSet, MapThenFoldSet, Some
<1>2. ASSUME NEW it
      PROVE  body(it) = SumStep(it, Effective(rate, s), DOMAIN s)
  <2>1. \A t \in SUBSET (DOMAIN s) : t # {} =>
          Effective(rate, s)[Some(t)] = EffectiveValue(rate, s[Some(t)])
    BY DEF Effective, Some
  <2>2. \A t \in SUBSET (DOMAIN s) :
          (IF t = {} THEN 0 ELSE EffectiveValue(rate, s[Some(t)]) + it[t \ {Some(t)}])
            = (IF t = {} THEN 0 ELSE Effective(rate, s)[Some(t)] + it[t \ {Some(t)}])
    BY <2>1
  <2> QED BY <2>2 DEF SumStep
<1>3. \E it : it = body(it)
  <2>1. DOMAIN Effective(rate, s) = 1..n
    BY DEF Effective
  <2>2. PICK it : it = SumStep(it, Effective(rate, s), 1..n)
    BY <2>1, SumExists
  <2> HIDE DEF body
  <2> QED BY <1>2, <2>2
<1>4. iter = body(iter)
  <2> HIDE DEF body
  <2> QED BY <1>3
<1> HIDE DEF iter, body
<1>5. iter = SumStep(iter, Effective(rate, s), DOMAIN s) /\ DOMAIN Effective(rate, s) = DOMAIN s
  BY <1>2, <1>4 DEF Effective
<1> QED BY <1>1, <1>5 DEF IsSum
LEMMA SumOfLosses == LossesAddUp
<1> SUFFICES ASSUME NEW n \in Nat, NEW rate, NEW s, DOMAIN s = 1..n
             PROVE  IsSum(Loss(rate, s), Losses(rate, s))
  BY DEF LossesAddUp
<1> DEFINE body(it) == [t \in SUBSET (DOMAIN s) |->
                 IF t = {} THEN 0
                 ELSE Lost(rate, s[Some(t)]) + it[t \ {Some(t)}]]
           iter == CHOOSE it : it = body(it)
<1>1. Loss(rate, s) = iter[DOMAIN s]
  BY DEF Loss, Lost, Cost, Total, MapThenSumSet, MapThenFoldSet, Some
<1>2. ASSUME NEW it
      PROVE  body(it) = SumStep(it, Losses(rate, s), DOMAIN s)
  <2>1. \A t \in SUBSET (DOMAIN s) : t # {} => Losses(rate, s)[Some(t)] = Lost(rate, s[Some(t)])
    BY DEF Losses, Some
  <2>2. \A t \in SUBSET (DOMAIN s) :
          (IF t = {} THEN 0 ELSE Lost(rate, s[Some(t)]) + it[t \ {Some(t)}])
            = (IF t = {} THEN 0 ELSE Losses(rate, s)[Some(t)] + it[t \ {Some(t)}])
    BY <2>1
  <2> QED BY <2>2 DEF SumStep
<1>3. \E it : it = body(it)
  <2>1. DOMAIN Losses(rate, s) = 1..n
    BY DEF Losses
  <2>2. PICK it : it = SumStep(it, Losses(rate, s), 1..n)
    BY <2>1, SumExists
  <2> HIDE DEF body
  <2> QED BY <1>2, <2>2
<1>4. iter = body(iter)
  <2> HIDE DEF body
  <2> QED BY <1>3
<1> HIDE DEF iter, body
<1>5. iter = SumStep(iter, Losses(rate, s), DOMAIN s) /\ DOMAIN Losses(rate, s) = DOMAIN s
  BY <1>2, <1>4 DEF Losses
<1> QED BY <1>1, <1>5 DEF IsSum
LEMMA NothingSelected ==
    ASSUME NEW rate
    PROVE  SelectedEffectiveValue(rate, <<>>) = 0
<1> DEFINE s == <<>>
<1>1. DOMAIN s = 1..0 /\ 0 \in Nat
  OBVIOUS
<1>2. IsSum(SelectedEffectiveValue(rate, s), Effective(rate, s))
  BY <1>1, SumOfEffective DEF EffectiveAddUp
<1>3. DOMAIN Effective(rate, s) = {}
  BY <1>1 DEF Effective
<1> HIDE DEF s
<1>4. PICK f : /\ f = SumStep(f, Effective(rate, s), {})
               /\ SelectedEffectiveValue(rate, s) = f[{}]
  BY <1>2, <1>3 DEF IsSum
<1>5. f[{}] = 0
  BY <1>4 DEF SumStep
<1> QED BY <1>4, <1>5 DEF s

LightTx == [job : Jobs, rate : Nat, inputs : Seq(Coin), change : Nat, key : Keys]
LightTask ==
    [pc : {"idle", "lock", "fund", "send", "wait", "done", "failed"}, rate : Nat,
     txid : Nat, change : Keys, addresses : SUBSET Keys, inputs : Seq(Coin)]

\* The coins that exist or existed.
Made == ({"deposit"} \X (1..Len(Deposits))) \cup ({"change"} \X DOMAIN txs)

\* The types, as far as payments and amounts are concerned.
LightType ==
    /\ txs \in Seq(LightTx) /\ Len(txs) <= MaxTxs
    /\ mempool \subseteq DOMAIN txs /\ mined \subseteq DOMAIN txs
    /\ feeRate \in Rates
    /\ keyStore \in [Clients -> SUBSET Keys]
    /\ \A c \in Clients : keyStore[c] # {}
    /\ task \in [Jobs -> LightTask]
    /\ events \in [Jobs -> Seq(Rates)]
    /\ \A i \in DOMAIN txs : txs[i].inputs \in Seq(Made)
    /\ \A j \in Jobs : task[j].inputs \in Seq(Made)

LEMMA MadeValue ==
    ASSUME LightType, NEW c \in Made
    PROVE  Value(c) \in Nat
<1>1. CASE c \in {"deposit"} \X (1..Len(Deposits))
  <2>1. c[1] = "deposit" /\ c[2] \in 1..Len(Deposits)
    BY <1>1
  <2>a. Deposits \in Seq([key : Keys, value : Nat])
    BY WalletAssumption
  <2>2. Deposits[c[2]] \in [key : Keys, value : Nat]
    <3> DEFINE D == [key : Keys, value : Nat]
    <3>1. Deposits \in Seq(D)
      BY <2>a
    <3> HIDE DEF D
    <3>2. \A m \in 1..Len(Deposits) : Deposits[m] \in D
      BY <3>1
    <3> QED BY <2>1, <3>2 DEF D
  <2> QED BY <2>1, <2>2 DEF Value
<1>2. CASE c \in {"change"} \X DOMAIN txs
  <2>1. c[1] = "change" /\ c[2] \in DOMAIN txs
    BY <1>2
  <2>2. txs[c[2]] \in LightTx
    BY <2>1 DEF LightType
  <2> QED BY <2>1, <2>2 DEF Value, LightTx
<1> QED BY <1>1, <1>2 DEF Made

\* Every coin is its effective value and what it costs, less what is lost.
LEMMA Balanced ==
    ASSUME LightType, NEW s \in Seq(Made), NEW rate \in Nat
    PROVE  /\ SelectedValue(s) \in Nat
           /\ SelectedEffectiveValue(rate, s) \in Nat
           /\ Loss(rate, s) \in Nat
           /\ SelectedValue(s) =
                SelectedEffectiveValue(rate, s) + Len(s) * Cost(rate) - Loss(rate, s)
<1> DEFINE n == Len(s)
           v == Values(s)
           e == Effective(rate, s)
           l == Losses(rate, s)
<1>1. n \in Nat /\ DOMAIN s = 1..n /\ \A i \in 1..n : s[i] \in Made
  OBVIOUS
<1>2. Cost(rate) \in Nat
  BY DEF Cost, GetFee, CalculateMaximumSignedInputSize, VBytes, TxInSize, WitnessSize
<1>3. ASSUME NEW c \in Made
      PROVE  /\ Value(c) \in Nat /\ EffectiveValue(rate, c) \in Nat /\ Lost(rate, c) \in Nat
             /\ Value(c) = EffectiveValue(rate, c) + Cost(rate) - Lost(rate, c)
  <2>1. Value(c) \in Nat
    BY MadeValue
  <2>2. EffectiveValue(rate, c) = IF Value(c) > Cost(rate) THEN Value(c) - Cost(rate) ELSE 0
    BY DEF EffectiveValue, Cost
  <2> QED BY <1>2, <2>1, <2>2 DEF Lost
<1>4. Balances(n, Cost(rate), v, e, l)
  <2>1. /\ DOMAIN v = 1..n /\ DOMAIN e = 1..n /\ DOMAIN l = 1..n
        /\ \A i \in 1..n : /\ v[i] = Value(s[i]) /\ e[i] = EffectiveValue(rate, s[i])
                           /\ l[i] = Lost(rate, s[i])
    BY <1>1 DEF Values, Effective, Losses
  <2> HIDE DEF n, v, e, l
  <2> QED BY <1>1, <1>3, <2>1 DEF Balances
<1>5. /\ IsSum(SelectedValue(s), v) /\ IsSum(SelectedEffectiveValue(rate, s), e)
      /\ IsSum(Loss(rate, s), l)
  BY <1>1, SumOfValues, SumOfEffective, SumOfLosses
  DEF ValuesAddUp, EffectiveAddUp, LossesAddUp
<1> HIDE DEF n, v, e, l
<1>6. n \in Nat /\ Cost(rate) \in Nat
  BY <1>1, <1>2
<1> QED BY <1>4, <1>5, <1>6, SumLinear DEF n

LEMMA OneSum ==
    ASSUME NEW n \in Nat, NEW v, DOMAIN v = 1..n, NEW x, IsSum(x, v), NEW y, IsSum(y, v)
    PROVE  x = y
<1>1. PICK f : f = SumStep(f, v, 1..n) /\ x = f[1..n]
  BY DEF IsSum
<1>2. PICK g : g = SumStep(g, v, 1..n) /\ y = g[1..n]
  BY DEF IsSum
<1> QED BY <1>1, <1>2, SumUnique

\* The transactions so far stay what they are, and with them the coins.
Grows == \A i \in DOMAIN txs : i \in DOMAIN txs' /\ txs'[i] = txs[i]

LEMMA StillWorth ==
    ASSUME Grows, NEW s \in Seq(Made), NEW rate
    PROVE  /\ SelectedValue(s)' = SelectedValue(s)
           /\ SelectedEffectiveValue(rate, s)' = SelectedEffectiveValue(rate, s)
           /\ Loss(rate, s)' = Loss(rate, s)
<1> DEFINE n == Len(s)
<1>1. n \in Nat /\ DOMAIN s = 1..n /\ \A i \in 1..n : s[i] \in Made
  OBVIOUS
<1>2. ASSUME NEW c \in Made PROVE Value(c)' = Value(c)
  <2>1. CASE c \in {"deposit"} \X (1..Len(Deposits))
    BY <2>1 DEF Value
  <2>2. CASE c \in {"change"} \X DOMAIN txs
    <3>1. c[1] = "change" /\ c[2] \in DOMAIN txs
      BY <2>2
    <3>2. txs'[c[2]] = txs[c[2]]
      BY <3>1 DEF Grows
    <3> QED BY <3>1, <3>2 DEF Value
  <2> QED BY <2>1, <2>2 DEF Made
<1>3. /\ Values(s)' = Values(s) /\ DOMAIN Values(s) = 1..n
      /\ Effective(rate, s)' = Effective(rate, s) /\ DOMAIN Effective(rate, s) = 1..n
      /\ Losses(rate, s)' = Losses(rate, s) /\ DOMAIN Losses(rate, s) = 1..n
  <2>1. \A i \in 1..n : Value(s[i])' = Value(s[i])
    BY <1>1, <1>2
  <2> HIDE DEF n
  <2> QED BY <1>1, <2>1 DEF Values, Effective, Losses, EffectiveValue, Lost
<1>4. ValuesAddUp' /\ EffectiveAddUp' /\ LossesAddUp'
  BY SumOfValues, SumOfEffective, SumOfLosses, PTL
<1> HIDE DEF n
<1>7. /\ IsSum(SelectedValue(s)', Values(s)')
      /\ IsSum(SelectedEffectiveValue(rate, s)', Effective(rate, s)')
      /\ IsSum(Loss(rate, s)', Losses(rate, s)')
  BY <1>1, <1>4 DEF ValuesAddUp, EffectiveAddUp, LossesAddUp
<1>8. /\ IsSum(SelectedValue(s), Values(s))
      /\ IsSum(SelectedEffectiveValue(rate, s), Effective(rate, s))
      /\ IsSum(Loss(rate, s), Losses(rate, s))
  BY <1>1, SumOfValues, SumOfEffective, SumOfLosses
  DEF ValuesAddUp, EffectiveAddUp, LossesAddUp
<1> QED BY <1>1, <1>3, <1>7, <1>8, OneSum

LEMMA Sizes ==
    /\ CalculateMaximumSignedInputSize = 68 /\ ChangeSize = 31 /\ PaymentOutputs = 74
    /\ TxNoInputsSize = 85 /\ MinViableChange = 294
    /\ \A n, outputs \in Nat : CalculateMaximumSignedTxSize(n, outputs) = 11 + outputs + 68 * n
<1>1. /\ CalculateMaximumSignedInputSize = 68 /\ ChangeSize = 31 /\ PaymentOutputs = 74
      /\ TxNoInputsSize = 85
  BY DEF CalculateMaximumSignedInputSize, VBytes, TxInSize, WitnessSize, ChangeSize,
         TxOutSize, PaymentOutputs, OpReturnSize, TxNoInputsSize
<1>2. MinViableChange = 294
  BY <1>1 DEF MinViableChange, GetFee, DustRate, GetDustThreshold
<1>3. ASSUME NEW n \in Nat, NEW outputs \in Nat
      PROVE  CalculateMaximumSignedTxSize(n, outputs) = 11 + outputs + 68 * n
  BY DEF CalculateMaximumSignedTxSize, VBytes, TxInSize, WitnessSize
<1> QED BY <1>1, <1>2, <1>3

\* A transaction that is covered has the right fee, and nothing is left for
\* the surplus to return.
LEMMA FundedRight ==
    ASSUME LightType, NEW j \in Jobs, Covers(j, task[j].rate, task[j].inputs)
    PROVE  /\ FundedTx(j) \in LightTx
           /\ FundedTx(j).job = j /\ FundedTx(j).inputs = task[j].inputs
           /\ PaysRightFee(FundedTx(j))
<1> DEFINE r == task[j].rate
           s == task[j].inputs
           n == Len(s)
           E == SelectedEffectiveValue(r, s)
           V == SelectedValue(s)
           L == Loss(r, s)
           A == Amount[j]
           ch == GetChange(j, r, s)
           tx == [job |-> j, rate |-> r, inputs |-> s, change |-> ch, key |-> task[j].change]
           w == n * (r * 68)
<1>1. r \in Nat /\ s \in Seq(Made) /\ s \in Seq(Coin) /\ n \in Nat /\ task[j].change \in Keys
  <2>1. task[j] \in LightTask
    BY DEF LightType
  <2> QED BY <2>1 DEF LightType, LightTask
<1>2. A \in Nat
  BY WalletAssumption
<1>3. E \in Nat /\ V \in Nat /\ L \in Nat /\ V = E + w - L /\ w \in Int
  <2>1. Cost(r) = r * 68
    BY Sizes DEF Cost, GetFee
  <2>2. E \in Nat /\ V \in Nat /\ L \in Nat /\ V = E + n * Cost(r) - L
    <3> HIDE DEF r, s
    <3> QED BY <1>1, Balanced
  <2>3. w \in Int
    <3> HIDE DEF r, n
    <3> QED BY <1>1
  <2> HIDE DEF r, n, E, V, L
  <2> QED BY <2>1, <2>2, <2>3
<1>4. E >= A + r * 85
  BY Sizes DEF Covers, SelectionTarget, GetFee
<1>5. ch = IF E - (A + r * 85) - r * 31 < 294 THEN 0 ELSE E - (A + r * 85) - r * 31
  BY Sizes DEF GetChange, SelectionTarget, GetFee
<1>6. ASSUME NEW t, t.inputs = s, t.rate = r
      PROVE  FeeNeeded(t) = r * (IF t.change > 0 THEN 116 ELSE 85) + w
  <2> DEFINE out == IF t.change > 0 THEN 31 ELSE 0
  <2>1. Size(t) = 11 + (74 + out) + 68 * n
    <3>1. Size(t) = CalculateMaximumSignedTxSize(n, 74 + out)
      BY <1>6, Sizes DEF Size
    <3>2. n \in Nat /\ 74 + out \in Nat
      BY <1>1
    <3> HIDE DEF n, out
    <3> QED BY <3>1, <3>2, Sizes
  <2> HIDE DEF out, n, r, s
  <2>2. out \in {0, 31}
    BY DEF out
  <2>3. \A a \in {0, 31} : r * (11 + (74 + a) + 68 * n) = r * (85 + a) + n * (r * 68)
    BY <1>1
  <2>4. FeeNeeded(t) = r * (85 + out) + w
    BY <1>6, <2>1, <2>2, <2>3 DEF FeeNeeded, GetFee
  <2>5. 85 + out = IF t.change > 0 THEN 116 ELSE 85
    BY DEF out
  <2> QED BY <2>4, <2>5
<1>7. FundedTx(j) = [tx EXCEPT !.change = ch +
          IF ch > 0 /\ FeeNeeded(tx) < V - A - ch THEN V - A - ch - FeeNeeded(tx) ELSE 0]
  BY DEF FundedTx
<1>8. FeeNeeded(tx) = r * (IF ch > 0 THEN 116 ELSE 85) + w
  BY <1>6
<1>9. ch \in Nat /\ ~ (ch > 0 /\ FeeNeeded(tx) < V - A - ch)
  <2> HIDE DEF r, E, V, L, A, ch, w, tx
  <2> QED BY <1>1, <1>2, <1>3, <1>4, <1>5, <1>8
<1>10. FundedTx(j) = tx
  <2>1. FundedTx(j) = [tx EXCEPT !.change = ch + 0]
    BY <1>7, <1>9
  <2>2. ch + 0 = ch
    BY <1>9
  <2> HIDE DEF ch, r, s
  <2> QED BY <2>1, <2>2
<1>11. tx \in LightTx
  BY <1>1, <1>9 DEF LightTx
<1>12. PaysRightFee(tx)
  <2>1. Fee(tx) = V - A - ch
    BY DEF Fee
  <2>2. PaysRightFee(tx) <=>
          IF ch > 0 THEN ch >= 294 /\ (V - A - ch) + L = FeeNeeded(tx)
          ELSE (V - A - ch) + L \in FeeNeeded(tx) .. (FeeNeeded(tx) + 294 + r * 31 - 1)
    BY <2>1, Sizes DEF PaysRightFee, GetFee
  <2> HIDE DEF r, E, V, L, A, ch, w, tx
  <2> QED BY <1>1, <1>2, <1>3, <1>4, <1>5, <1>8, <1>9, <2>2
<1> QED BY <1>10, <1>11, <1>12

-----------------------------------------------------------------------------
\* The coins that are chosen begin with those already chosen, or else with the
\* first of the stream: no coins cover nothing.
Begins(q, s) == q # <<>> /\ q[1] = s[1]

LEMMA ChosenCoins ==
    ASSUME NEW j \in Jobs, NEW rate \in Nat, NEW S, NEW chosen \in Seq(S), NEW s \in Seq(S)
    PROVE  /\ Choose(j, rate, chosen, s) \in Seq(S)
           /\ chosen # <<>> => Begins(Choose(j, rate, chosen, s), chosen)
           /\ Len(chosen) = 0 /\ Len(s) # 0 => Begins(Choose(j, rate, chosen, s), s)
<1> DEFINE covering == {n \in 0..Len(s) :
                          SelectedEffectiveValue(rate, chosen \o SubSeq(s, 1, n))
                            >= SelectionTarget(j, rate)}
<1>1. Len(s) \in Nat /\ covering \subseteq Nat /\ SubSeq(s, 1, Len(s)) = s
  OBVIOUS
<1>2. chosen = <<>> => 0 \notin covering
  <2> SUFFICES ASSUME chosen = <<>> PROVE 0 \notin covering
    OBVIOUS
  <2>1. chosen \o SubSeq(s, 1, 0) = <<>>
    OBVIOUS
  <2>2. SelectedEffectiveValue(rate, <<>>) = 0
    BY NothingSelected
  <2>3. SelectionTarget(j, rate) \in Nat /\ SelectionTarget(j, rate) # 0
    <3>1. Amount[j] \in Nat \ {0}
      BY WalletAssumption
    <3>2. TxNoInputsSize = 85
      BY Sizes
    <3>3. SelectionTarget(j, rate) = Amount[j] + rate * 85
      BY <3>2 DEF SelectionTarget, GetFee
    <3>4. \A a \in Nat \ {0} : a + rate * 85 \in Nat /\ a + rate * 85 # 0
      OBVIOUS
    <3> QED BY <3>1, <3>3, <3>4
  <2>4. 0 \in covering => SelectedEffectiveValue(rate, chosen \o SubSeq(s, 1, 0))
                            >= SelectionTarget(j, rate)
    OBVIOUS
  <2>5. 0 \in covering => 0 >= SelectionTarget(j, rate)
    BY <2>1, <2>2, <2>4
  <2> QED BY <2>3, <2>5
<1>3. PICK n \in 0..Len(s) : /\ Choose(j, rate, chosen, s) = chosen \o SubSeq(s, 1, n)
                             /\ chosen = <<>> /\ s # <<>> => n # 0
  <2>1. Choose(j, rate, chosen, s) =
          chosen \o (IF covering = {} THEN s ELSE SubSeq(s, 1, Min(covering)))
    BY DEF Choose
  <2>2. covering # {} => Min(covering) \in covering
    <3> HIDE DEF covering
    <3> QED BY <1>1, MinIn
  <2>3. CASE covering = {}
    <3>1. s # <<>> => Len(s) # 0
      OBVIOUS
    <3> HIDE DEF covering
    <3>2. Choose(j, rate, chosen, s) = chosen \o SubSeq(s, 1, Len(s))
      BY <1>1, <2>1, <2>3
    <3>3. Len(s) \in 0..Len(s)
      BY <1>1
    <3> QED BY <3>1, <3>2, <3>3
  <2>4. CASE covering # {}
    <3>1. Min(covering) \in 0..Len(s)
      BY <2>2, <2>4
    <3> HIDE DEF covering
    <3>2. chosen = <<>> => Min(covering) # 0
      BY <1>2, <2>2, <2>4
    <3> DEFINE m == Min(covering)
    <3>3. /\ m \in 0..Len(s) /\ (chosen = <<>> => m # 0)
          /\ Choose(j, rate, chosen, s) = chosen \o SubSeq(s, 1, m)
      BY <2>1, <2>4, <3>1, <3>2
    <3> HIDE DEF m
    <3> QED BY <3>3
  <2> HIDE DEF covering
  <2> QED BY <2>3, <2>4
<1> HIDE DEF covering
<1>4. /\ SubSeq(s, 1, n) \in Seq(S) /\ Len(SubSeq(s, 1, n)) = n
      /\ n # 0 => SubSeq(s, 1, n)[1] = s[1]
  BY <1>1
<1>5. ASSUME NEW t \in Seq(S)
      PROVE  /\ chosen \o t \in Seq(S)
             /\ chosen # <<>> => chosen \o t # <<>> /\ (chosen \o t)[1] = chosen[1]
             /\ chosen = <<>> /\ Len(t) # 0 => chosen \o t # <<>> /\ (chosen \o t)[1] = t[1]
  OBVIOUS
<1> DEFINE t == SubSeq(s, 1, n)
<1>6. chosen \o t \in Seq(S)
  BY <1>4, <1>5
<1>7. chosen # <<>> => Begins(chosen \o t, chosen)
  BY <1>4, <1>5 DEF Begins
<1>8. chosen = <<>> /\ s # <<>> => Begins(chosen \o t, s)
  <2>1. chosen = <<>> /\ s # <<>> => Len(t) # 0 /\ t[1] = s[1] /\ t \in Seq(S)
    BY <1>3, <1>4
  <2> HIDE DEF t
  <2> QED BY <1>5, <2>1 DEF Begins
<1>9. (Len(chosen) = 0 <=> chosen = <<>>) /\ (Len(s) = 0 <=> s = <<>>)
  OBVIOUS
<1> QED BY <1>3, <1>6, <1>7, <1>8, <1>9

LEMMA ChosenFirst ==
    ASSUME NEW j \in Jobs, NEW rate \in Nat, NEW S, NEW s \in Seq(S), s # <<>>
    PROVE  Begins(Choose(j, rate, <<>>, s), s)
<1> DEFINE none == <<>>
<1>1. none \in Seq(S) /\ none = <<>>
  OBVIOUS
<1> HIDE DEF none
<1>2. Len(none) = 0 /\ Len(s) # 0
  BY <1>1
<1>3. Begins(Choose(j, rate, none, s), s)
  BY <1>1, <1>2, ChosenCoins
<1> QED BY <1>1, <1>3

\* A task follows a transaction of its own, and has sent none if it follows
\* none, unless it failed (perhaps because an answer was lost).
LightFollows ==
    \A j \in Jobs :
        /\ task[j].txid # 0 => task[j].txid \in DOMAIN txs /\ txs[task[j].txid].job = j
        /\ task[j].txid = 0 /\ task[j].pc # "failed" => \A i \in DOMAIN txs : txs[i].job # j
        /\ task[j].pc = "idle" => task[j].txid = 0

\* The first coin that is chosen for a replacement is the first of what it
\* replaces, so that all transactions of a payment spend it.
LightFirst ==
    /\ \A i \in DOMAIN txs : txs[i].inputs # <<>>
    /\ \A i, k \in DOMAIN txs : txs[i].job = txs[k].job => txs[i].inputs[1] = txs[k].inputs[1]
    /\ \A j \in Jobs : task[j].pc \in {"fund", "send"} /\ task[j].txid # 0 =>
         task[j].inputs # <<>> /\ task[j].inputs[1] = txs[task[j].txid].inputs[1]

\* What is about to be sent is paid for.
LightCovered ==
    \A j \in Jobs : task[j].pc = "send" => Covers(j, task[j].rate, task[j].inputs)

LightInv == LightType /\ LightFollows /\ LightFirst /\ LightCovered /\ FeeIsRight

-----------------------------------------------------------------------------
Surroundings ==
    /\ mempool \subseteq DOMAIN txs /\ mined \subseteq DOMAIN txs
    /\ feeRate \in Rates
    /\ keyStore \in [Clients -> SUBSET Keys]
    /\ \A c \in Clients : keyStore[c] # {}
    /\ events \in [Jobs -> Seq(Rates)]

\* Payment j goes on, or ends, without having sent or chosen coins.
LightGoesOn(j) ==
    /\ task[j].pc # "failed"
    /\ \E new \in LightTask :
         /\ task' = [task EXCEPT ![j] = new]
         /\ new.txid = task[j].txid /\ new.pc \notin {"idle", "fund", "send"}
         /\ new.inputs \in Seq(Made)
    /\ UNCHANGED txs

\* Coins were chosen for payment j.
LightFunds(j) ==
    /\ task[j].pc # "failed"
    /\ \E new \in LightTask :
         /\ task' = [task EXCEPT ![j] = new]
         /\ new.txid = task[j].txid /\ new.pc \in {"fund", "send"}
         /\ new.inputs \in Seq(Made)
         /\ new.txid # 0 => new.inputs # <<>> /\ new.inputs[1] = txs[new.txid].inputs[1]
         /\ new.pc = "send" => Covers(j, new.rate, new.inputs)
    /\ UNCHANGED txs

\* The node has taken the transaction of j, and j may or may not know.
LightSends(j) ==
    /\ task[j].pc = "send"
    /\ Len(txs) < MaxTxs
    /\ txs' = Append(txs, FundedTx(j))
    /\ \E new \in LightTask :
         /\ task' = [task EXCEPT ![j] = new]
         /\ new.inputs = <<>>
         /\ \/ new.txid = Len(txs) + 1 /\ new.pc = "wait"
            \/ new.txid = task[j].txid /\ new.txid # 0 /\ new.pc = "wait"
            \/ new.txid = task[j].txid /\ new.pc = "failed"

LightBooks ==
    \/ UNCHANGED <<txs, task>>
    \/ \E j \in Jobs : LightGoesOn(j) \/ LightFunds(j) \/ LightSends(j)

LEMMA LightRecords ==
    ASSUME LightType, NEW j \in Jobs
    PROVE  /\ task[j] \in LightTask /\ task[j].txid \in Nat /\ task[j].inputs \in Seq(Made)
           /\ NoTask \in LightTask /\ NoTask.inputs = <<>> /\ NoTask.txid = 0
           /\ GivenUp(j) \in LightTask /\ GivenUp(j).inputs = <<>>
           /\ GivenUp(j).txid = task[j].txid
           /\ GivenUp(j).pc = IF task[j].txid > 0 THEN "wait" ELSE "failed"
           /\ <<>> \in Seq(Made)
<1>1. task[j] \in LightTask /\ task[j].inputs \in Seq(Made)
  BY DEF LightType
<1>2. OwnKey \in Keys
  BY WalletAssumption
<1>3. NoTask \in LightTask /\ NoTask.inputs = <<>> /\ NoTask.txid = 0
  BY <1>2 DEF NoTask, LightTask
<1>4. /\ GivenUp(j) \in LightTask /\ GivenUp(j).inputs = <<>>
      /\ GivenUp(j).txid = task[j].txid
      /\ GivenUp(j).pc = IF task[j].txid > 0 THEN "wait" ELSE "failed"
  <2> DEFINE q == <<>>
             p == IF task[j].txid > 0 THEN "wait" ELSE "failed"
  <2>1. GivenUp(j) = [task[j] EXCEPT !.pc = p, !.inputs = q, !.addresses = {}]
    BY DEF GivenUp
  <2>2. p \in {"wait", "failed"} /\ q \in Seq(Coin)
    OBVIOUS
  <2> HIDE DEF p, q
  <2>3. /\ GivenUp(j) \in LightTask /\ GivenUp(j).inputs = q
        /\ GivenUp(j).txid = task[j].txid /\ GivenUp(j).pc = p
    BY <1>1, <2>1, <2>2 DEF LightTask
  <2> QED BY <2>3 DEF p, q
<1>5. task[j].txid \in Nat
  BY <1>1 DEF LightTask
<1> QED BY <1>1, <1>3, <1>4, <1>5

LEMMA FailsGoOn ==
    ASSUME LightType, NEW j \in Jobs, task[j].pc # "failed", FundFails(j), UNCHANGED txs
    PROVE  LightGoesOn(j)
<1>1. task' = [task EXCEPT ![j] = GivenUp(j)]
  BY DEF FundFails
<1> QED BY <1>1, LightRecords DEF LightGoesOn

LEMMA Continues ==
    ASSUME LightType, NEW j \in Jobs, task[j].pc # "failed", UNCHANGED txs,
           NEW s \in Seq(Made), NEW rest \in SUBSET Keys, Continue(j, s, rest),
           task[j].txid # 0 => s # <<>> /\ s[1] = txs[task[j].txid].inputs[1]
    PROVE  LightGoesOn(j) \/ LightFunds(j)
<1>1. task[j] \in LightTask /\ s \in Seq(Coin)
  <2>1. Made \subseteq Coin
    <3>1. DOMAIN txs \subseteq 1..MaxTxs
      <4>1. MaxTxs \in Nat
        BY WalletAssumption
      <4> QED BY <4>1 DEF LightType
    <3> QED BY <3>1 DEF Made, Coin
  <2> QED BY <2>1, LightRecords
<1>2. CASE Covers(j, task[j].rate, s)
  <2> DEFINE new == [task[j] EXCEPT !.pc = "send", !.inputs = s]
  <2>1. task' = [task EXCEPT ![j] = new]
    BY <1>2 DEF Continue
  <2>2. new \in LightTask /\ new.txid = task[j].txid /\ new.pc = "send" /\ new.inputs = s
        /\ new.rate = task[j].rate
    BY <1>1 DEF LightTask
  <2> HIDE DEF new
  <2>3. LightFunds(j)
    BY <1>2, <2>1, <2>2 DEF LightFunds
  <2> QED BY <2>3
<1>3. CASE ~ Covers(j, task[j].rate, s) /\ rest = {}
  <2>1. task' = [task EXCEPT ![j] = GivenUp(j)]
    BY <1>3 DEF Continue
  <2> QED BY <2>1, LightRecords DEF LightGoesOn
<1>4. CASE ~ Covers(j, task[j].rate, s) /\ rest # {}
  <2> DEFINE new == [task[j] EXCEPT !.pc = "fund", !.inputs = s, !.addresses = rest]
  <2>1. task' = [task EXCEPT ![j] = new]
    BY <1>4 DEF Continue
  <2>2. new \in LightTask /\ new.txid = task[j].txid /\ new.pc = "fund" /\ new.inputs = s
    BY <1>1 DEF LightTask
  <2> HIDE DEF new
  <2>3. LightFunds(j)
    BY <2>1, <2>2 DEF LightFunds
  <2> QED BY <2>3
<1> QED BY <1>2, <1>3, <1>4

\* The coins that exist and that nothing in mempool or chain spends.
Unspent == {c \in Made : ~ \E i \in Live : Spends(i, c)}

\* The coins of an address, in any order.
LEMMA Streams ==
    ASSUME LightType, NEW k, NEW c, NEW s \in SetToSeqs(GetUtxosForAddress(k) \ {c})
    PROVE  s \in Seq(Unspent)
<1> DEFINE U == GetUtxosForAddress(k) \ {c}
           n == Cardinality(U)
<1>1. U \subseteq Unspent /\ U \subseteq Coin
  BY DEF GetUtxosForAddress, Exists, Live, LightType, Coin, Made, Unspent
<1>2. IsFiniteSet(Coin)
  <2>1. IsFiniteSet(1..Len(Deposits)) /\ IsFiniteSet(1..MaxTxs)
    <3>1. Len(Deposits) \in Nat /\ MaxTxs \in Nat
      BY WalletAssumption
    <3> QED BY <3>1, FS_Interval
  <2>2. IsFiniteSet({"deposit"}) /\ IsFiniteSet({"change"})
    BY FS_Singleton
  <2>3. /\ IsFiniteSet({"deposit"} \X (1..Len(Deposits)))
        /\ IsFiniteSet({"change"} \X (1..MaxTxs))
    BY <2>1, <2>2, FS_Product
  <2> QED BY <2>3, FS_Union DEF Coin
<1>3. n \in Nat
  <2>1. IsFiniteSet(U)
    BY <1>1, <1>2, FS_Subset
  <2> QED BY <2>1, FS_CardinalityType
<1>4. s \in [1..n -> U]
  BY DEF SetToSeqs
<1> HIDE DEF U, n
<1> QED BY <1>1, <1>3, <1>4

\* The steps outside of the lock.
LEMMA LightUnlocked ==
    ASSUME LightType, LightFollows, NEW j \in Jobs,
           CreateTransaction(j) \/ BumpFee(j) \/ Included(j)
    PROVE  LightGoesOn(j)
<1>1. ASSUME CreateTransaction(j) PROVE LightGoesOn(j)
  <2> DEFINE k == GetChangeAddress(ClientOf[j])
             new == [NoTask EXCEPT !.pc = "lock", !.rate = feeRate, !.change = k]
  <2>1. task[j].pc = "idle" /\ task' = [task EXCEPT ![j] = new] /\ UNCHANGED txs
    BY <1>1 DEF CreateTransaction, btcVars
  <2>2. k \in Keys
    <3>1. ClientOf[j] \in Clients
      BY WalletAssumption
    <3>2. keyStore[ClientOf[j]] \in SUBSET Keys /\ keyStore[ClientOf[j]] # {}
      BY <3>1 DEF LightType
    <3>3. Keys \subseteq Nat
      BY DEF Keys
    <3> QED BY <3>2, <3>3, MinIn DEF GetChangeAddress
  <2>3. feeRate \in Nat
    BY WalletAssumption DEF LightType
  <2>4. NoTask \in LightTask /\ NoTask.inputs = <<>> /\ NoTask.txid = 0 /\ <<>> \in Seq(Made)
    BY LightRecords
  <2> HIDE DEF k
  <2>5. new \in LightTask /\ new.pc = "lock" /\ new.inputs = NoTask.inputs
        /\ new.txid = NoTask.txid
    BY <2>2, <2>3, <2>4 DEF LightTask
  <2>6. task[j].txid = 0
    BY <2>1 DEF LightFollows
  <2> HIDE DEF new
  <2> QED BY <2>1, <2>4, <2>5, <2>6 DEF LightGoesOn
<1>2. ASSUME BumpFee(j) PROVE LightGoesOn(j)
  <2> DEFINE i == task[j].txid
             lk == [task[j] EXCEPT !.pc = "lock", !.rate = Head(events[j]),
                                   !.change = txs[i].key]
             fl == [task[j] EXCEPT !.pc = "failed"]
  <2>1. task[j].pc = "wait" /\ UNCHANGED txs /\ events[j] # <<>>
    BY <1>2 DEF BumpFee, btcVars
  <2>2. \/ task' = [task EXCEPT ![j] = task[j]]
        \/ task' = [task EXCEPT ![j] = fl]
        \/ i \in mempool /\ task' = [task EXCEPT ![j] = lk]
    BY <1>2 DEF BumpFee
  <2>3. task[j] \in LightTask /\ task[j].inputs \in Seq(Made)
    BY LightRecords
  <2>4. fl \in LightTask /\ fl.txid = i /\ fl.pc = "failed" /\ fl.inputs = task[j].inputs
    BY <2>3 DEF LightTask
  <2>5. i \in mempool => lk \in LightTask /\ lk.txid = i /\ lk.pc = "lock"
                         /\ lk.inputs = task[j].inputs
    <3> SUFFICES ASSUME i \in mempool
                 PROVE  lk \in LightTask /\ lk.txid = i /\ lk.pc = "lock"
                        /\ lk.inputs = task[j].inputs
      OBVIOUS
    <3>1. Head(events[j]) \in Nat
      <4>1. events[j] \in Seq(Rates)
        BY DEF LightType
      <4>2. Head(events[j]) \in Rates
        BY <2>1, <4>1
      <4> QED BY <4>2, WalletAssumption
    <3>2. txs[i].key \in Keys
      <4>1. txs[i] \in LightTx
        BY DEF LightType
      <4> QED BY <4>1 DEF LightTx
    <3> QED BY <2>3, <3>1, <3>2 DEF LightTask
  <2> HIDE DEF fl, lk
  <2> QED BY <2>1, <2>2, <2>3, <2>4, <2>5 DEF LightGoesOn
<1>3. ASSUME Included(j) PROVE LightGoesOn(j)
  <2> DEFINE new == [NoTask EXCEPT !.pc = "done", !.txid = task[j].txid]
  <2>1. task[j].pc = "wait" /\ UNCHANGED txs /\ task' = [task EXCEPT ![j] = new]
    BY <1>3 DEF Included, btcVars
  <2>2. NoTask \in LightTask /\ NoTask.inputs = <<>> /\ <<>> \in Seq(Made)
        /\ task[j].txid \in Nat
    BY LightRecords
  <2>3. new \in LightTask /\ new.pc = "done" /\ new.txid = task[j].txid
        /\ new.inputs = NoTask.inputs
    BY <2>2 DEF LightTask
  <2> HIDE DEF new
  <2> QED BY <2>1, <2>2, <2>3 DEF LightGoesOn
<1> QED BY <1>1, <1>2, <1>3

LEMMA AcceptedSends ==
    ASSUME LightType, NEW j \in Jobs, task[j].pc = "send", Len(txs) < MaxTxs,
           NEW told \in BOOLEAN, Accepted(j, told)
    PROVE  LightSends(j)
<1>1. CASE told = TRUE
  <2> DEFINE new == [NoTask EXCEPT !.pc = "wait", !.rate = FundedTx(j).rate,
                                   !.txid = Len(txs) + 1]
  <2>1. txs' = Append(txs, FundedTx(j)) /\ task' = [task EXCEPT ![j] = new]
    BY <1>1 DEF Accepted
  <2>2. FundedTx(j).rate \in Nat /\ Len(txs) + 1 \in Nat
    <3>1. FundedTx(j).rate = task[j].rate
      BY DEF FundedTx
    <3>2. task[j].rate \in Nat
      BY LightRecords DEF LightTask
    <3> QED BY <3>1, <3>2 DEF LightType
  <2>3. NoTask \in LightTask /\ NoTask.inputs = <<>>
    BY LightRecords
  <2>4. new \in LightTask /\ new.pc = "wait" /\ new.txid = Len(txs) + 1
        /\ new.inputs = NoTask.inputs
    BY <2>2, <2>3 DEF LightTask
  <2> HIDE DEF new
  <2>5. LightSends(j)
    BY <2>1, <2>3, <2>4 DEF LightSends
  <2> QED BY <2>5
<1>2. CASE told = FALSE
  <2>1. txs' = Append(txs, FundedTx(j)) /\ task' = [task EXCEPT ![j] = GivenUp(j)]
    BY <1>2 DEF Accepted
  <2>a. /\ GivenUp(j) \in LightTask /\ GivenUp(j).inputs = <<>>
        /\ GivenUp(j).txid = task[j].txid /\ task[j].txid \in Nat
        /\ GivenUp(j).pc = IF task[j].txid > 0 THEN "wait" ELSE "failed"
    BY LightRecords
  <2>b. \/ GivenUp(j).txid # 0 /\ GivenUp(j).pc = "wait"
        \/ GivenUp(j).pc = "failed"
    BY <2>a
  <2>2. LightSends(j)
    BY <2>1, <2>a, <2>b DEF LightSends
  <2> QED BY <2>2
<1> QED BY <1>1, <1>2

LEMMA LightSteps ==
    ASSUME LightType, LightFollows, LightFirst, Next
    PROVE  LightBooks
<1>1. ASSUME NEW d, Deposit(d) PROVE UNCHANGED <<txs, task>>
  BY <1>1 DEF Deposit
<1>2. ASSUME NEW i, Mine(i) \/ Evict(i) PROVE UNCHANGED <<txs, task>>
  BY <1>2 DEF Mine, Evict
<1>3. ASSUME NEW r, ChangeFeeRate(r) PROVE UNCHANGED <<txs, task>>
  BY <1>3 DEF ChangeFeeRate, btcVars
<1>4. ASSUME NEW c, NEW k, PutP2wpkhKey(c, k) PROVE UNCHANGED <<txs, task>>
  BY <1>4 DEF PutP2wpkhKey, btcVars
<1>5. ASSUME NEW j \in Jobs, CreateTransaction(j) \/ BumpFee(j) \/ Included(j)
      PROVE  LightGoesOn(j)
  BY <1>5, LightUnlocked
<1>6. ASSUME NEW j \in Jobs, StartFunding(j) PROVE LightGoesOn(j) \/ LightFunds(j)
  <2> DEFINE prev == PreviousInputs(j)
             s == Choose(j, task[j].rate, <<>>, prev)
             rest == keyStore[ClientOf[j]]
  <2>1. task[j].pc # "failed" /\ UNCHANGED txs /\ Continue(j, s, rest)
    BY <1>6 DEF StartFunding, btcVars
  <2>2. task[j].rate \in Nat /\ <<>> \in Seq(Made)
    BY LightRecords DEF LightTask
  <2>3. rest \in SUBSET Keys
    <3>1. ClientOf[j] \in Clients
      BY WalletAssumption
    <3> QED BY <3>1 DEF LightType
  <2>4. /\ prev \in Seq(Made)
        /\ task[j].txid # 0 => prev # <<>> /\ prev[1] = txs[task[j].txid].inputs[1]
    <3>1. CASE task[j].txid = 0
      BY <2>2, <3>1 DEF PreviousInputs
    <3>2. CASE task[j].txid # 0
      <4>1. task[j].txid \in DOMAIN txs
        BY <3>2 DEF LightFollows
      <4> QED BY <3>2, <4>1 DEF PreviousInputs, LightType, LightFirst
    <3> QED BY <3>1, <3>2
  <2> HIDE DEF prev
  <2>5. s \in Seq(Made) /\ (prev # <<>> => s # <<>> /\ s[1] = prev[1])
    <3>1. prev \in Seq(Made) /\ task[j].rate \in Nat /\ <<>> \in Seq(Made)
      BY <2>2, <2>4
    <3>2. s \in Seq(Made)
      BY <3>1, ChosenCoins
    <3>3. prev # <<>> => Begins(s, prev)
      BY <3>1, ChosenFirst
    <3> QED BY <3>2, <3>3 DEF Begins
  <2> HIDE DEF s, rest
  <2> QED BY <2>1, <2>3, <2>4, <2>5, Continues
<1>7. ASSUME NEW j \in Jobs, FundFromAddress(j) PROVE LightGoesOn(j) \/ LightFunds(j)
  <2> DEFINE k == Min(task[j].addresses)
             utxos == GetUtxosForAddress(k)
             c == <<"change", task[j].txid>>
             rest == task[j].addresses \ {k}
  <2>1. task[j].pc = "fund" /\ UNCHANGED txs
    BY <1>7 DEF FundFromAddress, btcVars
  <2>2. CASE FundFails(j)
    BY <2>1, <2>2, FailsGoOn
  <2>3. CASE \E s \in SetToSeqs(utxos \ {c}) :
               Continue(j, Choose(j, task[j].rate, task[j].inputs, s), rest)
    <3>1. PICK s \in SetToSeqs(utxos \ {c}) :
                 Continue(j, Choose(j, task[j].rate, task[j].inputs, s), rest)
      BY <2>3
    <3> DEFINE q == Choose(j, task[j].rate, task[j].inputs, s)
    <3> HIDE DEF k, c
    <3>2. s \in Seq(Made)
      <4>1. s \in Seq(Unspent) /\ Unspent \subseteq Made
        BY Streams DEF Unspent
      <4> QED BY <4>1
    <3>3. task[j].rate \in Nat /\ task[j].inputs \in Seq(Made) /\ rest \in SUBSET Keys
      BY LightRecords DEF LightTask
    <3>4. q \in Seq(Made) /\ (task[j].inputs # <<>> => q # <<>> /\ q[1] = task[j].inputs[1])
      BY <3>2, <3>3, ChosenCoins DEF Begins
    <3>5. task[j].txid # 0 => q # <<>> /\ q[1] = txs[task[j].txid].inputs[1]
      BY <2>1, <3>4 DEF LightFirst
    <3>6. Continue(j, q, rest)
      BY <3>1
    <3> HIDE DEF q, rest
    <3> QED BY <2>1, <3>3, <3>4, <3>5, <3>6, Continues
  <2> QED BY <1>7, <2>2, <2>3 DEF FundFromAddress
<1>8. ASSUME NEW j \in Jobs, ElectrsFails(j) \/ SendFails(j) PROVE LightGoesOn(j)
  <2>1. task[j].pc # "failed" /\ UNCHANGED txs /\ FundFails(j)
    BY <1>8 DEF ElectrsFails, SendFails, btcVars
  <2> QED BY <2>1, FailsGoOn
<1>9. ASSUME NEW j \in Jobs, SendTransaction(j) PROVE LightGoesOn(j) \/ LightSends(j)
  <2>1. task[j].pc = "send" /\ Len(txs) < MaxTxs
    BY <1>9 DEF SendTransaction
  <2>2. ASSUME NEW told \in BOOLEAN, Accepted(j, told) PROVE LightSends(j)
    BY <2>1, <2>2, AcceptedSends
  <2>3. CASE FundFails(j) /\ UNCHANGED btcVars
    BY <2>1, <2>3, FailsGoOn DEF btcVars
  <2> QED BY <1>9, <2>2, <2>3 DEF SendTransaction
<1> QED
  BY <1>1, <1>2, <1>3, <1>4, <1>5, <1>6, <1>7, <1>8, <1>9 DEF Next, LightBooks

LEMMA StillRight ==
    ASSUME Grows, NEW t, t.inputs \in Seq(Made)
    PROVE  PaysRightFee(t)' <=> PaysRightFee(t)
<1>1. /\ SelectedValue(t.inputs)' = SelectedValue(t.inputs)
      /\ Loss(t.rate, t.inputs)' = Loss(t.rate, t.inputs)
  BY StillWorth
<1>2. Fee(t)' = Fee(t)
  BY <1>1 DEF Fee
<1>3. FeeNeeded(t)' = FeeNeeded(t)
  BY DEF FeeNeeded, Size
<1> QED BY <1>1, <1>2, <1>3 DEF PaysRightFee

LEMMA StillCovered ==
    ASSUME Grows, NEW j, NEW rate, NEW s \in Seq(Made), Covers(j, rate, s)
    PROVE  Covers(j, rate, s)'
  BY StillWorth DEF Covers

\* What a step of the books means for the coins and transactions there were.
LEMMA LightGrowth ==
    ASSUME LightType, LightCovered, LightBooks
    PROVE  /\ Grows
           /\ Made \subseteq Made' /\ Seq(Made) \subseteq Seq(Made')
           /\ txs' \in Seq(LightTx) /\ Len(txs') <= MaxTxs
<1>1. CASE txs' = txs
  BY <1>1 DEF LightType, Grows, Made
<1>2. ASSUME NEW j \in Jobs, LightSends(j)
      PROVE  /\ Grows
             /\ Made \subseteq Made' /\ Seq(Made) \subseteq Seq(Made')
             /\ txs' \in Seq(LightTx) /\ Len(txs') <= MaxTxs
  <2> DEFINE tx == FundedTx(j)
  <2>1. txs' = Append(txs, tx) /\ Len(txs) < MaxTxs /\ task[j].pc = "send"
    BY <1>2 DEF LightSends
  <2>2. tx \in LightTx
    <3>1. Covers(j, task[j].rate, task[j].inputs)
      BY <2>1 DEF LightCovered
    <3> QED BY <3>1, FundedRight
  <2> HIDE DEF tx
  <2>3. MaxTxs \in Nat /\ txs \in Seq(LightTx)
    BY WalletAssumption DEF LightType
  <2>4. txs' \in Seq(LightTx) /\ Len(txs') <= MaxTxs
    BY <2>1, <2>2, <2>3
  <2>5. Grows
    BY <2>1, <2>2, <2>3 DEF Grows
  <2>6. Made \subseteq Made'
    BY <2>5 DEF Grows, Made
  <2>7. Seq(Made) \subseteq Seq(Made')
    BY <2>6
  <2> QED BY <2>4, <2>5, <2>6, <2>7
<1> QED BY <1>1, <1>2 DEF LightBooks, LightGoesOn, LightFunds

LEMMA LightRest ==
    ASSUME LightInv, LightBooks
    PROVE  /\ \A i \in DOMAIN txs' : txs'[i].inputs \in Seq(Made)'
           /\ FeeIsRight'
<1>1. Grows /\ Seq(Made) \subseteq Seq(Made)'
  BY LightGrowth DEF LightInv
<1>2. ASSUME NEW i \in DOMAIN txs, NEW t, t = txs[i]
      PROVE  t.inputs \in Seq(Made) /\ PaysRightFee(t)'
  <2>1. t.inputs \in Seq(Made) /\ PaysRightFee(t)
    BY <1>2 DEF LightInv, LightType, FeeIsRight
  <2> QED BY <1>1, <2>1, StillRight
<1>3. ASSUME NEW j \in Jobs, LightSends(j), NEW t, t = FundedTx(j)
      PROVE  t.inputs \in Seq(Made) /\ PaysRightFee(t)'
  <2>1. Covers(j, task[j].rate, task[j].inputs)
    BY <1>3 DEF LightSends, LightInv, LightCovered
  <2>2. t.inputs = task[j].inputs /\ PaysRightFee(t)
    BY <1>3, <2>1, FundedRight DEF LightInv
  <2>3. t.inputs \in Seq(Made)
    BY <2>2, LightRecords DEF LightInv
  <2> QED BY <1>1, <2>2, <2>3, StillRight
<1>4. ASSUME NEW i \in DOMAIN txs', NEW t, t = txs'[i]
      PROVE  t.inputs \in Seq(Made) /\ PaysRightFee(t)'
  <2>1. CASE txs' = txs
    BY <1>2, <1>4, <2>1
  <2>2. ASSUME NEW j \in Jobs, LightSends(j)
        PROVE  t.inputs \in Seq(Made) /\ PaysRightFee(t)'
    <3>1. (i \in DOMAIN txs /\ t = txs[i]) \/ t = FundedTx(j)
      <4> DEFINE tx == FundedTx(j)
      <4>1. txs' = Append(txs, tx)
        BY <2>2 DEF LightSends
      <4>2. txs \in Seq(LightTx)
        BY DEF LightInv, LightType
      <4> HIDE DEF tx
      <4> QED BY <1>4, <4>1, <4>2 DEF tx
    <3> QED BY <1>2, <1>3, <2>2, <3>1
  <2> QED BY <2>1, <2>2 DEF LightBooks, LightGoesOn, LightFunds
<1>5. FeeIsRight'
  BY <1>4 DEF FeeIsRight
<1>6. \A i \in DOMAIN txs' : txs'[i].inputs \in Seq(Made)'
  BY <1>1, <1>4
<1> QED BY <1>5, <1>6

LEMMA LightSurroundings ==
    ASSUME LightType, Next
    PROVE  Surroundings'
<1>0. Surroundings
  BY DEF LightType, Surroundings
<1> DEFINE rest == <<mempool, mined, txs, feeRate, keyStore, events>>
<1>1. ASSUME UNCHANGED rest PROVE Surroundings'
  BY <1>0, <1>1 DEF Surroundings
<1>2. ASSUME NEW d, Deposit(d) PROVE Surroundings'
  BY <1>1, <1>2 DEF Deposit
<1>3. ASSUME NEW i, Mine(i) \/ Evict(i) PROVE Surroundings'
  <2>1. mempool' \subseteq mempool /\ mined' \subseteq mined \cup mempool
        /\ UNCHANGED <<txs, feeRate, keyStore, events>>
    BY <1>3 DEF Mine, Evict
  <2> QED BY <1>0, <2>1 DEF Surroundings
<1>4. ASSUME NEW r \in Rates, ChangeFeeRate(r) PROVE Surroundings'
  <2>1. feeRate' = r /\ UNCHANGED <<mempool, mined, txs, keyStore>>
        /\ events' = [j \in Jobs |-> IF Following(j) THEN Append(events[j], r) ELSE events[j]]
    BY <1>4 DEF ChangeFeeRate, btcVars
  <2>2. \A j \in Jobs : events[j] \in Seq(Rates) /\ Append(events[j], r) \in Seq(Rates)
    BY <1>0 DEF Surroundings
  <2>3. events' \in [Jobs -> Seq(Rates)]
    BY <2>1, <2>2
  <2> QED BY <1>0, <2>1, <2>3 DEF Surroundings
<1>5. ASSUME NEW c \in Clients, NEW k \in Keys, PutP2wpkhKey(c, k) PROVE Surroundings'
  <2>1. keyStore' = [keyStore EXCEPT ![c] = @ \cup {k}]
        /\ UNCHANGED <<mempool, mined, txs, feeRate, events>>
    BY <1>5 DEF PutP2wpkhKey, btcVars
  <2> QED BY <1>0, <2>1 DEF Surroundings
<1>6. ASSUME NEW j \in Jobs, \/ CreateTransaction(j) \/ StartFunding(j) \/ FundFromAddress(j)
                            \/ ElectrsFails(j) \/ SendFails(j) \/ Included(j)
      PROVE  Surroundings'
  <2>1. UNCHANGED rest
    BY <1>6 DEF CreateTransaction, StartFunding, FundFromAddress, ElectrsFails, SendFails,
                Included, btcVars
  <2> QED BY <1>1, <2>1
<1>7. ASSUME NEW j \in Jobs, BumpFee(j) PROVE Surroundings'
  <2>1. events' = [events EXCEPT ![j] = Tail(@)] /\ events[j] # <<>>
        /\ UNCHANGED <<mempool, mined, txs, feeRate, keyStore>>
    BY <1>7 DEF BumpFee, btcVars
  <2>2. events[j] \in Seq(Rates) /\ Tail(events[j]) \in Seq(Rates)
    BY <1>0, <2>1 DEF Surroundings
  <2> QED BY <1>0, <2>1, <2>2 DEF Surroundings
<1>8. ASSUME NEW j \in Jobs, NEW told \in BOOLEAN, Accepted(j, told) PROVE Surroundings'
  <2> DEFINE tx == FundedTx(j)
  <2>1. /\ txs' = Append(txs, tx)
        /\ mempool' \subseteq mempool \cup {Len(txs) + 1}
        /\ \/ events' = [events EXCEPT ![j] = <<>>] \/ events' = events
        /\ UNCHANGED <<mined, feeRate, keyStore>>
    BY <1>8 DEF Accepted
  <2>2. DOMAIN txs' = DOMAIN txs \cup {Len(txs) + 1}
    <3>1. txs \in Seq(LightTx)
      BY DEF LightType
    <3> HIDE DEF tx
    <3> QED BY <2>1, <3>1
  <2> HIDE DEF tx
  <2>3. <<>> \in Seq(Rates)
    OBVIOUS
  <2>4. events' \in [Jobs -> Seq(Rates)]
    BY <1>0, <2>1, <2>3 DEF Surroundings
  <2> QED BY <1>0, <2>1, <2>2, <2>4 DEF Surroundings
<1>9. ASSUME NEW j \in Jobs, SendTransaction(j) PROVE Surroundings'
  <2>1. \/ Accepted(j, TRUE) \/ Accepted(j, FALSE) \/ UNCHANGED rest
    BY <1>9 DEF SendTransaction, btcVars
  <2> QED BY <1>1, <1>8, <2>1
<1> QED BY <1>2, <1>3, <1>4, <1>5, <1>6, <1>7, <1>9 DEF Next

LEMMA LightTasks ==
    ASSUME LightInv, LightBooks
    PROVE  /\ task' \in [Jobs -> LightTask]
           /\ \A j \in Jobs : task'[j].inputs \in Seq(Made)'
           /\ LightCovered'
<1>1. Grows /\ Seq(Made) \subseteq Seq(Made)'
  BY LightGrowth DEF LightInv
<1>2. task \in [Jobs -> LightTask] /\ \A j \in Jobs : task[j].inputs \in Seq(Made)
  BY DEF LightInv, LightType
<1>3. ASSUME NEW j \in Jobs, task[j].pc = "send", NEW rate, rate = task[j].rate,
             NEW s, s = task[j].inputs
      PROVE  Covers(j, rate, s)'
  <2>1. Covers(j, rate, s) /\ s \in Seq(Made)
    BY <1>2, <1>3 DEF LightInv, LightCovered
  <2> QED BY <1>1, <2>1, StillCovered
<1>4. CASE task' = task
  <2>1. ASSUME NEW j \in Jobs, task'[j].pc = "send", NEW rate, rate = task'[j].rate,
               NEW s, s = task'[j].inputs
        PROVE  Covers(j, rate, s)'
    BY <1>3, <1>4, <2>1
  <2>2. LightCovered'
    BY <2>1 DEF LightCovered
  <2> QED BY <1>1, <1>2, <1>4, <2>2
<1>5. ASSUME NEW j \in Jobs, NEW new \in LightTask, task' = [task EXCEPT ![j] = new],
             new.inputs \in Seq(Made), new.pc = "send" => Covers(j, new.rate, new.inputs)
      PROVE  /\ task' \in [Jobs -> LightTask]
             /\ \A i \in Jobs : task'[i].inputs \in Seq(Made)'
             /\ LightCovered'
  <2>1. task'[j] = new /\ \A i \in Jobs \ {j} : task'[i] = task[i]
    BY <1>2, <1>5
  <2>2. ASSUME NEW i \in Jobs, task'[i].pc = "send", NEW rate, rate = task'[i].rate,
               NEW s, s = task'[i].inputs
        PROVE  Covers(i, rate, s)'
    <3>1. CASE i = j
      <4>1. Covers(j, rate, s) /\ s \in Seq(Made)
        BY <1>5, <2>1, <2>2, <3>1
      <4>2. Covers(j, rate, s)'
        BY <1>1, <4>1, StillCovered
      <4> QED BY <3>1, <4>2
    <3>2. CASE i # j
      BY <1>3, <2>1, <2>2, <3>2
    <3> QED BY <3>1, <3>2
  <2>3. LightCovered'
    BY <2>2 DEF LightCovered
  <2>4. task' \in [Jobs -> LightTask]
    BY <1>2, <1>5
  <2>5. \A i \in Jobs : task'[i].inputs \in Seq(Made)'
    BY <1>1, <1>2, <1>5, <2>1
  <2> QED BY <2>3, <2>4, <2>5
<1>6. ASSUME NEW j \in Jobs, LightGoesOn(j) \/ LightFunds(j) \/ LightSends(j)
      PROVE  \E new \in LightTask :
               /\ task' = [task EXCEPT ![j] = new] /\ new.inputs \in Seq(Made)
               /\ new.pc = "send" => Covers(j, new.rate, new.inputs)
  <2>1. <<>> \in Seq(Made)
    OBVIOUS
  <2> QED BY <1>6, <2>1 DEF LightGoesOn, LightFunds, LightSends
<1>7. ASSUME NEW j \in Jobs, LightGoesOn(j) \/ LightFunds(j) \/ LightSends(j)
      PROVE  /\ task' \in [Jobs -> LightTask]
             /\ \A i \in Jobs : task'[i].inputs \in Seq(Made)'
             /\ LightCovered'
  BY <1>5, <1>6, <1>7
<1> QED BY <1>4, <1>7 DEF LightBooks

LEMMA LightPayments ==
    ASSUME LightInv, LightBooks
    PROVE  LightFollows' /\ LightFirst'
<1>1. /\ task \in [Jobs -> LightTask] /\ txs \in Seq(LightTx)
      /\ LightFollows /\ LightFirst
  BY DEF LightInv, LightType
<1>2. CASE UNCHANGED <<txs, task>>
  BY <1>1, <1>2 DEF LightFollows, LightFirst
<1>3. ASSUME NEW j \in Jobs, LightGoesOn(j) \/ LightFunds(j)
      PROVE  LightFollows' /\ LightFirst'
  <2>1. txs' = txs /\ task[j].pc # "failed"
    BY <1>3 DEF LightGoesOn, LightFunds
  <2>2. PICK new \in LightTask :
          /\ task' = [task EXCEPT ![j] = new]
          /\ new.txid = task[j].txid /\ new.pc # "idle"
          /\ new.pc \in {"fund", "send"} /\ new.txid # 0 =>
               new.inputs # <<>> /\ new.inputs[1] = txs[new.txid].inputs[1]
    BY <1>3 DEF LightGoesOn, LightFunds
  <2>3. task'[j] = new /\ \A i \in Jobs \ {j} : task'[i] = task[i]
    BY <1>1, <2>2
  <2>4. LightFollows'
    BY <1>1, <2>1, <2>2, <2>3 DEF LightFollows
  <2>5. LightFirst'
    BY <1>1, <2>1, <2>2, <2>3 DEF LightFirst
  <2> QED BY <2>4, <2>5
<1>4. ASSUME NEW j \in Jobs, LightSends(j)
      PROVE  LightFollows' /\ LightFirst'
  <2> DEFINE tx == FundedTx(j)
             n == Len(txs) + 1
  <2>1. task[j].pc = "send" /\ txs' = Append(txs, tx)
    BY <1>4 DEF LightSends
  <2>2. PICK new \in LightTask :
          /\ task' = [task EXCEPT ![j] = new]
          /\ \/ new.txid = n /\ new.pc = "wait"
             \/ new.txid = task[j].txid /\ new.txid # 0 /\ new.pc = "wait"
             \/ new.txid = task[j].txid /\ new.pc = "failed"
    BY <1>4 DEF LightSends
  <2>3. task'[j] = new /\ \A i \in Jobs \ {j} : task'[i] = task[i]
    BY <1>1, <2>2
  <2>4. tx.job = j /\ tx.inputs = task[j].inputs /\ tx \in LightTx
    <3>1. Covers(j, task[j].rate, task[j].inputs)
      BY <2>1 DEF LightInv, LightCovered
    <3> QED BY <3>1, FundedRight DEF LightInv
  <2>5. tx.inputs # <<>>
    <3>1. task[j].rate \in Nat /\ Amount[j] \in Nat \ {0}
      BY LightRecords, WalletAssumption DEF LightTask, LightInv
    <3>2. SelectionTarget(j, task[j].rate) = Amount[j] + task[j].rate * 85
      BY Sizes DEF SelectionTarget, GetFee
    <3>3. ~ (0 >= SelectionTarget(j, task[j].rate))
      BY <3>1, <3>2
    <3>4. SelectedEffectiveValue(task[j].rate, task[j].inputs)
            >= SelectionTarget(j, task[j].rate)
      BY <2>1 DEF LightInv, LightCovered, Covers
    <3> QED BY <2>4, <3>3, <3>4, NothingSelected
  <2> HIDE DEF tx, n
  <2>6. /\ n \notin DOMAIN txs /\ n # 0 /\ DOMAIN txs' = DOMAIN txs \cup {n}
        /\ txs'[n] = tx /\ \A i \in DOMAIN txs : txs'[i] = txs[i]
    BY <1>1, <2>1, <2>4 DEF n
  <2>7. LightFollows'
    <3>1. ASSUME NEW i \in Jobs, i # j
          PROVE  /\ task'[i].txid # 0 =>
                      task'[i].txid \in DOMAIN txs' /\ txs'[task'[i].txid].job = i
                 /\ task'[i].txid = 0 /\ task'[i].pc # "failed" =>
                      \A k \in DOMAIN txs' : txs'[k].job # i
                 /\ task'[i].pc = "idle" => task'[i].txid = 0
      BY <1>1, <2>3, <2>4, <2>6, <3>1 DEF LightFollows
    <3>2. /\ new.txid # 0 => new.txid \in DOMAIN txs' /\ txs'[new.txid].job = j
          /\ ~ (new.txid = 0 /\ new.pc # "failed") /\ new.pc # "idle"
      BY <1>1, <2>2, <2>4, <2>6 DEF LightFollows
    <3> QED BY <2>3, <3>1, <3>2 DEF LightFollows
  <2>8. \A i \in DOMAIN txs : txs[i].job = j => txs[i].inputs[1] = tx.inputs[1]
    <3>1. CASE task[j].txid = 0
      BY <1>1, <2>1, <3>1 DEF LightFollows
    <3>2. CASE task[j].txid # 0
      <4>1. task[j].txid \in DOMAIN txs /\ txs[task[j].txid].job = j
        BY <1>1, <3>2 DEF LightFollows
      <4>2. tx.inputs[1] = txs[task[j].txid].inputs[1]
        BY <1>1, <2>1, <2>4, <3>2 DEF LightFirst
      <4> QED BY <1>1, <4>1, <4>2 DEF LightFirst
    <3> QED BY <3>1, <3>2
  <2>9. LightFirst'
    <3>1. \A i \in DOMAIN txs' : txs'[i].inputs # <<>>
      BY <1>1, <2>5, <2>6 DEF LightFirst
    <3>2. \A i, k \in DOMAIN txs' : txs'[i].job = txs'[k].job =>
            txs'[i].inputs[1] = txs'[k].inputs[1]
      BY <1>1, <2>4, <2>6, <2>8 DEF LightFirst
    <3>3. ASSUME NEW i \in Jobs, task'[i].pc \in {"fund", "send"}, task'[i].txid # 0
          PROVE  /\ task'[i].inputs # <<>>
                 /\ task'[i].inputs[1] = txs'[task'[i].txid].inputs[1]
      <4>1. i # j
        BY <2>2, <2>3, <3>3
      <4>2. task'[i] = task[i] /\ task[i].txid \in DOMAIN txs
        BY <1>1, <2>3, <3>3, <4>1 DEF LightFollows
      <4> QED BY <1>1, <2>6, <3>3, <4>2 DEF LightFirst
    <3> QED BY <3>1, <3>2, <3>3 DEF LightFirst
  <2> QED BY <2>7, <2>9
<1> QED BY <1>2, <1>3, <1>4 DEF LightBooks

LEMMA LightInit == Init => LightInv
<1> SUFFICES ASSUME Init PROVE LightInv
  OBVIOUS
<1>1. /\ txs = <<>> /\ mempool = {} /\ mined = {} /\ feeRate \in Rates
      /\ keyStore = [c \in Clients |-> {OwnKey}]
      /\ task = [j \in Jobs |-> NoTask] /\ events = [j \in Jobs |-> <<>>]
  BY DEF Init
<1>2. OwnKey \in Keys /\ MaxTxs \in Nat
  BY WalletAssumption
<1>3. txs \in Seq(LightTx) /\ Len(txs) <= MaxTxs /\ DOMAIN txs = {}
  BY <1>1, <1>2
<1>4. /\ NoTask \in LightTask /\ NoTask.inputs = <<>> /\ NoTask.txid = 0
      /\ NoTask.pc = "idle"
  BY <1>2 DEF NoTask, LightTask
<1>5. <<>> \in Seq(Made) /\ <<>> \in Seq(Rates)
  OBVIOUS
<1>6. LightType
  BY <1>1, <1>2, <1>3, <1>4, <1>5 DEF LightType
<1>7. LightFollows /\ LightFirst /\ LightCovered /\ FeeIsRight
  BY <1>1, <1>3, <1>4 DEF LightFollows, LightFirst, LightCovered, FeeIsRight
<1> QED BY <1>6, <1>7 DEF LightInv

LEMMA LightNext == ASSUME LightInv, [Next]_vars PROVE LightInv'
<1>1. LightBooks /\ Surroundings'
  <2>1. CASE Next
    BY <2>1, LightSteps, LightSurroundings DEF LightInv
  <2>2. CASE UNCHANGED vars
    BY <2>2 DEF vars, btcVars, LightBooks, Surroundings, LightInv, LightType
  <2> QED BY <2>1, <2>2
<1>2. txs' \in Seq(LightTx) /\ Len(txs') <= MaxTxs
  BY <1>1, LightGrowth DEF LightInv
<1>3. /\ task' \in [Jobs -> LightTask]
      /\ \A j \in Jobs : task'[j].inputs \in Seq(Made)'
      /\ LightCovered'
  BY <1>1, LightTasks
<1>4. (\A i \in DOMAIN txs' : txs'[i].inputs \in Seq(Made)') /\ FeeIsRight'
  BY <1>1, LightRest
<1>5. LightType'
  BY <1>1, <1>2, <1>3, <1>4 DEF LightType, Surroundings
<1> QED BY <1>1, <1>3, <1>4, <1>5, LightPayments DEF LightInv

LEMMA ShareFirst == LightInv => PaidOnce
<1> SUFFICES ASSUME LightInv, NEW i \in DOMAIN txs, NEW k \in DOMAIN txs,
                    txs[i].job = txs[k].job
             PROVE  Range(txs[i].inputs) \cap Range(txs[k].inputs) # {}
  BY DEF PaidOnce
<1>1. ASSUME NEW n \in DOMAIN txs
      PROVE  txs[n].inputs[1] \in Range(txs[n].inputs)
  <2>1. txs[n].inputs \in Seq(Made) /\ txs[n].inputs # <<>>
    BY DEF LightInv, LightType, LightFirst
  <2>2. 1 \in DOMAIN txs[n].inputs
    BY <2>1
  <2> QED BY <2>2 DEF Range
<1>2. txs[i].inputs[1] = txs[k].inputs[1]
  BY DEF LightInv, LightFirst
<1> QED BY <1>1, <1>2

-----------------------------------------------------------------------------
(***************************************************************************)
(* The coins of different payments.  What a task has chosen is spent by    *)
(* nobody of its vault id but the transaction that it replaces, until it   *)
(* has sent.                                                               *)
(***************************************************************************)
Holding == {"fund", "send"}

\* The coins that payment j may have chosen: those that nothing spends but what
\* it replaces and what another vault id has sent in the meantime.
OtherClient(i, j) == ClientOf[txs[i].job] # ClientOf[j]
Choosable(j) ==
    {c \in Made : \/ c \in Range(PreviousInputs(j))
                  \/ \A i \in Live : Spends(i, c) => OtherClient(i, j)}

LightLocked == \A j \in Jobs : task[j].pc \in Holding => lock[ClientOf[j]] = {j}

\* No coin is spent twice by what is in mempool and chain.
LightApart ==
    \A i, k \in Live : i # k => Range(txs[i].inputs) \cap Range(txs[k].inputs) = {}

LightFree ==
    \A j \in Jobs : task[j].pc \in Holding => task[j].inputs \in Seq(Choosable(j))

DoubleInv ==
    /\ LightInv
    /\ lock \in [Clients -> SUBSET Jobs]
    /\ LightLocked /\ LightApart /\ LightFree

\* The steps of others: payments and locks stay, and what is in the mempool
\* goes nowhere but into a block or out of the node.
LightElsewhere ==
    /\ UNCHANGED <<txs, task, lock>>
    /\ mempool' \cup mined' \subseteq mempool \cup mined
    /\ mempool \subseteq mempool' \cup mined' \cup evicted'

\* Payment j takes, keeps, or gives back the lock, or never had it.
LightMoves(j) ==
    /\ UNCHANGED <<txs, mempool, mined, evicted>>
    /\ \E new \in LightTask :
         /\ task' = [task EXCEPT ![j] = new]
         /\ \/ /\ new.pc \notin Holding /\ task[j].pc \notin Holding
               /\ UNCHANGED lock
            \/ /\ new.pc \notin Holding /\ lock[ClientOf[j]] \in {{}, {j}}
               /\ lock' = Unlocked(j)
            \/ /\ new.pc \in Holding /\ lock[ClientOf[j]] \in {{}, {j}}
               /\ lock' = [lock EXCEPT ![ClientOf[j]] = {j}]
               /\ new.txid = task[j].txid /\ new.inputs \in Seq(Choosable(j))

LightEnters(j, tx) ==
    /\ task[j].pc = "send" /\ tx = FundedTx(j)
    /\ NodeAccepts(tx)
    /\ txs' = Append(txs, tx)
    /\ mempool' = (mempool \ Replaced(tx)) \cup {Len(txs) + 1}
    /\ UNCHANGED mined
    /\ lock' = Unlocked(j)
    /\ \E new \in LightTask : task' = [task EXCEPT ![j] = new] /\ new.pc \notin Holding

LightForms ==
    \/ LightElsewhere
    \/ \E j \in Jobs : LightMoves(j) \/ \E tx \in LightTx : LightEnters(j, tx)

LEMMA FailsMove ==
    ASSUME LightType, LightLocked, NEW j \in Jobs, task[j].pc \in Holding, FundFails(j),
           UNCHANGED <<txs, mempool, mined, evicted>>
    PROVE  LightMoves(j)
<1>1. task' = [task EXCEPT ![j] = GivenUp(j)] /\ lock' = Unlocked(j)
  BY DEF FundFails
<1>2. GivenUp(j) \in LightTask /\ GivenUp(j).pc \notin Holding
  BY LightRecords DEF Holding
<1>3. lock[ClientOf[j]] \in {{}, {j}}
  BY DEF LightLocked
<1> QED BY <1>1, <1>2, <1>3 DEF LightMoves

LEMMA ContinueMoves ==
    ASSUME LightType, NEW j \in Jobs, lock[ClientOf[j]] \in {{}, {j}},
           UNCHANGED <<txs, mempool, mined, evicted>>,
           NEW s \in Seq(Choosable(j)), NEW rest \in SUBSET Keys, Continue(j, s, rest)
    PROVE  LightMoves(j)
<1>1. task[j] \in LightTask /\ s \in Seq(Coin)
  <2>1. Choosable(j) \subseteq Coin
    <3>1. DOMAIN txs \subseteq 1..MaxTxs
      <4>1. MaxTxs \in Nat
        BY WalletAssumption
      <4> QED BY <4>1 DEF LightType
    <3> QED BY <3>1 DEF Choosable, Made, Coin
  <2> QED BY <2>1, LightRecords
<1>2. CASE Covers(j, task[j].rate, s)
  <2> DEFINE new == [task[j] EXCEPT !.pc = "send", !.inputs = s]
  <2>1. task' = [task EXCEPT ![j] = new] /\ lock' = [lock EXCEPT ![ClientOf[j]] = {j}]
    BY <1>2 DEF Continue
  <2>2. new \in LightTask /\ new.txid = task[j].txid /\ new.pc = "send" /\ new.inputs = s
    BY <1>1 DEF LightTask
  <2> HIDE DEF new
  <2> QED BY <2>1, <2>2 DEF LightMoves, Holding
<1>3. CASE ~ Covers(j, task[j].rate, s) /\ rest = {}
  <2>1. task' = [task EXCEPT ![j] = GivenUp(j)] /\ lock' = Unlocked(j)
    BY <1>3 DEF Continue
  <2>2. GivenUp(j) \in LightTask /\ GivenUp(j).pc \notin Holding
    BY LightRecords DEF Holding
  <2> QED BY <2>1, <2>2 DEF LightMoves
<1>4. CASE ~ Covers(j, task[j].rate, s) /\ rest # {}
  <2> DEFINE new == [task[j] EXCEPT !.pc = "fund", !.inputs = s, !.addresses = rest]
  <2>1. task' = [task EXCEPT ![j] = new] /\ lock' = [lock EXCEPT ![ClientOf[j]] = {j}]
    BY <1>4 DEF Continue
  <2>2. new \in LightTask /\ new.txid = task[j].txid /\ new.pc = "fund" /\ new.inputs = s
    BY <1>1 DEF LightTask
  <2> HIDE DEF new
  <2> QED BY <2>1, <2>2 DEF LightMoves, Holding
<1> QED BY <1>2, <1>3, <1>4

LEMMA LightFormed ==
    ASSUME DoubleInv, Next
    PROVE  LightForms
<1> USE DEF DoubleInv, LightInv
<1>1. ASSUME NEW d, Deposit(d) PROVE LightElsewhere
  BY <1>1 DEF Deposit, LightElsewhere
<1>2. ASSUME NEW i, Mine(i) \/ Evict(i) PROVE LightElsewhere
  BY <1>2 DEF Mine, Evict, LightElsewhere
<1>3. ASSUME NEW r, ChangeFeeRate(r) PROVE LightElsewhere
  BY <1>3 DEF ChangeFeeRate, btcVars, LightElsewhere
<1>4. ASSUME NEW c, NEW k, PutP2wpkhKey(c, k) PROVE LightElsewhere
  BY <1>4 DEF PutP2wpkhKey, btcVars, LightElsewhere
<1>5. ASSUME NEW j \in Jobs, CreateTransaction(j) \/ BumpFee(j) \/ Included(j)
      PROVE  LightMoves(j)
  <2>1. LightGoesOn(j)
    BY <1>5, LightUnlocked
  <2>2. task[j].pc \notin Holding /\ UNCHANGED <<txs, mempool, mined, evicted, lock>>
    BY <1>5 DEF CreateTransaction, BumpFee, Included, btcVars, Holding
  <2> QED BY <2>1, <2>2 DEF LightGoesOn, LightMoves, Holding
<1>6. ASSUME NEW j \in Jobs, StartFunding(j) PROVE LightMoves(j)
  <2> DEFINE prev == PreviousInputs(j)
             s == Choose(j, task[j].rate, <<>>, prev)
             rest == keyStore[ClientOf[j]]
  <2>1. /\ UNCHANGED <<txs, mempool, mined, evicted>> /\ Continue(j, s, rest)
        /\ lock[ClientOf[j]] = {}
    BY <1>6 DEF StartFunding, btcVars
  <2>2. task[j].rate \in Nat
    BY LightRecords DEF LightTask
  <2>3. rest \in SUBSET Keys
    <3>1. ClientOf[j] \in Clients
      BY WalletAssumption
    <3> QED BY <3>1 DEF LightType
  <2>4. prev \in Seq(Choosable(j)) /\ <<>> \in Seq(Choosable(j))
    <3>1. prev \in Seq(Made)
      <4>1. CASE task[j].txid = 0
        BY <4>1 DEF PreviousInputs
      <4>2. CASE task[j].txid # 0
        BY <4>2 DEF PreviousInputs, LightFollows, LightType
      <4> QED BY <4>1, <4>2
    <3>2. \A i \in DOMAIN prev : prev[i] \in Choosable(j)
      BY <3>1 DEF Choosable, Range
    <3> HIDE DEF prev
    <3> QED BY <3>1, <3>2
  <2> HIDE DEF prev
  <2>5. s \in Seq(Choosable(j))
    <3> DEFINE none == <<>>
    <3>1. none \in Seq(Choosable(j))
      BY <2>4
    <3> HIDE DEF none
    <3>2. Choose(j, task[j].rate, none, prev) \in Seq(Choosable(j))
      BY <2>2, <2>4, <3>1, ChosenCoins
    <3> QED BY <3>2 DEF none
  <2> HIDE DEF s, rest
  <2> QED BY <2>1, <2>3, <2>5, ContinueMoves
<1>7. ASSUME NEW j \in Jobs, FundFromAddress(j) PROVE LightMoves(j)
  <2> DEFINE k == Min(task[j].addresses)
             utxos == GetUtxosForAddress(k)
             c == <<"change", task[j].txid>>
             rest == task[j].addresses \ {k}
  <2>1. task[j].pc = "fund" /\ UNCHANGED <<txs, mempool, mined, evicted>>
    BY <1>7 DEF FundFromAddress, btcVars
  <2>a. task[j].pc \in Holding /\ lock[ClientOf[j]] \in {{}, {j}}
    BY <2>1 DEF Holding, LightLocked
  <2>2. CASE FundFails(j)
    BY <2>1, <2>a, <2>2, FailsMove
  <2>3. CASE \E s \in SetToSeqs(utxos \ {c}) :
               Continue(j, Choose(j, task[j].rate, task[j].inputs, s), rest)
    <3>1. PICK s \in SetToSeqs(utxos \ {c}) :
                 Continue(j, Choose(j, task[j].rate, task[j].inputs, s), rest)
      BY <2>3
    <3> DEFINE q == Choose(j, task[j].rate, task[j].inputs, s)
    <3> HIDE DEF k, c
    <3>2. s \in Seq(Unspent)
      BY Streams
    <3>3. s \in Seq(Choosable(j))
      <4>1. Unspent \subseteq Choosable(j)
        BY DEF Unspent, Choosable
      <4> QED BY <3>2, <4>1
    <3>4. task[j].rate \in Nat /\ rest \in SUBSET Keys
      BY LightRecords DEF LightTask
    <3>5. task[j].inputs \in Seq(Choosable(j))
      BY <2>a DEF LightFree
    <3>6. q \in Seq(Choosable(j))
      BY <3>3, <3>4, <3>5, ChosenCoins
    <3>7. Continue(j, q, rest)
      BY <3>1
    <3> HIDE DEF q, rest
    <3> QED BY <2>1, <2>a, <3>4, <3>6, <3>7, ContinueMoves
  <2> QED BY <1>7, <2>2, <2>3 DEF FundFromAddress
<1>8. ASSUME NEW j \in Jobs, ElectrsFails(j) \/ SendFails(j) PROVE LightMoves(j)
  <2>1. /\ task[j].pc \in Holding /\ UNCHANGED <<txs, mempool, mined, evicted>>
        /\ FundFails(j)
    BY <1>8 DEF ElectrsFails, SendFails, btcVars, Holding
  <2> QED BY <2>1, FailsMove
<1>9. ASSUME NEW j \in Jobs, SendTransaction(j)
      PROVE  LightMoves(j) \/ \E tx \in LightTx : LightEnters(j, tx)
  <2>1. task[j].pc = "send" /\ Len(txs) < MaxTxs
    BY <1>9 DEF SendTransaction
  <2>2. ASSUME NEW told \in BOOLEAN, Accepted(j, told)
        PROVE  \E tx \in LightTx : LightEnters(j, tx)
    <3> DEFINE tx == FundedTx(j)
    <3>1. Covers(j, task[j].rate, task[j].inputs)
      BY <2>1 DEF LightCovered
    <3>2. tx \in LightTx
      BY <3>1, FundedRight
    <3>3. \E new \in LightTask : task' = [task EXCEPT ![j] = new] /\ new.pc \notin Holding
      <4>1. LightSends(j)
        BY <2>1, <2>2, AcceptedSends
      <4> QED BY <4>1 DEF LightSends, Holding
    <3>4. /\ NodeAccepts(tx) /\ txs' = Append(txs, tx)
          /\ mempool' = (mempool \ Replaced(tx)) \cup {Len(txs) + 1}
          /\ UNCHANGED mined /\ lock' = Unlocked(j)
      BY <2>2 DEF Accepted
    <3>5. LightEnters(j, tx)
      BY <2>1, <3>3, <3>4 DEF LightEnters
    <3> QED BY <3>2, <3>5
  <2>3. CASE FundFails(j) /\ UNCHANGED btcVars
    BY <2>1, <2>3, FailsMove DEF btcVars, Holding
  <2> QED BY <1>9, <2>2, <2>3 DEF SendTransaction
<1> QED
  BY <1>1, <1>2, <1>3, <1>4, <1>5, <1>6, <1>7, <1>8, <1>9 DEF Next, LightForms

LEMMA WithChildrenLeast ==
  ASSUME NEW S \in SUBSET mempool
  PROVE  S \subseteq WithChildren(S) /\ (S = {} => WithChildren(S) = {})
<1>1. S \subseteq WithChildren(S)
  BY DEF WithChildren
<1>2. ASSUME S = {} PROVE WithChildren(S) = {}
  BY <1>2 DEF WithChildren
<1> QED BY <1>1, <1>2

\* What depends on some of the mempool depends on one of them.
LEMMA OneParent ==
  ASSUME NEW S \in SUBSET mempool, NEW i \in WithChildren(S)
  PROVE  \E k \in S : i \in WithChildren({k})
<1> DEFINE U == {m \in mempool : \E k \in S : m \in WithChildren({k})}
<1>1. S \subseteq U
  BY WithChildrenLeast
<1>2. ASSUME NEW m \in mempool, NEW p \in U, Spends(m, <<"change", p>>)
      PROVE  m \in U
  <2>1. PICK k \in S : p \in WithChildren({k})
    OBVIOUS
  <2>2. m \in WithChildren({k})
    BY <1>2, <2>1 DEF WithChildren
  <2> QED BY <2>1, <2>2
<1>3. U \in SUBSET mempool
  OBVIOUS
<1> HIDE DEF U
<1>4. i \in U
  BY <1>1, <1>2, <1>3 DEF WithChildren
<1> QED BY <1>4 DEF U

\* The mempool transactions that tx meets.
Met(tx) == {i \in mempool : Range(txs[i].inputs) \cap Range(tx.inputs) # {}}

\* Of its own vault id, what enters meets nothing but what it is to replace, as
\* long as that is there.
LEMMA MeetsOwn ==
  ASSUME DoubleInv, NEW j \in Jobs, NEW tx, LightEnters(j, tx), NEW i \in Met(tx),
         ~ OtherClient(i, j)
  PROVE  /\ task[j].txid # 0
         /\ task[j].txid \in Live => i = task[j].txid
<1> DEFINE p == task[j].txid
           prev == PreviousInputs(j)
<1>1. task[j].inputs \in Seq(Choosable(j)) /\ tx.inputs = task[j].inputs /\ tx.job = j
  <2>1. task[j].pc = "send" /\ tx = FundedTx(j)
    BY DEF LightEnters
  <2>2. Covers(j, task[j].rate, task[j].inputs)
    BY <2>1 DEF DoubleInv, LightInv, LightCovered
  <2> QED BY <2>1, <2>2, FundedRight DEF DoubleInv, LightInv, LightFree, Holding
<1>2. PICK c \in Range(tx.inputs) : c \in Range(txs[i].inputs)
  BY DEF Met
<1>3. c \in Choosable(j)
  BY <1>1, <1>2 DEF Range
<1>4. i \in Live
  BY DEF Met, Live
<1>5. c \in Range(prev)
  BY <1>2, <1>3, <1>4 DEF Choosable, Spends
<1>6. p # 0
  <2> SUFFICES ASSUME p = 0 PROVE FALSE
    OBVIOUS
  <2>1. prev = <<>>
    BY DEF PreviousInputs
  <2> QED BY <1>5, <2>1 DEF Range
<1>7. prev = txs[p].inputs
  BY <1>6 DEF PreviousInputs
<1>8. p \in Live => i = p
  BY <1>2, <1>4, <1>5, <1>7 DEF DoubleInv, LightApart
<1> QED BY <1>6, <1>8

LEMMA NobodyElse ==
  ASSUME LightLocked, NEW j \in Jobs, lock[ClientOf[j]] \in {{}, {j}},
         NEW k \in Jobs, k # j, ClientOf[k] = ClientOf[j]
  PROVE  task[k].pc \notin Holding
BY DEF LightLocked

LEMMA LightPool ==
  ASSUME DoubleInv, LightForms, LightInv'
  PROVE  DoubleInv'
<1>0. /\ lock \in [Clients -> SUBSET Jobs] /\ \A j \in Jobs : ClientOf[j] \in Clients
      /\ task \in [Jobs -> LightTask] /\ txs \in Seq(LightTx)
      /\ LightLocked /\ LightApart /\ LightFree
  BY WalletAssumption DEF DoubleInv, LightInv, LightType
<1>1. CASE LightElsewhere
  <2>1. Live' \subseteq Live /\ UNCHANGED <<txs, task, lock>>
    BY <1>1 DEF LightElsewhere, Live
  <2>2. LightLocked' /\ LightApart'
    BY <1>0, <2>1 DEF LightLocked, LightApart
  <2>3. \A j \in Jobs : Choosable(j) \subseteq Choosable(j)'
    BY <2>1 DEF Choosable, OtherClient, Made, PreviousInputs, Spends
  <2>4. LightFree'
    BY <1>0, <2>1, <2>3 DEF LightFree
  <2> QED BY <1>0, <2>1, <2>2, <2>4 DEF DoubleInv
<1>2. ASSUME NEW j \in Jobs, LightMoves(j) PROVE DoubleInv'
  <2>1. Live' = Live /\ txs' = txs
    BY <1>2 DEF LightMoves, Live
  <2>2. PICK new \in LightTask :
         /\ task' = [task EXCEPT ![j] = new]
         /\ \/ /\ new.pc \notin Holding /\ task[j].pc \notin Holding
               /\ UNCHANGED lock
            \/ /\ new.pc \notin Holding /\ lock[ClientOf[j]] \in {{}, {j}}
               /\ lock' = Unlocked(j)
            \/ /\ new.pc \in Holding /\ lock[ClientOf[j]] \in {{}, {j}}
               /\ lock' = [lock EXCEPT ![ClientOf[j]] = {j}]
               /\ new.txid = task[j].txid /\ new.inputs \in Seq(Choosable(j))
    BY <1>2 DEF LightMoves
  <2>3. task'[j] = new /\ \A k \in Jobs \ {j} : task'[k] = task[k]
    BY <1>0, <2>2
  <2>4. lock' \in [Clients -> SUBSET Jobs]
    BY <1>0, <2>2 DEF Unlocked
  <2>5. LightApart'
    BY <1>0, <2>1 DEF LightApart
  <2>6. LightLocked'
    <3>1. CASE new.pc \notin Holding /\ task[j].pc \notin Holding /\ UNCHANGED lock
      BY <1>0, <2>3, <3>1 DEF LightLocked
    <3>2. CASE /\ lock[ClientOf[j]] \in {{}, {j}}
               /\ \/ new.pc \notin Holding /\ lock' = Unlocked(j)
                  \/ lock' = [lock EXCEPT ![ClientOf[j]] = {j}]
      <4>1. ASSUME NEW k \in Jobs \ {j}, task'[k].pc \in Holding
            PROVE  lock'[ClientOf[k]] = {k}
        <5>1. task[k].pc \in Holding /\ lock[ClientOf[k]] = {k}
          BY <1>0, <2>3, <4>1 DEF LightLocked
        <5>2. ClientOf[k] # ClientOf[j]
          BY <1>0, <3>2, <5>1, NobodyElse
        <5> QED BY <1>0, <3>2, <5>1, <5>2 DEF Unlocked
      <4>2. new.pc \in Holding => lock'[ClientOf[j]] = {j}
        BY <1>0, <3>2
      <4> QED BY <2>3, <4>1, <4>2 DEF LightLocked
    <3>3. \/ new.pc \notin Holding /\ task[j].pc \notin Holding /\ UNCHANGED lock
          \/ /\ lock[ClientOf[j]] \in {{}, {j}}
             /\ \/ new.pc \notin Holding /\ lock' = Unlocked(j)
                \/ lock' = [lock EXCEPT ![ClientOf[j]] = {j}]
      BY <2>2
    <3> QED BY <2>2, <3>1, <3>2, <3>3
  <2>7. \A k \in Jobs : task'[k].txid = task[k].txid => Choosable(k)' = Choosable(k)
    BY <2>1 DEF Choosable, OtherClient, Made, PreviousInputs, Spends
  <2>8. LightFree'
    <3> SUFFICES ASSUME NEW k \in Jobs, task'[k].pc \in Holding
                 PROVE  task'[k].inputs \in Seq(Choosable(k))'
      BY DEF LightFree
    <3>1. CASE k = j
      BY <2>2, <2>3, <2>7, <3>1
    <3>2. CASE k # j
      BY <1>0, <2>3, <2>7, <3>2 DEF LightFree
    <3> QED BY <3>1, <3>2
  <2> QED BY <2>4, <2>5, <2>6, <2>8 DEF DoubleInv
<1>3. ASSUME NEW j \in Jobs, NEW tx \in LightTx, LightEnters(j, tx) PROVE DoubleInv'
  <2> DEFINE n == Len(txs) + 1
  <2>1. /\ task[j].pc \in Holding /\ txs' = Append(txs, tx) /\ lock' = Unlocked(j)
        /\ mempool' = (mempool \ Replaced(tx)) \cup {n} /\ mined' = mined
    BY <1>3 DEF LightEnters, Holding
  <2>2. /\ n \notin DOMAIN txs /\ txs'[n] = tx /\ \A i \in DOMAIN txs : txs'[i] = txs[i]
    BY <1>0, <2>1
  <2>3. Live \subseteq DOMAIN txs
    BY DEF DoubleInv, LightInv, LightType, Live
  <2>4. Live' \subseteq (Live \ Replaced(tx)) \cup mined \cup {n}
    BY <2>1 DEF Live
  <2>5. ASSUME NEW i \in Live, i \notin Replaced(tx) \/ i \in mined
        PROVE  Range(txs[i].inputs) \cap Range(tx.inputs) = {}
    <3>1. CASE i \in mined
      BY <1>3, <3>1 DEF LightEnters, NodeAccepts, Spends
    <3>2. CASE i \in mempool /\ i \notin Replaced(tx)
      <4>1. Met(tx) \subseteq Replaced(tx)
        <5>1. Met(tx) \in SUBSET mempool /\ Replaced(tx) = WithChildren(Met(tx))
          BY DEF Met, Replaced
        <5> QED BY <5>1, WithChildrenLeast
      <4> QED BY <3>2, <4>1 DEF Met
    <3> QED BY <2>5, <3>1, <3>2 DEF Live
  <2>6. LightApart'
    <3> SUFFICES ASSUME NEW i \in Live', NEW k \in Live', i # k
                 PROVE  Range(txs'[i].inputs) \cap Range(txs'[k].inputs) = {}
      BY DEF LightApart
    <3>1. ASSUME NEW m \in Live', m # n
          PROVE  /\ m \in Live /\ txs'[m] = txs[m]
                 /\ Range(txs[m].inputs) \cap Range(tx.inputs) = {}
      <4>1. m \in Live /\ (m \notin Replaced(tx) \/ m \in mined)
        BY <2>4, <3>1 DEF Live
      <4> QED BY <2>2, <2>3, <2>5, <4>1
    <3>2. CASE i = n
      BY <2>2, <3>1, <3>2
    <3>3. CASE k = n
      BY <2>2, <3>1, <3>3
    <3>4. CASE i # n /\ k # n
      BY <1>0, <3>1, <3>4 DEF LightApart
    <3> QED BY <3>2, <3>3, <3>4
  <2>7. ASSUME NEW k \in Jobs, task'[k].pc \in Holding
        PROVE  task'[k] = task[k] /\ ClientOf[k] # ClientOf[j] /\ lock[ClientOf[k]] = {k}
    <3>1. lock[ClientOf[j]] \in {{}, {j}}
      BY <1>0, <2>1 DEF LightLocked
    <3>2. PICK new \in LightTask : task' = [task EXCEPT ![j] = new] /\ new.pc \notin Holding
      BY <1>3 DEF LightEnters
    <3>3. task'[j] = new /\ \A m \in Jobs \ {j} : task'[m] = task[m]
      BY <1>0, <3>2
    <3>4. k # j /\ task'[k] = task[k]
      BY <2>7, <3>2, <3>3
    <3>5. ClientOf[k] # ClientOf[j]
      BY <1>0, <2>7, <3>1, <3>4, NobodyElse
    <3> QED BY <1>0, <2>7, <3>4, <3>5 DEF LightLocked
  <2>8. LightLocked'
    BY <1>0, <2>1, <2>7 DEF LightLocked, Unlocked
  <2>9. lock' \in [Clients -> SUBSET Jobs]
    BY <1>0, <2>1 DEF Unlocked
  <2>10. tx.job = j
    <3>1. task[j].pc = "send" /\ tx = FundedTx(j)
      BY <1>3 DEF LightEnters
    <3>2. Covers(j, task[j].rate, task[j].inputs)
      BY <3>1 DEF DoubleInv, LightInv, LightCovered
    <3> QED BY <3>1, <3>2, FundedRight DEF DoubleInv, LightInv
  <2>11. ASSUME NEW k \in Jobs, task'[k].pc \in Holding, NEW c \in Choosable(k)
         PROVE  c \in Choosable(k)'
    <3>1. c \in Made'
      BY <1>0, <2>1 DEF Choosable, Made
    <3>2. PreviousInputs(k)' = PreviousInputs(k)
      <4>1. task[k].txid # 0 => task[k].txid \in DOMAIN txs
        BY DEF DoubleInv, LightInv, LightFollows
      <4> QED BY <2>2, <2>7, <2>11, <4>1 DEF PreviousInputs
    <3>3. CASE c \in Range(PreviousInputs(k))
      BY <3>1, <3>2, <3>3 DEF Choosable
    <3>4. CASE \A i \in Live : Spends(i, c) => OtherClient(i, k)
      <4>1. ASSUME NEW i \in Live', Spends(i, c)'
            PROVE  OtherClient(i, k)'
        <5>1. CASE i = n
          BY <2>2, <2>7, <2>10, <2>11, <5>1 DEF OtherClient
        <5>2. CASE i # n
          <6>1. i \in Live /\ txs'[i] = txs[i]
            BY <2>2, <2>3, <2>4, <5>2 DEF Live
          <6> QED BY <3>4, <4>1, <6>1 DEF OtherClient, Spends
        <5> QED BY <5>1, <5>2
      <4> QED BY <3>1, <4>1 DEF Choosable
    <3> QED BY <3>3, <3>4 DEF Choosable
  <2>12. LightFree'
    <3> SUFFICES ASSUME NEW k \in Jobs, task'[k].pc \in Holding
                 PROVE  task'[k].inputs \in Seq(Choosable(k))'
      BY DEF LightFree
    <3>1. task'[k] = task[k] /\ task[k].inputs \in Seq(Choosable(k))
      BY <1>0, <2>7 DEF LightFree
    <3>2. Choosable(k) \subseteq Choosable(k)'
      BY <2>11
    <3> QED BY <3>1, <3>2
  <2> QED BY <2>6, <2>8, <2>9, <2>12 DEF DoubleInv
<1> QED BY <1>1, <1>2, <1>3 DEF LightForms

LEMMA DoubleInit == Init => DoubleInv
<1> SUFFICES ASSUME Init PROVE DoubleInv
  OBVIOUS
<1>1. lock \in [Clients -> SUBSET Jobs]
  BY DEF Init
<1>2. \A j \in Jobs : task[j].pc \notin Holding
  BY DEF Init, NoTask, Holding
<1>3. LightLocked /\ LightFree
  BY <1>2 DEF LightLocked, LightFree
<1>4. LightApart
  BY DEF Init, LightApart, Live
<1> QED BY <1>1, <1>3, <1>4, LightInit DEF DoubleInv

LEMMA DoubleNext == ASSUME DoubleInv, [Next]_vars PROVE DoubleInv'
<1>1. LightInv'
  BY LightNext DEF DoubleInv
<1>2. LightForms
  <2>1. CASE UNCHANGED vars
    BY <2>1 DEF vars, btcVars, LightForms, LightElsewhere
  <2> QED BY <2>1, LightFormed
<1> QED BY <1>1, <1>2, LightPool

\* The action of NoDoubleSpend.
OthersStay ==
    \A i \in mempool \ (mempool' \cup mined' \cup evicted') :
      \E n \in DOMAIN txs' \ DOMAIN txs :
        \/ \E p \in mempool \ mempool' :
             /\ i \in WithChildren({p})
             /\ \/ txs[p].job = txs'[n].job
                \/ ClientOf[txs[p].job] # ClientOf[txs'[n].job]
        \/ task[txs'[n].job].txid \notin Live \cup {0}

LEMMA OthersStayStep == ASSUME DoubleInv, [Next]_vars PROVE [OthersStay]_vars
<1> SUFFICES ASSUME Next, NEW i \in mempool \ (mempool' \cup mined' \cup evicted')
             PROVE  \E n \in DOMAIN txs' \ DOMAIN txs :
                      \/ \E p \in mempool \ mempool' :
                           /\ i \in WithChildren({p})
                           /\ \/ txs[p].job = txs'[n].job
                              \/ ClientOf[txs[p].job] # ClientOf[txs'[n].job]
                      \/ task[txs'[n].job].txid \notin Live \cup {0}
  BY DEF OthersStay
<1>1. LightForms
  BY LightFormed
<1>2. ~ LightElsewhere /\ \A j \in Jobs : ~ LightMoves(j)
  BY DEF LightElsewhere, LightMoves
<1>3. PICK j \in Jobs, tx \in LightTx : LightEnters(j, tx)
  BY <1>1, <1>2 DEF LightForms
<1> DEFINE n == Len(txs) + 1
           p == task[j].txid
<1>4. txs \in Seq(LightTx) /\ mempool \subseteq DOMAIN txs
  BY DEF DoubleInv, LightInv, LightType
<1>5. txs' = Append(txs, tx) /\ mempool' = (mempool \ Replaced(tx)) \cup {n}
  BY <1>3 DEF LightEnters
<1>6. n \in DOMAIN txs' \ DOMAIN txs /\ txs'[n] = tx
  BY <1>4, <1>5
<1>7. tx.job = j
  <2>1. task[j].pc = "send" /\ tx = FundedTx(j)
    BY <1>3 DEF LightEnters
  <2>2. Covers(j, task[j].rate, task[j].inputs)
    BY <2>1 DEF DoubleInv, LightInv, LightCovered
  <2> QED BY <2>1, <2>2, FundedRight DEF DoubleInv, LightInv
<1>8. i \in WithChildren(Met(tx)) /\ Met(tx) \in SUBSET mempool
  BY <1>5 DEF Replaced, Met
<1>9. PICK k \in Met(tx) : i \in WithChildren({k})
  BY <1>8, OneParent
<1>10. k \in mempool /\ k \notin mempool'
  <2>1. k \in Replaced(tx)
    BY <1>8, WithChildrenLeast DEF Replaced, Met
  <2> QED BY <1>4, <1>5, <1>6, <1>8, <2>1
<1>11. CASE OtherClient(k, j)
  BY <1>6, <1>7, <1>9, <1>10, <1>11 DEF OtherClient
<1>12. CASE ~ OtherClient(k, j)
  <2>1. p # 0 /\ (p \in Live => k = p)
    BY <1>3, <1>12, MeetsOwn
  <2>2. CASE p \notin Live
    BY <1>6, <1>7, <2>1, <2>2
  <2>3. CASE p \in Live
    <3>1. txs[p].job = j /\ k = p
      BY <2>1, <2>3 DEF DoubleInv, LightInv, LightFollows
    <3> QED BY <1>6, <1>7, <1>9, <1>10, <3>1
  <2> QED BY <2>2, <2>3
<1> QED BY <1>11, <1>12

\* Whatever the fee rates, the coins that arrive and the answers that are lost,
\* all transactions of a payment by the light client share a coin (PaidOnce),
\* because the inputs of what bump_fee replaces come first in the choice.
THEOREM LightPaysOnce == Spec => []PaidOnce
<1> QED BY LightInit, LightNext, ShareFirst, PTL DEF Spec

\* Every transaction of the light client pays the fee that its rate asks of its
\* size (FeeIsRight), however many coins fund_transaction takes and whatever
\* they are worth.
THEOREM FeesAlwaysRight == Spec => []FeeIsRight
<1>1. LightInv => FeeIsRight
  BY DEF LightInv
<1> QED BY <1>1, LightInit, LightNext, PTL DEF Spec

\* However many vault ids pay from the one key, and whatever is lost, evicted or
\* mined while payments are funded and replaced, none of them drives another of
\* its own vault id out of the mempool, unless what it was to replace is gone
\* (NoDoubleSpend): the lock of a vault id is held from the choice of the coins
\* to the answer of the node, and this is all that it is good for.
THEOREM LightNeverDoubleSpends == Spec => NoDoubleSpend
<1>1. DoubleInv /\ [Next]_vars => DoubleInv' /\ [OthersStay]_vars
  BY DoubleNext, OthersStayStep
<1>2. NoDoubleSpend <=> [][OthersStay]_vars
  BY DEF NoDoubleSpend, OthersStay
<1> QED BY <1>1, <1>2, DoubleInit, PTL DEF Spec

\* Whichever client the vault runs with, the light client behaves as specified.
THEOREM ClientsImplyLight == ClientsSpec => Spec
<1>1. NewClient => Init
  BY DEF NewClient
<1>2. [ClientsNext]_<<vars, coreVars, light>> => [Next]_vars
  BY DEF ClientsNext
<1> QED BY <1>1, <1>2, PTL DEF ClientsSpec, Spec
=============================================================================
