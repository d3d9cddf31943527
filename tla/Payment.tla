------------------------------ MODULE Payment ------------------------------
(***************************************************************************)
(* How a vault pays redeem and replace requests in bitcoin and executes    *)
(* them on the parachain: vault/src/execution.rs, the two listeners that   *)
(* start a payment (redeem.rs, replace.rs) and the part of a service       *)
(* generation's start-up that orders them (system.rs, run_service).        *)
(*                                                                         *)
(* Nothing about a payment is stored by the vault.  What survives a        *)
(* restart is the mempool and the bitcoin chain, where a payment is        *)
(* recognised by the OP_RETURN that names its request.  A generation       *)
(* starts one executor of the requests that are already open and, on its   *)
(* own schedule, one listener per kind of request; nothing else keeps the  *)
(* two from handling the same request.                                     *)
(*                                                                         *)
(* Abstractions.  The parachain is seen at its finalized head, as every    *)
(* query and subscription of the client is.  Block numbers are reduced to  *)
(* `fresh', the requests opened by the head block, and `newBlock', whether *)
(* the head has moved since start-up.  Both deadlines of a request are     *)
(* reduced to membership in `expired'.  A payment is a family of bitcoin   *)
(* transactions that replace one another (RBF): versions 1..sent, of which *)
(* one may be in the mempool or mined.                                     *)
(***************************************************************************)
EXTENDS Naturals, FiniteSets

CONSTANTS
    Redeems,        \* redeem requests directed at this vault
    Replaces,       \* replace requests in which this vault is the old vault
    FullNodes,      \* the vault may use Bitcoin Core, as a full node (TRUE),
                    \* or the electrs light client (FALSE)
    MaxPayments,    \* bound: payments per request
    MaxVersions,    \* bound: transaction versions (RBF) per payment
    MaxFaults       \* bound: crashes, failed calls and reorgs in a behaviour

ASSUME PaymentAssumption ==
    /\ Redeems \cap Replaces = {}
    /\ FullNodes \subseteq BOOLEAN
    /\ MaxPayments \in Nat \ {0}
    /\ MaxVersions \in Nat \ {0}
    /\ MaxFaults \in Nat

Requests == Redeems \cup Replaces
Payments == Requests \X (1..MaxPayments)
Versions == 0..MaxVersions                 \* 0: none
Origins == {"executor", "listener"}

\* The listener whose event opens request r, and the listeners that have any.
ListenerOf(r) == IF r \in Redeems THEN "redeem" ELSE "replace"
Listeners == {ListenerOf(r) : r \in Requests}

VARIABLES
    \* the parachain
    status,         \* status of each request
    fresh,          \* requests opened by the finalized head block
    expired,        \* requests whose vault-side deadlines have both passed
    \* bitcoin
    fullNode,       \* whether the vault's client of it is a full node
    sent,           \* number of versions of a payment ever sent, 0: not paid
    mempool,        \* version of a payment in the mempool
    mined,          \* version of a payment in the best chain
    depth,          \* how deep the mined version is
    \* the vault process
    phase,          \* "down", "await" (await_parachain_block) or "running"
    newBlock,       \* a block arrived since the start-up height was read
    executor,       \* where execute_open_requests is
    open,           \* its hashmap of open requests
    subscribed,     \* listeners that are subscribed
    events,         \* requests whose event a listener has not yet handled
    task,           \* the task handling a request, one per origin
    \* history and bounds
    old,            \* payments made by an earlier generation
    slipped,        \* requests with a payment that was forked out of the chain
                    \* while an executor stood between mempool and chain
    faults          \* faults so far

chainVars == <<status, fresh, expired>>
btcVars == <<fullNode, sent, mempool, mined, depth>>
procVars == <<phase, newBlock, executor, open, subscribed, events, task>>
vars == <<chainVars, btcVars, procVars, old, slipped, faults>>

\* A task has yet to pay, or follows one version of one payment.
Unpaid == [pc : {"none", "fetch", "check", "send"}, payment : {0}, version : {0}]
\* "lost": it waits in wait_for_block_in_relay, like "relay", for a block that
\* has left the best chain.
Following == [pc : {"wait", "relay", "lost", "execute"}, payment : 1..MaxPayments,
              version : 1..MaxVersions]
Task == Unpaid \cup Following
NoTask == [pc |-> "none", payment |-> 0, version |-> 0]
NoTasks == [t \in Requests \X Origins |-> NoTask]

TypeOK ==
    /\ status \in [Requests -> {"none", "pending", "executed", "cancelled"}]
    /\ fresh \subseteq Requests
    /\ expired \subseteq Requests
    /\ fullNode \in FullNodes
    /\ sent \in [Payments -> Versions]
    /\ mempool \in [Payments -> Versions]
    /\ mined \in [Payments -> Versions]
    /\ depth \in [Payments -> {"unmined", "included", "confirmed", "relayed"}]
    /\ phase \in {"down", "await", "running"}
    /\ newBlock \in BOOLEAN
    /\ executor \in {"off", "query", "mempool", "chain", "rest", "done"}
    /\ open \subseteq Requests
    /\ subscribed \subseteq Listeners
    /\ events \subseteq Requests
    /\ task \in [Requests \X Origins -> Task]
    /\ old \subseteq Payments
    /\ slipped \subseteq Requests
    /\ faults \in 0..MaxFaults

Init ==
    /\ status = [r \in Requests |-> "none"]
    /\ fresh = {}
    /\ expired = {}
    /\ fullNode \in FullNodes
    /\ sent = [p \in Payments |-> 0]
    /\ mempool = [p \in Payments |-> 0]
    /\ mined = [p \in Payments |-> 0]
    /\ depth = [p \in Payments |-> "unmined"]
    /\ phase = "down"
    /\ newBlock = FALSE
    /\ executor = "off"
    /\ open = {}
    /\ subscribed = {}
    /\ events = {}
    /\ task = NoTasks
    /\ old = {}
    /\ slipped = {}
    /\ faults = 0

----------------------------------------------------------------------------
(***************************************************************************)
(* The environment: the parachain and bitcoin.                             *)
(***************************************************************************)

\* A block that opens the requests in S becomes the finalized head; the
\* subscriptions of the listeners deliver its events.
NewBlock(S) ==
    /\ \A r \in S : status[r] = "none"
    /\ status' = [r \in Requests |-> IF r \in S THEN "pending" ELSE status[r]]
    /\ fresh' = S
    /\ newBlock' = (phase = "await" \/ newBlock)
    /\ events' = events \cup {r \in S : ListenerOf(r) \in subscribed}
    /\ UNCHANGED <<expired, btcVars, phase, executor, open, subscribed, task,
                   old, slipped, faults>>

\* The parachain and the bitcoin height both pass the deadline at which the
\* vault stops paying r (the period less the payment margin).
Expire(r) ==
    /\ status[r] = "pending"
    /\ r \notin expired
    /\ expired' = expired \cup {r}
    /\ UNCHANGED <<status, fresh, btcVars, procVars, old, slipped, faults>>

\* The user takes an expired request back.
Cancel(r) ==
    /\ status[r] = "pending"
    /\ r \in expired
    /\ status' = [status EXCEPT ![r] = "cancelled"]
    /\ UNCHANGED <<fresh, expired, btcVars, procVars, old, slipped, faults>>

\* A miner includes a version of payment p; the others can then never be.
Mine(p) ==
    /\ depth[p] = "unmined"
    /\ \E v \in 1..sent[p] : mined' = [mined EXCEPT ![p] = v]
    /\ mempool' = [mempool EXCEPT ![p] = 0]
    /\ depth' = [depth EXCEPT ![p] = "included"]
    /\ UNCHANGED <<chainVars, fullNode, sent, procVars, old, slipped, faults>>

\* The block of p gets the confirmations that the vault waits for ...
Confirm(p) ==
    /\ depth[p] = "included"
    /\ depth' = [depth EXCEPT ![p] = "confirmed"]
    /\ UNCHANGED <<chainVars, fullNode, sent, mempool, mined, procVars, old, slipped, faults>>

\* ... and is relayed to, and confirmed in, the parachain's bitcoin relay.
RelayBlock(p) ==
    /\ depth[p] = "confirmed"
    /\ depth' = [depth EXCEPT ![p] = "relayed"]
    /\ UNCHANGED <<chainVars, fullNode, sent, mempool, mined, procVars, old, slipped, faults>>

\* A payment is forked out after the mempool was listed and before the chain is
\* read: the scan sees it in neither.
Slips(p) == executor = "chain" /\ p[1] \in open

\* The block of p leaves the best chain; its transactions return to the
\* mempool.  A task that follows its block goes on waiting for that block.
Reorg(p) ==
    /\ depth[p] \in {"included", "confirmed"}
    /\ faults < MaxFaults
    /\ slipped' = IF Slips(p) THEN slipped \cup {p[1]} ELSE slipped
    /\ task' = [t \in DOMAIN task |->
                  IF task[t].pc = "relay" /\ p = <<t[1], task[t].payment>>
                  THEN [task[t] EXCEPT !.pc = "lost"] ELSE task[t]]
    /\ mempool' = [mempool EXCEPT ![p] = mined[p]]
    /\ mined' = [mined EXCEPT ![p] = 0]
    /\ depth' = [depth EXCEPT ![p] = "unmined"]
    /\ faults' = faults + 1
    /\ UNCHANGED <<chainVars, fullNode, sent, phase, newBlock, executor, open,
                   subscribed, events, old>>

----------------------------------------------------------------------------
(***************************************************************************)
(* A generation of the service.                                            *)
(***************************************************************************)

\* run_service up to the read of startup_height in await_parachain_block.
Boot ==
    /\ phase = "down"
    /\ phase' = "await"
    /\ newBlock' = FALSE
    /\ UNCHANGED <<chainVars, btcVars, executor, open, subscribed, events,
                   task, old, slipped, faults>>

\* Mutant of Start: the listeners are started without waiting for a block.
StartAtOnce ==
    /\ phase = "await"
    /\ phase' = "running"
    /\ executor' = "query"
    /\ UNCHANGED <<chainVars, btcVars, newBlock, open, subscribed, events,
                   task, old, slipped, faults>>

\* The head has moved: spawn the executor, go on to start the listeners.
Start ==
    /\ phase = "await"
    /\ newBlock
    /\ phase' = "running"
    /\ executor' = "query"
    /\ UNCHANGED <<chainVars, btcVars, newBlock, open, subscribed, events,
                   task, old, slipped, faults>>

\* A listener's subscription is established.  It first yields the block
\* that is the head at that moment.
Subscribe(l) ==
    /\ phase = "running"
    /\ l \notin subscribed
    /\ subscribed' = subscribed \cup {l}
    /\ events' = events \cup {r \in fresh : ListenerOf(r) = l}
    /\ UNCHANGED <<chainVars, btcVars, phase, newBlock, executor, open, task,
                   old, slipped, faults>>

\* The listener's callback: spawn a task for the request.
HandleEvent(r) ==
    /\ r \in events
    /\ events' = events \ {r}
    /\ task' = [task EXCEPT ![<<r, "listener">>] = [NoTask EXCEPT !.pc = "fetch"]]
    /\ UNCHANGED <<chainVars, btcVars, phase, newBlock, executor, open,
                   subscribed, old, slipped, faults>>

\* All tasks of the generation end; the payments made so far become old.
StopGeneration ==
    /\ phase' = "down"
    /\ newBlock' = FALSE
    /\ executor' = "off"
    /\ open' = {}
    /\ subscribed' = {}
    /\ events' = {}
    /\ task' = NoTasks
    /\ old' = {p \in Payments : sent[p] > 0}

\* The process dies, or a task fails and takes the generation down with it.
Crash ==
    /\ phase # "down"
    /\ faults < MaxFaults
    /\ StopGeneration
    /\ faults' = faults + 1
    /\ UNCHANGED <<chainVars, btcVars, slipped>>

\* A task that has nothing to do until bitcoin or the relay moves, or that
\* the bound on payments keeps from sending.
Waiting(t) ==
    LET p == <<t[1], task[t].payment>>
        included == mined[p] = task[t].version /\ depth[p] \in {"confirmed", "relayed"}
    IN  \/ task[t].pc \in {"none", "lost"}
        \/ task[t].pc = "send" /\ \A n \in 1..MaxPayments : sent[<<t[1], n>>] > 0
        \/ task[t].pc = "wait" /\ ~included
        \/ task[t].pc = "relay" /\ depth[p] # "relayed"

\* Mutant of RestartTimer: the service runs until it fails.
NoRestartTimer == FALSE

\* The restart timer (three hours) fires: everything that could run has run.
RestartTimer ==
    /\ phase = "running"
    /\ executor = "done"
    /\ subscribed = Listeners
    /\ events = {}
    /\ \A t \in DOMAIN task : Waiting(t)
    /\ StopGeneration
    /\ UNCHANGED <<chainVars, btcVars, slipped, faults>>

----------------------------------------------------------------------------
(***************************************************************************)
(* execute_open_requests.                                                  *)
(***************************************************************************)

Pending == {r \in Requests : status[r] = "pending"}

\* Query the open requests; without any there is nothing to do.  Only a full
\* node is scanned.
QueryOpen ==
    /\ executor = "query"
    /\ open' = Pending
    /\ executor' = CASE Pending = {} -> "done"
                     [] Pending # {} /\ fullNode -> "mempool"
                     [] OTHER -> "rest"
    /\ UNCHANGED <<chainVars, btcVars, phase, newBlock, subscribed, events,
                   task, old, slipped, faults>>

\* Mutant of Track: the version that was found is forgotten.
TrackAnyVersion(found, where) ==
    task' = [t \in DOMAIN task |->
                IF t[2] = "executor" /\ t[1] \in DOMAIN found /\ found[t[1]] # 0
                THEN [pc |-> "wait", payment |-> found[t[1]], version |-> 0]
                ELSE task[t]]

\* create_payment_worker for each request r with found[r] # 0: a task that
\* waits for that payment, in the version that `where' shows, and executes.
Track(found, where) ==
    task' = [t \in DOMAIN task |->
                IF t[2] = "executor" /\ t[1] \in DOMAIN found /\ found[t[1]] # 0
                THEN [pc |-> "wait", payment |-> found[t[1]],
                      version |-> where[<<t[1], found[t[1]]>>]]
                ELSE task[t]]

\* The first payment of each open request that the scan of `where' meets.
Matches(where) ==
    {found \in [open -> 0..MaxPayments] :
        \A r \in open :
            IF found[r] = 0
            THEN \A n \in 1..MaxPayments : where[<<r, n>>] = 0
            ELSE where[<<r, found[r]>>] # 0}

Scan(where, next) ==
    \E found \in Matches(where) :
        /\ Track(found, where)
        /\ open' = {r \in open : found[r] = 0}
        /\ executor' = next
        /\ UNCHANGED <<chainVars, btcVars, phase, newBlock, subscribed,
                       events, old, slipped, faults>>

\* reverse_stream_transactions: the mempool, listed when the stream is made.
ScanMempool == executor = "mempool" /\ Scan(mempool, "chain")

\* Then the blocks, from the best one at the time the first is asked for
\* down to the height at which the oldest open request was made.
ScanChain == executor = "chain" /\ Scan(mined, "rest")

\* get_tx_for_op_return: Bitcoin Core has no such index and answers None; the
\* light client's electrs endpoint lists confirmed transactions.
DirectLookup(r) ==
    IF fullNode THEN {} ELSE {n \in 1..MaxPayments : mined[<<r, n>>] # 0}

\* A request that is left: track a payment found directly, else pay.
HandleRest(r) ==
    /\ executor = "rest"
    /\ r \in open
    /\ \/ /\ DirectLookup(r) = {}
          /\ task' = [task EXCEPT ![<<r, "executor">>] = [NoTask EXCEPT !.pc = "check"]]
       \/ \E n \in DirectLookup(r) :
             task' = [task EXCEPT ![<<r, "executor">>] =
                        [pc |-> "wait", payment |-> n, version |-> mined[<<r, n>>]]]
    /\ open' = open \ {r}
    /\ UNCHANGED <<chainVars, btcVars, phase, newBlock, executor, subscribed,
                   events, old, slipped, faults>>

\* The direct lookup fails: the request is left for the next generation.
SkipRest(r) ==
    /\ ~fullNode
    /\ executor = "rest"
    /\ r \in open
    /\ faults < MaxFaults
    /\ open' = open \ {r}
    /\ faults' = faults + 1
    /\ UNCHANGED <<chainVars, btcVars, phase, newBlock, executor, subscribed,
                   events, task, old, slipped>>

RestDone ==
    /\ executor = "rest"
    /\ open = {}
    /\ executor' = "done"
    /\ UNCHANGED <<chainVars, btcVars, phase, newBlock, open, subscribed,
                   events, task, old, slipped, faults>>

----------------------------------------------------------------------------
(***************************************************************************)
(* The tasks: pay_and_execute from "check" on, a tracker from "wait" on.   *)
(***************************************************************************)

SetTask(t, new) ==
    /\ task' = [task EXCEPT ![t] = new]
    /\ UNCHANGED <<phase, newBlock, executor, open, subscribed, events>>

\* The listener's task reads the request; its status is not looked at.
Fetch(t) ==
    /\ task[t].pc = "fetch"
    /\ SetTask(t, [task[t] EXCEPT !.pc = "check"])
    /\ UNCHANGED <<chainVars, btcVars, old, slipped, faults>>

\* pay_and_execute: no payment is attempted once both deadlines have passed.
CheckDeadline(t) ==
    /\ task[t].pc = "check"
    /\ SetTask(t, IF t[1] \in expired THEN NoTask
                  ELSE [task[t] EXCEPT !.pc = "send"])
    /\ UNCHANGED <<chainVars, btcVars, old, slipped, faults>>

\* transfer_btc: a new payment enters the mempool.
Send(t) ==
    /\ task[t].pc = "send"
    /\ \E n \in 1..MaxPayments :
        LET p == <<t[1], n>> IN
        /\ sent[p] = 0
        /\ \A m \in 1..(n - 1) : sent[<<t[1], m>>] > 0
        /\ sent' = [sent EXCEPT ![p] = 1]
        /\ mempool' = [mempool EXCEPT ![p] = 1]
        /\ SetTask(t, [pc |-> "wait", payment |-> n, version |-> 1])
    /\ UNCHANGED <<chainVars, fullNode, mined, depth, old, slipped, faults>>

\* wait_for_inclusion: the fee rate rose while the version waited for is in
\* the mempool; it is replaced and from now on only the new one waited for.
BumpFee(t) ==
    LET p == <<t[1], task[t].payment>> IN
    /\ task[t].pc = "wait"
    /\ mempool[p] = task[t].version
    /\ sent[p] < MaxVersions
    /\ sent' = [sent EXCEPT ![p] = @ + 1]
    /\ mempool' = [mempool EXCEPT ![p] = sent[p] + 1]
    /\ SetTask(t, [task[t] EXCEPT !.version = sent[p] + 1])
    /\ UNCHANGED <<chainVars, fullNode, mined, depth, old, slipped, faults>>

\* wait_for_inclusion: the version waited for has its confirmations.
Included(t) ==
    LET p == <<t[1], task[t].payment>> IN
    /\ task[t].pc = "wait"
    /\ mined[p] = task[t].version
    /\ depth[p] \in {"confirmed", "relayed"}
    /\ SetTask(t, [task[t] EXCEPT !.pc = "relay"])
    /\ UNCHANGED <<chainVars, btcVars, old, slipped, faults>>

\* Mutant of Relayed: the relay is not waited for.
NotWaitingForRelay(t) ==
    /\ task[t].pc = "relay"
    /\ SetTask(t, [task[t] EXCEPT !.pc = "execute"])
    /\ UNCHANGED <<chainVars, btcVars, old, slipped, faults>>

\* wait_for_block_in_relay: the block is there.
Relayed(t) ==
    LET p == <<t[1], task[t].payment>> IN
    /\ task[t].pc = "relay"
    /\ mined[p] = task[t].version
    /\ depth[p] = "relayed"
    /\ SetTask(t, [task[t] EXCEPT !.pc = "execute"])
    /\ UNCHANGED <<chainVars, btcVars, old, slipped, faults>>

\* The relay has the block that left the best chain, as one of a fork (an
\* invalid chain id): the transaction's block is looked up again.  A relay that
\* was never given that block reports nothing, and the task waits on.
ForkReported(t) ==
    /\ task[t].pc = "lost"
    /\ SetTask(t, [task[t] EXCEPT !.pc = "wait"])
    /\ UNCHANGED <<chainVars, btcVars, old, slipped, faults>>

\* The block that left the best chain is the one in it that includes the
\* payment again.
BlockReturns(t) ==
    LET p == <<t[1], task[t].payment>> IN
    /\ task[t].pc = "lost"
    /\ mined[p] = task[t].version
    /\ SetTask(t, [task[t] EXCEPT !.pc = "relay"])
    /\ UNCHANGED <<chainVars, btcVars, old, slipped, faults>>

\* execute: a pending request is executed; any other is rejected until the
\* retries are used up.  Either way the task ends.
Execute(t) ==
    /\ task[t].pc = "execute"
    /\ status' = [status EXCEPT ![t[1]] = IF @ = "pending" THEN "executed" ELSE @]
    /\ SetTask(t, NoTask)
    /\ UNCHANGED <<fresh, expired, btcVars, old, slipped, faults>>

\* A call fails: the error is logged and the task ends.
Fail(t) ==
    /\ task[t].pc # "none"
    /\ faults < MaxFaults
    /\ SetTask(t, NoTask)
    /\ faults' = faults + 1
    /\ UNCHANGED <<chainVars, btcVars, old, slipped>>

----------------------------------------------------------------------------
Environment ==
    \/ \E S \in SUBSET Requests : NewBlock(S)
    \/ \E r \in Requests : Expire(r) \/ Cancel(r)
    \/ \E p \in Payments : Mine(p) \/ Confirm(p) \/ RelayBlock(p) \/ Reorg(p)

Generation ==
    \/ Boot \/ Start \/ Crash \/ RestartTimer
    \/ \E l \in Listeners : Subscribe(l)
    \/ \E r \in Requests : HandleEvent(r)

Executor ==
    \/ QueryOpen \/ ScanMempool \/ ScanChain \/ RestDone
    \/ \E r \in Requests : HandleRest(r) \/ SkipRest(r)

TaskStep(t) ==
    \/ Fetch(t) \/ CheckDeadline(t) \/ Send(t) \/ BumpFee(t) \/ Included(t)
    \/ Relayed(t) \/ ForkReported(t) \/ BlockReturns(t) \/ Execute(t) \/ Fail(t)

Next ==
    \/ Environment
    \/ Generation
    \/ Executor
    \/ \E t \in Requests \X Origins : TaskStep(t)

Spec == Init /\ [][Next]_vars

\* Bitcoin mines, confirms and relays what is sent; the parachain finalizes
\* blocks; every task of the service that can run does; the restart timer
\* fires.  Users, fee changes and faults are not owed anything.
Fairness ==
    /\ WF_vars(NewBlock({}))
    /\ WF_vars(Boot) /\ WF_vars(Start) /\ WF_vars(RestartTimer)
    /\ \A l \in Listeners : WF_vars(Subscribe(l))
    /\ \A r \in Requests : WF_vars(HandleEvent(r)) /\ WF_vars(HandleRest(r))
    /\ WF_vars(QueryOpen) /\ WF_vars(ScanMempool) /\ WF_vars(ScanChain)
    /\ WF_vars(RestDone)
    /\ \A p \in Payments : WF_vars(Mine(p)) /\ WF_vars(Confirm(p)) /\ WF_vars(RelayBlock(p))
    /\ \A t \in Requests \X Origins :
        /\ WF_vars(Fetch(t)) /\ WF_vars(CheckDeadline(t)) /\ WF_vars(Send(t))
        /\ WF_vars(Included(t)) /\ WF_vars(Relayed(t)) /\ WF_vars(Execute(t))

FairSpec == Spec /\ Fairness

----------------------------------------------------------------------------
(***************************************************************************)
(* Properties.                                                             *)
(***************************************************************************)

IsPaid(p) == sent[p] > 0

\* On a full node no generation pays a request that an earlier one has paid:
\* all payments of a request are of one generation, wherever the earlier one
\* crashed or was restarted and whatever was mined or forked out meanwhile.  The
\* scan of execute_open_requests finds the payment, mempool first, so that one
\* that is mined during the scan is met; await_parachain_block keeps the new
\* listeners from seeing an event that an old one has handled.  The one gap is
\* the fork that puts a payment back into a mempool that was already listed,
\* before the chain it left is read: such a request is not spoken of.
NoRepayAfterRestart ==
    fullNode =>
        \A p, q \in Payments :
            p[1] = q[1] /\ p[1] \notin slipped /\ IsPaid(p) /\ IsPaid(q)
                => (p \in old <=> q \in old)

\* A request is executed on the parachain only on the strength of one of its
\* payments, mined in the version that was waited for and relayed.
ExecutedWasPaid ==
    \A r \in Requests : status[r] = "executed" =>
        \E n \in 1..MaxPayments : mined[<<r, n>>] # 0 /\ depth[<<r, n>>] = "relayed"

\* A request is paid at most once: what execute_open_requests and its
\* handling of errors mean to ensure.
PaidAtMostOnce ==
    \A p, q \in Payments : p[1] = q[1] /\ IsPaid(p) /\ IsPaid(q) => p = q

\* Every request that is opened is eventually executed, cancelled or past the
\* deadline, although its event may fall between the executor's query and the
\* listener's subscription, its task may fail or the process crash, and the
\* version that is mined may not be the one that is waited for.
EventuallySettled ==
    \A r \in Requests :
        status[r] = "pending" ~> (status[r] # "pending" \/ r \in expired)
============================================================================
