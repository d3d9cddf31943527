--------------------------- MODULE IssueExecution ---------------------------
(***************************************************************************)
(* How a vault executes issue requests, its own and those of others, when  *)
(* it sees their deposits on bitcoin: initialize_issue_set,                *)
(* process_issue_requests and the three listeners of vault/src/issue.rs,   *)
(* with the set of watched requests they share (vault/src/types.rs) and    *)
(* the stream of confirmed blocks (bitcoin/src/iter.rs).                   *)
(*                                                                         *)
(* Each transaction of each confirmed block gets a task of its own, which  *)
(* looks its output addresses up in the set.  The task of a deposit keeps  *)
(* the set locked until it has executed the request, that is, while it     *)
(* waits for the relay, for its turn among the vaults and for the          *)
(* parachain; meanwhile the other tasks and the listeners queue up.  The   *)
(* set is lost with the generation.                                        *)
(*                                                                         *)
(* Abstractions.  A block is its height and a number that tells forks      *)
(* apart.  After a fork the transactions of the old blocks are mined       *)
(* again above the new tip.  The relay follows the node's chain; it knows  *)
(* the blocks of a fork that it stored (stale) and no other.  A task that  *)
(* outlives its generation can at most execute a request, which any vault  *)
(* may do at any time (ExecutedByOther).                                   *)
(***************************************************************************)
EXTENDS Naturals

CONSTANTS
    Issues,         \* issue requests, of all vaults
    Transactions,   \* bitcoin transactions that pay deposit addresses
    Confirmations,  \* confirmations required by the vault and by the relay
    MaxOutputs,     \* bound: deposit addresses paid by one transaction
    MaxHeight,      \* bound: height of the bitcoin chain
    MaxFaults       \* bound: forks, crashes and failed calls

ASSUME IssueExecutionAssumption ==
    /\ Confirmations \in Nat \ {0}
    /\ MaxOutputs \in Nat
    /\ MaxHeight \in Nat
    /\ MaxFaults \in Nat

BtcHeights == 0..MaxHeight
ForkNumbers == 0..MaxFaults
Blocks == BtcHeights \X ForkNumbers
\* The outputs of a transaction, in order, to different deposit addresses, each
\* with enough for the request or too little.
Outputs == {out \in UNION {[1..n -> Issues \X {"full", "short"}] : n \in 0..MaxOutputs} :
              \A m, n \in DOMAIN out : out[m][1] = out[n][1] => m = n}
Tasks == Transactions \X Blocks
\* listen_for_issue_executes and listen_for_issue_cancels do the same, for
\* events of which a request has at most one: "close".
Listeners == {"request", "close"}
Events == Listeners \X Issues
Free == <<>>                        \* the set is not locked

VARIABLES
    \* the parachain
    status,     \* status of each request
    overdue,    \* requests whose period has passed in parachain blocks
    btcHeight,  \* height of the relay when the request was made
    fresh,      \* events of the finalized head
    \* bitcoin and the relay
    outputs,    \* outputs of each transaction, none: not yet sent
    minedAt,    \* height of the transaction, 0: not mined
    tip,        \* height of the chain
    fork,       \* fork number of the block at each height
    relayed,    \* height of the relay
    stale,      \* blocks that the relay stores off its main chain
    \* the vault
    phase,      \* where run_service is: "query", "count" or "up"
    watched,    \* issue_set
    lock,       \* the task that keeps it locked
    issue,      \* the request which that task executes
    next,       \* next_height of the stream
    task,       \* where the task of a transaction in a block is
    subscribed, \* listeners that are subscribed
    inbox,      \* events that they have not yet handled
    \* history and bounds
    since,      \* height from which on a request is watched, 0 if it is not
    skipped,    \* in this generation, outputs behind the one that was looked at
    clean,      \* no fork and no failed call in this generation
    faults      \* faults so far

chainVars == <<status, overdue, btcHeight, fresh>>
btcVars == <<outputs, minedAt, tip, fork, relayed, stale>>
setVars == <<watched, since>>
streamVars == <<next, task, lock, issue, skipped>>
vars == <<chainVars, btcVars, phase, setVars, streamVars, subscribed, inbox, clean, faults>>

TypeOK ==
    /\ status \in [Issues -> {"none", "pending", "completed", "cancelled"}]
    /\ overdue \subseteq Issues
    /\ btcHeight \in [Issues -> BtcHeights]
    /\ fresh \subseteq Events
    /\ outputs \in [Transactions -> Outputs]
    /\ minedAt \in [Transactions -> BtcHeights]
    /\ tip \in BtcHeights
    /\ fork \in [BtcHeights -> ForkNumbers]
    /\ relayed \in 0..tip
    /\ stale \subseteq Blocks
    /\ phase \in {"query", "count", "up"}
    /\ watched \subseteq Issues
    /\ lock \in Tasks \cup {Free}
    /\ issue \in Issues \cup {Free}
    /\ next \in 0..(MaxHeight + 1)
    /\ task \in [Tasks -> {"none", "lock", "relay", "delay", "metadata", "execute"}]
    /\ subscribed \subseteq Listeners
    /\ inbox \subseteq Events
    /\ since \in [Issues -> 0..(MaxHeight + 1)]
    /\ skipped \subseteq Transactions \X Issues
    /\ clean \in BOOLEAN
    /\ faults \in 0..MaxFaults

Init ==
    /\ status = [i \in Issues |-> "none"]
    /\ overdue = {}
    /\ btcHeight = [i \in Issues |-> 0]
    /\ fresh = {}
    /\ outputs = [t \in Transactions |-> <<>>]
    /\ minedAt = [t \in Transactions |-> 0]
    /\ tip = 0
    /\ fork = [h \in BtcHeights |-> 0]
    /\ relayed = 0
    /\ stale = {}
    /\ phase = "query"
    /\ watched = {}
    /\ lock = Free
    /\ issue = Free
    /\ next = 0
    /\ task = [k \in Tasks |-> "none"]
    /\ subscribed = {}
    /\ inbox = {}
    /\ since = [i \in Issues |-> 0]
    /\ skipped = {}
    /\ clean = TRUE
    /\ faults = 0

BlockAt(h) == <<h, fork[h]>>

\* Mutant of Confirmed: a block counts as its own second confirmation.
ConfirmedTooEarly(h) == tip + 2 >= h + Confirmations

\* wait_for_block: the block at height h exists and has its confirmations.
Confirmed(h) == tip + 1 >= h + Confirmations

\* verify_block_header_inclusion.
InRelay(b) == b = BlockAt(b[1]) /\ relayed + 1 >= b[1] + Confirmations

\* Transaction t pays request i enough.
Pays(t, i) == \E n \in DOMAIN outputs[t] : outputs[t][n] = <<i, "full">>

----------------------------------------------------------------------------
(***************************************************************************)
(* The parachain, bitcoin and the relay.                                   *)
(***************************************************************************)

\* A block with the events E is finalized.
Finalize(E) ==
    /\ fresh' = E
    /\ inbox' = inbox \cup {e \in E : e[1] \in subscribed}

EmptyBlock ==
    /\ fresh # {}
    /\ Finalize({})
    /\ UNCHANGED <<status, overdue, btcHeight, btcVars, phase, setVars, streamVars, subscribed,
                   clean, faults>>

RequestIssue(i) ==
    /\ status[i] = "none"
    /\ status' = [status EXCEPT ![i] = "pending"]
    /\ btcHeight' = [btcHeight EXCEPT ![i] = relayed]
    /\ Finalize({<<"request", i>>})
    /\ UNCHANGED <<overdue, btcVars, phase, setVars, streamVars, subscribed, clean, faults>>

\* The request period passes; another vault may cancel the request.
PeriodPasses(i) ==
    /\ status[i] = "pending"
    /\ i \notin overdue
    /\ overdue' = overdue \cup {i}
    /\ UNCHANGED <<status, btcHeight, fresh, btcVars, phase, setVars, streamVars, subscribed, inbox,
                   clean, faults>>

CancelIssue(i) ==
    /\ status[i] = "pending"
    /\ i \in overdue
    /\ status' = [status EXCEPT ![i] = "cancelled"]
    /\ Finalize({<<"close", i>>})
    /\ UNCHANGED <<overdue, btcHeight, btcVars, phase, setVars, streamVars, subscribed, clean, faults>>

\* What execute_issue does, if the relay confirms that t is in block b.
Executes(i, t, b) ==
    /\ status[i] = "pending"
    /\ InRelay(b) /\ minedAt[t] = b[1] /\ Pays(t, i)

\* Another vault, the user, or a task of an earlier generation executes it.
ExecutedByOther(i) ==
    /\ \E t \in Transactions : minedAt[t] > 0 /\ Executes(i, t, BlockAt(minedAt[t]))
    /\ status' = [status EXCEPT ![i] = "completed"]
    /\ Finalize({<<"close", i>>})
    /\ UNCHANGED <<overdue, btcHeight, btcVars, phase, setVars, streamVars, subscribed, clean, faults>>

\* Somebody pays requests that have been made.
Send(t, out) ==
    /\ outputs[t] = <<>>
    /\ out # <<>> /\ \A n \in DOMAIN out : status[out[n][1]] # "none"
    /\ outputs' = [outputs EXCEPT ![t] = out]
    /\ UNCHANGED <<chainVars, minedAt, tip, fork, relayed, stale, phase, setVars, streamVars,
                   subscribed, inbox, clean, faults>>

\* A block with the transactions T is mined.
Mine(T) ==
    /\ tip < MaxHeight
    /\ \A t \in T : outputs[t] # <<>> /\ minedAt[t] = 0
    /\ tip' = tip + 1
    /\ minedAt' = [t \in Transactions |-> IF t \in T THEN tip + 1 ELSE minedAt[t]]
    /\ UNCHANGED <<chainVars, outputs, fork, relayed, stale, phase, setVars, streamVars,
                   subscribed, inbox, clean, faults>>

RelayBlock ==
    /\ relayed < tip
    /\ relayed' = relayed + 1
    /\ UNCHANGED <<chainVars, outputs, minedAt, tip, fork, stale, phase, setVars, streamVars,
                   subscribed, inbox, clean, faults>>

\* A longer chain without the blocks above h.
Reorg(h) ==
    /\ faults < MaxFaults /\ h < tip /\ tip < MaxHeight
    /\ faults' = faults + 1
    /\ tip' = tip + 1
    /\ fork' = [k \in BtcHeights |-> IF k > h THEN faults' ELSE fork[k]]
    /\ minedAt' = [t \in Transactions |-> IF minedAt[t] > h THEN 0 ELSE minedAt[t]]
    /\ stale' = stale \cup {BlockAt(k) : k \in (h + 1)..relayed}
    /\ relayed' = IF relayed < h THEN relayed ELSE h
    /\ clean' = (phase = "query")
    /\ UNCHANGED <<chainVars, outputs, phase, setVars, streamVars, subscribed, inbox>>

----------------------------------------------------------------------------
(***************************************************************************)
(* A generation of the service.                                            *)
(***************************************************************************)

\* get_all_active_issues.
Active == {i \in Issues : status[i] = "pending" /\ i \notin overdue}

\* initialize_issue_set: watch the active requests, from the height of the
\* oldest; without any ...
InitializeIssueSet ==
    /\ phase = "query"
    /\ watched' = Active
    /\ since' = [i \in Issues |-> IF i \in Active THEN btcHeight[i] ELSE 0]
    /\ IF Active = {}
       THEN phase' = "count" /\ UNCHANGED next
       ELSE /\ phase' = "up"
            /\ \E i \in Active : /\ next' = btcHeight[i]
                                /\ \A j \in Active : btcHeight[i] <= btcHeight[j]
    /\ UNCHANGED <<chainVars, btcVars, task, lock, issue, skipped, subscribed, inbox, clean, faults>>

\* ... from the current height.
StartAtTip ==
    /\ phase = "count"
    /\ next' = tip
    /\ phase' = "up"
    /\ UNCHANGED <<chainVars, btcVars, setVars, task, lock, issue, skipped, subscribed, inbox, clean,
                   faults>>

\* on_event: the subscription first yields the head of that moment.
Subscribe(l) ==
    /\ phase = "up"
    /\ l \notin subscribed
    /\ subscribed' = subscribed \cup {l}
    /\ inbox' = inbox \cup {e \in fresh : e[1] = l}
    /\ UNCHANGED <<chainVars, btcVars, phase, setVars, streamVars, clean, faults>>

\* Mutant of HandleEvent: key and value are swapped.
HandleEventSwapped(e) ==
    /\ e \in inbox
    /\ lock = Free
    /\ inbox' = inbox \ {e}
    /\ watched' = IF e[1] = "request" THEN watched \cup {e[1]} ELSE watched \ {e[1]}
    /\ UNCHANGED <<chainVars, btcVars, phase, since, streamVars, subscribed, clean, faults>>

\* listen_for_issue_requests, _executes and _cancels, once they get the lock.
HandleEvent(e) ==
    /\ e \in inbox
    /\ lock = Free
    /\ inbox' = inbox \ {e}
    /\ IF e[1] = "request"
       THEN /\ watched' = watched \cup {e[2]}
            /\ since' = [since EXCEPT ![e[2]] = IF e[2] \in watched THEN @ ELSE next]
       ELSE watched' = watched \ {e[2]} /\ since' = [since EXCEPT ![e[2]] = 0]
    /\ UNCHANGED <<chainVars, btcVars, phase, streamVars, subscribed, clean, faults>>

\* stream_in_chain_transactions: the next block has its confirmations; a task
\* is spawned for each of its transactions.
NextBlock ==
    /\ phase = "up"
    /\ Confirmed(next)
    /\ next' = next + 1
    /\ task' = [k \in Tasks |-> IF minedAt[k[1]] = next /\ next > 0 /\ k[2] = BlockAt(next)
                                THEN "lock" ELSE task[k]]
    /\ UNCHANGED <<chainVars, btcVars, phase, setVars, lock, issue, skipped, subscribed, inbox, clean,
                   faults>>

StopGeneration ==
    /\ phase' = "query"
    /\ watched' = {}
    /\ since' = [i \in Issues |-> 0]
    /\ next' = 0
    /\ clean' = TRUE
    /\ lock' = Free /\ issue' = Free
    /\ task' = [k \in Tasks |-> "none"]
    /\ skipped' = {}
    /\ subscribed' = {} /\ inbox' = {}
    /\ UNCHANGED <<chainVars, btcVars>>

\* The process dies, or the stream or another service fails.
Crash ==
    /\ phase # "query"
    /\ faults < MaxFaults
    /\ faults' = faults + 1
    /\ StopGeneration

----------------------------------------------------------------------------
(***************************************************************************)
(* process_transaction_and_execute_issue, for the transaction k[1] of      *)
(* block k[2].                                                             *)
(***************************************************************************)

\* Output n of t is the first to a watched address.
FirstHit(t, n) ==
    /\ n \in DOMAIN outputs[t] /\ outputs[t][n][1] \in watched
    /\ \A m \in DOMAIN outputs[t] : m < n => outputs[t][m][1] \notin watched

\* The outputs of t behind the first to a watched address.
Behind(t) ==
    {<<t, outputs[t][n][1]>> :
        n \in {m \in DOMAIN outputs[t] :
                \E l \in DOMAIN outputs[t] : l < m /\ outputs[t][l][1] \in watched}}

\* No watched address was paid, or the first one too little: nothing to do.
NoDeposit(k) ==
    /\ task[k] = "lock" /\ lock = Free
    /\ \A n \in DOMAIN outputs[k[1]] : FirstHit(k[1], n) => outputs[k[1]][n][2] = "short"
    /\ task' = [task EXCEPT ![k] = "none"]
    /\ skipped' = skipped \cup Behind(k[1])
    /\ UNCHANGED <<chainVars, btcVars, phase, setVars, next, lock, issue, subscribed, inbox,
                   clean, faults>>

\* A deposit: its request is taken out of the set, and the set kept locked.
Deposit(k) ==
    /\ task[k] = "lock" /\ lock = Free
    /\ \E n \in DOMAIN outputs[k[1]] :
        LET i == outputs[k[1]][n][1] IN
        /\ FirstHit(k[1], n) /\ outputs[k[1]][n][2] = "full"
        /\ task' = [task EXCEPT ![k] = "relay"]
        /\ lock' = k /\ issue' = i
        /\ watched' = watched \ {i}
        /\ since' = [since EXCEPT ![i] = 0]
    /\ skipped' = skipped \cup Behind(k[1])
    /\ UNCHANGED <<chainVars, btcVars, phase, next, subscribed, inbox, clean, faults>>

\* get_issue_request fails after the lookup: the transaction is dropped.
LookupFails(k) ==
    /\ task[k] = "lock" /\ lock = Free
    /\ \E n \in DOMAIN outputs[k[1]] : FirstHit(k[1], n)
    /\ faults < MaxFaults
    /\ task' = [task EXCEPT ![k] = "none"]
    /\ clean' = FALSE
    /\ faults' = faults + 1
    /\ UNCHANGED <<chainVars, btcVars, phase, setVars, next, lock, issue, skipped, subscribed, inbox>>

Goto(k, pc) ==
    /\ task' = [task EXCEPT ![k] = pc]
    /\ UNCHANGED <<chainVars, btcVars, phase, setVars, next, lock, issue, skipped, subscribed, inbox,
                   clean, faults>>

\* The task returns, and the set is unlocked.
Unlock(k) ==
    /\ task' = [task EXCEPT ![k] = "none"]
    /\ lock' = Free /\ issue' = Free
    /\ UNCHANGED <<btcVars, phase, setVars, next, skipped, subscribed>>

Return(k) == Unlock(k) /\ UNCHANGED <<chainVars, inbox, clean, faults>>

\* wait_for_block_in_relay: until it is there, or found to be in a fork; a
\* block that the relay never hears of is waited for forever.
Relayed(k) ==
    /\ task[k] = "relay"
    /\ \/ InRelay(k[2]) /\ Goto(k, "delay")
       \/ k[2] \in stale /\ Return(k)

\* RandomDelay::delay, then a look whether somebody was faster.
Delayed(k) ==
    /\ task[k] = "delay"
    /\ IF status[issue] = "completed" THEN Return(k) ELSE Goto(k, "metadata")

\* wait_for_transaction_metadata, with the block given: asks until the block is
\* on the chain, with its confirmations, ...
OnChain(b) == b = BlockAt(b[1]) /\ Confirmed(b[1])

Metadata(k) ==
    /\ task[k] = "metadata"
    /\ OnChain(k[2])
    /\ Goto(k, "execute")

\* ... or for a day.
MetadataTimesOut(k) ==
    /\ task[k] = "metadata"
    /\ ~ OnChain(k[2])
    /\ Return(k)

ExecuteIssue(k) ==
    /\ task[k] = "execute"
    /\ Unlock(k)
    /\ IF Executes(issue, k[1], k[2])
       THEN /\ status' = [status EXCEPT ![issue] = "completed"]
            /\ Finalize({<<"close", issue>>})
       ELSE UNCHANGED <<status, fresh, inbox>>
    /\ UNCHANGED <<overdue, btcHeight, clean, faults>>

\* A call fails: the error is logged, and the request is no longer watched.
TaskFails(k) ==
    /\ lock = k
    /\ faults < MaxFaults
    /\ faults' = faults + 1
    /\ Unlock(k)
    /\ clean' = FALSE
    /\ UNCHANGED <<chainVars, inbox>>

----------------------------------------------------------------------------
\* A task that cannot go on.
Stuck(k) ==
    \/ task[k] = "none"
    \/ task[k] = "lock" /\ lock # Free
    \/ task[k] = "relay" /\ ~InRelay(k[2]) /\ k[2] \notin stale
    \/ task[k] = "metadata" /\ ~OnChain(k[2])

\* Mutant of RestartTimer: the service runs until it fails.
NoRestartTimer == FALSE

\* The restart timer (three hours) fires: everything that could run has run.
RestartTimer ==
    /\ phase = "up"
    /\ subscribed = Listeners
    /\ inbox = {} \/ lock # Free
    /\ ~Confirmed(next)
    /\ \A k \in Tasks : Stuck(k)
    /\ StopGeneration
    /\ UNCHANGED faults

Environment ==
    \/ \E i \in Issues : RequestIssue(i) \/ PeriodPasses(i) \/ CancelIssue(i) \/ ExecutedByOther(i)
    \/ \E t \in Transactions, out \in Outputs : Send(t, out)
    \/ \E T \in SUBSET Transactions : Mine(T)
    \/ EmptyBlock \/ RelayBlock
    \/ \E h \in BtcHeights : Reorg(h)

Generation ==
    \/ InitializeIssueSet \/ StartAtTip \/ NextBlock \/ Crash \/ RestartTimer
    \/ \E l \in Listeners : Subscribe(l)
    \/ \E e \in Events : HandleEvent(e)

TaskStep(k) ==
    \/ NoDeposit(k) \/ Deposit(k) \/ LookupFails(k) \/ Relayed(k) \/ Delayed(k) \/ Metadata(k)
    \/ MetadataTimesOut(k) \/ ExecuteIssue(k) \/ TaskFails(k)

Next == Environment \/ Generation \/ \E k \in Tasks : TaskStep(k)

Spec == Init /\ [][Next]_vars

\* What a task does if no call fails.
Proceed(k) ==
    \/ NoDeposit(k) \/ Deposit(k) \/ Relayed(k) \/ Delayed(k) \/ Metadata(k) \/ ExecuteIssue(k)

\* The service runs, the relay follows bitcoin, and calls are answered.  The
\* lock is served in order, and a generation has finitely many tasks and
\* events that want it.
Fairness ==
    /\ WF_vars(RelayBlock)
    /\ WF_vars(InitializeIssueSet \/ StartAtTip)
    /\ WF_vars(\E l \in Listeners : Subscribe(l))
    /\ WF_vars(NextBlock)
    /\ WF_vars(RestartTimer)
    /\ SF_vars(\E e \in Events : HandleEvent(e))
    /\ SF_vars(\E k \in Tasks : Proceed(k))

FairSpec == Spec /\ Fairness

----------------------------------------------------------------------------
\* A request with a sufficient and confirmed deposit that can be executed.  If
\* the transaction pays other requests before it, it pays them enough: a
\* payment that is too small hides the ones behind it, in every generation.
Executable(i) ==
    /\ i \in Active
    /\ \E t \in Transactions :
        /\ minedAt[t] > 0 /\ relayed + 1 >= minedAt[t] + Confirmations
        /\ \E n \in DOMAIN outputs[t] :
            outputs[t][n][1] = i /\ \A m \in 1..n : outputs[t][m][2] = "full"

\* No deposit to a watched address is overlooked: if the stream has passed the
\* block of a deposit, made while the request was watched, the transaction has
\* yet to be looked up, or an output before the deposit was found in its place,
\* as only the first one found is looked at.  Not so after a fork or a failed
\* call.
NothingOverlooked ==
    clean /\ phase = "up" =>
        \A i \in watched, t \in Transactions :
            Pays(t, i) /\ minedAt[t] > 0 /\ minedAt[t] >= since[i] /\ minedAt[t] < next =>
                task[<<t, BlockAt(minedAt[t])>>] = "lock" \/ <<t, i>> \in skipped

\* A request whose deposit is confirmed is executed before its period has
\* passed, whenever the deposit was made and whatever the stream skipped: the
\* next generation starts at the height of the oldest request.
EventuallyExecuted == \A i \in Issues : Executable(i) ~> ~Executable(i)
============================================================================
