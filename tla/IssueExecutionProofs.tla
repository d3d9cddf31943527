------------------------ MODULE IssueExecutionProofs ------------------------
(***************************************************************************)
(* Proofs about IssueExecution, for any requests, transactions, heights    *)
(* and faults: type correctness, and that no deposit to a watched address  *)
(* is overlooked, unless the transaction also pays one before it.          *)
(***************************************************************************)
EXTENDS IssueExecution, TLAPS

Executing == {"relay", "delay", "metadata", "execute"}

\* The set is locked by the one task that executes a request.
LockHeld ==
    /\ \A k \in Tasks : task[k] \in Executing <=> lock = k
    /\ lock # Free => issue \in Issues

\* Before the service is up, nobody listens; before the stream has a start
\* height, nothing is watched.
UpFirst ==
    /\ phase # "up" => inbox = {} /\ subscribed = {}
    /\ phase = "count" => watched = {}

\* The stream is not ahead of the chain, and no request is newer than it.
NotAhead ==
    /\ phase = "up" => next <= tip + 1
    /\ \A i \in Issues : btcHeight[i] <= tip

\* Only transactions that were sent are mined.
MinedWasSent == \A t \in Transactions : outputs[t] = <<>> => minedAt[t] = 0

\* The stream has passed the blocks whose transactions have tasks, so that
\* there is one task for each.
Spawned == \A k \in Tasks : task[k] # "none" => phase = "up" /\ k[2][1] < next

IInv == TypeOK /\ LockHeld /\ UpFirst /\ NotAhead /\ MinedWasSent /\ Spawned

----------------------------------------------------------------------------
\* A task is not the sign for a set that is not locked.
LEMMA TaskNotFree == \A k \in Tasks : k # Free /\ k = <<k[1], k[2]>> /\ k[1] \in Transactions /\ k[2] \in Blocks
BY DEF Tasks, Free

\* What is known of the outputs of a transaction.
LEMMA OutputTypes ==
    ASSUME NEW out \in Outputs
    PROVE  \A n \in DOMAIN out : out[n][1] \in Issues /\ out[n][2] \in {"full", "short"}
BY DEF Outputs

LEMMA NoOutputs == <<>> \in Outputs
<1>1. <<>> \in [1..0 -> Issues \X {"full", "short"}] /\ 0 \in 0..MaxOutputs
  BY IssueExecutionAssumption
<1>2. DOMAIN <<>> = {}
  OBVIOUS
<1> QED
  BY <1>1, <1>2 DEF Outputs

\* What is skipped is known.
LEMMA BehindTypes ==
    ASSUME TypeOK, NEW t \in Transactions
    PROVE  Behind(t) \subseteq Transactions \X Issues
BY OutputTypes DEF TypeOK, Behind

\* Initially all is well.
LEMMA InitInv == Init => IInv
<1> SUFFICES ASSUME Init PROVE IInv
  OBVIOUS
<1> USE IssueExecutionAssumption
<1>1. TypeOK
  BY NoOutputs DEF Init, TypeOK, BtcHeights, ForkNumbers, Free
<1>2. LockHeld
  BY TaskNotFree DEF Init, LockHeld, Executing
<1>3. UpFirst /\ MinedWasSent /\ Spawned
  BY DEF Init, UpFirst, MinedWasSent, Spawned
<1>4. NotAhead
  BY DEF Init, NotAhead
<1> QED
  BY <1>1, <1>2, <1>3, <1>4 DEF IInv

\* Steps of the parachain, bitcoin and the relay.
LEMMA EnvironmentInv == IInv /\ Environment => IInv'
<1> SUFFICES ASSUME IInv, Environment PROVE IInv'
  OBVIOUS
<1> USE IssueExecutionAssumption
<1>1. ASSUME NEW i \in Issues, RequestIssue(i) PROVE IInv'
  <2>1. TypeOK'
    BY <1>1 DEF IInv, TypeOK, RequestIssue, Finalize, Events, Listeners, BtcHeights,
                btcVars, setVars, streamVars
  <2>2. LockHeld' /\ UpFirst' /\ MinedWasSent' /\ Spawned'
    BY <1>1 DEF IInv, LockHeld, UpFirst, MinedWasSent, Spawned, RequestIssue, Finalize,
                btcVars, setVars, streamVars
  <2>3. NotAhead'
    BY <1>1 DEF IInv, TypeOK, NotAhead, RequestIssue, BtcHeights, btcVars, streamVars
  <2> QED
    BY <2>1, <2>2, <2>3 DEF IInv
<1>2. ASSUME NEW i \in Issues, PeriodPasses(i) PROVE IInv'
  BY <1>2 DEF IInv, TypeOK, LockHeld, UpFirst, NotAhead, MinedWasSent, Spawned, PeriodPasses,
              btcVars, setVars, streamVars
<1>3. ASSUME NEW i \in Issues, CancelIssue(i) \/ ExecutedByOther(i) PROVE IInv'
  <2>1. /\ status' \in {[status EXCEPT ![i] = "cancelled"], [status EXCEPT ![i] = "completed"]}
        /\ Finalize({<<"close", i>>})
        /\ UNCHANGED <<overdue, btcHeight, btcVars, phase, setVars, streamVars, subscribed,
                       clean, faults>>
    BY <1>3 DEF CancelIssue, ExecutedByOther
  <2>2. TypeOK'
    BY <2>1 DEF IInv, TypeOK, Finalize, Events, Listeners, btcVars, setVars, streamVars
  <2>3. LockHeld' /\ UpFirst' /\ MinedWasSent' /\ NotAhead' /\ Spawned'
    BY <2>1 DEF IInv, LockHeld, UpFirst, MinedWasSent, Spawned, NotAhead, Finalize,
                btcVars, setVars, streamVars
  <2> QED
    BY <2>2, <2>3 DEF IInv
<1>4. ASSUME NEW t \in Transactions, NEW out \in Outputs, Send(t, out) PROVE IInv'
  BY <1>4 DEF IInv, TypeOK, LockHeld, UpFirst, NotAhead, MinedWasSent, Spawned, Send,
              chainVars, setVars, streamVars
<1>5. ASSUME NEW T \in SUBSET Transactions, Mine(T) PROVE IInv'
  <2>1. tip' = tip + 1 /\ tip' \in BtcHeights /\ tip \in Nat /\ next \in Nat
    BY <1>5 DEF IInv, TypeOK, Mine, BtcHeights
  <2>2. TypeOK'
    BY <1>5, <2>1 DEF IInv, TypeOK, Mine, BtcHeights, chainVars, setVars, streamVars
  <2>3. LockHeld' /\ UpFirst' /\ MinedWasSent' /\ Spawned'
    BY <1>5 DEF IInv, LockHeld, UpFirst, MinedWasSent, Spawned, Mine, chainVars, setVars, streamVars
  <2>4. NotAhead'
    BY <1>5, <2>1 DEF IInv, TypeOK, NotAhead, Mine, BtcHeights, chainVars, setVars, streamVars
  <2> QED
    BY <2>2, <2>3, <2>4 DEF IInv
<1>6. CASE EmptyBlock
  BY <1>6 DEF IInv, TypeOK, LockHeld, UpFirst, NotAhead, MinedWasSent, Spawned, EmptyBlock, Finalize,
              btcVars, setVars, streamVars
<1>7. CASE RelayBlock
  BY <1>7 DEF IInv, TypeOK, LockHeld, UpFirst, NotAhead, MinedWasSent, Spawned, RelayBlock, BtcHeights,
              chainVars, setVars, streamVars
<1>8. ASSUME NEW h \in BtcHeights, Reorg(h) PROVE IInv'
  <2>1. tip' = tip + 1 /\ tip' \in BtcHeights /\ tip \in Nat /\ next \in Nat
    BY <1>8 DEF IInv, TypeOK, Reorg, BtcHeights
  <2>2. stale' \subseteq Blocks /\ faults' \in ForkNumbers /\ relayed' \in 0..tip'
    <3>1. \A k \in (h + 1)..relayed : k \in BtcHeights /\ fork[k] \in ForkNumbers
      BY <1>8 DEF IInv, TypeOK, BtcHeights
    <3>2. \A k \in (h + 1)..relayed : BlockAt(k) \in Blocks
      BY <3>1 DEF BlockAt, Blocks
    <3>3. stale' \subseteq Blocks
      BY <1>8, <3>2 DEF IInv, TypeOK, Reorg
    <3>4. faults' \in ForkNumbers
      BY <1>8 DEF IInv, TypeOK, Reorg, ForkNumbers
    <3>5. relayed' \in 0..tip'
      BY <1>8, <2>1 DEF IInv, TypeOK, Reorg, BtcHeights
    <3> QED
      BY <3>3, <3>4, <3>5
  <2>3. TypeOK'
    BY <1>8, <2>1, <2>2 DEF IInv, TypeOK, Reorg, BtcHeights, ForkNumbers, chainVars, setVars,
                            streamVars
  <2>4. LockHeld' /\ UpFirst' /\ MinedWasSent' /\ Spawned'
    BY <1>8 DEF IInv, LockHeld, UpFirst, MinedWasSent, Spawned, Reorg, chainVars, setVars, streamVars
  <2>5. NotAhead'
    BY <1>8, <2>1 DEF IInv, TypeOK, NotAhead, Reorg, BtcHeights, chainVars, setVars, streamVars
  <2> QED
    BY <2>3, <2>4, <2>5 DEF IInv
<1> QED
  BY <1>1, <1>2, <1>3, <1>4, <1>5, <1>6, <1>7, <1>8 DEF Environment

\* Steps of a generation.
LEMMA GenerationInv == IInv /\ Generation => IInv'
<1> SUFFICES ASSUME IInv, Generation PROVE IInv'
  OBVIOUS
<1> USE IssueExecutionAssumption
<1>1. CASE InitializeIssueSet
  <2>1. /\ phase = "query" /\ watched' = Active /\ phase' \in {"count", "up"}
        /\ phase' = "count" => Active = {} /\ next' = next
        /\ phase' = "up" => \E i \in Active : next' = btcHeight[i]
        /\ since' = [i \in Issues |-> IF i \in Active THEN btcHeight[i] ELSE 0]
        /\ UNCHANGED <<chainVars, btcVars, task, lock, issue, skipped, subscribed, inbox, clean, faults>>
    BY <1>1 DEF InitializeIssueSet
  <2>2. Active \subseteq Issues
    BY DEF Active
  <2>3. next' \in 0..(MaxHeight + 1) /\ (phase' = "up" => next' <= tip)
    BY <2>1, <2>2 DEF IInv, TypeOK, NotAhead, BtcHeights
  <2>4. since' \in [Issues -> 0..(MaxHeight + 1)]
    BY <2>1 DEF IInv, TypeOK, BtcHeights
  <2>5. TypeOK'
    BY <2>1, <2>2, <2>3, <2>4 DEF IInv, TypeOK, chainVars, btcVars
  <2>6. LockHeld' /\ UpFirst' /\ MinedWasSent' /\ Spawned'
    BY <2>1 DEF IInv, LockHeld, UpFirst, MinedWasSent, Spawned, chainVars, btcVars
  <2>7. NotAhead'
    BY <2>1, <2>3 DEF IInv, TypeOK, NotAhead, BtcHeights, chainVars, btcVars
  <2> QED
    BY <2>5, <2>6, <2>7 DEF IInv
<1>2. CASE StartAtTip
  BY <1>2 DEF IInv, TypeOK, LockHeld, UpFirst, NotAhead, MinedWasSent, Spawned, StartAtTip, BtcHeights,
              chainVars, btcVars, setVars
<1>3. CASE NextBlock
  <2>1. next \in Nat /\ tip \in Nat /\ tip <= MaxHeight /\ next' = next + 1 /\ next <= tip
    BY <1>3 DEF IInv, TypeOK, NextBlock, Confirmed, BtcHeights
  <2>2. /\ \A k \in Tasks : task'[k] \in {"lock", task[k]}
        /\ task' \in [Tasks -> {"none", "lock", "relay", "delay", "metadata", "execute"}]
        /\ UNCHANGED <<chainVars, btcVars, phase, setVars, lock, issue, skipped, subscribed, inbox, clean, faults>>
    BY <1>3 DEF IInv, TypeOK, NextBlock
  <2>3. TypeOK' /\ UpFirst' /\ MinedWasSent' /\ NotAhead'
    BY <2>1, <2>2 DEF IInv, TypeOK, UpFirst, MinedWasSent, NotAhead, chainVars, btcVars, setVars
  <2>4. \A k \in Tasks : task[k] \in Executing => task'[k] = task[k]
    <3>1. ASSUME NEW k \in Tasks, task[k] \in Executing PROVE k[2] # BlockAt(next)
      BY <3>1, <2>1 DEF IInv, Spawned, BlockAt, Executing
    <3> QED
      BY <1>3, <3>1 DEF NextBlock
  <2>5. LockHeld'
    BY <2>2, <2>4 DEF IInv, LockHeld, Executing
  <2>6. Spawned'
    <3>1. ASSUME NEW k \in Tasks, task'[k] # "none" PROVE k[2][1] < next'
      <4>1. task[k] # "none" \/ k[2] = BlockAt(next)
        BY <1>3, <3>1 DEF NextBlock
      <4>2. k[2][1] \in Nat
        BY TaskNotFree DEF Blocks, BtcHeights
      <4> QED
        BY <2>1, <4>1, <4>2 DEF IInv, Spawned, BlockAt
    <3> QED
      BY <1>3, <3>1 DEF Spawned, NextBlock
  <2> QED
    BY <2>3, <2>5, <2>6 DEF IInv
<1>4. ASSUME NEW l \in Listeners, Subscribe(l) PROVE IInv'
  BY <1>4 DEF IInv, TypeOK, LockHeld, UpFirst, NotAhead, MinedWasSent, Spawned, Subscribe,
              chainVars, btcVars, setVars, streamVars
<1>5. ASSUME NEW e \in Events, HandleEvent(e) PROVE IInv'
  <2>1. e[2] \in Issues /\ phase = "up"
    BY <1>5 DEF IInv, UpFirst, Events, HandleEvent
  <2>2. watched' \subseteq Issues /\ since' \in [Issues -> 0..(MaxHeight + 1)]
    BY <1>5, <2>1 DEF IInv, TypeOK, HandleEvent, streamVars
  <2>3. TypeOK'
    BY <1>5, <2>2 DEF IInv, TypeOK, HandleEvent, chainVars, btcVars, streamVars
  <2>4. LockHeld' /\ UpFirst' /\ NotAhead' /\ MinedWasSent' /\ Spawned'
    BY <1>5, <2>1 DEF IInv, LockHeld, UpFirst, NotAhead, MinedWasSent, Spawned, HandleEvent,
                      chainVars, btcVars, streamVars
  <2> QED
    BY <2>3, <2>4 DEF IInv
<1>6. ASSUME StopGeneration, faults' \in 0..MaxFaults PROVE IInv'
  <2>1. TypeOK'
    BY <1>6 DEF IInv, TypeOK, StopGeneration, chainVars, btcVars
  <2>2. LockHeld'
    BY <1>6, TaskNotFree DEF LockHeld, StopGeneration, Executing
  <2>3. UpFirst' /\ NotAhead' /\ MinedWasSent' /\ Spawned'
    BY <1>6 DEF IInv, UpFirst, NotAhead, MinedWasSent, Spawned, StopGeneration, chainVars, btcVars
  <2> QED
    BY <2>1, <2>2, <2>3 DEF IInv
<1>7. CASE Crash
  BY <1>6, <1>7 DEF IInv, TypeOK, Crash
<1>8. CASE RestartTimer
  BY <1>6, <1>8 DEF IInv, TypeOK, RestartTimer
<1> QED
  BY <1>1, <1>2, <1>3, <1>4, <1>5, <1>7, <1>8 DEF Generation

\* Steps of a task.
LEMMA TaskStepInv == ASSUME IInv, NEW k \in Tasks, TaskStep(k) PROVE IInv'
<1> USE IssueExecutionAssumption
<1>1. k # Free /\ k[1] \in Transactions /\ outputs[k[1]] \in Outputs /\ k[2] \in Blocks
  BY TaskNotFree DEF IInv, TypeOK
<1>2. ASSUME Goto(k, "delay") \/ Goto(k, "metadata") \/ Goto(k, "execute"), lock = k
      PROVE  IInv'
  <2>1. PICK pc \in Executing : task' = [task EXCEPT ![k] = pc]
    BY <1>2 DEF Goto, Executing
  <2>2. UNCHANGED <<chainVars, btcVars, phase, setVars, next, lock, issue, skipped, subscribed, inbox,
                    clean, faults>>
    BY <1>2 DEF Goto
  <2>3. TypeOK'
    BY <2>1, <2>2 DEF IInv, TypeOK, Executing, chainVars, btcVars, setVars
  <2>4. LockHeld'
    BY <1>2, <2>1, <2>2 DEF IInv, TypeOK, LockHeld
  <2>5. Spawned'
    BY <1>2, <2>1, <2>2 DEF IInv, TypeOK, LockHeld, Spawned, Executing
  <2>6. UpFirst' /\ NotAhead' /\ MinedWasSent'
    BY <2>2 DEF IInv, UpFirst, NotAhead, MinedWasSent, chainVars, btcVars, setVars
  <2> QED
    BY <2>3, <2>4, <2>5, <2>6 DEF IInv
<1>3. ASSUME Unlock(k), lock = k,
             status' \in [Issues -> {"none", "pending", "completed", "cancelled"}],
             fresh' \subseteq Events, inbox' \subseteq Events, subscribed = {} => inbox' = inbox,
             clean' \in BOOLEAN, faults' \in 0..MaxFaults, UNCHANGED <<overdue, btcHeight>>
      PROVE  IInv'
  <2>1. TypeOK'
    BY <1>3 DEF IInv, TypeOK, Unlock, btcVars, setVars
  <2>2. LockHeld'
    BY <1>3, TaskNotFree DEF IInv, TypeOK, LockHeld, Unlock, Executing
  <2>3. UpFirst' /\ NotAhead' /\ MinedWasSent' /\ Spawned'
    BY <1>3 DEF IInv, TypeOK, UpFirst, NotAhead, MinedWasSent, Spawned, Unlock, btcVars, setVars
  <2> QED
    BY <2>1, <2>2, <2>3 DEF IInv
<1>4. ASSUME Return(k), lock = k PROVE IInv'
  BY <1>3, <1>4 DEF Return, IInv, TypeOK, chainVars
<1>5. task[k] \in Executing => lock = k
  BY DEF IInv, LockHeld
<1>6. CASE NoDeposit(k) \/ LookupFails(k)
  <2>1. /\ task' = [task EXCEPT ![k] = "none"] /\ task[k] = "lock"
        /\ UNCHANGED <<chainVars, btcVars, phase, setVars, next, lock, issue, subscribed, inbox>>
    BY <1>6 DEF NoDeposit, LookupFails
  <2>2. clean' \in BOOLEAN
    BY <1>6 DEF IInv, TypeOK, NoDeposit, LookupFails
  <2>3. faults' \in 0..MaxFaults
    BY <1>6 DEF IInv, TypeOK, NoDeposit, LookupFails
  <2>4. skipped' \subseteq Transactions \X Issues
    <3>1. skipped' = skipped \/ skipped' = skipped \cup Behind(k[1])
      BY <1>6 DEF NoDeposit, LookupFails
    <3> QED
      BY <1>1, <3>1, BehindTypes DEF IInv, TypeOK
  <2> QED
    BY <2>1, <2>2, <2>3, <2>4 DEF IInv, TypeOK, LockHeld, UpFirst, NotAhead, MinedWasSent, Spawned, Executing,
                chainVars, btcVars, setVars
<1>7. CASE Deposit(k)
  <2>1. PICK i \in Issues :
          /\ task[k] = "lock" /\ lock = Free
          /\ task' = [task EXCEPT ![k] = "relay"] /\ lock' = k /\ issue' = i
          /\ watched' = watched \ {i} /\ since' = [since EXCEPT ![i] = 0]
    BY <1>1, <1>7, OutputTypes DEF Deposit
  <2>2. UNCHANGED <<chainVars, btcVars, phase, next, subscribed, inbox, clean, faults>>
    BY <1>7 DEF Deposit
  <2>0. skipped' \subseteq Transactions \X Issues
    <3>1. skipped' = skipped \cup Behind(k[1])
      BY <1>7 DEF Deposit
    <3> QED
      BY <1>1, <3>1, BehindTypes DEF IInv, TypeOK
  <2>3. TypeOK'
    BY <2>0, <2>1, <2>2 DEF IInv, TypeOK, chainVars, btcVars
  <2>4. LockHeld'
    BY <2>1, TaskNotFree DEF IInv, TypeOK, LockHeld, Executing
  <2>5. UpFirst' /\ NotAhead' /\ MinedWasSent' /\ Spawned'
    BY <2>1, <2>2 DEF IInv, TypeOK, UpFirst, NotAhead, MinedWasSent, Spawned, chainVars, btcVars
  <2> QED
    BY <2>3, <2>4, <2>5 DEF IInv
<1>8. CASE Relayed(k)
  BY <1>2, <1>4, <1>5, <1>8 DEF Relayed, Executing
<1>9. CASE Delayed(k)
  BY <1>2, <1>4, <1>5, <1>9 DEF Delayed, Executing
<1>10. CASE Metadata(k) \/ MetadataTimesOut(k)
  BY <1>2, <1>4, <1>5, <1>10 DEF Metadata, MetadataTimesOut, Executing
<1>11. CASE ExecuteIssue(k)
  <2>1. lock = k /\ issue \in Issues
    BY <1>1, <1>5, <1>11 DEF ExecuteIssue, Executing, IInv, LockHeld
  <2>2. <<"close", issue>> \in Events
    BY <2>1 DEF Events, Listeners
  <2>3. /\ status' \in [Issues -> {"none", "pending", "completed", "cancelled"}]
        /\ fresh' \subseteq Events /\ inbox' \subseteq Events /\ (subscribed = {} => inbox' = inbox)
    BY <1>11, <2>1, <2>2 DEF ExecuteIssue, Finalize, IInv, TypeOK
  <2> QED
    BY <1>3, <1>11, <2>1, <2>3 DEF ExecuteIssue, IInv, TypeOK
<1>12. CASE TaskFails(k)
  <2>1. clean' \in BOOLEAN
    BY <1>12 DEF TaskFails
  <2>2. faults' \in 0..MaxFaults
    BY <1>12 DEF TaskFails, IInv, TypeOK
  <2> QED
    BY <1>3, <1>12, <2>1, <2>2 DEF TaskFails, IInv, TypeOK, chainVars
<1> QED
  BY <1>6, <1>7, <1>8, <1>9, <1>10, <1>11, <1>12 DEF TaskStep

\* Every step preserves the invariant.
LEMMA NextInv == IInv /\ [Next]_vars => IInv'
<1> SUFFICES ASSUME IInv, [Next]_vars PROVE IInv'
  OBVIOUS
<1>1. CASE UNCHANGED vars
  BY <1>1 DEF IInv, TypeOK, LockHeld, UpFirst, NotAhead, MinedWasSent, Spawned, vars,
              chainVars, btcVars, setVars, streamVars
<1> QED
  BY <1>1, EnvironmentInv, GenerationInv, TaskStepInv DEF Next

\* Every variable keeps its type, and the set of watched requests is never
\* locked by a task that has returned.
THEOREM IssueExecutionTypeCorrect == Spec => []TypeOK
<1>1. IInv => TypeOK
  BY DEF IInv
<1> QED
  BY <1>1, InitInv, NextInv, PTL DEF Spec

----------------------------------------------------------------------------
(***************************************************************************)
(* Nothing is overlooked.  Given IInv the property is inductive: a request *)
(* is watched from a height that the stream has not passed, a block that   *)
(* is mined is one the stream has not passed, and a transaction leaves     *)
(* "lock" only when its request was not paid, is watched no more or is     *)
(* behind another one.                                                     *)
(***************************************************************************)

\* The task of a transaction in its block is one of Tasks.
LEMMA TaskOfDeposit ==
    ASSUME TypeOK, NEW t \in Transactions
    PROVE  <<t, BlockAt(minedAt[t])>> \in Tasks /\ minedAt[t] \in Nat
BY IssueExecutionAssumption DEF TypeOK, Tasks, Blocks, BlockAt, BtcHeights

\* Steps that leave alone what the property is about, or only end tasks that
\* are past the lookup, preserve it.
LEMMA LeftAlone ==
    ASSUME TypeOK, NothingOverlooked, UNCHANGED <<watched, since, outputs, minedAt, fork>>,
           phase' = "up" /\ clean' =>
             phase = "up" /\ clean /\ next' = next /\ skipped \subseteq skipped',
           \A k \in Tasks : task[k] = "lock" => task'[k] = "lock"
    PROVE  NothingOverlooked'
<1> SUFFICES ASSUME clean', phase' = "up", NEW i \in watched', NEW t \in Transactions,
                    Pays(t, i)', minedAt'[t] > 0, minedAt'[t] >= since'[i], minedAt'[t] < next'
             PROVE  task'[<<t, <<minedAt'[t], fork'[minedAt'[t]]>>>>] = "lock" \/ <<t, i>> \in skipped'
  BY DEF NothingOverlooked, BlockAt
<1>1. Pays(t, i)
  BY DEF Pays
<1>2. task[<<t, BlockAt(minedAt[t])>>] = "lock" \/ <<t, i>> \in skipped
  BY <1>1 DEF NothingOverlooked
<1> QED
  BY <1>2, TaskOfDeposit DEF BlockAt

\* What there is to show of a step that may disturb the property.
LEMMA ShowNotOverlooked ==
    ASSUME clean' /\ phase' = "up" =>
             \A i \in watched', t \in Transactions :
               Pays(t, i)' /\ minedAt'[t] > 0 /\ minedAt'[t] >= since'[i] /\ minedAt'[t] < next' =>
                 task'[<<t, <<minedAt'[t], fork'[minedAt'[t]]>>>>] = "lock" \/ <<t, i>> \in skipped'
    PROVE  NothingOverlooked'
BY DEF NothingOverlooked, BlockAt

\* Steps of the parachain, bitcoin and the relay overlook nothing.
LEMMA EnvironmentOverlooksNothing ==
    ASSUME IInv, NothingOverlooked, Environment
    PROVE  NothingOverlooked'
<1>1. ASSUME NEW i \in Issues,
             RequestIssue(i) \/ PeriodPasses(i) \/ CancelIssue(i) \/ ExecutedByOther(i)
      PROVE  NothingOverlooked'
  <2>1. UNCHANGED <<btcVars, phase, setVars, streamVars, clean>>
    BY <1>1 DEF RequestIssue, PeriodPasses, CancelIssue, ExecutedByOther
  <2> QED
    BY <2>1, LeftAlone DEF IInv, btcVars, setVars, streamVars
<1>2. CASE EmptyBlock \/ RelayBlock
  <2>1. UNCHANGED <<outputs, minedAt, fork, phase, setVars, streamVars, clean>>
    BY <1>2 DEF EmptyBlock, RelayBlock, btcVars
  <2> QED
    BY <2>1, LeftAlone DEF IInv, setVars, streamVars
<1>3. ASSUME NEW t \in Transactions, NEW out \in Outputs, Send(t, out) PROVE NothingOverlooked'
  <2>1. /\ outputs[t] = <<>> /\ minedAt[t] = 0
        /\ \A s \in Transactions : s # t => outputs'[s] = outputs[s]
        /\ UNCHANGED <<minedAt, fork, phase, setVars, streamVars, clean>>
    BY <1>3 DEF Send, IInv, TypeOK, MinedWasSent
  <2> SUFFICES ASSUME clean', phase' = "up", NEW i \in watched', NEW s \in Transactions,
                      Pays(s, i)', minedAt'[s] > 0, minedAt'[s] >= since'[i], minedAt'[s] < next'
               PROVE  task'[<<s, <<minedAt'[s], fork'[minedAt'[s]]>>>>] = "lock" \/ <<s, i>> \in skipped'
    BY ShowNotOverlooked
  <2>2. s # t /\ Pays(s, i)
    BY <2>1 DEF Pays
  <2> QED
    BY <2>1, <2>2 DEF NothingOverlooked, BlockAt, setVars, streamVars
<1>4. ASSUME NEW T \in SUBSET Transactions, Mine(T) PROVE NothingOverlooked'
  <2>1. /\ \A s \in Transactions : minedAt'[s] = minedAt[s] \/ minedAt'[s] = tip + 1
        /\ UNCHANGED <<outputs, fork, phase, setVars, streamVars, clean>>
    BY <1>4 DEF Mine
  <2>2. tip \in Nat /\ next \in Nat /\ (phase = "up" => next <= tip + 1)
    BY IssueExecutionAssumption DEF IInv, TypeOK, NotAhead, BtcHeights
  <2> SUFFICES ASSUME clean', phase' = "up", NEW i \in watched', NEW s \in Transactions,
                      Pays(s, i)', minedAt'[s] > 0, minedAt'[s] >= since'[i], minedAt'[s] < next'
               PROVE  task'[<<s, <<minedAt'[s], fork'[minedAt'[s]]>>>>] = "lock" \/ <<s, i>> \in skipped'
    BY ShowNotOverlooked
  <2>3. minedAt'[s] = minedAt[s]
    BY <2>1, <2>2 DEF streamVars
  <2>4. Pays(s, i)
    BY <2>1 DEF Pays
  <2> QED
    BY <2>1, <2>3, <2>4 DEF NothingOverlooked, BlockAt, setVars, streamVars
<1>5. ASSUME NEW h \in BtcHeights, Reorg(h) PROVE NothingOverlooked'
  BY <1>5, ShowNotOverlooked DEF Reorg
<1> QED
  BY <1>1, <1>2, <1>3, <1>4, <1>5 DEF Environment

\* Steps of a generation overlook nothing.
LEMMA GenerationOverlooksNothing ==
    ASSUME IInv, NothingOverlooked, Generation
    PROVE  NothingOverlooked'
<1> USE IssueExecutionAssumption
<1>1. CASE InitializeIssueSet
  <2>1. phase' = "up" => \A i \in watched' : since'[i] >= next' /\ next' \in Nat /\ since'[i] \in Nat
    BY <1>1 DEF InitializeIssueSet, IInv, TypeOK, Active, BtcHeights
  <2>2. \A t \in Transactions : minedAt'[t] \in Nat
    BY <1>1 DEF InitializeIssueSet, IInv, TypeOK, BtcHeights, btcVars
  <2> QED
    BY <2>1, <2>2, ShowNotOverlooked
<1>2. CASE StartAtTip
  BY <1>2, ShowNotOverlooked DEF StartAtTip, IInv, UpFirst, setVars
<1>3. CASE NextBlock
  <2>1. next' = next + 1 /\ next \in Nat /\ UNCHANGED <<btcVars, phase, setVars, skipped, clean>>
    BY <1>3 DEF NextBlock, IInv, TypeOK
  <2> SUFFICES ASSUME clean', phase' = "up", NEW i \in watched', NEW t \in Transactions,
                      Pays(t, i)', minedAt'[t] > 0, minedAt'[t] >= since'[i], minedAt'[t] < next'
               PROVE  task'[<<t, <<minedAt'[t], fork'[minedAt'[t]]>>>>] = "lock" \/ <<t, i>> \in skipped'
    BY ShowNotOverlooked
  <2>2. Pays(t, i) /\ minedAt'[t] = minedAt[t] /\ fork' = fork
    BY <2>1 DEF Pays, btcVars
  <2>3. <<t, BlockAt(minedAt[t])>> \in Tasks /\ minedAt[t] \in Nat
    BY TaskOfDeposit DEF IInv
  <2>4. CASE minedAt[t] = next
    BY <1>3, <2>2, <2>3, <2>4 DEF NextBlock, BlockAt
  <2>5. CASE minedAt[t] < next
    <3>1. task[<<t, BlockAt(minedAt[t])>>] = "lock" \/ <<t, i>> \in skipped
      BY <2>1, <2>2, <2>5 DEF NothingOverlooked, setVars
    <3> QED
      BY <1>3, <2>2, <2>3, <3>1 DEF NextBlock, BlockAt
  <2> QED
    BY <2>1, <2>2, <2>3, <2>4, <2>5
<1>4. ASSUME NEW l \in Listeners, Subscribe(l) PROVE NothingOverlooked'
  <2>1. UNCHANGED <<outputs, minedAt, fork, phase, watched, since, next, task, skipped, clean>>
    BY <1>4 DEF Subscribe, btcVars, setVars, streamVars
  <2> QED
    BY <2>1, LeftAlone DEF IInv
<1>5. ASSUME NEW e \in Events, HandleEvent(e) PROVE NothingOverlooked'
  <2>1. UNCHANGED <<outputs, minedAt, fork, phase, next, task, skipped, clean>>
    BY <1>5 DEF HandleEvent, btcVars, streamVars
  <2>2. \A i \in watched' : (i \in watched /\ since'[i] = since[i]) \/ since'[i] = next
    BY <1>5 DEF HandleEvent, IInv, TypeOK, Events
  <2>3. next \in Nat
    BY DEF IInv, TypeOK
  <2> SUFFICES ASSUME clean', phase' = "up", NEW i \in watched', NEW t \in Transactions,
                      Pays(t, i)', minedAt'[t] > 0, minedAt'[t] >= since'[i], minedAt'[t] < next'
               PROVE  task'[<<t, <<minedAt'[t], fork'[minedAt'[t]]>>>>] = "lock" \/ <<t, i>> \in skipped'
    BY ShowNotOverlooked
  <2>4. Pays(t, i) /\ minedAt[t] \in Nat
    BY <2>1, TaskOfDeposit DEF Pays, IInv
  <2>5. i \in watched /\ since'[i] = since[i]
    BY <2>1, <2>2, <2>3, <2>4
  <2> QED
    BY <2>1, <2>4, <2>5 DEF NothingOverlooked, BlockAt
<1>6. CASE Crash \/ RestartTimer
  BY <1>6, ShowNotOverlooked DEF Crash, RestartTimer, StopGeneration
<1> QED
  BY <1>1, <1>2, <1>3, <1>4, <1>5, <1>6 DEF Generation

\* Steps of a task overlook nothing but what is behind another output.
LEMMA TaskStepOverlooksNothing ==
    ASSUME IInv, NothingOverlooked, NEW k \in Tasks, TaskStep(k)
    PROVE  NothingOverlooked'
<1>1. k = <<k[1], k[2]>> /\ k[1] \in Transactions /\ outputs[k[1]] \in Outputs
  BY TaskNotFree DEF IInv, TypeOK
<1>2. ASSUME NEW pc, task[k] # "lock", task' = [task EXCEPT ![k] = pc],
             UNCHANGED <<btcVars, phase, setVars, next, skipped>>, clean' => clean
      PROVE  NothingOverlooked'
  <2>1. \A j \in Tasks : task[j] = "lock" => task'[j] = "lock"
    BY <1>2 DEF IInv, TypeOK
  <2> QED
    BY <1>2, <2>1, LeftAlone DEF IInv, btcVars, setVars
<1>3. ASSUME NEW pc, task[k] # "lock", Goto(k, pc) PROVE NothingOverlooked'
  BY <1>2, <1>3 DEF Goto
<1>4. ASSUME task[k] # "lock", Unlock(k), clean' => clean PROVE NothingOverlooked'
  BY <1>2, <1>4 DEF Unlock
<1>5. CASE NoDeposit(k)
  <2>1. /\ UNCHANGED <<outputs, minedAt, fork, phase, watched, since, next, clean>>
        /\ skipped' = skipped \cup Behind(k[1])
    BY <1>5 DEF NoDeposit, btcVars, setVars
  <2> SUFFICES ASSUME clean', phase' = "up", NEW i \in watched', NEW t \in Transactions,
                      Pays(t, i)', minedAt'[t] > 0, minedAt'[t] >= since'[i], minedAt'[t] < next',
                      <<t, i>> \notin skipped'
               PROVE  task'[<<t, <<minedAt'[t], fork'[minedAt'[t]]>>>>] = "lock"
    BY ShowNotOverlooked
  <2>2. Pays(t, i) /\ i \in watched
    BY <2>1 DEF Pays
  <2>3. task[<<t, BlockAt(minedAt[t])>>] = "lock"
    BY <2>1, <2>2 DEF NothingOverlooked
  <2>4. t # k[1]
    <3> SUFFICES ASSUME t = k[1] PROVE FALSE
      OBVIOUS
    <3>1. PICK n \in DOMAIN outputs[k[1]] : outputs[k[1]][n] = <<i, "full">>
      BY <2>2 DEF Pays
    <3>2. FirstHit(k[1], n)
      <4>1. ASSUME NEW m \in DOMAIN outputs[k[1]], m < n, outputs[k[1]][m][1] \in watched
            PROVE  FALSE
        <5>1. <<t, i>> \in Behind(k[1])
          BY <3>1, <4>1 DEF Behind
        <5> QED
          BY <2>1, <5>1
      <4> QED
        BY <2>2, <3>1, <4>1 DEF FirstHit
    <3> QED
      BY <1>5, <3>1, <3>2 DEF NoDeposit
  <2> QED
    BY <1>1, <1>5, <2>1, <2>3, <2>4, TaskOfDeposit DEF NoDeposit, IInv, TypeOK, BlockAt
<1>6. CASE Deposit(k)
  <2>1. PICK n \in DOMAIN outputs[k[1]] :
          /\ FirstHit(k[1], n)
          /\ task' = [task EXCEPT ![k] = "relay"]
          /\ watched' = watched \ {outputs[k[1]][n][1]}
          /\ since' = [since EXCEPT ![outputs[k[1]][n][1]] = 0]
    BY <1>6 DEF Deposit
  <2>2. /\ UNCHANGED <<outputs, minedAt, fork, phase, next, clean>>
        /\ skipped' = skipped \cup Behind(k[1])
    BY <1>6 DEF Deposit, btcVars
  <2> SUFFICES ASSUME clean', phase' = "up", NEW i \in watched', NEW t \in Transactions,
                      Pays(t, i)', minedAt'[t] > 0, minedAt'[t] >= since'[i], minedAt'[t] < next',
                      <<t, i>> \notin skipped'
               PROVE  task'[<<t, <<minedAt'[t], fork'[minedAt'[t]]>>>>] = "lock"
    BY ShowNotOverlooked
  <2>3. Pays(t, i) /\ i \in watched /\ i # outputs[k[1]][n][1]
    BY <2>1, <2>2 DEF Pays
  <2>4. since'[i] = since[i]
    BY <2>1, <2>3 DEF IInv, TypeOK
  <2>5. task[<<t, BlockAt(minedAt[t])>>] = "lock"
    BY <2>2, <2>3, <2>4 DEF NothingOverlooked
  <2>6. t # k[1]
    <3> SUFFICES ASSUME t = k[1] PROVE FALSE
      OBVIOUS
    <3>1. PICK m \in DOMAIN outputs[k[1]] : outputs[k[1]][m] = <<i, "full">>
      BY <2>3 DEF Pays
    <3>2. n \in Nat /\ m \in Nat
      BY <1>1, IssueExecutionAssumption DEF Outputs
    <3>3. ~ (m < n) /\ outputs[k[1]][n][1] \in watched
      BY <2>1, <2>3, <3>1 DEF FirstHit
    <3>4. n < m
      BY <2>3, <3>1, <3>2, <3>3
    <3>5. <<t, i>> \in Behind(k[1])
      BY <3>1, <3>3, <3>4 DEF Behind
    <3> QED
      BY <2>2, <3>5
  <2> QED
    BY <1>1, <2>1, <2>2, <2>5, <2>6, TaskOfDeposit DEF IInv, TypeOK, BlockAt
<1>7. CASE LookupFails(k)
  BY <1>7, ShowNotOverlooked DEF LookupFails
<1>8. CASE Relayed(k)
  BY <1>3, <1>4, <1>8 DEF Relayed, Return
<1>9. CASE Delayed(k)
  BY <1>3, <1>4, <1>9 DEF Delayed, Return
<1>10. CASE Metadata(k) \/ MetadataTimesOut(k)
  BY <1>3, <1>4, <1>10 DEF Metadata, MetadataTimesOut, Return
<1>11. CASE ExecuteIssue(k)
  BY <1>4, <1>11 DEF ExecuteIssue
<1>12. CASE TaskFails(k)
  BY <1>12, ShowNotOverlooked DEF TaskFails
<1> QED
  BY <1>5, <1>6, <1>7, <1>8, <1>9, <1>10, <1>11, <1>12 DEF TaskStep

\* No deposit to a watched address is overlooked by process_issue_requests, in
\* a generation without forks and failed calls, for any number of requests,
\* transactions, outputs and blocks, but for those behind another output to a
\* watched address in the same transaction.
THEOREM NoDepositOverlooked == Spec => []NothingOverlooked
<1>1. Init => NothingOverlooked
  BY DEF Init, NothingOverlooked
<1>2. IInv /\ NothingOverlooked /\ [Next]_vars => NothingOverlooked'
  <2> SUFFICES ASSUME IInv, NothingOverlooked, [Next]_vars PROVE NothingOverlooked'
    OBVIOUS
  <2>1. CASE UNCHANGED vars
    BY <2>1, LeftAlone DEF IInv, vars, btcVars, setVars, streamVars
  <2> QED
    BY <2>1, EnvironmentOverlooksNothing, GenerationOverlooksNothing, TaskStepOverlooksNothing
    DEF Next
<1> QED
  BY <1>1, <1>2, InitInv, NextInv, PTL DEF Spec

============================================================================
