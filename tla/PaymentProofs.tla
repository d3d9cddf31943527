--------------------------- MODULE PaymentProofs ---------------------------
(***************************************************************************)
(* Proofs about Payment: type correctness; that with a full node no        *)
(* generation of the vault pays a request that an earlier one has paid;    *)
(* and that no request is executed without a payment in the chain.         *)
(***************************************************************************)
EXTENDS Payment, TLAPS

\* No payment of r was made by an earlier generation.
NotOld(r) == \A n \in 1..MaxPayments : <<r, n>> \notin old

\* Exactly the payments that were sent are visible: in the mempool or in the
\* chain.
Visible ==
    \A p \in Payments :
        /\ sent[p] > 0 <=> mempool[p] # 0 \/ mined[p] # 0
        /\ depth[p] # "unmined" => mined[p] # 0

\* Only requests that the parachain knows are paid or about to be handled.
Known ==
    \A r \in Requests : status[r] = "none" =>
        /\ r \notin fresh /\ r \notin open /\ r \notin events
        /\ \A o \in Origins : task[<<r, o>>].pc = "none"
        /\ \A n \in 1..MaxPayments : sent[<<r, n>>] = 0

\* The payments of a request are all old or all of this generation.
OneGeneration ==
    \A p \in Payments : p \in old =>
        /\ sent[p] > 0
        /\ p[1] \notin slipped =>
              \A n \in 1..MaxPayments : sent[<<p[1], n>>] > 0 => <<p[1], n>> \in old

\* What the listeners have seen or will see was not paid by an earlier
\* generation: the head has moved since the generation started.
EventsNotOld ==
    \A r \in Requests :
        /\ r \in events => NotOld(r)
        /\ r \in fresh /\ (phase = "running" \/ newBlock) => NotOld(r)

\* What the executor has not found was not paid by an earlier generation: it
\* looks at the mempool first and then at the chain, between which only a
\* payment that slips away can be missed.
ScanNotOld ==
    \A r \in Requests : r \in open /\ r \notin slipped =>
        /\ executor = "chain" =>
              \A n \in 1..MaxPayments : <<r, n>> \in old => mined[<<r, n>>] # 0
        /\ executor = "rest" => NotOld(r)

\* A task that may still pay is for a request no earlier generation has paid.
PayersNotOld ==
    \A r \in Requests, o \in Origins :
        r \notin slipped /\ task[<<r, o>>].pc \in {"fetch", "check", "send"} => NotOld(r)

IInv ==
    /\ TypeOK /\ Visible /\ Known /\ OneGeneration /\ EventsNotOld
    /\ ScanNotOld /\ PayersNotOld

----------------------------------------------------------------------------
\* The task that is not there is a task.
LEMMA NoTaskType == NoTask \in Task /\ NoTasks \in [Requests \X Origins -> Task]
<1>1. NoTask \in Task
  BY PaymentAssumption DEF NoTask, Task, Unpaid
<1> QED
  BY <1>1 DEF NoTasks

\* The initial state is well typed.
LEMMA InitType == Init => TypeOK
<1> SUFFICES ASSUME Init PROVE TypeOK
  OBVIOUS
<1>1. /\ sent \in [Payments -> Versions]
      /\ mempool \in [Payments -> Versions]
      /\ mined \in [Payments -> Versions]
      /\ faults \in 0..MaxFaults
  BY PaymentAssumption DEF Init, Versions
<1>2. task \in [Requests \X Origins -> Task]
  BY NoTaskType DEF Init
<1> QED
  BY <1>1, <1>2 DEF Init, TypeOK

\* Steps of the parachain and of bitcoin preserve the types.
LEMMA EnvironmentType == TypeOK /\ Environment => TypeOK'
<1> SUFFICES ASSUME TypeOK, Environment PROVE TypeOK'
  OBVIOUS
<1> USE PaymentAssumption DEF TypeOK, Versions, chainVars, btcVars, procVars
<1>1. ASSUME NEW S \in SUBSET Requests, NewBlock(S) PROVE TypeOK'
  BY <1>1 DEF NewBlock
<1>2. ASSUME NEW r \in Requests, Expire(r) \/ Cancel(r) PROVE TypeOK'
  BY <1>2 DEF Expire, Cancel
<1>3. ASSUME NEW p \in Payments, Mine(p) PROVE TypeOK'
  BY <1>3 DEF Mine
<1>4. ASSUME NEW p \in Payments, Confirm(p) \/ RelayBlock(p) PROVE TypeOK'
  BY <1>4 DEF Confirm, RelayBlock
<1>5. ASSUME NEW p \in Payments, Reorg(p) PROVE TypeOK'
  <2>1. \A u \in Task : u.pc = "relay" => [u EXCEPT !.pc = "lost"] \in Task
    BY DEF Task, Unpaid, Following
  <2>2. task' \in [Requests \X Origins -> Task]
    BY <1>5, <2>1 DEF Reorg
  <2>3. slipped' \subseteq Requests
    BY <1>5 DEF Reorg, Payments
  <2> QED
    BY <1>5, <2>2, <2>3 DEF Reorg
<1> QED
  BY <1>1, <1>2, <1>3, <1>4, <1>5 DEF Environment

\* Steps that start and stop a generation and its listeners do.
LEMMA GenerationType == TypeOK /\ Generation => TypeOK'
<1> SUFFICES ASSUME TypeOK, Generation PROVE TypeOK'
  OBVIOUS
<1> USE PaymentAssumption DEF TypeOK, chainVars, btcVars
<1>1. CASE Boot \/ Start
  BY <1>1 DEF Boot, Start
<1>2. CASE Crash
  <2>1. task' \in [Requests \X Origins -> Task]
    BY <1>2, NoTaskType DEF Crash, StopGeneration
  <2>2. faults' \in 0..MaxFaults
    BY <1>2 DEF Crash
  <2> QED
    BY <1>2, <2>1, <2>2 DEF Crash, StopGeneration
<1>3. CASE RestartTimer
  BY <1>3, NoTaskType DEF RestartTimer, StopGeneration
<1>4. ASSUME NEW l \in Listeners, Subscribe(l) PROVE TypeOK'
  BY <1>4 DEF Subscribe
<1>5. ASSUME NEW r \in Requests, HandleEvent(r) PROVE TypeOK'
  <2>1. [NoTask EXCEPT !.pc = "fetch"] \in Task
    BY DEF NoTask, Task, Unpaid
  <2> QED
    BY <1>5, <2>1 DEF HandleEvent
<1> QED
  BY <1>1, <1>2, <1>3, <1>4, <1>5 DEF Generation

\* A tracker is a task.
LEMMA TrackType ==
  ASSUME TypeOK, NEW where \in [Payments -> Versions],
         NEW found \in Matches(where), Track(found, where)
  PROVE  task' \in [Requests \X Origins -> Task]
<1>1. found \in [open -> 0..MaxPayments]
  BY DEF Matches
<1>2. ASSUME NEW t \in Requests \X Origins,
             t[2] = "executor", t[1] \in open, found[t[1]] # 0
      PROVE  [pc |-> "wait", payment |-> found[t[1]],
              version |-> where[<<t[1], found[t[1]]>>]] \in Following
  <2>1. found[t[1]] \in 1..MaxPayments
    BY <1>1, <1>2, PaymentAssumption
  <2>2. where[<<t[1], found[t[1]]>>] # 0
    BY <1>2 DEF Matches
  <2>3. where[<<t[1], found[t[1]]>>] \in 1..MaxVersions
    BY <1>2, <2>1, <2>2, PaymentAssumption DEF Payments, Versions
  <2> QED
    BY <2>1, <2>3 DEF Following
<1> QED
  BY <1>1, <1>2 DEF Track, TypeOK, Task

\* Steps of execute_open_requests do.
LEMMA ExecutorType == TypeOK /\ Executor => TypeOK'
<1> SUFFICES ASSUME TypeOK, Executor PROVE TypeOK'
  OBVIOUS
<1> USE PaymentAssumption DEF TypeOK, chainVars, btcVars
<1>1. CASE QueryOpen
  BY <1>1 DEF QueryOpen, Pending
<1>2. ASSUME NEW where \in [Payments -> Versions], NEW next \in {"chain", "rest"},
             Scan(where, next)
      PROVE  TypeOK'
  BY <1>2, TrackType DEF Scan
<1>3. CASE ScanMempool \/ ScanChain
  BY <1>2, <1>3 DEF ScanMempool, ScanChain
<1>4. CASE RestDone
  BY <1>4 DEF RestDone
<1>5. ASSUME NEW r \in Requests, HandleRest(r) PROVE TypeOK'
  <2>1. [NoTask EXCEPT !.pc = "check"] \in Task
    BY DEF NoTask, Task, Unpaid
  <2>2. ASSUME NEW n \in DirectLookup(r)
        PROVE  [pc |-> "wait", payment |-> n, version |-> mined[<<r, n>>]] \in Task
    BY DEF DirectLookup, Task, Following, Payments, Versions
  <2> QED
    BY <1>5, <2>1, <2>2 DEF HandleRest
<1>6. ASSUME NEW r \in Requests, SkipRest(r) PROVE TypeOK'
  BY <1>6 DEF SkipRest
<1> QED
  BY <1>1, <1>3, <1>4, <1>5, <1>6 DEF Executor

\* Steps of a task do.
LEMMA TaskStepType ==
  ASSUME TypeOK, NEW t \in Requests \X Origins, TaskStep(t)
  PROVE  TypeOK'
<1> USE PaymentAssumption DEF TypeOK, chainVars, btcVars, SetTask
<1>1. task[t] \in Task
  OBVIOUS
<1>2. \A new \in Task : SetTask(t, new) => task' \in [Requests \X Origins -> Task]
  OBVIOUS
<1>3. CASE Fetch(t)
  <2>1. [task[t] EXCEPT !.pc = "check"] \in Task
    BY <1>1, <1>3 DEF Fetch, Task, Unpaid, Following
  <2> QED
    BY <1>2, <1>3, <2>1 DEF Fetch
<1>4. CASE Included(t)
  <2>1. [task[t] EXCEPT !.pc = "relay"] \in Task
    BY <1>1, <1>4 DEF Included, Task, Unpaid, Following
  <2> QED
    BY <1>2, <1>4, <2>1 DEF Included
<1>5. CASE CheckDeadline(t)
  <2>1. [task[t] EXCEPT !.pc = "send"] \in Task
    BY <1>1, <1>5 DEF CheckDeadline, Task, Unpaid, Following
  <2> QED
    BY <1>2, <1>5, <2>1, NoTaskType DEF CheckDeadline
<1>6. CASE Relayed(t) \/ ForkReported(t) \/ BlockReturns(t)
  <2>1. /\ [task[t] EXCEPT !.pc = "execute"] \in Task
        /\ [task[t] EXCEPT !.pc = "wait"] \in Task
        /\ [task[t] EXCEPT !.pc = "relay"] \in Task
    BY <1>1, <1>6 DEF Relayed, ForkReported, BlockReturns, Task, Unpaid, Following
  <2> QED
    BY <1>2, <1>6, <2>1 DEF Relayed, ForkReported, BlockReturns
<1>7. CASE Send(t)
  <2>1. PICK n \in 1..MaxPayments :
          /\ sent[<<t[1], n>>] = 0
          /\ \A m \in 1..(n - 1) : sent[<<t[1], m>>] > 0
          /\ sent' = [sent EXCEPT ![<<t[1], n>>] = 1]
          /\ mempool' = [mempool EXCEPT ![<<t[1], n>>] = 1]
          /\ SetTask(t, [pc |-> "wait", payment |-> n, version |-> 1])
    BY <1>7 DEF Send
  <2>2. 1 \in Versions
    BY DEF Versions
  <2>3. [pc |-> "wait", payment |-> n, version |-> 1] \in Task
    BY DEF Task, Following
  <2> QED
    BY <1>2, <1>7, <2>1, <2>2, <2>3 DEF Send
<1>8. CASE BumpFee(t)
  <2> DEFINE p == <<t[1], task[t].payment>>
             k == sent[p] + 1
  <2>1. p \in Payments /\ task[t] \in Following
    BY <1>1, <1>8 DEF BumpFee, Task, Unpaid, Following, Payments
  <2>2. k \in 1..MaxVersions
    BY <1>8, <2>1 DEF BumpFee, Versions
  <2>3. [task[t] EXCEPT !.version = k] \in Task
    BY <2>1, <2>2 DEF Task, Following
  <2>4. k \in Versions
    BY <2>2 DEF Versions
  <2>5. /\ SetTask(t, [task[t] EXCEPT !.version = k])
        /\ sent' = [sent EXCEPT ![p] = k]
        /\ mempool' = [mempool EXCEPT ![p] = k]
        /\ UNCHANGED <<chainVars, fullNode, mined, depth, old, slipped, faults>>
    BY <1>8 DEF BumpFee
  <2> HIDE DEF p, k
  <2> QED
    BY <1>2, <2>1, <2>3, <2>4, <2>5
<1>9. CASE Execute(t) \/ Fail(t)
  <2>1. task' \in [Requests \X Origins -> Task]
    BY <1>2, <1>9, NoTaskType DEF Execute, Fail
  <2>2. faults' \in 0..MaxFaults
    BY <1>9 DEF Execute, Fail
  <2>3. status' \in [Requests -> {"none", "pending", "executed", "cancelled"}]
    BY <1>9 DEF Execute, Fail
  <2> QED
    BY <1>9, <2>1, <2>2, <2>3 DEF Execute, Fail
<1> QED
  BY <1>3, <1>4, <1>5, <1>6, <1>7, <1>8, <1>9 DEF TaskStep

\* Every step preserves the types.
LEMMA NextType == TypeOK /\ [Next]_vars => TypeOK'
<1>1. TypeOK /\ UNCHANGED vars => TypeOK'
  BY DEF TypeOK, vars, chainVars, btcVars, procVars
<1> QED
  BY <1>1, EnvironmentType, GenerationType, ExecutorType, TaskStepType DEF Next

\* Type correctness of the payment component.
THEOREM TypeCorrect == Spec => []TypeOK
  BY InitType, NextType, PTL DEF Spec
----------------------------------------------------------------------------
\* Nothing was paid and no task runs in the initial state.
LEMMA InitInv == Init => IInv
  BY InitType, PaymentAssumption
  DEF Init, IInv, Visible, Known, OneGeneration, EventsNotOld, ScanNotOld,
      PayersNotOld, NotOld, NoTasks, NoTask, Payments

\* The parachain and bitcoin: a new head opens requests that were never
\* paid, and a fork that a scan overlooks is on record.
LEMMA EnvironmentInv == IInv /\ Environment => IInv'
<1> SUFFICES ASSUME IInv, Environment PROVE IInv'
  OBVIOUS
<1>0. TypeOK /\ TypeOK'
  BY EnvironmentType DEF IInv
<1> USE PaymentAssumption DEF IInv, NotOld, chainVars, btcVars, procVars
<1>1. ASSUME NEW S \in SUBSET Requests, NewBlock(S) PROVE IInv'
  <2> USE <1>0, <1>1 DEF NewBlock, TypeOK
  <2>1. Visible' /\ OneGeneration' /\ ScanNotOld' /\ PayersNotOld'
    BY DEF Visible, OneGeneration, ScanNotOld, PayersNotOld
  <2>2. Known'
    BY DEF Known
  <2>3. ASSUME NEW r \in S PROVE NotOld(r)
    <3>1. \A n \in 1..MaxPayments : sent[<<r, n>>] = 0
      BY DEF Known
    <3>2. \A n \in 1..MaxPayments : <<r, n>> \in Payments
      BY DEF Payments
    <3>3. \A n \in 1..MaxPayments : <<r, n>> \in old => sent[<<r, n>>] > 0
      BY <3>2 DEF OneGeneration
    <3> QED
      BY <3>1, <3>3
  <2>4. EventsNotOld'
    BY <2>3 DEF EventsNotOld
  <2> QED
    BY <2>1, <2>2, <2>4
<1>2. ASSUME NEW r \in Requests, Expire(r) \/ Cancel(r) PROVE IInv'
  <2> USE <1>0, <1>2 DEF Expire, Cancel, TypeOK
  <2>1. Visible' /\ OneGeneration' /\ ScanNotOld' /\ PayersNotOld' /\ EventsNotOld'
    BY DEF Visible, OneGeneration, ScanNotOld, PayersNotOld, EventsNotOld
  <2>2. Known'
    BY DEF Known
  <2> QED
    BY <2>1, <2>2
<1>3. ASSUME NEW p \in Payments, Mine(p) \/ Confirm(p) \/ RelayBlock(p)
      PROVE  IInv'
  <2> USE <1>0, <1>3 DEF Mine, Confirm, RelayBlock
  <2>1. OneGeneration' /\ Known' /\ PayersNotOld' /\ EventsNotOld'
    BY DEF OneGeneration, Known, PayersNotOld, EventsNotOld
  <2>2. Visible'
    BY DEF Visible, TypeOK, Versions
  <2>3. ASSUME NEW q \in Payments, mined[q] # 0, executor = "chain"
        PROVE  mined'[q] # 0
    BY <2>3 DEF TypeOK, Versions
  <2>4. ScanNotOld'
    BY <2>3 DEF ScanNotOld, Payments
  <2> QED
    BY <2>1, <2>2, <2>4
<1>4. ASSUME NEW p \in Payments, Reorg(p) PROVE IInv'
  <2>1. /\ slipped' = IF Slips(p) THEN slipped \cup {p[1]} ELSE slipped
        /\ mined' = [mined EXCEPT ![p] = 0]
        /\ mempool' = [mempool EXCEPT ![p] = mined[p]]
        /\ depth' = [depth EXCEPT ![p] = "unmined"]
        /\ UNCHANGED <<chainVars, sent, phase, newBlock, executor, open, events, old>>
    BY <1>4 DEF Reorg
  <2>2. \A r \in Requests, o \in Origins :
          \/ task'[<<r, o>>].pc = task[<<r, o>>].pc
          \/ task[<<r, o>>].pc = "relay" /\ task'[<<r, o>>].pc = "lost"
    BY <1>0, <1>4 DEF Reorg, TypeOK, Task, Unpaid, Following
  <2>3. slipped \subseteq slipped'
    BY <2>1
  <2>4. OneGeneration' /\ EventsNotOld'
    BY <2>1, <2>3 DEF OneGeneration, EventsNotOld
  <2>5. Known' /\ PayersNotOld'
    BY <2>1, <2>2, <2>3 DEF Known, PayersNotOld
  <2>6. Visible'
    BY <1>0, <1>4, <2>1 DEF Reorg, Visible, TypeOK, Versions
  <2>7. ASSUME NEW q \in Payments, mined[q] # 0, q # p PROVE mined'[q] # 0
    BY <1>0, <2>1, <2>7 DEF TypeOK
  <2>8. ASSUME NEW r \in open, executor = "chain", r \notin slipped' PROVE r # p[1]
    BY <2>1, <2>8 DEF Slips
  <2>9. ScanNotOld'
    BY <2>1, <2>3, <2>7, <2>8 DEF ScanNotOld, Payments
  <2> QED
    BY <1>0, <2>4, <2>5, <2>6, <2>9
<1> QED
  BY <1>1, <1>2, <1>3, <1>4 DEF Environment

\* Starting and stopping a generation: the listeners only see blocks that are
\* newer than the generation.
LEMMA GenerationInv == IInv /\ Generation => IInv'
<1> SUFFICES ASSUME IInv, Generation PROVE IInv'
  OBVIOUS
<1>0. TypeOK /\ TypeOK'
  BY GenerationType DEF IInv
<1> USE PaymentAssumption DEF IInv, NotOld, chainVars, btcVars
<1>1. CASE Boot \/ Start
  <2> USE <1>0, <1>1 DEF Boot, Start
  <2>1. Visible' /\ Known' /\ OneGeneration' /\ PayersNotOld'
    BY DEF Visible, Known, OneGeneration, PayersNotOld
  <2>2. EventsNotOld'
    BY DEF EventsNotOld
  <2>3. ScanNotOld'
    BY DEF ScanNotOld
  <2> QED
    BY <2>1, <2>2, <2>3
<1>2. CASE Crash \/ RestartTimer
  <2>1. StopGeneration /\ UNCHANGED <<chainVars, btcVars>>
    BY <1>2 DEF Crash, RestartTimer
  <2> USE <1>0, <2>1 DEF StopGeneration, TypeOK
  <2>2. Visible'
    BY DEF Visible
  <2>3. \A r \in Requests, o \in Origins : task'[<<r, o>>].pc = "none"
    BY DEF NoTasks, NoTask
  <2>4. Known' /\ PayersNotOld'
    BY <2>3 DEF Known, PayersNotOld
  <2>5. OneGeneration'
    BY DEF OneGeneration, Payments
  <2>6. EventsNotOld' /\ ScanNotOld'
    BY DEF EventsNotOld, ScanNotOld
  <2> QED
    BY <2>2, <2>4, <2>5, <2>6
<1>3. ASSUME NEW l \in Listeners, Subscribe(l) PROVE IInv'
  <2> USE <1>0, <1>3 DEF Subscribe
  <2>1. Visible' /\ OneGeneration' /\ ScanNotOld' /\ PayersNotOld'
    BY DEF Visible, OneGeneration, ScanNotOld, PayersNotOld
  <2>2. Known'
    BY DEF Known
  <2>3. EventsNotOld'
    BY DEF EventsNotOld
  <2> QED
    BY <2>1, <2>2, <2>3
<1>4. ASSUME NEW r \in Requests, HandleEvent(r) PROVE IInv'
  <2> USE <1>0, <1>4 DEF HandleEvent
  <2>1. Visible' /\ OneGeneration' /\ ScanNotOld' /\ EventsNotOld'
    BY DEF Visible, OneGeneration, ScanNotOld, EventsNotOld
  <2>2. Known'
    BY DEF Known, TypeOK, Origins
  <2>3. PayersNotOld'
    BY DEF PayersNotOld, EventsNotOld, TypeOK, Origins
  <2> QED
    BY <2>1, <2>2, <2>3
<1> QED
  BY <1>1, <1>2, <1>3, <1>4 DEF Generation

\* execute_open_requests on a full node: a request that was paid by an earlier
\* generation is found in the mempool or, if it is no longer there, in the
\* chain, and does not reach the payment.
LEMMA ExecutorInv ==
  ASSUME fullNode, IInv, Executor
  PROVE  IInv'
<1>0. TypeOK /\ TypeOK'
  BY ExecutorType DEF IInv
<1> USE PaymentAssumption DEF IInv, NotOld, chainVars, btcVars
<1>1. CASE QueryOpen
  <2> USE <1>0, <1>1 DEF QueryOpen
  <2>1. Visible' /\ OneGeneration' /\ PayersNotOld' /\ EventsNotOld'
    BY DEF Visible, OneGeneration, PayersNotOld, EventsNotOld
  <2>2. Known'
    BY DEF Known, Pending
  <2>3. ScanNotOld'
    BY DEF ScanNotOld
  <2> QED
    BY <2>1, <2>2, <2>3
<1>2. ASSUME NEW where, NEW next, Scan(where, next)
      PROVE  /\ Visible' /\ OneGeneration' /\ EventsNotOld' /\ Known' /\ PayersNotOld'
             /\ executor' = next
             /\ \A r \in open' : r \in open /\ \A n \in 1..MaxPayments : where[<<r, n>>] = 0
  <2>1. PICK found \in Matches(where) :
          /\ Track(found, where)
          /\ open' = {r \in open : found[r] = 0}
          /\ executor' = next
          /\ UNCHANGED <<chainVars, btcVars, phase, newBlock, subscribed, events, old, slipped, faults>>
    BY <1>2 DEF Scan
  <2>2. DOMAIN found = open
    BY DEF Matches
  <2>3. \A r \in open' : r \in open /\ \A n \in 1..MaxPayments : where[<<r, n>>] = 0
    BY <2>1 DEF Matches
  <2>4. Visible' /\ OneGeneration' /\ EventsNotOld'
    BY <2>1 DEF Visible, OneGeneration, EventsNotOld
  <2>5. \A t \in Requests \X Origins :
          \/ task'[t] = task[t]
          \/ t[1] \in open /\ task'[t].pc = "wait"
    BY <1>0, <2>1, <2>2 DEF Track, TypeOK
  <2>6. \A r \in Requests, o \in Origins :
          \/ task'[<<r, o>>] = task[<<r, o>>]
          \/ r \in open /\ task'[<<r, o>>].pc = "wait"
    BY <2>5
  <2>7. Known'
    BY <2>1, <2>3, <2>6 DEF Known
  <2>8. PayersNotOld'
    BY <2>1, <2>6 DEF PayersNotOld
  <2> QED
    BY <2>1, <2>3, <2>4, <2>7, <2>8
<1>3. CASE ScanMempool
  <2>1. executor = "mempool" /\ Scan(mempool, "chain")
    BY <1>3 DEF ScanMempool
  <2>2. UNCHANGED <<mined, old, slipped>>
    BY <2>1 DEF Scan
  <2>3. ASSUME NEW r \in open', NEW n \in 1..MaxPayments, r \in Requests, <<r, n>> \in old
        PROVE  mined[<<r, n>>] # 0
    <3>1. <<r, n>> \in Payments
      BY <2>3 DEF Payments
    <3>2. sent[<<r, n>>] > 0
      BY <2>3, <3>1 DEF OneGeneration
    <3> QED
      BY <1>2, <2>1, <2>3, <3>1, <3>2 DEF Visible
  <2>4. executor' = "chain" /\ ScanNotOld'
    BY <1>2, <2>1, <2>2, <2>3 DEF ScanNotOld
  <2> QED
    BY <1>0, <1>2, <2>1, <2>4
<1>4. CASE ScanChain
  <2>1. executor = "chain" /\ Scan(mined, "rest")
    BY <1>4 DEF ScanChain
  <2>2. UNCHANGED <<mined, old, slipped>>
    BY <2>1 DEF Scan
  <2>3. ScanNotOld'
    BY <1>0, <1>2, <2>1, <2>2 DEF ScanNotOld
  <2> QED
    BY <1>0, <1>2, <2>1, <2>3
<1>5. CASE RestDone
  <2> USE <1>0, <1>5 DEF RestDone
  <2>1. Visible' /\ OneGeneration' /\ PayersNotOld' /\ EventsNotOld' /\ Known'
    BY DEF Visible, OneGeneration, PayersNotOld, EventsNotOld, Known
  <2>2. ScanNotOld'
    BY DEF ScanNotOld
  <2> QED
    BY <2>1, <2>2
<1>6. ASSUME NEW r \in Requests, HandleRest(r) PROVE IInv'
  <2>1. /\ executor = "rest" /\ r \in open /\ open' = open \ {r}
        /\ task' = [task EXCEPT ![<<r, "executor">>] = [NoTask EXCEPT !.pc = "check"]]
        /\ UNCHANGED <<chainVars, btcVars, phase, newBlock, executor, subscribed,
                       events, old, slipped, faults>>
    BY <1>6 DEF HandleRest, DirectLookup
  <2> USE <1>0, <2>1
  <2>2. Visible' /\ OneGeneration' /\ EventsNotOld' /\ ScanNotOld'
    BY DEF Visible, OneGeneration, EventsNotOld, ScanNotOld
  <2>3. Known'
    BY DEF Known, TypeOK, Origins
  <2>4. PayersNotOld'
    BY DEF PayersNotOld, ScanNotOld, TypeOK, Origins
  <2> QED
    BY <2>2, <2>3, <2>4
<1>7. ASSUME NEW r \in Requests, SkipRest(r) PROVE IInv'
  BY <1>7 DEF SkipRest
<1> QED
  BY <1>1, <1>3, <1>4, <1>5, <1>6, <1>7 DEF Executor

\* The tasks: only Send makes a payment, and no task that may send is for a
\* request that an earlier generation has paid.
LEMMA TaskStepInv ==
  ASSUME IInv, NEW t \in Requests \X Origins, TaskStep(t)
  PROVE  IInv'
<1>0. TypeOK /\ TypeOK'
  BY TaskStepType DEF IInv
<1> USE PaymentAssumption DEF IInv, NotOld, chainVars, btcVars, SetTask
<1>1. ASSUME NEW new, task[t].pc # "none", SetTask(t, new),
             new.pc \in {"fetch", "check", "send"} => task[t].pc \in {"fetch", "check", "send"},
             UNCHANGED <<fresh, expired, btcVars, old, slipped>>,
             \A r \in Requests : status'[r] = "none" => status[r] = "none"
      PROVE  IInv'
  <2> USE <1>0, <1>1
  <2>1. Visible' /\ OneGeneration' /\ EventsNotOld' /\ ScanNotOld'
    BY DEF Visible, OneGeneration, EventsNotOld, ScanNotOld
  <2>2. Known'
    BY DEF Known, TypeOK
  <2>3. PayersNotOld'
    BY DEF PayersNotOld, TypeOK
  <2> QED
    BY <2>1, <2>2, <2>3
<1>2. task[t] \in Task /\ t[1] \in Requests /\ t = <<t[1], t[2]>> /\ t[2] \in Origins
  BY <1>0 DEF TypeOK
<1>3. CASE Fetch(t)
  <2>1. [task[t] EXCEPT !.pc = "check"].pc = "check"
    BY <1>2 DEF Task, Unpaid, Following
  <2> QED
    BY <1>1, <1>3, <2>1 DEF Fetch
<1>4. CASE CheckDeadline(t)
  BY <1>1, <1>4 DEF CheckDeadline
<1>5. CASE Included(t)
  <2>1. [task[t] EXCEPT !.pc = "relay"].pc = "relay"
    BY <1>2 DEF Task, Unpaid, Following
  <2> QED
    BY <1>1, <1>5, <2>1 DEF Included
<1>6. CASE Relayed(t) \/ ForkReported(t) \/ BlockReturns(t)
  <2>1. /\ [task[t] EXCEPT !.pc = "execute"].pc = "execute"
        /\ [task[t] EXCEPT !.pc = "wait"].pc = "wait"
        /\ [task[t] EXCEPT !.pc = "relay"].pc = "relay"
    BY <1>2 DEF Task, Unpaid, Following
  <2> QED
    BY <1>1, <1>6, <2>1 DEF Relayed, ForkReported, BlockReturns
<1>7. CASE Fail(t)
  BY <1>1, <1>7 DEF Fail, NoTask
<1>8. CASE Execute(t)
  BY <1>0, <1>1, <1>8 DEF Execute, TypeOK, NoTask
<1>9. ASSUME NEW n \in 1..MaxPayments, NEW v \in Versions, NEW new,
             v # 0, task[t].pc # "none",
             new.pc = "wait",
             sent' = [sent EXCEPT ![<<t[1], n>>] = v],
             mempool' = [mempool EXCEPT ![<<t[1], n>>] = v],
             SetTask(t, new),
             UNCHANGED <<chainVars, fullNode, mined, depth, old, slipped, faults>>,
             NotOld(t[1]) \/ t[1] \in slipped \/ sent[<<t[1], n>>] > 0
      PROVE  IInv'
  <2> DEFINE p == <<t[1], n>>
  <2>1. p \in Payments
    BY <1>2 DEF Payments
  <2>2. status[t[1]] # "none"
    BY <1>2, <1>9 DEF Known
  <2>3. /\ sent'[p] = v /\ mempool'[p] = v /\ v > 0
        /\ \A q \in Payments : q # p => sent'[q] = sent[q] /\ mempool'[q] = mempool[q]
    BY <1>0, <1>9, <2>1 DEF TypeOK, Versions
  <2>4. \A r \in Requests, o \in Origins :
          task'[<<r, o>>] = task[<<r, o>>] \/ (r = t[1] /\ task'[<<r, o>>].pc = "wait")
    BY <1>0, <1>2, <1>9 DEF TypeOK
  <2>5. Visible'
    BY <1>9, <2>3 DEF Visible
  <2>6. Known'
    <3>1. \A r \in Requests, m \in 1..MaxPayments :
            r # t[1] => sent'[<<r, m>>] = sent[<<r, m>>]
      BY <2>3 DEF Payments
    <3> QED
      BY <1>9, <2>2, <2>4, <3>1 DEF Known
  <2>7. OneGeneration'
    <3> SUFFICES ASSUME NEW q \in Payments, q \in old
                 PROVE  /\ sent'[q] > 0
                        /\ q[1] \notin slipped => \A m \in 1..MaxPayments :
                              sent'[<<q[1], m>>] > 0 => <<q[1], m>> \in old
      BY <1>9 DEF OneGeneration
    <3>1. sent'[q] > 0
      BY <2>3 DEF OneGeneration
    <3>2. ASSUME NEW m \in 1..MaxPayments, sent'[<<q[1], m>>] > 0, q[1] \notin slipped
          PROVE  <<q[1], m>> \in old
      <4>1. <<q[1], m>> \in Payments /\ q = <<q[1], q[2]>> /\ q[2] \in 1..MaxPayments
        BY DEF Payments
      <4>2. CASE <<q[1], m>> # p
        BY <2>3, <3>2, <4>1, <4>2 DEF OneGeneration
      <4>3. CASE <<q[1], m>> = p
        <5>1. q[1] = t[1]
          BY <4>3
        <5>2. ~NotOld(t[1])
          BY <4>1, <5>1
        <5> QED
          BY <1>9, <3>2, <4>3, <5>1, <5>2 DEF OneGeneration
      <4> QED
        BY <4>2, <4>3
    <3> QED
      BY <3>1, <3>2
  <2>8. EventsNotOld' /\ ScanNotOld'
    BY <1>9 DEF EventsNotOld, ScanNotOld
  <2>9. PayersNotOld'
    BY <1>9, <2>4 DEF PayersNotOld
  <2> QED
    BY <1>0, <2>5, <2>6, <2>7, <2>8, <2>9
<1>10. CASE Send(t)
  <2>1. PICK n \in 1..MaxPayments :
          /\ sent' = [sent EXCEPT ![<<t[1], n>>] = 1]
          /\ mempool' = [mempool EXCEPT ![<<t[1], n>>] = 1]
          /\ SetTask(t, [pc |-> "wait", payment |-> n, version |-> 1])
    BY <1>10 DEF Send
  <2>2. NotOld(t[1]) \/ t[1] \in slipped
    BY <1>2, <1>10 DEF Send, PayersNotOld
  <2>3. 1 \in Versions /\ 1 # 0
    BY DEF Versions
  <2>4. task[t].pc # "none" /\ UNCHANGED <<chainVars, fullNode, mined, depth, old, slipped, faults>>
    BY <1>10 DEF Send
  <2>5. [pc |-> "wait", payment |-> n, version |-> 1].pc = "wait"
    OBVIOUS
  <2> HIDE DEF SetTask, NotOld
  <2> QED
    BY <1>9, <2>1, <2>2, <2>3, <2>4, <2>5
<1>11. CASE BumpFee(t)
  <2> DEFINE n == task[t].payment
             v == sent[<<t[1], n>>] + 1
             new == [task[t] EXCEPT !.version = v]
  <2>1. n \in 1..MaxPayments /\ task[t] \in Following
    BY <1>2, <1>11 DEF BumpFee, Task, Unpaid, Following
  <2>2. <<t[1], n>> \in Payments
    BY <1>2, <2>1 DEF Payments
  <2>3. sent[<<t[1], n>>] \in Versions /\ mempool[<<t[1], n>>] \in Versions
    BY <1>0, <2>2 DEF TypeOK
  <2>4. v \in Versions /\ v # 0
    BY <1>11, <2>3 DEF BumpFee, Versions
  <2>5. new.pc = "wait"
    BY <1>11, <2>1 DEF BumpFee, Following
  <2>6. /\ sent' = [sent EXCEPT ![<<t[1], n>>] = v]
        /\ mempool' = [mempool EXCEPT ![<<t[1], n>>] = v]
        /\ SetTask(t, new)
        /\ UNCHANGED <<chainVars, fullNode, mined, depth, old, slipped, faults>>
        /\ task[t].pc # "none"
    BY <1>11 DEF BumpFee
  <2>7. sent[<<t[1], n>>] > 0
    BY <1>11, <2>1, <2>2, <2>3 DEF BumpFee, Visible, Following, Versions
  <2> HIDE DEF n, v, new, SetTask, NotOld
  <2> QED
    BY <1>9, <2>1, <2>4, <2>5, <2>6, <2>7
<1> QED
  BY <1>3, <1>4, <1>5, <1>6, <1>7, <1>8, <1>10, <1>11 DEF TaskStep

\* Every step of a vault with a full node preserves the inductive invariant.
LEMMA NextInv == ASSUME fullNode, IInv, [Next]_vars PROVE IInv'
<1>1. CASE UNCHANGED vars
  BY <1>1 DEF IInv, TypeOK, Visible, Known, OneGeneration, EventsNotOld, ScanNotOld,
     PayersNotOld, NotOld, vars, chainVars, btcVars, procVars
<1> QED
  BY <1>1, EnvironmentInv, GenerationInv, ExecutorInv, TaskStepInv DEF Next

\* No step changes the client of bitcoin that the vault uses.
LEMMA SameNode == [Next]_vars => UNCHANGED fullNode
<1> SUFFICES ASSUME Next PROVE UNCHANGED fullNode
  BY DEF vars, btcVars
<1> USE DEF chainVars, btcVars
<1>1. Environment => UNCHANGED fullNode
  BY DEF Environment, NewBlock, Expire, Cancel, Mine, Confirm, RelayBlock, Reorg
<1>2. Generation => UNCHANGED fullNode
  BY DEF Generation, Boot, Start, Crash, RestartTimer, Subscribe, HandleEvent
<1>3. Executor => UNCHANGED fullNode
  BY DEF Executor, QueryOpen, ScanMempool, ScanChain, Scan, RestDone, HandleRest, SkipRest
<1>4. ASSUME NEW t \in Requests \X Origins, TaskStep(t) PROVE UNCHANGED fullNode
  BY <1>4 DEF TaskStep, Fetch, CheckDeadline, Send, BumpFee, Included, Relayed,
     ForkReported, BlockReturns, Execute, Fail
<1> QED
  BY <1>1, <1>2, <1>3, <1>4 DEF Next

\* A vault that runs on a full node never pays a request that an earlier
\* generation of it has paid, whatever the number of requests, payments, RBF
\* versions, restarts and reorgs.
THEOREM NoRepay == Spec => []NoRepayAfterRestart
<1> DEFINE Inv == fullNode => IInv
<1>1. Inv => NoRepayAfterRestart
  <2> SUFFICES ASSUME IInv, NEW p \in Payments, NEW q \in Payments,
                      p[1] = q[1], p[1] \notin slipped, IsPaid(p), IsPaid(q), p \in old
               PROVE  q \in old
    BY DEF NoRepayAfterRestart
  <2>1. q = <<p[1], q[2]>> /\ q[2] \in 1..MaxPayments
    BY DEF Payments
  <2> QED
    BY <2>1 DEF IInv, OneGeneration, IsPaid
<1>2. Inv /\ [Next]_vars => Inv'
  BY NextInv, SameNode
<1>3. Init => Inv
  BY InitInv
<1> HIDE DEF Inv
<1> QED
  BY <1>1, <1>2, <1>3, PTL DEF Spec

----------------------------------------------------------------------------
(***************************************************************************)
(* Only what was paid, mined and relayed is executed.                      *)
(***************************************************************************)

\* Payment p is in a block that the parachain's relay has confirmed.
Settled(p) == mined[p] # 0 /\ depth[p] = "relayed"

\* A task that is about to execute holds the proof of a settled payment.
ProofHeld ==
    \A t \in Requests \X Origins :
        task[t].pc = "execute" => Settled(<<t[1], task[t].payment>>)

PInv == TypeOK /\ ProofHeld /\ ExecutedWasPaid

\* A settled payment stays settled: the relay is not reorganised below its
\* confirmations, and no RBF version can be mined any more.
LEMMA SettledStays ==
  ASSUME TypeOK, Next, NEW p \in Payments, Settled(p)
  PROVE  Settled(p)'
<1> USE DEF TypeOK, Settled, chainVars, btcVars
<1>1. CASE Environment
  BY <1>1 DEF Environment, NewBlock, Expire, Cancel, Mine, Confirm, RelayBlock, Reorg
<1>2. CASE Generation
  BY <1>2 DEF Generation, Boot, Start, Crash, RestartTimer, Subscribe, HandleEvent
<1>3. CASE Executor
  BY <1>3 DEF Executor, QueryOpen, ScanMempool, ScanChain, Scan, RestDone, HandleRest,
     SkipRest
<1>4. ASSUME NEW t \in Requests \X Origins, TaskStep(t) PROVE Settled(p)'
  BY <1>4 DEF TaskStep, Fetch, CheckDeadline, Send, BumpFee, Included, Relayed,
     ForkReported, BlockReturns, Execute, Fail
<1> QED
  BY <1>1, <1>2, <1>3, <1>4 DEF Next

\* A task goes on to execute only from wait_for_block_in_relay, with a payment
\* that is settled.
LEMMA ProofFromRelay ==
  ASSUME TypeOK, Next, NEW t \in Requests \X Origins, task'[t].pc = "execute"
  PROVE  \/ task'[t] = task[t]
         \/ Settled(<<t[1], task'[t].payment>>)
<1> USE DEF TypeOK, chainVars, btcVars, procVars
<1>1. CASE Environment
  <2>1. ASSUME NEW p \in Payments, Reorg(p) PROVE task'[t] = task[t]
    BY <2>1 DEF Reorg, Task, Unpaid, Following
  <2> QED
    BY <1>1, <2>1 DEF Environment, NewBlock, Expire, Cancel, Mine, Confirm, RelayBlock
<1>0. ASSUME NEW u, NEW new, task' = [task EXCEPT ![u] = new], new.pc # "execute"
      PROVE  task'[t] = task[t]
  BY <1>0
<1>2. CASE Generation
  <2>1. CASE Crash \/ RestartTimer
    <3>1. task'[t].pc = "none"
      BY <2>1 DEF Crash, RestartTimer, StopGeneration, NoTasks, NoTask
    <3> QED
      BY <3>1
  <2>2. ASSUME NEW r \in Requests, HandleEvent(r) PROVE task'[t] = task[t]
    <3>1. [NoTask EXCEPT !.pc = "fetch"].pc = "fetch"
      BY DEF NoTask
    <3> QED
      BY <1>0, <2>2, <3>1 DEF HandleEvent
  <2> QED
    BY <1>2, <2>1, <2>2 DEF Generation, Boot, Start, Subscribe
<1>3. CASE Executor
  <2>1. ASSUME NEW where, NEW next, Scan(where, next) PROVE task'[t] = task[t]
    BY <2>1 DEF Scan, Track
  <2>2. CASE ScanMempool \/ ScanChain
    BY <2>1, <2>2 DEF ScanMempool, ScanChain
  <2>3. ASSUME NEW r \in Requests, HandleRest(r) PROVE task'[t] = task[t]
    <3>1. [NoTask EXCEPT !.pc = "check"].pc = "check"
      BY DEF NoTask
    <3>3. \/ task' = [task EXCEPT ![<<r, "executor">>] = [NoTask EXCEPT !.pc = "check"]]
          \/ \E n \in DirectLookup(r) :
               task' = [task EXCEPT ![<<r, "executor">>] =
                          [pc |-> "wait", payment |-> n, version |-> mined[<<r, n>>]]]
      BY <2>3 DEF HandleRest
    <3>4. ASSUME NEW n, task' = [task EXCEPT ![<<r, "executor">>] =
                            [pc |-> "wait", payment |-> n, version |-> mined[<<r, n>>]]]
          PROVE  task'[t] = task[t]
      BY <3>4
    <3>5. ASSUME task' = [task EXCEPT ![<<r, "executor">>] = [NoTask EXCEPT !.pc = "check"]]
          PROVE  task'[t] = task[t]
      BY <1>0, <3>1, <3>5
    <3> QED
      BY <3>3, <3>4, <3>5
  <2> QED
    BY <1>3, <2>2, <2>3 DEF Executor, QueryOpen, RestDone, SkipRest
<1>4. ASSUME NEW u \in Requests \X Origins, TaskStep(u)
      PROVE  \/ task'[t] = task[t]
             \/ Settled(<<t[1], task'[t].payment>>)
  <2> USE DEF SetTask, NoTask
  <2>1. task[u] \in Task
    OBVIOUS
  <2>2. CASE Relayed(u)
    <3>1. CASE u = t
      <4>1. /\ task[t].version # 0
            /\ [task[t] EXCEPT !.pc = "execute"].payment = task[t].payment
        BY <2>1, <2>2, <3>1 DEF Relayed, Task, Unpaid, Following
      <4> QED
        BY <2>2, <3>1, <4>1 DEF Relayed, Settled
    <3> QED
      BY <2>2, <3>1 DEF Relayed
  <2>3. CASE Fetch(u) \/ CheckDeadline(u) \/ Included(u) \/ ForkReported(u) \/ BlockReturns(u)
    <3>1. /\ [task[u] EXCEPT !.pc = "check"].pc = "check"
          /\ [task[u] EXCEPT !.pc = "send"].pc = "send"
          /\ [task[u] EXCEPT !.pc = "relay"].pc = "relay"
          /\ [task[u] EXCEPT !.pc = "wait"].pc = "wait"
      BY <2>1 DEF Task, Unpaid, Following
    <3>2. NoTask.pc = "none"
      OBVIOUS
    <3> HIDE DEF NoTask
    <3> QED
      BY <1>0, <2>3, <3>1, <3>2 DEF Fetch, CheckDeadline, Included, ForkReported, BlockReturns
  <2>4. CASE Send(u)
    BY <2>4 DEF Send
  <2>5. CASE BumpFee(u)
    <3>1. \A v : [task[u] EXCEPT !.version = v].pc = "wait"
      BY <2>1, <2>5 DEF BumpFee, Task, Unpaid, Following
    <3> QED
      BY <2>5, <3>1 DEF BumpFee
  <2>6. CASE Execute(u) \/ Fail(u)
    BY <2>6 DEF Execute, Fail
  <2> QED
    BY <1>4, <2>2, <2>3, <2>4, <2>5, <2>6 DEF TaskStep
<1> QED
  BY <1>1, <1>2, <1>3, <1>4 DEF Next

\* A request becomes executed only by a task that is about to execute it.
LEMMA ExecutedByTask ==
  ASSUME TypeOK, Next, NEW r \in Requests, status'[r] = "executed"
  PROVE  \/ status[r] = "executed"
         \/ \E t \in Requests \X Origins : t[1] = r /\ task[t].pc = "execute"
<1> USE DEF TypeOK, chainVars, btcVars
<1>1. CASE Environment
  BY <1>1 DEF Environment, NewBlock, Expire, Cancel, Mine, Confirm, RelayBlock, Reorg
<1>2. CASE Generation
  BY <1>2 DEF Generation, Boot, Start, Crash, RestartTimer, Subscribe, HandleEvent
<1>3. CASE Executor
  BY <1>3 DEF Executor, QueryOpen, ScanMempool, ScanChain, Scan, RestDone, HandleRest,
     SkipRest
<1>4. ASSUME NEW t \in Requests \X Origins, TaskStep(t)
      PROVE  \/ status[r] = "executed"
             \/ t[1] = r /\ task[t].pc = "execute"
  BY <1>4 DEF TaskStep, Fetch, CheckDeadline, Send, BumpFee, Included, Relayed,
     ForkReported, BlockReturns, Execute, Fail
<1> QED
  BY <1>1, <1>2, <1>3, <1>4 DEF Next

\* The payment a task follows once it executes is one of its request.
LEMMA FollowedPayment ==
  ASSUME TypeOK, NEW t \in Requests \X Origins, task[t].pc = "execute"
  PROVE  /\ task[t].payment \in 1..MaxPayments
         /\ <<t[1], task[t].payment>> \in Payments
BY DEF TypeOK, Task, Unpaid, Following, Payments

\* Every step preserves the invariant.
LEMMA PaidInv == ASSUME PInv, [Next]_vars PROVE PInv'
<1>1. CASE UNCHANGED vars
  BY <1>1 DEF PInv, TypeOK, ProofHeld, ExecutedWasPaid, Settled, vars, chainVars, btcVars,
     procVars
<1>2. CASE Next
  <2>1. TypeOK /\ TypeOK'
    BY NextType DEF PInv
  <2>2. ASSUME NEW t \in Requests \X Origins, task'[t].pc = "execute",
               NEW n, n = task'[t].payment
        PROVE  Settled(<<t[1], n>>)'
    <3>1. <<t[1], n>> \in Payments
      BY <2>1, <2>2 DEF TypeOK, Task, Unpaid, Following, Payments
    <3>2. Settled(<<t[1], n>>)
      BY <1>2, <2>1, <2>2, ProofFromRelay DEF PInv, ProofHeld
    <3> QED
      BY <1>2, <2>1, <3>1, <3>2, SettledStays
  <2>3. ASSUME NEW r \in Requests, status'[r] = "executed"
        PROVE  \E n \in 1..MaxPayments : Settled(<<r, n>>)'
    <3>1. PICK n \in 1..MaxPayments : Settled(<<r, n>>)
      <4>1. CASE status[r] = "executed"
        BY <4>1 DEF PInv, ExecutedWasPaid, Settled
      <4>2. ASSUME NEW t \in Requests \X Origins, t[1] = r, task[t].pc = "execute"
            PROVE  \E n \in 1..MaxPayments : Settled(<<r, n>>)
        BY <2>1, <4>2, FollowedPayment DEF PInv, ProofHeld
      <4> QED
        BY <1>2, <2>1, <2>3, <4>1, <4>2, ExecutedByTask
    <3>2. <<r, n>> \in Payments
      BY DEF Payments
    <3> QED
      BY <1>2, <2>1, <3>1, <3>2, SettledStays
  <2>4. ProofHeld'
    BY <2>2 DEF ProofHeld, Settled
  <2>5. ExecutedWasPaid'
    BY <2>3 DEF ExecutedWasPaid, Settled
  <2> QED
    BY <2>1, <2>4, <2>5 DEF PInv
<1> QED
  BY <1>1, <1>2

\* A request is executed only on the strength of a payment of it that is
\* mined and relayed, for either client, across crashes, RBF and reorgs.
THEOREM OnlyPaidExecuted == Spec => []ExecutedWasPaid
<1>1. Init => PInv
  BY InitType DEF Init, PInv, ProofHeld, ExecutedWasPaid, NoTasks, NoTask
<1>2. PInv /\ [Next]_vars => PInv'
  BY PaidInv
<1>3. PInv => ExecutedWasPaid
  BY DEF PInv
<1> QED
  BY <1>1, <1>2, <1>3, PTL DEF Spec
============================================================================
