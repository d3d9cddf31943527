-------------------------- MODULE LifecycleProofs --------------------------
(***************************************************************************)
(* Proofs about the life cycle of the vault, inside its process and        *)
(* outside.  Service: types, that no receiver misses the shutdown signal,  *)
(* and that no task of one generation works during a later one, for any    *)
(* number of generations and any sets of tasks.  Runner: types, that       *)
(* runners that are not killed keep one vault at most, and what the PID    *)
(* file adds when they are, for any numbers of releases, process ids and   *)
(* faults.  The two specifications share no variable.                      *)
(***************************************************************************)
EXTENDS Service, Runner, WellFoundedInduction, TLAPS

----------------------------------------------------------------------------
(* The service.                                                            *)

\* A signal is recorded before it is broadcast.
FlagFirst ==
    /\ \A g \in Generations : sent[g] => flag[g]
    /\ \A g \in Generations, t \in Tasks : pc[g][t] \in {"asking", "signalling"} => flag[g]
    /\ manager = "signal" => flag[gen]
    /\ manager = "drain" => sent[gen]

\* Who has read the flag by the time of a broadcast has the signal after it.
Heard ==
    \A g \in Generations, t \in Tasks :
        sent[g] /\ pc[g][t] \in {"idle", "working", "asking"} => t \in heard[g]

\* A generation that is over was shut down, and none of its tasks works.
Over ==
    \A g \in Generations : g < gen =>
        /\ sent[g]
        /\ \A t \in Tasks : pc[g][t] \notin {"working", "asking"}

IInv == TypeOK /\ FlagFirst /\ Heard /\ Over

----------------------------------------------------------------------------
\* What Goto does to the program counters.
LEMMA GotoEffect ==
  ASSUME TypeOK, NEW g \in Generations, NEW t \in Tasks, NEW new, Goto(g, t, new)
  PROVE  \A h \in Generations, u \in Tasks :
            pc'[h][u] = IF h = g /\ u = t THEN new ELSE pc[h][u]
  BY DEF Goto, TypeOK

\* Goto preserves the type of the program counters.
LEMMA GotoType ==
  ASSUME TypeOK, NEW g \in Generations, NEW t \in Tasks, NEW new \in PCs, Goto(g, t, new)
  PROVE  pc' \in [Generations -> [Tasks -> PCs]]
  BY DEF Goto, TypeOK

\* The initial state satisfies the invariant.
LEMMA InitInv == Init => IInv
<1> SUFFICES ASSUME Init PROVE IInv
  OBVIOUS
<1>1. 1 \in Generations
  BY ServiceAssumption DEF Generations
<1>2. TypeOK
  BY <1>1 DEF Init, TypeOK, PCs
<1>3. Over
  BY DEF Init, Over, Generations
<1> QED
  BY <1>2, <1>3 DEF Init, IInv, FlagFirst, Heard

\* A step of a task preserves the types.
LEMMA TaskStepType ==
  ASSUME TypeOK, NEW g \in Generations, NEW t \in Tasks, TaskStep(g, t)
  PROVE  TypeOK'
<1> USE DEF TypeOK
<1>1. Tasks = Services \cup Listeners \cup Jobs
  BY DEF Tasks
<1>2. ASSUME NEW u \in Tasks, NEW new \in PCs, Goto(g, u, new)
      PROVE  pc' \in [Generations -> [Tasks -> PCs]]
  BY <1>2, GotoType
<1>3. Receivers(g) \subseteq Tasks
  BY DEF Receivers
<1>4. ASSUME Broadcast(g)
      PROVE  heard' \in [Generations -> SUBSET Tasks] /\ sent' \in [Generations -> BOOLEAN]
  BY <1>3, <1>4 DEF Broadcast
<1>5. CASE Subscribe(g, t) \/ Run(g, t) \/ Await(g, t)
  BY <1>2, <1>5 DEF Subscribe, Run, Await, PCs, Holding
<1>6. CASE ReadFlag(g, t)
  BY <1>2, <1>6 DEF ReadFlag, PCs, Holding
<1>7. CASE Cancelled(g, t) \/ Complete(g, t) \/ Panic(g, t)
  BY <1>2, <1>7 DEF Cancelled, Complete, Panic, Drop, PCs, Holding
<1>8. ASSUME NEW j \in Jobs, SpawnJob(g, t, j) PROVE TypeOK'
  BY <1>1, <1>2, <1>8 DEF SpawnJob, PCs, Holding
<1>9. CASE Ask(g, t) \/ Fail(g, t)
  BY <1>2, <1>9 DEF Ask, Fail, SetFlag, PCs, Holding
<1>10. CASE Asked(g, t) \/ Signal(g, t)
  BY <1>2, <1>4, <1>10 DEF Asked, Signal, PCs, Holding
<1> QED
  BY <1>5, <1>6, <1>7, <1>8, <1>9, <1>10 DEF TaskStep

\* A step of the manager preserves the types.
LEMMA ManagerType == TypeOK /\ Manager => TypeOK'
<1> SUFFICES ASSUME TypeOK, Manager PROVE TypeOK'
  OBVIOUS
<1> USE DEF TypeOK
<1>1. Receivers(gen) \subseteq Tasks
  BY DEF Receivers
<1>2. Tasks = Services \cup Listeners \cup Jobs
  BY DEF Tasks
<1>3. CASE Start \/ SpawnServices
  BY <1>3 DEF Start, SpawnServices, PCs
<1>4. CASE SetupFails \/ Join \/ ManagerSetFlag
  BY <1>4 DEF SetupFails, Join, ManagerSetFlag, SetFlag
<1>5. CASE GiveUp
  BY <1>5 DEF GiveUp, PCs
<1>6. ASSUME NEW j \in Jobs, SpawnExecutor(j) PROVE TypeOK'
  <2>1. pc' \in [Generations -> [Tasks -> PCs]]
    BY <1>2, <1>6, GotoType DEF SpawnExecutor, PCs, Holding
  <2> QED
    BY <1>6, <2>1 DEF SpawnExecutor
<1>7. CASE ManagerBroadcast
  BY <1>1, <1>7 DEF ManagerBroadcast, Broadcast
<1>8. CASE Drain
  <2>1. gen' \in Generations
    BY <1>8, ServiceAssumption DEF Drain, Generations
  <2>2. pc' \in [Generations -> [Tasks -> PCs]]
    BY <1>8 DEF Drain, PCs
  <2>3. manager' \in {"start", "stopped"}
    BY <1>8 DEF Drain
  <2> QED
    BY <1>8, <2>1, <2>2, <2>3 DEF Drain
<1> QED
  BY <1>3, <1>4, <1>5, <1>6, <1>7, <1>8 DEF Manager

\* A step of a task preserves what is known of the signal.
LEMMA TaskStepInv ==
  ASSUME IInv, NEW g \in Generations, NEW t \in Tasks, TaskStep(g, t)
  PROVE  IInv'
<1> USE DEF IInv
<1>1. TypeOK'
  BY TaskStepType
<1>2. Tasks = Services \cup Listeners \cup Jobs
  BY DEF Tasks
<1>3. gen' = gen /\ manager' = manager
  BY DEF TaskStep, Subscribe, ReadFlag, Cancelled, Run, Await, SpawnJob, Ask,
         Asked, Complete, Fail, Signal, Panic
<1>4. ASSUME NEW u \in Tasks, NEW new, Goto(g, u, new)
      PROVE  \A h \in Generations, v \in Tasks :
                pc'[h][v] = IF h = g /\ v = u THEN new ELSE pc[h][v]
  BY <1>4, GotoEffect
<1>5. gen \in Nat /\ \A h \in Generations : h \in Nat
  BY DEF TypeOK, Generations
<1>6. CASE Subscribe(g, t)
  <2>1. \A h \in Generations, v \in Tasks :
           \/ pc'[h][v] = pc[h][v]
           \/ pc'[h][v] = "subscribed"
    BY <1>4, <1>6 DEF Subscribe
  <2>2. UNCHANGED <<flag, sent, heard>>
    BY <1>6 DEF Subscribe
  <2> QED
    BY <1>1, <1>3, <2>1, <2>2 DEF FlagFirst, Heard, Over
<1>7. CASE ReadFlag(g, t)
  <2>1. \A h \in Generations, v \in Tasks :
           pc'[h][v] = IF h = g /\ v = t THEN "idle" ELSE pc[h][v]
    BY <1>4, <1>7 DEF ReadFlag
  <2>2. \A h \in Generations : heard[h] \subseteq heard'[h]
    BY <1>7 DEF ReadFlag, TypeOK
  <2>3. flag[g] => t \in heard'[g]
    BY <1>7 DEF ReadFlag, TypeOK
  <2>4. UNCHANGED <<flag, sent>>
    BY <1>7 DEF ReadFlag
  <2> QED
    BY <1>1, <1>3, <2>1, <2>2, <2>3, <2>4 DEF FlagFirst, Heard, Over
<1>8. CASE Cancelled(g, t) \/ Complete(g, t) \/ Panic(g, t)
  <2>1. PICK new \in {"ended", "failing"} : Drop(g, t, new)
    BY <1>8 DEF Cancelled, Complete, Panic
  <2>2. \A h \in Generations, v \in Tasks :
           pc'[h][v] = IF h = g /\ v = t THEN new ELSE pc[h][v]
    BY <1>4, <2>1 DEF Drop
  <2>3. \A h \in Generations, v \in Tasks :
           v \in heard[h] => v \in heard'[h] \/ (h = g /\ v = t)
    BY <2>1 DEF Drop, TypeOK
  <2>4. UNCHANGED <<flag, sent>>
    BY <1>8 DEF Cancelled, Complete, Panic
  <2> QED
    BY <1>1, <1>3, <2>1, <2>2, <2>3, <2>4 DEF FlagFirst, Heard, Over
<1>9. CASE Run(g, t)
  <2>1. ~sent[g] /\ ~(g < gen)
    BY <1>9 DEF Run, Heard, Over
  <2>2. \A h \in Generations, v \in Tasks :
           pc'[h][v] = IF h = g /\ v = t THEN "working" ELSE pc[h][v]
    BY <1>4, <1>9 DEF Run
  <2>3. UNCHANGED <<flag, sent, heard>>
    BY <1>9 DEF Run
  <2> QED
    BY <1>1, <1>3, <2>1, <2>2, <2>3 DEF FlagFirst, Heard, Over
<1>10. CASE Await(g, t)
  <2>1. \A h \in Generations, v \in Tasks :
           pc'[h][v] = IF h = g /\ v = t THEN "idle" ELSE pc[h][v]
    BY <1>4, <1>10 DEF Await
  <2>2. pc[g][t] = "working" /\ UNCHANGED <<flag, sent, heard>>
    BY <1>10 DEF Await
  <2> QED
    BY <1>1, <1>3, <2>1, <2>2 DEF FlagFirst, Heard, Over
<1>11. ASSUME NEW j \in Jobs, SpawnJob(g, t, j) PROVE IInv'
  <2>1. \A h \in Generations, v \in Tasks :
           pc'[h][v] = IF h = g /\ v = j THEN "subscribed" ELSE pc[h][v]
    BY <1>2, <1>4, <1>11 DEF SpawnJob
  <2>2. UNCHANGED <<flag, sent, heard>>
    BY <1>11 DEF SpawnJob
  <2> QED
    BY <1>1, <1>3, <2>1, <2>2 DEF FlagFirst, Heard, Over
<1>12. CASE Ask(g, t) \/ Fail(g, t)
  <2>1. PICK new \in {"asking", "signalling"} :
           Goto(g, t, new) /\ (new = "asking" => pc[g][t] = "working")
    BY <1>12 DEF Ask, Fail
  <2>2. \A h \in Generations, v \in Tasks :
           pc'[h][v] = IF h = g /\ v = t THEN new ELSE pc[h][v]
    BY <1>4, <2>1
  <2>3. flag'[g] /\ \A h \in Generations : flag[h] => flag'[h]
    BY <1>12 DEF Ask, Fail, SetFlag, TypeOK
  <2>4. UNCHANGED <<sent, heard>>
    BY <1>12 DEF Ask, Fail
  <2>5. FlagFirst'
    BY <1>3, <2>1, <2>2, <2>3, <2>4 DEF FlagFirst, TypeOK
  <2>6. Heard'
    BY <2>1, <2>2, <2>4 DEF Heard
  <2>7. Over'
    BY <1>3, <2>1, <2>2, <2>4 DEF Over
  <2> QED
    BY <1>1, <2>5, <2>6, <2>7
<1>13. CASE Asked(g, t) \/ Signal(g, t)
  <2>1. PICK new \in {"idle", "ended"} :
           /\ Goto(g, t, new)
           /\ new = "idle" => pc[g][t] = "asking"
    BY <1>13 DEF Asked, Signal
  <2>2. \A h \in Generations, v \in Tasks :
           pc'[h][v] = IF h = g /\ v = t THEN new ELSE pc[h][v]
    BY <1>4, <2>1
  <2>3. Broadcast(g) /\ UNCHANGED flag /\ flag[g]
    BY <1>13 DEF Asked, Signal, FlagFirst
  <2>4. \A h \in Generations, v \in Tasks :
           v \in heard'[h] <=> v \in heard[h] \/ (h = g /\ v \in Receivers(g))
    BY <2>3 DEF Broadcast, TypeOK
  <2>5. \A v \in Tasks : pc[g][v] \in {"idle", "working", "asking"} => v \in Receivers(g)
    BY DEF Receivers, Holding
  <2>6. \A h \in Generations : sent'[h] <=> sent[h] \/ h = g
    BY <2>3 DEF Broadcast, TypeOK
  <2>7. FlagFirst'
    BY <1>3, <1>5, <2>1, <2>2, <2>3, <2>6 DEF FlagFirst, TypeOK
  <2>8. Heard'
    BY <2>1, <2>2, <2>4, <2>5, <2>6 DEF Heard
  <2>9. Over'
    BY <1>3, <2>1, <2>2, <2>6 DEF Over
  <2> QED
    BY <1>1, <2>7, <2>8, <2>9
<1> QED
  BY <1>6, <1>7, <1>8, <1>9, <1>10, <1>11, <1>12, <1>13 DEF TaskStep

\* A step of the manager preserves what is known of the signal.
LEMMA ManagerInv == IInv /\ Manager => IInv'
<1> SUFFICES ASSUME IInv, Manager PROVE IInv'
  OBVIOUS
<1> USE DEF IInv
<1>1. TypeOK'
  BY ManagerType
<1>2. Tasks = Services \cup Listeners \cup Jobs
  BY DEF Tasks
<1>3. gen \in Nat /\ gen \in Generations /\ \A h \in Generations : h \in Nat
  BY DEF TypeOK, Generations
<1>4. CASE Start \/ SpawnServices
  <2>1. \A h \in Generations, v \in Tasks :
           pc'[h][v] = pc[h][v] \/ pc'[h][v] = "spawned"
    BY <1>4 DEF Start, SpawnServices, TypeOK
  <2>2. UNCHANGED <<gen, flag, sent, heard>> /\ manager' \in {"setup", "join"}
    BY <1>4 DEF Start, SpawnServices
  <2> QED
    BY <1>1, <2>1, <2>2 DEF FlagFirst, Heard, Over
<1>5. CASE SetupFails \/ Join
  BY <1>1, <1>5 DEF SetupFails, Join, FlagFirst, Heard, Over
<1>6. CASE GiveUp
  <2>1. \A h \in Generations, v \in Tasks :
           pc'[h][v] = IF h = gen THEN "ended" ELSE pc[h][v]
    BY <1>6 DEF GiveUp, TypeOK
  <2>2. \A h \in Generations : h # gen => heard'[h] = heard[h]
    BY <1>6 DEF GiveUp, TypeOK
  <2>3. UNCHANGED <<gen, flag, sent>> /\ manager' = "stopped"
    BY <1>6 DEF GiveUp
  <2>4. FlagFirst'
    BY <2>1, <2>3 DEF FlagFirst
  <2>5. Heard'
    BY <2>1, <2>2, <2>3 DEF Heard
  <2>6. Over'
    BY <2>1, <2>3 DEF Over
  <2> QED
    BY <1>1, <2>4, <2>5, <2>6
<1>7. ASSUME NEW j \in Jobs, SpawnExecutor(j) PROVE IInv'
  <2>1. \A h \in Generations, v \in Tasks :
           pc'[h][v] = IF h = gen /\ v = j THEN "subscribed" ELSE pc[h][v]
    BY <1>2, <1>3, <1>7 DEF SpawnExecutor, Goto, TypeOK
  <2>2. UNCHANGED <<gen, flag, sent, heard>> /\ manager' = "monitor"
    BY <1>7 DEF SpawnExecutor
  <2> QED
    BY <1>1, <2>1, <2>2 DEF FlagFirst, Heard, Over
<1>8. CASE ManagerSetFlag
  <2>1. flag'[gen] /\ \A h \in Generations : flag[h] => flag'[h]
    BY <1>8 DEF ManagerSetFlag, SetFlag, TypeOK
  <2>2. UNCHANGED <<gen, sent, pc, heard>> /\ manager' = "signal"
    BY <1>8 DEF ManagerSetFlag
  <2> QED
    BY <1>1, <2>1, <2>2 DEF FlagFirst, Heard, Over
<1>9. CASE ManagerBroadcast
  <2>1. Broadcast(gen) /\ flag[gen] /\ UNCHANGED <<gen, flag, pc>> /\ manager' = "drain"
    BY <1>9 DEF ManagerBroadcast, FlagFirst
  <2>2. \A h \in Generations, v \in Tasks :
           v \in heard'[h] <=> v \in heard[h] \/ (h = gen /\ v \in Receivers(gen))
    BY <1>3, <2>1 DEF Broadcast, TypeOK
  <2>3. \A v \in Tasks : pc[gen][v] \in {"idle", "working", "asking"} => v \in Receivers(gen)
    BY DEF Receivers, Holding
  <2>4. \A h \in Generations : sent'[h] <=> sent[h] \/ h = gen
    BY <1>3, <2>1 DEF Broadcast, TypeOK
  <2>5. FlagFirst'
    BY <1>3, <2>1, <2>4 DEF FlagFirst
  <2>6. Heard'
    BY <2>1, <2>2, <2>3, <2>4 DEF Heard
  <2>7. Over'
    BY <2>1, <2>4 DEF Over
  <2> QED
    BY <1>1, <2>5, <2>6, <2>7
<1>10. CASE Drain
  <2>1. sent[gen] /\ Receivers(gen) = {} /\ UNCHANGED <<flag, sent, heard>>
    BY <1>10 DEF Drain, FlagFirst
  <2>2. \A v \in Tasks : pc[gen][v] \notin {"idle", "working", "asking"}
    BY <2>1 DEF Receivers, Holding
  <2>3. CASE gen' = gen + 1 /\ manager' = "start" /\ UNCHANGED pc
    <3>1. \A h \in Generations : h < gen' => h < gen \/ h = gen
      BY <1>3, <2>3
    <3> QED
      BY <1>1, <2>1, <2>2, <2>3, <3>1 DEF FlagFirst, Heard, Over
  <2>4. CASE /\ manager' = "stopped"
             /\ pc' = [pc EXCEPT ![gen] = [t \in Tasks |-> "ended"]]
             /\ UNCHANGED gen
    <3>1. \A h \in Generations, v \in Tasks :
             pc'[h][v] = IF h = gen THEN "ended" ELSE pc[h][v]
      BY <2>4 DEF TypeOK
    <3> QED
      BY <1>1, <2>1, <2>4, <3>1 DEF FlagFirst, Heard, Over
  <2> QED
    BY <1>10, <2>3, <2>4 DEF Drain
<1> QED
  BY <1>4, <1>5, <1>6, <1>7, <1>8, <1>9, <1>10 DEF Manager

\* The invariant is inductive.
LEMMA NextInv == IInv /\ [Next]_vars => IInv'
<1> SUFFICES ASSUME IInv, [Next]_vars PROVE IInv'
  OBVIOUS
<1>1. CASE \E g \in Generations, t \in Tasks : TaskStep(g, t)
  BY <1>1, TaskStepInv
<1>2. CASE Manager
  BY <1>2, ManagerInv
<1>3. CASE UNCHANGED vars
  BY <1>3 DEF vars, IInv, TypeOK, FlagFirst, Heard, Over
<1> QED
  BY <1>1, <1>2, <1>3 DEF Next, Done

\* In every reachable state the invariant holds.
LEMMA Invariance == Spec => []IInv
  BY InitInv, NextInv, PTL DEF Spec

----------------------------------------------------------------------------
\* Every variable of the life cycle keeps its type (connection_manager.rs and
\* shutdown.rs), whatever the tasks and the number of generations.
THEOREM ServiceTypeCorrect == Spec => []TypeOK
<1>1. IInv => TypeOK
  BY DEF IInv
<1> QED
  BY <1>1, Invariance, PTL

\* No receiver misses the shutdown signal: subscribe may run anywhere between
\* the two halves of any number of sends (shutdown.rs).
THEOREM SignalNeverMissed == Spec => []SignalNotMissed
<1>1. IInv => SignalNotMissed
  BY DEF IInv, Heard, SignalNotMissed
<1> QED
  BY <1>1, Invariance, PTL

\* No cancelable task of an earlier generation works during a later one: it is
\* enough that ConnectionManager::start waits for the receivers
\* (connection_manager.rs).
THEOREM NeverOverlap == Spec => []NoOverlap
<1>1. IInv => NoOverlap
  BY DEF IInv, Heard, Over, NoOverlap
<1> QED
  BY <1>1, Invariance, PTL

----------------------------------------------------------------------------
(* The runner and the PID file.                                            *)

\* The runner knows a release where it uses one, and has no child while down.
Knows ==
    /\ runner.st = "off" => runner.child = NoPid
    /\ runner.st \in {"load", "download"} => runner.rel \in Releases
    /\ runner.st \in {"spawn", "loop", "poll", "sleep", "terminate", "wait", "delete"} =>
           runner.rel \in Releases /\ runner.dl \in Releases

RunnerTyped == RunnerTypeOK /\ Knows

\* As long as no vault was orphaned, the only one is the child of the runner.
OnlyChild == ~orphaned => \A p \in Pids : Alive(p) => p = runner.child /\ proc[p].mine

\* The vaults that have passed the PID file.
Past(p) == proc[p].st \in {"checked", "working", "exiting"}

\* As long as the file stood before every vault, one at most has passed it, and
\* the file is its own while it works.
Guarded ==
    ~unguarded =>
        /\ \A p, q \in Pids : Past(p) /\ Past(q) => p = q
        /\ \A p \in Pids : proc[p].st = "working" => pidfile = p

RunnerInv == RunnerTyped /\ OnlyChild /\ Guarded

\* A set of naturals that is not empty has a least element.
LEMMA LeastOf ==
    ASSUME NEW S \in SUBSET Nat, S # {}
    PROVE  \E x \in S : \A y \in S : x <= y
<1> DEFINE R == OpToRel(<, Nat)
<1>1. IsWellFoundedOn(R, Nat)
  BY NatLessThanWellFounded
<1>2. R = {ss \in Nat \X Nat : ss[1] < ss[2]}
  BY Zenon DEF OpToRel
<1> HIDE DEF R
<1>3. \E x \in S : \A y \in S : <<y, x>> \notin R
  BY <1>1, WFMin
<1>4. ASSUME NEW x \in S, NEW y \in S, <<y, x>> \notin R
      PROVE  x <= y
  <2>1. <<y, x>> \in Nat \X Nat /\ <<y, x>>[1] = y /\ <<y, x>>[2] = x
    OBVIOUS
  <2> QED
    BY <1>2, <1>4, <2>1
<1> QED
  BY <1>3, <1>4

\* The kernel hands out a free process id as long as there is one.
LEMMA FreePidIsFree ==
    ASSUME RunnerTypeOK, NEW p \in Pids, proc[p].st = "none"
    PROVE  FreePid \in Pids /\ proc[FreePid].st = "none"
<1> DEFINE Free == {r \in Pids : proc[r].st = "none"}
           After == {r \in Free : r >= nextPid}
           From == IF After = {} THEN Free ELSE After
<1>1. From \in SUBSET Nat /\ From # {} /\ From \subseteq Free
  BY DEF Pids
<1>2. \E r \in From : \A q \in From : r <= q
  BY <1>1, LeastOf
<1>3. FreePid = CHOOSE r \in From : \A q \in From : r <= q
  BY DEF FreePid
<1> HIDE DEF From
<1>4. FreePid \in From
  BY <1>2, <1>3
<1> QED
  BY <1>1, <1>4

\* What is downloaded, and what is left of it, is a file.
LEMMA FileTypes ==
    /\ NoFile \in Binaries /\ Junk \in Binaries
    /\ \A r \in Releases, e \in BOOLEAN : [rel |-> r, exact |-> e] \in Binaries
    /\ \A r \in Releases : BinName[r] \in Names
BY DEF Binaries, NoFile, Junk, Names

\* A process that ends leaves an entry of its type and is no longer alive.
LEMMA EndedType ==
    ASSUME RunnerTypeOK, NEW p \in Pids
    PROVE  Ended(p) \in Procs /\ Ended(p).st \notin Live /\ Nobody \in Procs
<1>1. 1 \in Releases
  BY RunnerAssumption DEF Releases
<1>2. Nobody \in Procs /\ Nobody.st \notin Live
  BY <1>1, FileTypes DEF Nobody, Procs, Live
<1> QED
  BY <1>2 DEF Ended, RunnerTypeOK, Procs, Live

----------------------------------------------------------------------------
\* The types hold at the start.
LEMMA RunnerInitTyped == RunnerInit => RunnerInv
<1> SUFFICES ASSUME RunnerInit PROVE RunnerInv
  OBVIOUS
<1>1. 1 \in Releases /\ 1 \in Pids /\ 0 \in 0..MaxFaults
  BY RunnerAssumption DEF Releases, Pids
<1>2. Nobody \in Procs
  BY <1>1, FileTypes DEF Nobody, Procs
<1>3. RunnerTypeOK
  BY <1>1, <1>2, FileTypes DEF RunnerInit, RunnerTypeOK, Off, RunnerStates
<1>4. \A p \in Pids : proc[p].st = "none"
  BY DEF RunnerInit, Nobody
<1> QED
  BY <1>3, <1>4 DEF RunnerInit, RunnerInv, RunnerTyped, Knows, Off, OnlyChild, Guarded, Alive,
                    Live, Past

\* The steps of the runner that start no process and stop none preserve them.
LEMMA QuietTyped ==
    ASSUME RunnerTyped,
           NewRelease \/ StartRunner \/ TryGetRelease \/ TryLoadDownloadedBinary
             \/ DownloadBinary \/ Sleep \/ Fails \/ Signalled
    PROVE  RunnerTyped'
<1> USE DEF RunnerTyped, RunnerTypeOK
<1>0. MaxFaults \in Nat
  BY RunnerAssumption
<1>1. UNCHANGED machine => proc' = proc /\ pidfile' = pidfile /\ nextPid' = nextPid
                             /\ unguarded' = unguarded
  BY DEF machine
<1>2. CASE NewRelease
  BY <1>1, <1>2 DEF NewRelease, Knows
<1>3. CASE StartRunner
  BY <1>1, <1>3 DEF StartRunner, Knows, Off, RunnerStates
<1>4. CASE TryGetRelease
  <2>1. runner' \in [st : {"load", "sleep", "terminate"}, rel : {chain},
                     dl : {runner.dl}, child : {runner.child}]
    BY <1>4 DEF TryGetRelease
  <2>2. runner'.st # "load" => runner.dl \in Releases
    BY <1>4 DEF TryGetRelease, Knows
  <2> QED
    BY <1>1, <1>4, <2>1, <2>2 DEF TryGetRelease, Knows, RunnerStates
<1>5. CASE TryLoadDownloadedBinary
  <2>1. \/ runner' = [runner EXCEPT !.dl = runner.rel, !.st = "spawn"]
        \/ runner' = [runner EXCEPT !.st = "download"]
    BY <1>5 DEF TryLoadDownloadedBinary
  <2>2. runner.rel \in Releases
    BY <1>5 DEF TryLoadDownloadedBinary, Knows
  <2>3. runner' \in [st : RunnerStates, rel : Releases \cup {0}, dl : Releases \cup {0},
                     child : Pids \cup {NoPid}]
    BY <2>1, <2>2 DEF RunnerStates
  <2>4. Knows'
    BY <2>1, <2>2 DEF Knows
  <2> QED
    BY <1>1, <1>5, <2>3, <2>4 DEF TryLoadDownloadedBinary
<1>6. CASE DownloadBinary
  <2> DEFINE n == BinName[runner.rel]
  <2>1. PICK file \in Binaries : disk' = [disk EXCEPT ![n] = file]
    <3>1. CASE disk' = [disk EXCEPT ![n] = Junk]
      BY <3>1, FileTypes
    <3>2. ASSUME NEW e \in BOOLEAN, disk' = [disk EXCEPT ![n] = [rel |-> runner.rel, exact |-> e]]
          PROVE  \E file \in Binaries : disk' = [disk EXCEPT ![n] = file]
      BY <1>6, <3>2, FileTypes DEF DownloadBinary, Knows
    <3>3. \A b \in {TRUE, disk[n] = NoFile} : b \in BOOLEAN
      OBVIOUS
    <3> QED
      BY <1>6, <3>1, <3>2, <3>3 DEF DownloadBinary
  <2>2. faults' \in 0..MaxFaults
    BY <1>0, <1>6 DEF DownloadBinary, Fault
  <2>3. disk' \in [Names -> Binaries]
    BY <2>1
  <2> QED
    BY <1>1, <1>6, <2>2, <2>3 DEF DownloadBinary, Knows, RunnerStates
<1>7. CASE Sleep
  BY <1>1, <1>7 DEF Sleep, Knows, RunnerStates
<1>8. CASE Fails \/ Signalled
  <2>1. disk' \in [Names -> Binaries]
    BY <1>8, FileTypes DEF Fails, Signalled
  <2>2. faults' \in 0..MaxFaults
    BY <1>0, <1>8 DEF Fails, Signalled, Fault
  <2> QED
    BY <1>1, <1>8, <2>1, <2>2 DEF Fails, Signalled, Knows, RunnerStates
<1> QED
  BY <1>2, <1>3, <1>4, <1>5, <1>6, <1>7, <1>8

\* So do those that start a process and stop one.
LEMMA ProcessTyped ==
    ASSUME RunnerTyped,
           DeleteDownloadedRelease \/ RunBinary \/ MaybeRestartClient \/ Terminate
             \/ Waited \/ KillRunner
    PROVE  RunnerTyped'
<1> USE DEF RunnerTyped, RunnerTypeOK
<1>1. Nobody \in Procs
  <2>1. \E p : p \in Pids
    BY RunnerAssumption DEF Pids
  <2> QED
    BY <2>1, EndedType
<1>2. \A p \in Pids, b \in BOOLEAN :
         /\ [proc[p] EXCEPT !.linked = b] \in Procs
         /\ [proc[p] EXCEPT !.mine = b] \in Procs
         /\ [proc[p] EXCEPT !.term = b] \in Procs
         /\ [proc[p] EXCEPT !.st = "zombie"] \in Procs
  BY DEF Procs
<1>3. CASE DeleteDownloadedRelease
  <2>1. proc' \in [Pids -> Procs]
    BY <1>2, <1>3 DEF DeleteDownloadedRelease
  <2> QED
    BY <1>3, <2>1, FileTypes DEF DeleteDownloadedRelease, Knows, RunnerStates
<1>4. CASE RunBinary
  <2> DEFINE n == BinName[runner.dl]
  <2>1. FreePid \in Pids
    BY <1>4, FreePidIsFree DEF RunBinary
  <2>2. n \in Names /\ disk[n] \in Binaries
    BY <1>4, FileTypes DEF RunBinary, Knows
  <2>3. [st |-> "init", name |-> n, bin |-> disk[n],
         linked |-> TRUE, mine |-> TRUE, term |-> FALSE] \in Procs
    BY <2>2 DEF Procs, Live
  <2>4. proc' \in [Pids -> Procs]
    BY <1>4, <2>3 DEF RunBinary
  <2>5. nextPid' \in Pids
    BY <1>4, <2>1, RunnerAssumption DEF RunBinary, Pids
  <2> QED
    BY <1>4, <2>1, <2>4, <2>5 DEF RunBinary, Knows, RunnerStates
<1>5. CASE MaybeRestartClient
  <2>1. proc' \in [Pids -> Procs]
    BY <1>1, <1>5 DEF MaybeRestartClient
  <2> QED
    BY <1>5, <2>1 DEF MaybeRestartClient, Knows, RunnerStates
<1>6. CASE Terminate
  <2>1. proc' \in [Pids -> Procs]
    BY <1>2, <1>6 DEF Terminate
  <2> QED
    BY <1>6, <2>1 DEF Terminate, Knows, RunnerStates
<1>7. CASE Waited
  <2>1. proc' \in [Pids -> Procs]
    BY <1>1, <1>7 DEF Waited
  <2> QED
    BY <1>7, <2>1 DEF Waited, Knows, RunnerStates, Off
<1>8. CASE KillRunner
  <2>1. proc' \in [Pids -> Procs]
    BY <1>1, <1>2, <1>8 DEF KillRunner
  <2>2. disk' \in [Names -> Binaries]
    BY <1>8, FileTypes DEF KillRunner
  <2>3. faults' \in 0..MaxFaults
    BY <1>8, RunnerAssumption DEF KillRunner, Fault
  <2> QED
    BY <1>8, <2>1, <2>2, <2>3 DEF KillRunner, Knows, RunnerStates, Off
<1> QED
  BY <1>3, <1>4, <1>5, <1>6, <1>7, <1>8

\* The steps of a vault, which nobody but that vault can see.
VaultStepOf(p) == VaultStep(p) \/ DropPidFile(p) \/ KillVault(p)

\* And those of a vault.
LEMMA VaultTyped ==
    ASSUME RunnerTyped, NEW p \in Pids, VaultStepOf(p)
    PROVE  RunnerTyped'
<1> USE DEF RunnerTyped, RunnerTypeOK
<1>1. Ended(p) \in Procs
  BY EndedType
<1>2. \A s \in Live : [proc[p] EXCEPT !.st = s] \in Procs
  BY DEF Procs
<1>3. CASE CheckPidFile(p)
  <2>1. proc' \in [Pids -> Procs]
    BY <1>1, <1>2, <1>3 DEF CheckPidFile, Live
  <2>2. unguarded' \in BOOLEAN
    BY <1>3 DEF CheckPidFile
  <2> QED
    BY <1>3, <2>1, <2>2 DEF CheckPidFile, Knows
<1>4. CASE SetPid(p)
  <2>1. proc' = [proc EXCEPT ![p] = [proc[p] EXCEPT !.st = "working"]]
    BY <1>4 DEF SetPid
  <2> QED
    BY <1>2, <1>4, <2>1 DEF SetPid, Knows, Live
<1>5. CASE DropPidFile(p)
  <2>1. proc' = [proc EXCEPT ![p] = [proc[p] EXCEPT !.st = "exiting"]]
    BY <1>5 DEF DropPidFile
  <2>2. faults' \in 0..MaxFaults
    BY <1>5, RunnerAssumption DEF DropPidFile, Fault
  <2> QED
    BY <1>2, <1>5, <2>1, <2>2 DEF DropPidFile, Knows, Live
<1>6. CASE Exit(p)
  BY <1>1, <1>6 DEF Exit, Knows
<1>7. CASE KillVault(p)
  <2>1. faults' \in 0..MaxFaults
    BY <1>7, RunnerAssumption DEF KillVault, Fault
  <2>2. pidfile' \in Pids \cup {NoPid, EmptyFile}
    BY <1>7 DEF KillVault
  <2> QED
    BY <1>1, <1>7, <2>1, <2>2 DEF KillVault, Knows
<1> QED
  BY <1>3, <1>4, <1>5, <1>6, <1>7 DEF VaultStepOf, VaultStep

\* The types are inductive.
LEMMA NextTyped == RunnerTyped /\ [RunnerNext]_runnerVars => RunnerTyped'
<1> SUFFICES ASSUME RunnerTyped, [RunnerNext]_runnerVars PROVE RunnerTyped'
  OBVIOUS
<1>1. CASE \E p \in Pids : VaultStepOf(p)
  BY <1>1, VaultTyped
<1>2. CASE UNCHANGED runnerVars
  BY <1>2 DEF runnerVars, RunnerTyped, RunnerTypeOK, Knows
<1> QED
  BY <1>1, <1>2, QuietTyped, ProcessTyped DEF RunnerNext, RunnerStep, VaultStepOf

----------------------------------------------------------------------------
\* What the steps of the runner, and of a vault, leave of the processes: apart
\* from the one it starts, a process is what it was or is over.
LEMMA RunnerSteps ==
    ASSUME RunnerTyped, NewRelease \/ StartRunner \/ RunnerStep \/ Signalled \/ KillRunner
    PROVE  /\ UNCHANGED <<pidfile, unguarded>>
           /\ \A p \in Pids : \/ proc'[p].st = proc[p].st
                               \/ proc'[p].st \in {"init", "none", "zombie"}
<1> USE DEF RunnerTyped, RunnerTypeOK
<1>1. CASE UNCHANGED machine
  BY <1>1 DEF machine
<1>2. Nobody.st = "none"
  BY DEF Nobody
<1>3. CASE DeleteDownloadedRelease
  BY <1>3 DEF DeleteDownloadedRelease, Procs
<1>4. CASE RunBinary
  BY <1>4 DEF RunBinary
<1>5. CASE MaybeRestartClient
  BY <1>2, <1>5 DEF MaybeRestartClient
<1>6. CASE Terminate
  BY <1>6 DEF Terminate, Procs
<1>7. CASE Waited
  BY <1>2, <1>7 DEF Waited
<1>8. CASE KillRunner
  BY <1>2, <1>8 DEF KillRunner, Procs
<1> QED
  BY <1>1, <1>3, <1>4, <1>5, <1>6, <1>7, <1>8
     DEF RunnerStep, NewRelease, StartRunner, TryGetRelease, TryLoadDownloadedBinary,
         DownloadBinary, Sleep, Fails, Signalled

\* No step of the runner takes a vault past the PID file.
LEMMA RunnerGuarded ==
    ASSUME RunnerTyped, Guarded,
           NewRelease \/ StartRunner \/ RunnerStep \/ Signalled \/ KillRunner
    PROVE  Guarded'
BY RunnerSteps DEF Guarded, Past

\* A vault goes on only if the file, or the absence of any other, allows it.
LEMMA VaultGuarded ==
    ASSUME RunnerTyped, Guarded, NEW p \in Pids, VaultStepOf(p)
    PROVE  Guarded'
<1> USE DEF RunnerTyped, RunnerTypeOK
<1> SUFFICES ASSUME ~unguarded'
             PROVE  /\ \A q, r \in Pids : Past(q)' /\ Past(r)' => q = r
                    /\ \A q \in Pids : proc'[q].st = "working" => pidfile' = q
  BY DEF Guarded
<1>1. ~unguarded
  BY DEF VaultStepOf, VaultStep, CheckPidFile, SetPid, DropPidFile, Exit, KillVault
<1>2. /\ \A q, r \in Pids : Past(q) /\ Past(r) => q = r
      /\ \A q \in Pids : proc[q].st = "working" => pidfile = q
  BY <1>1 DEF Guarded
<1>3. \A q \in Pids : q # p => proc'[q] = proc[q]
  BY DEF VaultStepOf, VaultStep, CheckPidFile, SetPid, DropPidFile, Exit, KillVault
<1>4. Ended(p).st \notin {"checked", "working", "exiting"}
  BY EndedType DEF Live
<1>5. CASE CheckPidFile(p)
  <2> DEFINE refused == pidfile = EmptyFile \/ (pidfile \in Pids /\ Blocked(p, pidfile))
  <2>1. pidfile' = pidfile
    BY <1>5 DEF CheckPidFile
  <2>2. CASE refused
    <3>1. proc'[p] = Ended(p)
      BY <1>5, <2>2 DEF CheckPidFile
    <3> QED
      BY <1>2, <1>3, <1>4, <2>1, <3>1 DEF Past
  <2>3. CASE ~refused
    <3>1. \A q \in Pids \ {p} : Alive(q) => proc[q].name = proc[p].name /\ proc[q].st = "working"
      BY <1>5, <2>3 DEF CheckPidFile
    <3>2. \A q \in Pids \ {p} : ~Alive(q)
      BY <1>2, <2>3, <3>1 DEF Blocked
    <3>3. \A q \in Pids \ {p} : ~Past(q)
      BY <3>2 DEF Past, Alive, Live
    <3>4. proc'[p].st = "checked"
      BY <1>5, <2>3 DEF CheckPidFile
    <3> QED
      BY <1>3, <3>3, <3>4 DEF Past
  <2> QED
    BY <2>2, <2>3
<1>6. CASE SetPid(p)
  <2>1. Past(p) /\ pidfile' = p
    BY <1>6 DEF SetPid, Past
  <2> QED
    BY <1>2, <1>3, <2>1 DEF Past
<1>7. CASE DropPidFile(p)
  <2>1. Past(p) /\ proc'[p].st = "exiting"
    BY <1>7 DEF DropPidFile, Past, Procs
  <2> QED
    BY <1>2, <1>3, <2>1 DEF Past
<1>8. CASE Exit(p)
  <2>1. proc'[p] = Ended(p) /\ pidfile' = pidfile
    BY <1>8 DEF Exit
  <2> QED
    BY <1>2, <1>3, <1>4, <2>1 DEF Past
<1>9. CASE KillVault(p)
  <2>1. proc'[p] = Ended(p)
    BY <1>9 DEF KillVault
  <2>2. pidfile' = pidfile \/ Past(p)
    BY <1>9 DEF KillVault, Past
  <2> QED
    BY <1>2, <1>3, <1>4, <2>1, <2>2 DEF Past
<1> QED
  BY <1>5, <1>6, <1>7, <1>8, <1>9 DEF VaultStepOf, VaultStep

----------------------------------------------------------------------------
\* A runner that is not killed keeps the only vault for its child.
LEMMA RunnerOnlyChild ==
    ASSUME RunnerTyped, OnlyChild,
           NewRelease \/ StartRunner \/ RunnerStep \/ Signalled \/ KillRunner
    PROVE  OnlyChild'
<1> USE DEF RunnerTyped, RunnerTypeOK
<1> SUFFICES ASSUME ~orphaned', NEW p \in Pids, Alive(p)'
             PROVE  p = runner'.child /\ proc'[p].mine
  BY DEF OnlyChild
<1>1. ~orphaned
  BY DEF NewRelease, StartRunner, RunnerStep, TryGetRelease, TryLoadDownloadedBinary,
         DownloadBinary, DeleteDownloadedRelease, RunBinary, MaybeRestartClient, Sleep,
         Fails, Signalled, Terminate, Waited, KillRunner
<1>2. \A q \in Pids : Alive(q) => q = runner.child /\ proc[q].mine
  BY <1>1 DEF OnlyChild
<1>3. NoPid \notin Pids /\ "init" \in Live /\ "zombie" \notin Live /\ Nobody.st \notin Live
  BY DEF NoPid, Pids, Live, Nobody
<1>4. CASE /\ UNCHANGED machine
           /\ runner'.child = runner.child
  BY <1>2, <1>4 DEF machine, Alive
<1>5. CASE StartRunner
  <2>1. UNCHANGED machine /\ runner.child = NoPid
    BY <1>5 DEF StartRunner, Knows
  <2> QED
    BY <1>2, <1>3, <2>1 DEF machine, Alive
<1>6. CASE DeleteDownloadedRelease
  <2>1. proc'[p].st = proc[p].st /\ proc'[p].mine = proc[p].mine /\ runner'.child = runner.child
    BY <1>6 DEF DeleteDownloadedRelease, Procs
  <2> QED
    BY <1>2, <2>1 DEF Alive
<1>7. CASE RunBinary
  <2>1. ~Alive(p)
    BY <1>2, <1>3, <1>7 DEF RunBinary
  <2>2. p = FreePid /\ proc'[p].mine /\ runner'.child = FreePid
    BY <1>7, <2>1 DEF RunBinary, Alive
  <2> QED
    BY <2>2
<1>8. CASE MaybeRestartClient
  BY <1>2, <1>3, <1>8 DEF MaybeRestartClient, Alive
<1>9. CASE Terminate
  <2>1. runner'.child = runner.child
    BY <1>9 DEF Terminate
  <2>2. Alive(p) /\ proc'[p].mine = proc[p].mine
    BY <1>3, <1>9 DEF Terminate, Alive, Procs
  <2> QED
    BY <1>2, <2>1, <2>2
<1>10. CASE Waited
  <2>1. proc'[p] = proc[p] /\ p # runner.child
    BY <1>3, <1>10 DEF Waited, Alive
  <2> QED
    BY <1>2, <2>1 DEF Alive
<1>11. CASE KillRunner
  <2>1. Alive(p)
    BY <1>3, <1>11 DEF KillRunner, Alive, Procs
  <2> QED
    BY <1>2, <1>11, <2>1 DEF KillRunner
<1>12. RunnerStep \/ Signalled \/ KillRunner \/ NewRelease \/ StartRunner
  OBVIOUS
<1>13. CASE NewRelease \/ TryGetRelease \/ TryLoadDownloadedBinary \/ DownloadBinary \/ Sleep
             \/ Fails \/ Signalled
  BY <1>4, <1>13 DEF NewRelease, TryGetRelease, TryLoadDownloadedBinary, DownloadBinary, Sleep,
                     Fails, Signalled
<1> QED
  BY <1>5, <1>6, <1>7, <1>8, <1>9, <1>10, <1>11, <1>12, <1>13 DEF RunnerStep

\* A vault that takes a step is the child afterwards if it was before.
LEMMA VaultOnlyChild ==
    ASSUME RunnerTyped, OnlyChild, NEW p \in Pids, VaultStepOf(p)
    PROVE  OnlyChild'
<1> USE DEF RunnerTyped, RunnerTypeOK
<1>1. UNCHANGED <<runner, orphaned>> /\ Alive(p)
  BY DEF VaultStepOf, VaultStep, CheckPidFile, SetPid, DropPidFile, Exit, KillVault, Alive, Live
<1>2. \A q \in Pids : q # p => proc'[q] = proc[q]
  BY DEF VaultStepOf, VaultStep, CheckPidFile, SetPid, DropPidFile, Exit, KillVault
<1>3. proc'[p] = Ended(p) \/ proc'[p].mine = proc[p].mine
  BY DEF VaultStepOf, VaultStep, CheckPidFile, SetPid, DropPidFile, Exit, KillVault, Procs
<1>4. Ended(p).st \notin Live
  BY EndedType
<1> QED
  BY <1>1, <1>2, <1>3, <1>4 DEF OnlyChild, Alive

\* The invariant is inductive.
LEMMA RunnerNextInv == RunnerInv /\ [RunnerNext]_runnerVars => RunnerInv'
<1> SUFFICES ASSUME RunnerInv, [RunnerNext]_runnerVars PROVE RunnerInv'
  OBVIOUS
<1> USE DEF RunnerInv
<1>1. RunnerTyped'
  BY NextTyped
<1>2. CASE NewRelease \/ StartRunner \/ RunnerStep \/ Signalled \/ KillRunner
  BY <1>1, <1>2, RunnerGuarded, RunnerOnlyChild
<1>3. CASE \E p \in Pids : VaultStepOf(p)
  BY <1>1, <1>3, VaultGuarded, VaultOnlyChild
<1>4. CASE UNCHANGED runnerVars
  BY <1>1, <1>4 DEF runnerVars, OnlyChild, Guarded, Alive, Past
<1> QED
  BY <1>2, <1>3, <1>4 DEF RunnerNext, VaultStepOf

\* In every reachable state the invariant holds.
LEMMA RunnerInvariance == RunnerSpec => []RunnerInv
BY RunnerInitTyped, RunnerNextInv, PTL DEF RunnerSpec

\* Every variable of the runner, its vaults and the PID file keeps its type,
\* and the runner never uses a release it has not read (runner.rs, process.rs).
THEOREM RunnerTypeCorrect == RunnerSpec => []RunnerTypeOK
<1>1. RunnerInv => RunnerTypeOK
  BY DEF RunnerInv, RunnerTyped
<1> QED
  BY <1>1, RunnerInvariance, PTL

\* As long as no runner is killed with its child alive there is never more than
\* one vault process (runner.rs, terminate_proc_and_wait).
THEOREM OneVaultIfGraceful == RunnerSpec => []GracefulMeansOneVault
<1>1. RunnerInv => GracefulMeansOneVault
  BY DEF RunnerInv, OnlyChild, GracefulMeansOneVault
<1> QED
  BY <1>1, RunnerInvariance, PTL

\* Two vaults never work side by side if the file stood before each of them
\* (process.rs, PidFile::create).
THEOREM FileGuards == RunnerSpec => []PidFileGuards
<1>1. RunnerInv => PidFileGuards
  BY DEF RunnerInv, Guarded, Past, PidFileGuards, Working
<1> QED
  BY <1>1, RunnerInvariance, PTL
============================================================================
