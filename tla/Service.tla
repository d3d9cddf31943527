------------------------------ MODULE Service ------------------------------
(***************************************************************************)
(* How the vault process runs one generation of its service after another  *)
(* and ends each: ConnectionManager::start, wait_or_shutdown and           *)
(* spawn_cancelable (vault/src/connection_manager.rs), ShutdownSender      *)
(* (runtime/src/shutdown.rs), and the skeleton of run_service and          *)
(* run_and_monitor_tasks (vault/src/system.rs).                            *)
(*                                                                         *)
(* A shutdown is a flag and a broadcast.  Neither send nor subscribe is    *)
(* atomic, and the tasks run on several threads.  The manager starts the   *)
(* next generation when no receiver of the broadcast is left, so a task    *)
(* that is not (or not yet) subscribed is not waited for.                  *)
(*                                                                         *)
(* A task is polled: it first looks for the signal and only without one    *)
(* does a step of its own work.  What the work is does not matter here,    *)
(* except that it may spawn a job, ask for a shutdown, end or panic.       *)
(* Tasks spawned with neither function (those that execute issue requests) *)
(* hold no receiver and have no part in this.                              *)
(***************************************************************************)
EXTENDS Naturals

CONSTANTS
    Services,       \* tasks that run_and_monitor_tasks spawns and joins
    Timer,          \* the one of them that is the restart timer
    Listeners,      \* tasks spawned with wait_or_shutdown and not joined
    Jobs,           \* tasks spawned with spawn_cancelable
    MaxGenerations  \* bound: generations of the service

ASSUME ServiceAssumption ==
    /\ Timer \in Services
    /\ Services \cap Listeners = {}
    /\ (Services \cup Listeners) \cap Jobs = {}
    /\ MaxGenerations \in Nat \ {0}

Tasks == Services \cup Listeners \cup Jobs
Generations == 1..MaxGenerations

VARIABLES
    gen,        \* the current generation
    manager,    \* where ConnectionManager::start is
    flag,       \* sent_shutdown of the generation's ShutdownSender
    sent,       \* a broadcast was completed in the generation
    pc,         \* where each task is
    heard       \* receivers that have the signal: received_shutdown, or a
                \* message in the channel

vars == <<gen, manager, flag, sent, pc, heard>>

\* A task holds a receiver of the broadcast from subscribing on until its
\* future has completed or was cancelled.
Holding == {"subscribed", "idle", "working", "asking"}
PCs == Holding \cup {"none", "spawned", "failing", "signalling", "ended"}

TypeOK ==
    /\ gen \in Generations
    /\ manager \in {"start", "setup", "monitor", "join", "returned", "signal", "drain", "stopped"}
    /\ flag \in [Generations -> BOOLEAN]
    /\ sent \in [Generations -> BOOLEAN]
    /\ pc \in [Generations -> [Tasks -> PCs]]
    /\ heard \in [Generations -> SUBSET Tasks]

Init ==
    /\ gen = 1
    /\ manager = "start"
    /\ flag = [g \in Generations |-> FALSE]
    /\ sent = [g \in Generations |-> FALSE]
    /\ pc = [g \in Generations |-> [t \in Tasks |-> "none"]]
    /\ heard = [g \in Generations |-> {}]

Goto(g, t, new) == pc' = [pc EXCEPT ![g][t] = new]

\* The task goes on without its receiver.
Drop(g, t, new) == Goto(g, t, new) /\ heard' = [heard EXCEPT ![g] = @ \ {t}]

----------------------------------------------------------------------------
(***************************************************************************)
(* ShutdownSender and ShutdownReceiver.                                    *)
(***************************************************************************)

\* receiver_count.
Receivers(g) == {t \in Tasks : pc[g][t] \in Holding}

\* send, first half: record the signal for receivers to come.
SetFlag(g) == flag' = [flag EXCEPT ![g] = TRUE]

\* send, second half: the channel.
Broadcast(g) ==
    /\ heard' = [heard EXCEPT ![g] = @ \cup Receivers(g)]
    /\ sent' = [sent EXCEPT ![g] = TRUE]

\* subscribe, first half, by a task that has just been spawned ...
Subscribe(g, t) ==
    /\ pc[g][t] = "spawned"
    /\ Goto(g, t, "subscribed")
    /\ UNCHANGED <<gen, manager, flag, sent, heard>>

\* Mutant of ReadFlag: only the broadcast is listened to.
IgnoreFlag(g, t) ==
    /\ pc[g][t] = "subscribed"
    /\ Goto(g, t, "idle")
    /\ UNCHANGED <<gen, manager, flag, sent, heard>>

\* ... and second half: was the signal sent before?
ReadFlag(g, t) ==
    /\ pc[g][t] = "subscribed"
    /\ heard' = [heard EXCEPT ![g] = IF flag[g] THEN @ \cup {t} ELSE @]
    /\ Goto(g, t, "idle")
    /\ UNCHANGED <<gen, manager, flag, sent>>

----------------------------------------------------------------------------
(***************************************************************************)
(* run_cancelable, wait_or_shutdown and the work of a task.                *)
(***************************************************************************)

\* The signal is looked for first: the task is cancelled ...
Cancelled(g, t) ==
    /\ pc[g][t] = "idle"
    /\ t \in heard[g]
    /\ Drop(g, t, "ended")
    /\ UNCHANGED <<gen, manager, flag, sent>>

\* ... or it runs.
Run(g, t) ==
    /\ pc[g][t] = "idle"
    /\ t \notin heard[g]
    /\ Goto(g, t, "working")
    /\ UNCHANGED <<gen, manager, flag, sent, heard>>

\* It awaits something; a job it was spawning has its receiver by then.
Await(g, t) ==
    /\ pc[g][t] = "working"
    /\ \A j \in Jobs : pc[g][j] # "subscribed"
    /\ Goto(g, t, "idle")
    /\ UNCHANGED <<gen, manager, flag, sent, heard>>

\* It spawns a job: spawn_cancelable(shutdown_tx.subscribe(), ..).
SpawnJob(g, t, j) ==
    /\ pc[g][t] = "working"
    /\ t \in Services \ {Timer}
    /\ pc[g][j] = "none"
    /\ Goto(g, j, "subscribed")
    /\ UNCHANGED <<gen, manager, flag, sent, heard>>

\* A call made by the task times out in with_unique_signer, or the executor of
\* open requests fails: the task itself asks for the shutdown.
Ask(g, t) ==
    /\ pc[g][t] = "working"
    /\ SetFlag(g)
    /\ Goto(g, t, "asking")
    /\ UNCHANGED <<gen, manager, sent, heard>>

Asked(g, t) ==
    /\ pc[g][t] = "asking"
    /\ Broadcast(g)
    /\ Goto(g, t, "idle")
    /\ UNCHANGED <<gen, manager, flag>>

\* Mutant of Complete: a task that completes is not the same as one that ended.
CompleteUnended(g, t) ==
    /\ pc[g][t] = "working"
    /\ \A j \in Jobs : pc[g][j] # "subscribed"
    /\ Drop(g, t, "completed")
    /\ UNCHANGED <<gen, manager, flag, sent>>

\* The work completes: a job just ends; wait_or_shutdown, whose receiver is
\* dropped by now, shuts the generation down.
Complete(g, t) ==
    /\ pc[g][t] = "working"
    /\ \A j \in Jobs : pc[g][j] # "subscribed"
    /\ Drop(g, t, IF t \in Jobs THEN "ended" ELSE "failing")
    /\ UNCHANGED <<gen, manager, flag, sent>>

\* Mutant of Fail: a task that has failed does not tell the others.
FailSilently(g, t) ==
    /\ pc[g][t] = "failing"
    /\ Goto(g, t, "ended")
    /\ UNCHANGED <<gen, manager, flag, sent, heard>>

Fail(g, t) ==
    /\ pc[g][t] = "failing"
    /\ SetFlag(g)
    /\ Goto(g, t, "signalling")
    /\ UNCHANGED <<gen, manager, sent, heard>>

Signal(g, t) ==
    /\ pc[g][t] = "signalling"
    /\ Broadcast(g)
    /\ Goto(g, t, "ended")
    /\ UNCHANGED <<gen, manager, flag>>

\* A panic ends the task and tells nobody.
Panic(g, t) ==
    /\ pc[g][t] = "working"
    /\ t # Timer
    /\ \A j \in Jobs : pc[g][j] # "subscribed"
    /\ Drop(g, t, "ended")
    /\ UNCHANGED <<gen, manager, flag, sent>>

----------------------------------------------------------------------------
(***************************************************************************)
(* ConnectionManager::start and run_service.                               *)
(***************************************************************************)

\* Connect, and let run_service spawn its listener for errors.
Start ==
    /\ manager = "start"
    /\ manager' = "setup"
    /\ pc' = [pc EXCEPT ![gen] = [t \in Tasks |-> IF t \in Listeners THEN "spawned" ELSE @[t]]]
    /\ UNCHANGED <<gen, flag, sent, heard>>

\* run_service fails before the services are spawned; the executor may run.
SetupFails ==
    /\ manager \in {"setup", "monitor"}
    /\ manager' = "returned"
    /\ UNCHANGED <<gen, flag, sent, pc, heard>>

\* A permanent error ends the process, all tasks included.
GiveUp ==
    /\ manager \in {"start", "setup"}
    /\ manager' = "stopped"
    /\ pc' = [pc EXCEPT ![gen] = [t \in Tasks |-> "ended"]]
    /\ heard' = [heard EXCEPT ![gen] = {}]
    /\ UNCHANGED <<gen, flag, sent>>

\* Spawn the executor of open requests, a job.
SpawnExecutor(j) ==
    /\ manager = "setup"
    /\ pc[gen][j] = "none"
    /\ manager' = "monitor"
    /\ Goto(gen, j, "subscribed")
    /\ UNCHANGED <<gen, flag, sent, heard>>

\* run_and_monitor_tasks: spawn the services.
SpawnServices ==
    /\ manager = "monitor"
    /\ \A j \in Jobs : pc[gen][j] # "subscribed"
    /\ manager' = "join"
    /\ pc' = [pc EXCEPT ![gen] = [t \in Tasks |-> IF t \in Services THEN "spawned" ELSE @[t]]]
    /\ UNCHANGED <<gen, flag, sent, heard>>

\* All of them have ended: run_service returns.
Join ==
    /\ manager = "join"
    /\ \A t \in Services : pc[gen][t] = "ended"
    /\ manager' = "returned"
    /\ UNCHANGED <<gen, flag, sent, pc, heard>>

\* Propagate the signal ...
ManagerSetFlag ==
    /\ manager = "returned"
    /\ SetFlag(gen)
    /\ manager' = "signal"
    /\ UNCHANGED <<gen, sent, pc, heard>>

ManagerBroadcast ==
    /\ manager = "signal"
    /\ Broadcast(gen)
    /\ manager' = "drain"
    /\ UNCHANGED <<gen, flag, pc>>

\* Mutant of Drain: the receivers are not waited for.
DrainAtOnce ==
    /\ manager = "drain"
    /\ gen < MaxGenerations
    /\ gen' = gen + 1
    /\ manager' = "start"
    /\ UNCHANGED <<flag, sent, pc, heard>>

\* ... and wait until no receiver is left.  RestartPolicy::Always goes on to
\* the next generation, RestartPolicy::Never ends the process.
Drain ==
    /\ manager = "drain"
    /\ Receivers(gen) = {}
    /\ \/ /\ gen < MaxGenerations
          /\ gen' = gen + 1
          /\ manager' = "start"
          /\ UNCHANGED pc
       \/ /\ manager' = "stopped"
          /\ pc' = [pc EXCEPT ![gen] = [t \in Tasks |-> "ended"]]
          /\ UNCHANGED gen
    /\ UNCHANGED <<flag, sent, heard>>

----------------------------------------------------------------------------
TaskStep(g, t) ==
    \/ Subscribe(g, t) \/ ReadFlag(g, t) \/ Cancelled(g, t) \/ Run(g, t) \/ Await(g, t)
    \/ \E j \in Jobs : SpawnJob(g, t, j)
    \/ Ask(g, t) \/ Asked(g, t) \/ Complete(g, t) \/ Fail(g, t) \/ Signal(g, t)
    \/ Panic(g, t)

Manager ==
    \/ Start \/ SetupFails \/ GiveUp \/ SpawnServices \/ Join
    \/ \E j \in Jobs : SpawnExecutor(j)
    \/ ManagerSetFlag \/ ManagerBroadcast \/ Drain

\* The process has stopped.
Done == manager = "stopped" /\ UNCHANGED vars

Next ==
    \/ manager # "stopped" /\ \E g \in Generations, t \in Tasks : TaskStep(g, t)
    \/ Manager
    \/ Done

Spec == Init /\ [][Next]_vars

\* What a task does by itself when it is polled.
Poll(g, t) ==
    /\ manager # "stopped"
    /\ \/ Subscribe(g, t) \/ ReadFlag(g, t) \/ Cancelled(g, t) \/ Run(g, t) \/ Await(g, t)
       \/ Complete(g, t) \/ Asked(g, t) \/ Fail(g, t) \/ Signal(g, t)

\* The scheduler polls every task that can go on, the calls that a task's work
\* makes return, and the restart timer completes.
Fairness ==
    /\ WF_vars(Manager)
    /\ \A g \in Generations :
        /\ \A t \in Tasks : WF_vars(Poll(g, t))
        /\ SF_vars(manager # "stopped" /\ Complete(g, Timer))

FairSpec == Spec /\ Fairness

----------------------------------------------------------------------------
\* A receiver that does not see the signal is subscribed early enough to get
\* it: once a broadcast was completed, every receiver that has read the flag
\* knows of it.  What ShutdownSender is for.
SignalNotMissed ==
    \A g \in Generations, t \in Tasks :
        sent[g] /\ pc[g][t] = "idle" => t \in heard[g]

\* No cancelable task of an earlier generation works, or can still come to,
\* while a later generation is up: counting the receivers is enough, although
\* a task that has been spawned but not polled is not counted.
NoOverlap ==
    \A g \in Generations, t \in Tasks :
        g < gen => /\ pc[g][t] \notin {"working", "asking"}
                   /\ pc[g][t] = "idle" => t \in heard[g]

\* No generation lasts forever: although a task may panic without telling, the
\* restart timer ends it, and no task waits for a signal that does not come.
EventuallyRestarted ==
    \A g \in Generations :
        gen = g ~> (gen > g \/ manager = "stopped")
============================================================================
