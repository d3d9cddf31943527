------------------------------- MODULE Runner -------------------------------
(***************************************************************************)
(* The auto-updater (runner/src/runner.rs, main.rs) and the vault process  *)
(* it starts, as far as the PID file that keeps two vaults apart           *)
(* (vault/src/process.rs, vault/src/main.rs).                              *)
(*                                                                         *)
(* The runner reads the current release from the parachain, downloads its  *)
(* binary, runs it as a child process, starts it again when it ended and   *)
(* replaces it when the release changes.  It ends on an error or a signal, *)
(* and then stops its child.  A runner killed with SIGKILL leaves the      *)
(* child behind; the next runner knows nothing of it, and only the PID     *)
(* file stands between the two vaults.                                     *)
(*                                                                         *)
(* A binary is the release it was built from and whether the file is       *)
(* exactly the published one; bytes are not modelled.  The kernel hands    *)
(* out process ids in ascending order and starts again at the lowest.      *)
(***************************************************************************)
EXTENDS Naturals, FiniteSets

CONSTANTS
    NumReleases, \* bound: releases the parachain announces, one after another
    BinName,     \* the last segment of each release's URI (get_bin_path)
    NumPids,     \* bound: process ids of the machine
    MaxFaults    \* bound: kills, stops, services that end, failures of the network

ASSUME RunnerAssumption ==
    /\ NumReleases \in Nat \ {0}
    /\ DOMAIN BinName = 1..NumReleases
    /\ MaxFaults \in Nat
    /\ NumPids \in Nat /\ NumPids > MaxFaults + 1

Releases == 1..NumReleases
Names == {BinName[r] : r \in Releases}
Pids == 1..NumPids
NoPid == 0          \* no child; no PID file
EmptyFile == NumPids + 1  \* a PID file that was created and not yet written

\* What a path of the download directory holds.  An inexact binary is a new
\* release written over the start of a longer file: it still runs.  Junk
\* (an empty or partial file, an error page) does not.
NoFile == [rel |-> 0, exact |-> FALSE]
Junk == [rel |-> 0, exact |-> TRUE]
Binaries == [rel : Releases, exact : BOOLEAN] \cup {NoFile, Junk}

VARIABLES
    chain,      \* the current release on the parachain
    disk,       \* file of each name in the download directory
    runner,     \* the Runner: where auto_update is, and its fields
    proc,       \* the machine's vault processes
    pidfile,    \* the PID in the file, NoPid without one, or EmptyFile
    nextPid,    \* where the kernel looks for a free process id
    faults,     \* faults so far
    orphaned,   \* history: some runner was killed with a child alive
    unguarded   \* history: a vault went on although another one was alive

runnerVars == <<chain, disk, runner, proc, pidfile, nextPid, faults, orphaned, unguarded>>
machine == <<proc, pidfile, nextPid, unguarded>>

\* child_proc is runner.child and downloaded_release is runner.dl (a release,
\* 0 for None); runner.rel is the release read last.
RunnerStates == {"off", "start", "load", "download", "spawn", "loop", "poll",
                 "sleep", "terminate", "wait", "delete", "stop", "stopped"}
\* "init": up to the PID file; "checked": none stands in the way; "working":
\* file written, signals caught; "exiting": file removed, tasks still on.
Live == {"init", "checked", "working", "exiting"}
Procs == [st : Live \cup {"none", "zombie"}, name : Names, bin : Binaries,
          linked : BOOLEAN, mine : BOOLEAN, term : BOOLEAN]

RunnerTypeOK ==
    /\ chain \in Releases
    /\ disk \in [Names -> Binaries]
    /\ runner \in [st : RunnerStates, rel : Releases \cup {0}, dl : Releases \cup {0},
                   child : Pids \cup {NoPid}]
    /\ proc \in [Pids -> Procs]
    /\ pidfile \in Pids \cup {NoPid, EmptyFile}
    /\ nextPid \in Pids
    /\ faults \in 0..MaxFaults
    /\ orphaned \in BOOLEAN
    /\ unguarded \in BOOLEAN

Off == [st |-> "off", rel |-> 0, dl |-> 0, child |-> NoPid]
Nobody == [st |-> "none", name |-> BinName[1], bin |-> NoFile,
           linked |-> FALSE, mine |-> FALSE, term |-> FALSE]

RunnerInit ==
    /\ chain = 1
    /\ disk = [n \in Names |-> NoFile]
    /\ runner = Off
    /\ proc = [p \in Pids |-> Nobody]
    /\ pidfile = NoPid
    /\ nextPid = 1
    /\ faults = 0
    /\ orphaned = FALSE
    /\ unguarded = FALSE

Alive(p) == proc[p].st \in Live
Fault == faults < MaxFaults /\ faults' = faults + 1

-----------------------------------------------------------------------------
(* The parachain announces the next release.                               *)
NewRelease ==
    /\ chain + 1 \in Releases
    /\ chain' = chain + 1
    /\ UNCHANGED <<disk, runner, faults, orphaned, machine>>

-----------------------------------------------------------------------------
(* The runner.  Its calls to the network retry for a minute; Fails is the  *)
(* error that remains, which ends auto_update.                             *)

\* main: connect, Runner::new, run; auto_update creates the directory.
StartRunner ==
    /\ runner.st = "off"
    /\ runner' = [Off EXCEPT !.st = "start"]
    /\ UNCHANGED <<chain, disk, faults, orphaned, machine>>

\* try_get_release, at the start and in every round of the loop.  A release
\* with another checksum than the downloaded one is an update.
TryGetRelease ==
    /\ runner.st \in {"start", "poll"}
    /\ runner' = [runner EXCEPT
                    !.rel = chain,
                    !.st = IF @ = "start" THEN "load"
                           ELSE IF chain = runner.dl THEN "sleep" ELSE "terminate"]
    /\ UNCHANGED <<chain, disk, faults, orphaned, machine>>

\* try_load_downloaded_binary: take the file on disk if its checksum is the
\* release's, otherwise download.
TryLoadDownloadedBinary ==
    /\ runner.st = "load"
    /\ runner' = IF disk[BinName[runner.rel]] = [rel |-> runner.rel, exact |-> TRUE]
                 THEN [runner EXCEPT !.dl = runner.rel, !.st = "spawn"]
                 ELSE [runner EXCEPT !.st = "download"]
    /\ UNCHANGED <<chain, disk, faults, orphaned, machine>>

\* A file that a process executes cannot be opened for writing.
Busy(n) == \E p \in Pids : Alive(p) /\ proc[p].linked /\ proc[p].name = n

\* download_binary: open the file without truncating it, fetch, write from
\* the start, and note the release's checksum without looking at the bytes.
\* The answer of the server may be an error page (its status is ignored).
DownloadBinary ==
    LET n == BinName[runner.rel] IN
    /\ runner.st = "download"
    /\ ~Busy(n)
    /\ runner' = [runner EXCEPT !.dl = runner.rel, !.st = "spawn"]
    /\ \/ /\ disk' \in {[disk EXCEPT ![n] = [rel |-> runner.rel, exact |-> e]] :
                            e \in {TRUE, disk[n] = NoFile}}
          /\ UNCHANGED faults
       \/ /\ Fault
          /\ disk' = [disk EXCEPT ![n] = Junk]
    /\ UNCHANGED <<chain, orphaned, machine>>

\* delete_downloaded_release: unlink the file; what executes it goes on.
DeleteDownloadedRelease ==
    /\ runner.st = "delete"
    /\ disk' = [disk EXCEPT ![BinName[runner.dl]] = NoFile]
    /\ proc' = [p \in Pids |-> IF proc[p].name = BinName[runner.dl]
                               THEN [proc[p] EXCEPT !.linked = FALSE] ELSE proc[p]]
    /\ runner' = [runner EXCEPT !.dl = 0, !.st = "download"]
    /\ UNCHANGED <<chain, pidfile, nextPid, faults, orphaned, unguarded>>

\* The next free process id, in the kernel's order.
FreePid ==
    LET Free == {p \in Pids : proc[p].st = "none"}
        After == {p \in Free : p >= nextPid}
        From == IF After = {} THEN Free ELSE After
    IN CHOOSE p \in From : \A q \in From : p <= q

\* run_binary: refused while there is a child; junk cannot be spawned.
RunBinary ==
    LET n == BinName[runner.dl] IN
    /\ runner.st = "spawn"
    /\ runner.child = NoPid
    /\ disk[n] \notin {NoFile, Junk}
    /\ \E p \in Pids : proc[p].st = "none"
    /\ proc' = [proc EXCEPT ![FreePid] =
                    [st |-> "init", name |-> n, bin |-> disk[n],
                     linked |-> TRUE, mine |-> TRUE, term |-> FALSE]]
    /\ nextPid' = (FreePid % NumPids) + 1
    /\ runner' = [runner EXCEPT !.child = FreePid, !.st = "loop"]
    /\ UNCHANGED <<chain, disk, pidfile, faults, orphaned, unguarded>>

\* Mutant: a client that ended is not started again
MaybeRestartClient_OnlyFirst ==
    /\ runner.st = "loop"
    /\ runner' = [runner EXCEPT !.st = "poll"]
    /\ UNCHANGED <<chain, disk, faults, orphaned, machine>>

\* maybe_restart_client, check_child_proc_alive: reap a child that ended and
\* start it again.
MaybeRestartClient ==
    /\ runner.st = "loop"
    /\ IF proc[runner.child].st = "zombie"
       THEN /\ proc' = [proc EXCEPT ![runner.child] = Nobody]
            /\ runner' = [runner EXCEPT !.child = NoPid, !.st = "spawn"]
       ELSE /\ runner' = [runner EXCEPT !.st = "poll"]
            /\ UNCHANGED proc
    /\ UNCHANGED <<chain, disk, pidfile, nextPid, faults, orphaned, unguarded>>

\* tokio::time::sleep(BLOCK_TIME)
Sleep ==
    /\ runner.st = "sleep"
    /\ runner' = [runner EXCEPT !.st = "loop"]
    /\ UNCHANGED <<chain, disk, faults, orphaned, machine>>

\* An error of a step that can fail: the parachain or the server does not
\* answer, the file is busy, or what was downloaded cannot be spawned.  The
\* file was opened before the fetch.
Fails ==
    /\ \/ /\ runner.st \in {"start", "poll"}
          /\ Fault
          /\ UNCHANGED disk
       \/ /\ runner.st = "download" /\ ~Busy(BinName[runner.rel])
          /\ Fault
          /\ disk' = [disk EXCEPT ![BinName[runner.rel]] = IF @ = NoFile THEN Junk ELSE @]
       \/ /\ runner.st = "download" /\ Busy(BinName[runner.rel])
          /\ UNCHANGED <<faults, disk>>
       \/ /\ runner.st = "spawn"
          /\ disk[BinName[runner.dl]] \in {NoFile, Junk}
          /\ UNCHANGED <<faults, disk>>
    /\ runner' = [runner EXCEPT !.st = "stop"]
    /\ UNCHANGED <<chain, orphaned, machine>>

\* Runner::run: a termination signal is seen where auto_update awaits.
Signalled ==
    /\ runner.st \in {"start", "poll", "sleep", "download"}
    /\ Fault
    /\ runner' = [runner EXCEPT !.st = "stop"]
    /\ disk' \in {disk} \cup
                 (IF runner.st = "download" /\ ~Busy(BinName[runner.rel])
                  THEN {[disk EXCEPT ![BinName[runner.rel]] = IF @ = NoFile THEN Junk ELSE @]}
                  ELSE {})
    /\ UNCHANGED <<chain, orphaned, machine>>

\* Mutant: the child is forgotten once it was signalled
Terminate_NoWait ==
    /\ runner.st \in {"terminate", "stop"}
    /\ proc' = [p \in Pids |-> IF p = runner.child THEN [proc[p] EXCEPT !.term = TRUE] ELSE proc[p]]
    /\ runner' = [runner EXCEPT !.child = NoPid,
                                !.st = IF @ = "terminate" THEN "delete" ELSE "stopped"]
    /\ UNCHANGED <<chain, disk, pidfile, nextPid, faults, orphaned, unguarded>>

\* terminate_proc_and_wait, first half: SIGTERM.  A vault that does not catch
\* signals yet ends at once.
Terminate ==
    /\ runner.st \in {"terminate", "stop"}
    /\ runner' = [runner EXCEPT !.st = IF @ = "terminate" THEN "wait" ELSE "stopped"]
    /\ proc' = [p \in Pids |->
                  IF p # runner.child \/ ~Alive(p) THEN proc[p]
                  ELSE IF proc[p].st \in {"init", "checked"}
                       THEN [proc[p] EXCEPT !.st = "zombie"]
                       ELSE [proc[p] EXCEPT !.term = TRUE]]
    /\ UNCHANGED <<chain, disk, pidfile, nextPid, faults, orphaned, unguarded>>

\* Second half: wait for the child to end and forget it.  After an error or a
\* signal the runner process ends too.
Waited ==
    /\ runner.st \in {"wait", "stopped"}
    /\ runner.child # NoPid => proc[runner.child].st = "zombie"
    /\ proc' = [p \in Pids |-> IF p = runner.child THEN Nobody ELSE proc[p]]
    /\ runner' = IF runner.st = "wait" THEN [runner EXCEPT !.child = NoPid, !.st = "delete"]
                 ELSE Off
    /\ UNCHANGED <<chain, disk, pidfile, nextPid, faults, orphaned, unguarded>>

\* SIGKILL, or the runner crashes: its child becomes an orphan, and a
\* download is cut short.
KillRunner ==
    /\ runner.st # "off"
    /\ Fault
    /\ runner' = Off
    /\ proc' = [p \in Pids |-> IF proc[p].st = "zombie" THEN Nobody
                               ELSE [proc[p] EXCEPT !.mine = FALSE]]
    /\ orphaned' = (orphaned \/ \E p \in Pids : Alive(p) /\ proc[p].mine)
    /\ disk' \in {disk} \cup
                 (IF runner.st = "download" /\ ~Busy(BinName[runner.rel])
                  THEN {[disk EXCEPT ![BinName[runner.rel]] = Junk]} ELSE {})
    /\ UNCHANGED <<chain, pidfile, nextPid, unguarded>>

-----------------------------------------------------------------------------
(* The vault process.                                                      *)

\* A child stays a zombie until its runner reaps it; init reaps an orphan.
Ended(p) == IF proc[p].mine THEN [proc[p] EXCEPT !.st = "zombie"] ELSE Nobody

\* Mutant: any live process in the PID file is taken for a stale one
Blocked_Never(p, q) == FALSE

\* pid_name_matches_existing_client: the process q of the file exists and has
\* the same name.  Nothing excludes that q is p itself.
Blocked(p, q) == proc[q].st # "none" /\ proc[q].name = proc[p].name

Working(q) == proc[q].st \in {"working", "exiting"}

\* PidFile::create, first half.  A file without a number is an error, a live
\* client is ServiceAlreadyRunning; both end the process.
CheckPidFile(p) ==
    LET refused == pidfile = EmptyFile \/ (pidfile \in Pids /\ Blocked(p, pidfile)) IN
    /\ proc[p].st = "init"
    /\ proc' = [proc EXCEPT ![p] = IF refused THEN Ended(p) ELSE [@ EXCEPT !.st = "checked"]]
    /\ unguarded' = (unguarded \/ (~refused /\ \E q \in Pids \ {p} :
                        Alive(q) /\ (proc[q].name # proc[p].name \/ proc[q].st # "working")))
    /\ UNCHANGED <<chain, disk, runner, pidfile, nextPid, faults, orphaned>>

\* PidFile::create, second half: set_pid writes the file, whatever is in it by
\* now.  From here on the vault runs its service.
SetPid(p) ==
    /\ proc[p].st = "checked"
    /\ pidfile' = p
    /\ proc' = [proc EXCEPT ![p].st = "working"]
    /\ UNCHANGED <<chain, disk, runner, nextPid, faults, orphaned, unguarded>>

\* The service ends, or catch_signals returns: start() drops the PidFile,
\* which removes the file whoever wrote it.  The tasks still run.
DropPidFile(p) ==
    /\ proc[p].st = "working"
    /\ \/ proc[p].term /\ UNCHANGED faults
       \/ ~proc[p].term /\ Fault
    /\ pidfile' = NoPid
    /\ proc' = [proc EXCEPT ![p].st = "exiting"]
    /\ UNCHANGED <<chain, disk, runner, nextPid, orphaned, unguarded>>

\* std::process::exit
Exit(p) ==
    /\ proc[p].st = "exiting"
    /\ proc' = [proc EXCEPT ![p] = Ended(p)]
    /\ UNCHANGED <<chain, disk, runner, pidfile, nextPid, faults, orphaned, unguarded>>

\* The vault is killed; in the middle of set_pid it leaves an empty file.
KillVault(p) ==
    /\ Alive(p)
    /\ Fault
    /\ proc' = [proc EXCEPT ![p] = Ended(p)]
    /\ pidfile' \in {pidfile} \cup (IF proc[p].st = "checked" THEN {EmptyFile} ELSE {})
    /\ UNCHANGED <<chain, disk, runner, nextPid, orphaned, unguarded>>

RunnerStep ==
    \/ TryGetRelease
    \/ TryLoadDownloadedBinary
    \/ DownloadBinary
    \/ DeleteDownloadedRelease
    \/ RunBinary
    \/ MaybeRestartClient
    \/ Sleep
    \/ Fails
    \/ Terminate
    \/ Waited

VaultStep(p) ==
    \/ CheckPidFile(p)
    \/ SetPid(p)
    \/ proc[p].term /\ DropPidFile(p)
    \/ Exit(p)

RunnerNext ==
    \/ NewRelease
    \/ StartRunner
    \/ RunnerStep
    \/ Signalled
    \/ KillRunner
    \/ \E p \in Pids : VaultStep(p) \/ DropPidFile(p) \/ KillVault(p)

\* The runner and the vaults keep running.  Nothing obliges the parachain to
\* announce, an operator to start or stop, or anything to fail.
RunnerFairness ==
    /\ WF_runnerVars(RunnerStep)
    /\ \A p \in Pids : WF_runnerVars(VaultStep(p))

RunnerSpec == RunnerInit /\ [][RunnerNext]_runnerVars /\ RunnerFairness

-----------------------------------------------------------------------------
(* Properties                                                              *)

\* As long as every runner ended gracefully (the condition the runner's
\* README puts on the operator) there is never more than one vault process,
\* through updates, restarts and failures: terminate_proc_and_wait waits,
\* and a child is forgotten only once it has ended.
GracefulMeansOneVault ==
    ~orphaned => \A p, q \in Pids : Alive(p) /\ Alive(q) => p = q

\* With orphans about, two vaults work side by side only if the later one
\* passed PidFile::create while the earlier was not yet, or no longer,
\* covered by the file (starting or exiting) or had another binary name.  In
\* every other interleaving of starts, crashes and exits the file holds.
PidFileGuards ==
    ~unguarded => \A p, q \in Pids : Working(p) /\ Working(q) => p = q

\* When releases and faults stop, either no runner is up any more, or an
\* orphan or an unwritten PID file keeps the vault out, or the vault of the
\* current release works.  The runner's loop reaches that by itself.
SettlesOnRelease ==
    <>[](\/ runner.st = "off"
         \/ \E p \in Pids : Alive(p) /\ ~proc[p].mine
         \/ pidfile = EmptyFile
         \/ \E p \in Pids : /\ proc[p].st = "working" /\ proc[p].mine
                            /\ proc[p].bin.rel = chain)

=============================================================================
