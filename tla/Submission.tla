----------------------------- MODULE Submission -----------------------------
(***************************************************************************)
(* How InterBtcParachain submits transactions (runtime/src/rpc.rs,         *)
(* runtime/src/retry.rs): every call of with_unique_signer takes a nonce   *)
(* of its own, submits, and waits until the transaction is finalized; some *)
(* errors are answered with another try under a fresh nonce.               *)
(*                                                                         *)
(* The account has one nonce on the chain and a pool of transactions,      *)
(* which execute in the order of their nonces and without gaps.  The       *)
(* client's counter lives as long as its connection.  A job is a call that *)
(* runs concurrently with the others; its stamp is what it submits.        *)
(***************************************************************************)
EXTENDS Naturals, FiniteSets

CONSTANTS
    Jobs,       \* concurrent calls
    MaxFaults   \* bound: errors, evictions, forks, kills

ASSUME SubmissionAssumption == IsFiniteSet(Jobs) /\ MaxFaults \in Nat

VARIABLES
    chainNonce, \* the account's nonce on the chain
    pool,       \* transactions that wait for a block
    next,       \* nonce: the client's counter (0 on a new connection)
    job,        \* the calls of with_unique_signer
    faults      \* faults so far

submissionVars == <<chainNonce, pool, next, job, faults>>

\* "read": reads the nonce of the chain; "take": takes one under the lock;
\* "submit"; "watch": submitted, waits; "ok"; "err": an error was thrown;
\* "expired": the time for it is up.
JobStates == {"idle", "read", "take", "submit", "watch", "ok", "err", "expired"}
NoJob == [st |-> "idle", stamp |-> 0, seen |-> 0, nonce |-> 0]

SubmissionTypeOK ==
    /\ chainNonce \in Nat /\ next \in Nat
    /\ job \in [Jobs -> [st : JobStates, stamp : Nat, seen : Nat, nonce : Nat]]
    /\ pool \subseteq [nonce : Nat, job : Jobs, stamp : Nat]
    /\ faults \in 0..MaxFaults

SubmissionInit ==
    /\ chainNonce = 0 /\ next = 0
    /\ pool = {}
    /\ job = [j \in Jobs |-> NoJob]
    /\ faults = 0

Fault == faults < MaxFaults /\ faults' = faults + 1
InPool(n) == \E t \in pool : t.nonce = n
Begun(j, stamp) == [NoJob EXCEPT !.st = "read", !.stamp = stamp]
Goto(j, st) == job' = [job EXCEPT ![j].st = st]

\* from_url_with_retry: a client of its own, with a counter of its own.
NewConnection == next' = 0

\* get_fresh_nonce, before the lock: the nonce of the latest block.  If the
\* value cannot be fetched it is 0; other errors are thrown.
ReadNonce(j) ==
    /\ job[j].st = "read"
    /\ \/ /\ job' = [job EXCEPT ![j].st = "take", ![j].seen = chainNonce]
          /\ UNCHANGED faults
       \/ /\ Fault
          /\ \/ job' = [job EXCEPT ![j].st = "take", ![j].seen = 0]
             \/ Goto(j, "err")
    /\ UNCHANGED <<chainNonce, pool, next>>

\* get_fresh_nonce, under the lock: the larger of the two, and the counter
\* moves past it.
TakeNonce(j) ==
    LET n == IF job[j].seen > next THEN job[j].seen ELSE next IN
    /\ job[j].st = "take"
    /\ job' = [job EXCEPT ![j].st = "submit", ![j].nonce = n, ![j].seen = 0]
    /\ next' = n + 1
    /\ UNCHANGED <<chainNonce, pool, faults>>

\* submit_and_watch.  A nonce that was used is an invalid transaction, one
\* that is taken in the pool has too low a priority: both are tried again with
\* a fresh nonce.  An error may or may not leave the transaction in the pool.
Submit(j) ==
    LET n == job[j].nonce
        tx == [nonce |-> n, job |-> j, stamp |-> job[j].stamp]
        refused == n < chainNonce \/ InPool(n)
    IN
    /\ job[j].st = "submit"
    /\ \/ refused /\ Goto(j, "read") /\ UNCHANGED <<pool, faults>>
       \/ ~refused /\ pool' = pool \cup {tx} /\ Goto(j, "watch") /\ UNCHANGED faults
       \/ Fault /\ Goto(j, "err") /\ pool' \in {pool, IF refused THEN pool ELSE pool \cup {tx}}
    /\ UNCHANGED <<chainNonce, next>>

Watches(j, n) == job[j].st = "watch" /\ job[j].nonce = n

\* A block with the next transaction is finalized.  Who waits for it succeeds,
\* or loses the connection, or does not find the block any more (an apparent
\* fork) and sends the call again.
ExecuteTx(t) ==
    /\ t \in pool /\ t.nonce = chainNonce
    /\ chainNonce' = chainNonce + 1
    /\ pool' = pool \ {t}
    /\ \E st \in {"ok", "err", "read"} :
          /\ job' = [j \in Jobs |-> IF Watches(j, t.nonce) THEN [job[j] EXCEPT !.st = st] ELSE job[j]]
          /\ IF st = "ok" THEN UNCHANGED faults
             ELSE Fault /\ \E j \in Jobs : Watches(j, t.nonce)
    /\ UNCHANGED next

\* The pool drops a transaction and tells who waits for it.
Evict(t) ==
    /\ t \in pool
    /\ Fault
    /\ pool' = pool \ {t}
    /\ job' = [j \in Jobs |-> IF Watches(j, t.nonce) THEN [job[j] EXCEPT !.st = "err"] ELSE job[j]]
    /\ UNCHANGED <<chainNonce, next>>

\* No transaction of the account can be executed and none is on its way that
\* could: a gap in the nonces, which the counter has left behind.
Stuck == ~InPool(chainNonce) /\ \A j \in Jobs : job[j].st \notin {"read", "take", "submit"}

\* TRANSACTION_TIMEOUT behind a gap.  The transaction stays in the pool.
TimesOut(j) ==
    /\ job[j].st = "watch" /\ Stuck
    /\ Goto(j, "expired")
    /\ UNCHANGED <<chainNonce, pool, next, faults>>

JobStep(j) ==
    \/ ReadNonce(j)
    \/ TakeNonce(j)
    \/ Submit(j)
    \/ TimesOut(j)

=============================================================================
