------------------------------- MODULE Oracle -------------------------------
(***************************************************************************)
(* The oracle client (oracle/src/main.rs).  In every round it fetches the  *)
(* fee estimate and the prices, opens a new connection, submits all of     *)
(* them concurrently (module Submission), retrying for five minutes, and   *)
(* sleeps.  An error that remains ends the process; its supervisor starts  *)
(* another.  A value is the number of the round it was fetched in.         *)
(***************************************************************************)
EXTENDS Submission, Prices

CONSTANTS
    Fee,        \* OracleKey::FeeEstimation; the other jobs are exchange rates
    MaxRounds   \* bound: rounds

ASSUME OracleAssumption == MaxRounds \in Nat \ {0}

VARIABLES
    phase,  \* "fetch", "connect", "submit", "sleep"; "down" without a process
    round,  \* the round the values were fetched in
    posted, \* chain: the round whose value is stored for each key
    done,   \* history: the last round that ended well
    stray   \* history: a process ended with transactions in the pool

oracleVars == <<phase, round, posted, done, stray>>
vars == <<submissionVars, oracleVars>>

TypeOK ==
    /\ SubmissionTypeOK
    /\ phase \in {"fetch", "connect", "submit", "sleep", "down"}
    /\ round \in 0..MaxRounds
    /\ posted \in [Jobs -> 0..MaxRounds]
    /\ done \in 0..MaxRounds
    /\ stray \in BOOLEAN

Init ==
    /\ SubmissionInit
    /\ phase = "fetch"
    /\ round = 0
    /\ posted = [j \in Jobs |-> 0]
    /\ done = 0
    /\ stray = FALSE

\* The two halves of join!, each retried as a whole.
Halves == {{Fee} \cap Jobs, Jobs \ {Fee}} \ {{}}
Finished(h) == \A j \in h : job[j].st \in {"ok", "err", "expired"}
Failed(h) == Finished(h) /\ \E j \in h : job[j].st = "expired"
Succeeded(h) == \A j \in h : job[j].st = "ok"

\* submit_bitcoin_fees or submit_exchange_rate of all values of a half.
Submitting(h) == [j \in Jobs |-> IF j \in h THEN Begun(j, round) ELSE job[j]]

\* The process ends, and with it whoever waited.
GoDown ==
    /\ phase' = "down"
    /\ job' = [j \in Jobs |-> NoJob]
    /\ stray' = (stray \/ pool # {})
    /\ UNCHANGED <<chainNonce, pool, next, round, posted, done>>

\* maybe_get_median and get_value_or_median for all prices.  The last round is
\* repeated until it ends well.
FetchValues ==
    /\ phase = "fetch"
    /\ round' = IF round < MaxRounds THEN round + 1 ELSE round
    /\ phase' = "connect"
    /\ UNCHANGED <<submissionVars, posted, done, stray>>

\* new_websocket_client_with_retry answers, then join!: all values at once.
Connect ==
    /\ phase = "connect"
    /\ phase' = "submit"
    /\ NewConnection
    /\ job' = Submitting(Jobs)
    /\ UNCHANGED <<chainNonce, pool, faults, round, posted, done, stray>>

\* Mutant: a half is submitted again only if all of it failed
Retry_AllFailed(h) ==
    /\ phase = "submit" /\ Finished(h) /\ ~Failed(h)
    /\ \A j \in h : job[j].st = "err"
    /\ job' = Submitting(h)
    /\ UNCHANGED <<chainNonce, pool, next, faults, oracleVars>>

\* retry_notify: a half with an error is submitted again, all of it.
Retry(h) ==
    /\ phase = "submit" /\ Finished(h) /\ ~Failed(h)
    /\ \E j \in h : job[j].st = "err"
    /\ job' = Submitting(h)
    /\ UNCHANGED <<chainNonce, pool, next, faults, oracleVars>>

\* ... for five minutes, which a time-out of a transaction uses up, too.
RunsOut(h) ==
    /\ phase = "submit" /\ Finished(h) /\ ~Failed(h)
    /\ \E j \in h : job[j].st = "err" /\ Goto(j, "expired")
    /\ UNCHANGED <<chainNonce, pool, next, faults, oracleVars>>

\* Mutant: one half that succeeded is enough
EndRound_Either ==
    /\ phase = "submit"
    /\ \E h \in Halves : Succeeded(h)
    /\ phase' = "sleep" /\ done' = round
    /\ job' = [j \in Jobs |-> NoJob]
    /\ UNCHANGED <<chainNonce, pool, next, faults, round, posted, stray>>

\* join! returns: sleep, or end with Error::Shutdown.
EndRound ==
    /\ phase = "submit"
    /\ \A h \in Halves : Succeeded(h) \/ Failed(h)
    /\ IF \A h \in Halves : Succeeded(h)
       THEN /\ phase' = "sleep" /\ done' = round
            /\ job' = [j \in Jobs |-> NoJob]
            /\ UNCHANGED <<chainNonce, pool, next, round, posted, stray>>
       ELSE GoDown
    /\ UNCHANGED faults

\* sleep(interval_ms)
Sleep ==
    /\ phase = "sleep" /\ done < MaxRounds
    /\ phase' = "fetch"
    /\ UNCHANGED <<submissionVars, round, posted, done, stray>>

\* The process ends: a feed or the parachain does not answer, or a signal.
Stops == phase # "down" /\ Fault /\ GoDown

\* The supervisor starts the oracle again.
Restart ==
    /\ phase = "down"
    /\ phase' = "fetch"
    /\ UNCHANGED <<submissionVars, round, posted, done, stray>>

\* feed_values is executed: the key has the transaction's value.
FeedValues(t) ==
    /\ ExecuteTx(t)
    /\ posted' = [posted EXCEPT ![t.job] = t.stamp]
    /\ UNCHANGED <<phase, round, done, stray>>

\* The last round is over.
Rest == phase = "sleep" /\ done = MaxRounds /\ UNCHANGED vars

OracleStep ==
    \/ FetchValues
    \/ Connect
    \/ \E h \in Halves : Retry(h)
    \/ EndRound
    \/ Sleep
    \/ Restart
    \/ \E j \in Jobs : JobStep(j) /\ UNCHANGED oracleVars

Next ==
    \/ OracleStep
    \/ \E t \in pool : FeedValues(t)
    \/ \E t \in pool : Evict(t) /\ UNCHANGED oracleVars
    \/ \E h \in Halves : RunsOut(h)
    \/ Stops
    \/ Rest

\* The process and the parachain go on.
Fairness ==
    /\ WF_vars(OracleStep)
    /\ \A j \in Jobs : WF_vars(JobStep(j) /\ UNCHANGED oracleVars)
    /\ WF_vars(\E t \in pool : FeedValues(t))

Spec == Init /\ [][Next]_vars /\ Fairness

-----------------------------------------------------------------------------
(* Properties                                                              *)

\* The client implements Feed: through time-outs, forks, evictions, gaps in
\* the nonces and transactions that are sent again, no value is replaced by
\* one of an earlier round, and a round that ended well left all its values
\* on the parachain, as long as no process ended with transactions in the
\* pool.  The order of the nonces is what makes a late transaction harmless.
F == INSTANCE Feed WITH Keys <- Jobs
ImplementsFeed == F!Spec

\* Whatever the direction of its pairs, a route that leads from one currency to
\* the other is accepted by validate before the first round, and reduces to the
\* rate of the smallest unit of the base in the smallest unit of the quote.
RoutesRight ==
    phase = "fetch" /\ round = 0 =>
        \A pair \in Pairs : \A route \in Routes :
            route # <<>> /\ Leads(pair, route) =>
                /\ Validate(pair, route)
                /\ ExchangeRate(pair, RoutePrice(pair, route).price) =
                      (Worth[pair.base] - Decimals[pair.base])
                      - (Worth[pair.quote] - Decimals[pair.quote])

\* When faults stop, rounds end well again.  After a gap in the nonces, behind
\* which every later call waits, this takes a time-out, the end of the process
\* and the new counter of the next one.
RunsOn == <>[](phase = "sleep" /\ done = MaxRounds)

=============================================================================
