---------------------------- MODULE OracleProofs ----------------------------
(***************************************************************************)
(* Proofs about Oracle, for any keys, rounds, faults, currencies and       *)
(* routes: every variable keeps its type, the client implements Feed, and  *)
(* every route gives the right rate.                                       *)
(***************************************************************************)
EXTENDS Oracle, TLAPS, WellFoundedInduction

\* Calls are under way only while a round is submitted, and they submit the
\* values of that round.
Calls ==
    /\ phase # "submit" => \A j \in Jobs : job[j].st = "idle"
    /\ phase = "submit" => \A j \in Jobs : job[j].stamp = round

\* What was, is or can be put on the chain is of a round that has begun.
RoundsBegun ==
    /\ phase \in {"connect", "submit"} => round >= 1
    /\ done <= round
    /\ \A t \in pool : t.stamp \in 1..round

\* Only the calls of this round have transactions in the pool, each under a
\* nonce of its own that the client's counter has passed.
OwnPool ==
    /\ phase # "submit" => pool = {}
    /\ \A t \in pool : t.stamp = round /\ chainNonce <= t.nonce /\ t.nonce < next
    /\ \A t, u \in pool : t.nonce = u.nonce => t = u

\* A call that waits has its transaction in the pool.
Watched ==
    \A j \in Jobs : job[j].st = "watch" =>
        [nonce |-> job[j].nonce, job |-> j, stamp |-> round] \in pool

\* What a call has left in the pool goes ahead of what it submits later; once
\* it has succeeded nothing is left.
InOrder ==
    /\ \A j \in Jobs : job[j].st \in {"submit", "watch"} => job[j].nonce < next
    /\ \A t \in pool :
         /\ job[t.job].st = "submit" => t.nonce < job[t.job].nonce
         /\ job[t.job].st = "watch" => t.nonce <= job[t.job].nonce
         /\ job[t.job].st # "ok"

\* A call that succeeded left its value on the chain, and so did all calls of
\* a round that is done.
Posted ==
    /\ \A j \in Jobs : posted[j] <= round
    /\ \A j \in Jobs : job[j].st = "ok" => posted[j] = round
    /\ done = round => \A j \in Jobs : posted[j] = round

OInv ==
    /\ TypeOK /\ Calls /\ RoundsBegun
    /\ ~ stray => OwnPool /\ Watched /\ InOrder /\ Posted

-----------------------------------------------------------------------------
JobRecord == [st : JobStates, stamp : Nat, seen : Nat, nonce : Nat]

\* A call that is changed in one or more fields is a call.
LEMMA JobType ==
  ASSUME TypeOK, NEW j \in Jobs
  PROVE  /\ job[j] \in JobRecord
         /\ NoJob \in JobRecord /\ NoJob.st = "idle"
         /\ Begun(j, round) \in JobRecord
         /\ Begun(j, round).st = "read" /\ Begun(j, round).stamp = round
         /\ \A st \in JobStates :
              /\ [job[j] EXCEPT !.st = st] \in JobRecord
              /\ [job[j] EXCEPT !.st = st].st = st
              /\ [job[j] EXCEPT !.st = st].stamp = job[j].stamp
              /\ [job[j] EXCEPT !.st = st].nonce = job[j].nonce
<1>1. round \in Nat
  BY DEF TypeOK
<1> QED
  BY <1>1 DEF TypeOK, SubmissionTypeOK, JobRecord, NoJob, Begun, JobStates

\* All calls but j are as they were, and j is at st with its old stamp and
\* nonce.
Moves(j, st) ==
    /\ job' \in [Jobs -> JobRecord]
    /\ \A i \in Jobs : i # j => job'[i] = job[i]
    /\ job'[j].st = st /\ job'[j].stamp = job[j].stamp /\ job'[j].nonce = job[j].nonce

LEMMA GotoMoves ==
  ASSUME TypeOK, NEW j \in Jobs, NEW st \in JobStates, Goto(j, st)
  PROVE  Moves(j, st)
<1>1. job \in [Jobs -> JobRecord]
  BY DEF TypeOK, SubmissionTypeOK, JobRecord
<1>2. [job[j] EXCEPT !.st = st] \in JobRecord
  BY JobType
<1> QED
  BY <1>1, <1>2, JobType DEF Goto, Moves

\* Reading the nonce leaves everything but the call alone.
LEMMA ReadMoves ==
  ASSUME TypeOK, NEW j \in Jobs, ReadNonce(j)
  PROVE  /\ \E st \in {"take", "err"} : Moves(j, st)
         /\ faults' \in 0..MaxFaults
         /\ UNCHANGED <<chainNonce, pool, next>>
<1>1. job \in [Jobs -> JobRecord] /\ chainNonce \in Nat
  BY DEF TypeOK, SubmissionTypeOK, JobRecord
<1>2. ASSUME NEW n \in Nat, job' = [job EXCEPT ![j].st = "take", ![j].seen = n]
      PROVE  Moves(j, "take")
  <2>1. job' = [job EXCEPT ![j] = [job[j] EXCEPT !.st = "take", !.seen = n]]
    BY <1>1, <1>2
  <2>2. [job[j] EXCEPT !.st = "take", !.seen = n] \in JobRecord
    BY <1>1 DEF JobRecord, JobStates
  <2> HIDE DEF JobRecord
  <2>3. /\ [job[j] EXCEPT !.st = "take", !.seen = n].st = "take"
        /\ [job[j] EXCEPT !.st = "take", !.seen = n].stamp = job[j].stamp
        /\ [job[j] EXCEPT !.st = "take", !.seen = n].nonce = job[j].nonce
    BY <1>1 DEF JobRecord
  <2> QED
    BY <1>1, <2>1, <2>2, <2>3 DEF Moves
<1>3. faults' \in 0..MaxFaults
  BY SubmissionAssumption DEF ReadNonce, Fault, TypeOK, SubmissionTypeOK
<1>4. ASSUME Goto(j, "err") PROVE Moves(j, "err")
  BY <1>4, GotoMoves DEF JobStates
<1> QED
  BY <1>1, <1>2, <1>3, <1>4 DEF ReadNonce

\* Taking a nonce: one that is at least the counter, which moves past it.
LEMMA TakeMoves ==
  ASSUME TypeOK, NEW j \in Jobs, TakeNonce(j)
  PROVE  /\ job' \in [Jobs -> JobRecord]
         /\ \A i \in Jobs : i # j => job'[i] = job[i]
         /\ job'[j].st = "submit" /\ job'[j].stamp = job[j].stamp
         /\ job'[j].nonce \in Nat /\ job'[j].nonce >= next
         /\ next' = job'[j].nonce + 1
         /\ UNCHANGED <<chainNonce, pool, faults>>
<1> DEFINE n == IF job[j].seen > next THEN job[j].seen ELSE next
           new == [job[j] EXCEPT !.st = "submit", !.nonce = n, !.seen = 0]
<1>1. job \in [Jobs -> JobRecord] /\ next \in Nat /\ job[j] \in JobRecord
  BY DEF TypeOK, SubmissionTypeOK, JobRecord
<1>2. n \in Nat /\ n >= next
  BY <1>1 DEF JobRecord
<1>3. job' = [job EXCEPT ![j] = new] /\ next' = n + 1 /\ UNCHANGED <<chainNonce, pool, faults>>
  BY <1>1 DEF TakeNonce
<1> HIDE DEF n
<1>4. new \in JobRecord /\ new.st = "submit" /\ new.nonce = n /\ new.stamp = job[j].stamp
  BY <1>1, <1>2 DEF JobRecord, JobStates
<1> HIDE DEF new
<1> QED
  BY <1>1, <1>2, <1>3, <1>4

-----------------------------------------------------------------------------
\* The initial state satisfies the invariant.
LEMMA InitInv == Init => OInv
<1> SUFFICES ASSUME Init PROVE OInv
  OBVIOUS
<1> USE OracleAssumption, SubmissionAssumption DEF Init, SubmissionInit
<1>1. /\ \A j \in Jobs : job[j] = NoJob
      /\ NoJob.st = "idle"
  BY DEF NoJob
<1>2. TypeOK
  <2>1. faults \in 0..MaxFaults /\ chainNonce \in Nat /\ next \in Nat
    OBVIOUS
  <2>2. NoJob \in [st : JobStates, stamp : Nat, seen : Nat, nonce : Nat]
    BY DEF NoJob, JobStates
  <2>3. SubmissionTypeOK
    BY <2>1, <2>2 DEF SubmissionTypeOK
  <2>4. round \in 0..MaxRounds /\ done \in 0..MaxRounds /\ posted \in [Jobs -> 0..MaxRounds]
    OBVIOUS
  <2> QED
    BY <2>3, <2>4 DEF TypeOK
<1>3. Calls
  BY <1>1 DEF Calls
<1>4. RoundsBegun
  BY DEF RoundsBegun
<1>5. OwnPool
  BY DEF OwnPool
<1>6. Watched /\ InOrder
  BY <1>1 DEF Watched, InOrder
<1>7. Posted
  BY <1>1 DEF Posted
<1> QED
  BY <1>2, <1>3, <1>4, <1>5, <1>6, <1>7 DEF OInv

-----------------------------------------------------------------------------
\* A transaction of the pool, field by field.
LEMMA TxType ==
  ASSUME TypeOK, NEW t \in pool
  PROVE  t.nonce \in Nat /\ t.job \in Jobs /\ t.stamp \in Nat
BY DEF TypeOK, SubmissionTypeOK

\* A call that turns to something else than submitting, waiting or succeeding
\* preserves the invariant.
LEMMA MoveInv ==
  ASSUME OInv, phase = "submit", NEW j \in Jobs, NEW st \in {"read", "take", "err", "expired"},
         Moves(j, st), faults' \in 0..MaxFaults,
         UNCHANGED <<chainNonce, pool, next, oracleVars>>
  PROVE  OInv'
<1> USE DEF OInv, oracleVars
<1>1. TypeOK'
  BY DEF TypeOK, SubmissionTypeOK, Moves, JobRecord
<1>2. \A i \in Jobs : job'[i].stamp = job[i].stamp
  BY DEF Moves
<1>3. \A i \in Jobs : job'[i] = job[i] \/ job'[i].st \in {"read", "take", "err", "expired"}
  BY DEF Moves
<1>4. Calls' /\ RoundsBegun'
  BY <1>2 DEF Calls, RoundsBegun
<1>5. ASSUME ~ stray PROVE OwnPool' /\ Watched' /\ InOrder' /\ Posted'
  <2>1. OwnPool'
    BY <1>5 DEF OwnPool
  <2>2. Watched'
    BY <1>3, <1>5 DEF Watched
  <2>3. InOrder'
    BY <1>3, <1>5, TxType DEF InOrder
  <2>4. Posted'
    BY <1>3, <1>5 DEF Posted
  <2> QED
    BY <2>1, <2>2, <2>3, <2>4
<1> QED
  BY <1>1, <1>4, <1>5

\* A call takes a nonce: nothing it has in the pool comes later.
LEMMA TakeInv ==
  ASSUME OInv, phase = "submit", NEW j \in Jobs, TakeNonce(j), UNCHANGED oracleVars
  PROVE  OInv'
<1> USE DEF OInv, oracleVars
<1>0. TypeOK /\ next \in Nat
  BY DEF TypeOK, SubmissionTypeOK
<1>1. /\ job' \in [Jobs -> JobRecord]
      /\ \A i \in Jobs : i # j => job'[i] = job[i]
      /\ job'[j].st = "submit" /\ job'[j].stamp = job[j].stamp
      /\ job'[j].nonce \in Nat /\ job'[j].nonce >= next
      /\ next' = job'[j].nonce + 1
      /\ UNCHANGED <<chainNonce, pool, faults>>
  BY <1>0, TakeMoves
<1>2. TypeOK'
  BY <1>1 DEF TypeOK, SubmissionTypeOK, JobRecord
<1>3. Calls' /\ RoundsBegun'
  BY <1>1 DEF Calls, RoundsBegun
<1>4. ASSUME ~ stray PROVE OwnPool' /\ Watched' /\ InOrder' /\ Posted'
  <2>1. OwnPool'
    BY <1>0, <1>1, <1>4, TxType DEF OwnPool
  <2>2. Watched'
    BY <1>1, <1>4 DEF Watched
  <2>3. \A i \in Jobs : job'[i].st \in {"submit", "watch"} => job'[i].nonce < next'
    BY <1>0, <1>1, <1>4, JobType DEF InOrder, JobRecord
  <2>4. \A t \in pool : t.nonce < job'[j].nonce
    BY <1>0, <1>1, <1>4, TxType DEF OwnPool
  <2>5. InOrder'
    BY <1>0, <1>1, <1>4, <2>3, <2>4, TxType DEF InOrder
  <2>6. Posted'
    BY <1>1, <1>4 DEF Posted
  <2> QED
    BY <2>1, <2>2, <2>5, <2>6
<1> QED
  BY <1>2, <1>3, <1>4

\* A transaction enters the pool, under a nonce that is neither used nor in
\* the pool; the call waits for it or gets an error.
LEMMA EnterInv ==
  ASSUME OInv, phase = "submit", NEW j \in Jobs, job[j].st = "submit",
         ~ (job[j].nonce < chainNonce), ~ InPool(job[j].nonce),
         pool' = pool \cup {[nonce |-> job[j].nonce, job |-> j, stamp |-> job[j].stamp]},
         NEW st \in {"watch", "err"}, Moves(j, st), faults' \in 0..MaxFaults,
         UNCHANGED <<chainNonce, next, oracleVars>>
  PROVE  OInv'
<1> DEFINE tx == [nonce |-> job[j].nonce, job |-> j, stamp |-> job[j].stamp]
<1> USE DEF OInv, oracleVars
<1>0. TypeOK /\ next \in Nat /\ chainNonce \in Nat
  BY DEF TypeOK, SubmissionTypeOK
<1>1. /\ job[j].nonce \in Nat /\ job[j].stamp \in Nat
      /\ job[j].stamp = round /\ round >= 1 /\ round \in Nat
  BY <1>0, JobType DEF JobRecord, Calls, RoundsBegun, TypeOK
<1>2. /\ tx \in [nonce : Nat, job : Jobs, stamp : Nat]
      /\ tx.nonce = job[j].nonce /\ tx.job = j /\ tx.stamp = round
      /\ tx = [nonce |-> job[j].nonce, job |-> j, stamp |-> round]
      /\ pool' = pool \cup {tx}
  BY <1>1
<1> HIDE DEF tx
<1>3. TypeOK'
  BY <1>2 DEF TypeOK, SubmissionTypeOK, Moves, JobRecord
<1>4. Calls' /\ RoundsBegun'
  <2>1. \A i \in Jobs : job'[i].stamp = job[i].stamp
    BY DEF Moves
  <2>2. \A t \in pool' : t.stamp \in 1..round
    BY <1>1, <1>2 DEF RoundsBegun
  <2> QED
    BY <2>1, <2>2 DEF Calls, RoundsBegun
<1>5. ASSUME ~ stray PROVE OwnPool' /\ Watched' /\ InOrder' /\ Posted'
  <2> USE <1>5
  <2>1. OwnPool'
    <3>1. job[j].nonce < next
      BY DEF InOrder
    <3>2. \A t \in pool' : t.stamp = round /\ chainNonce <= t.nonce /\ t.nonce < next
      BY <1>0, <1>1, <1>2, <3>1 DEF OwnPool
    <3>3. \A t, u \in pool' : t.nonce = u.nonce => t = u
      BY <1>2 DEF OwnPool, InPool
    <3> QED
      BY <3>2, <3>3 DEF OwnPool
  <2>2. Watched'
    <3> SUFFICES ASSUME NEW i \in Jobs, job'[i].st = "watch"
                 PROVE  [nonce |-> job'[i].nonce, job |-> i, stamp |-> round] \in pool'
      BY DEF Watched
    <3>1. CASE i = j
      BY <1>2, <3>1 DEF Moves
    <3>2. CASE i # j
      BY <1>2, <3>2 DEF Moves, Watched
    <3> QED
      BY <3>1, <3>2
  <2>3. \A i \in Jobs : job'[i].st \in {"submit", "watch"} => job'[i].nonce < next
    BY DEF InOrder, Moves
  <2>4. ASSUME NEW t \in pool', job'[t.job].st \in {"submit", "watch", "ok"}
        PROVE  /\ job'[t.job].st = "submit" => t.nonce < job'[t.job].nonce
               /\ job'[t.job].st = "watch" => t.nonce <= job'[t.job].nonce
               /\ job'[t.job].st # "ok"
    <3>1. CASE t = tx
      BY <1>1, <1>2, <3>1 DEF Moves
    <3>2. CASE t # tx /\ t.job = j
      <4>1. t \in pool /\ t.nonce < job[j].nonce
        BY <1>2, <3>2 DEF InOrder
      <4> QED
        BY <1>0, <1>1, <3>2, <4>1, TxType DEF Moves
    <3>3. CASE t # tx /\ t.job # j
      BY <1>0, <1>2, <2>4, <3>3, TxType DEF InOrder, Moves
    <3> QED
      BY <3>1, <3>2, <3>3
  <2>5. InOrder'
    BY <2>3, <2>4 DEF InOrder
  <2>6. Posted'
    BY DEF Posted, Moves
  <2> QED
    BY <2>1, <2>2, <2>5, <2>6
<1> QED
  BY <1>3, <1>4, <1>5

\* The steps of a call.
LEMMA JobStepInv ==
  ASSUME OInv, NEW j \in Jobs, JobStep(j), UNCHANGED oracleVars
  PROVE  OInv'
<1>0. TypeOK
  BY DEF OInv
<1>1. phase = "submit"
  BY DEF OInv, Calls, JobStep, ReadNonce, TakeNonce, Submit, TimesOut
<1>2. CASE ReadNonce(j)
  BY <1>0, <1>1, <1>2, ReadMoves, MoveInv
<1>3. CASE TakeNonce(j)
  BY <1>1, <1>3, TakeInv
<1>4. CASE TimesOut(j)
  <2>1. Moves(j, "expired")
    BY <1>0, <1>4, GotoMoves DEF TimesOut, JobStates
  <2>2. faults' \in 0..MaxFaults /\ UNCHANGED <<chainNonce, pool, next, oracleVars>>
    BY <1>0, <1>4 DEF TimesOut, TypeOK, SubmissionTypeOK
  <2> QED
    BY <1>1, <2>1, <2>2, MoveInv
<1>5. CASE Submit(j)
  <2>0. faults' \in 0..MaxFaults
    BY <1>0, <1>5, SubmissionAssumption DEF Submit, Fault, TypeOK, SubmissionTypeOK
  <2>1. \A st \in {"read", "watch", "err"} : Goto(j, st) => Moves(j, st)
    BY <1>0, GotoMoves DEF JobStates
  <2>2. job[j].st = "submit" /\ UNCHANGED <<chainNonce, next>>
    BY <1>5 DEF Submit
  <2>3. \/ \E st \in {"read", "err"} : Goto(j, st) /\ pool' = pool
        \/ \E st \in {"watch", "err"} :
             /\ Goto(j, st)
             /\ ~ (job[j].nonce < chainNonce) /\ ~ InPool(job[j].nonce)
             /\ pool' = pool \cup {[nonce |-> job[j].nonce, job |-> j, stamp |-> job[j].stamp]}
    BY <1>5 DEF Submit
  <2>4. CASE \E st \in {"read", "err"} : Goto(j, st) /\ pool' = pool
    BY <1>1, <2>0, <2>1, <2>2, <2>4, MoveInv
  <2>5. CASE \E st \in {"watch", "err"} :
             /\ Goto(j, st)
             /\ ~ (job[j].nonce < chainNonce) /\ ~ InPool(job[j].nonce)
             /\ pool' = pool \cup {[nonce |-> job[j].nonce, job |-> j, stamp |-> job[j].stamp]}
    BY <1>1, <2>0, <2>1, <2>2, <2>5, EnterInv
  <2> QED
    BY <2>3, <2>4, <2>5
<1> QED
  BY <1>2, <1>3, <1>4, <1>5 DEF JobStep

\* Those who wait for nonce n, and only they, come to st.
Informed(n, st) ==
    /\ job' \in [Jobs -> JobRecord]
    /\ \A i \in Jobs :
         /\ ~ Watches(i, n) => job'[i] = job[i]
         /\ Watches(i, n) => /\ job'[i].st = st /\ job'[i].nonce = job[i].nonce
                             /\ job'[i].stamp = job[i].stamp

LEMMA JobsInformed ==
  ASSUME TypeOK, NEW n, NEW st \in JobStates,
         job' = [j \in Jobs |-> IF Watches(j, n) THEN [job[j] EXCEPT !.st = st] ELSE job[j]]
  PROVE  Informed(n, st)
<1>1. \A j \in Jobs : job[j] \in JobRecord /\ [job[j] EXCEPT !.st = st] \in JobRecord
  BY JobType
<1> QED
  BY <1>1, JobType DEF Informed

\* A transaction leaves the pool.  If it is executed its value is stored, and
\* only then does the call that waits for it succeed.
LEMMA LeaveInv ==
  ASSUME OInv, NEW t \in pool, pool' = pool \ {t},
         NEW st \in {"ok", "err", "read"}, Informed(t.nonce, st),
         \/ t.nonce = chainNonce /\ chainNonce' = chainNonce + 1
            /\ posted' = [posted EXCEPT ![t.job] = t.stamp]
         \/ st = "err" /\ UNCHANGED <<chainNonce, posted>>,
         faults' \in 0..MaxFaults, UNCHANGED <<next, phase, round, done, stray>>
  PROVE  OInv'
<1> USE DEF OInv
<1>0. /\ TypeOK /\ chainNonce \in Nat /\ next \in Nat /\ round \in Nat
      /\ posted \in [Jobs -> 0..MaxRounds] /\ job \in [Jobs -> JobRecord]
  BY DEF TypeOK, SubmissionTypeOK, JobRecord
<1>1. t.nonce \in Nat /\ t.job \in Jobs /\ t.stamp \in 1..round /\ t.stamp \in 0..MaxRounds
  <2>1. t.nonce \in Nat /\ t.job \in Jobs /\ t.stamp \in 1..round
    BY <1>0, TxType DEF RoundsBegun
  <2>2. round \in 0..MaxRounds /\ MaxRounds \in Nat
    BY <1>0, OracleAssumption DEF TypeOK
  <2> QED
    BY <2>1, <2>2
<1>2. TypeOK'
  <2>1. chainNonce' \in Nat /\ posted' \in [Jobs -> 0..MaxRounds]
    BY <1>0, <1>1
  <2>2. pool' \subseteq [nonce : Nat, job : Jobs, stamp : Nat]
    BY DEF TypeOK, SubmissionTypeOK
  <2> QED
    BY <2>1, <2>2 DEF TypeOK, SubmissionTypeOK, Informed, JobRecord
<1>3. Calls' /\ RoundsBegun'
  <2>1. \A i \in Jobs : job'[i].stamp = job[i].stamp
    BY DEF Informed
  <2>2. phase # "submit" => \A i \in Jobs : job'[i].st = "idle"
    BY DEF Informed, Calls, Watches
  <2> QED
    BY <2>1, <2>2 DEF Calls, RoundsBegun
<1>4. ASSUME ~ stray PROVE OwnPool' /\ Watched' /\ InOrder' /\ Posted'
  <2> USE <1>4
  <2>1. OwnPool'
    <3>1. \A u \in pool' : chainNonce' <= u.nonce
      BY <1>0, <1>1, TxType DEF OwnPool
    <3> QED
      BY <3>1 DEF OwnPool
  <2>2. ASSUME NEW i \in Jobs, Watches(i, t.nonce) PROVE i = t.job
    <3> DEFINE u == [nonce |-> job[i].nonce, job |-> i, stamp |-> round]
    <3>1. u \in pool /\ u.nonce = t.nonce /\ u.job = i
      BY <2>2 DEF Watches, Watched
    <3> HIDE DEF u
    <3>2. u = t
      BY <3>1 DEF OwnPool
    <3> QED
      BY <3>1, <3>2
  <2>3. Watched'
    <3> SUFFICES ASSUME NEW i \in Jobs, job'[i].st = "watch"
                 PROVE  [nonce |-> job'[i].nonce, job |-> i, stamp |-> round] \in pool'
      BY DEF Watched
    <3> DEFINE u == [nonce |-> job[i].nonce, job |-> i, stamp |-> round]
    <3>1. job'[i] = job[i] /\ ~ Watches(i, t.nonce)
      BY DEF Informed
    <3>2. u \in pool /\ u.nonce = job[i].nonce
      BY <3>1 DEF Watched
    <3>3. u # t
      BY <3>1, <3>2 DEF Watches
    <3> QED
      BY <3>1, <3>2, <3>3
  <2>4. \A i \in Jobs : job'[i].st \in {"submit", "watch"} => job'[i].nonce < next
    BY DEF InOrder, Informed
  <2>5. ASSUME NEW u \in pool', job'[u.job].st \in {"submit", "watch", "ok"}
        PROVE  /\ job'[u.job].st = "submit" => u.nonce < job'[u.job].nonce
               /\ job'[u.job].st = "watch" => u.nonce <= job'[u.job].nonce
               /\ job'[u.job].st # "ok"
    <3>1. u \in pool /\ u # t /\ u.job \in Jobs /\ u.nonce \in Nat
      BY <1>0, TxType
    <3>2. CASE ~ Watches(u.job, t.nonce)
      BY <3>1, <3>2 DEF Informed, InOrder
    <3>3. CASE Watches(u.job, t.nonce)
      <4>1. st = "ok" /\ t.nonce = chainNonce
        BY <2>5, <3>1, <3>3 DEF Informed
      <4>2. u.nonce <= t.nonce
        BY <3>1, <3>3 DEF InOrder, Watches
      <4>3. chainNonce <= u.nonce
        BY <3>1 DEF OwnPool
      <4>4. u.nonce = t.nonce
        BY <1>0, <3>1, <4>1, <4>2, <4>3
      <4> QED
        BY <3>1, <4>4 DEF OwnPool
    <3> QED
      BY <3>2, <3>3
  <2>6. InOrder'
    BY <2>4, <2>5 DEF InOrder
  <2>7. t.stamp = round
    BY DEF OwnPool
  <2>8. \A i \in Jobs : posted'[i] = posted[i] \/ posted'[i] = round
    BY <1>0, <1>1, <2>7
  <2>9. ASSUME NEW i \in Jobs, job'[i].st = "ok" PROVE posted'[i] = round
    <3>1. CASE ~ Watches(i, t.nonce)
      BY <2>8, <2>9, <3>1 DEF Informed, Posted
    <3>2. CASE Watches(i, t.nonce)
      BY <1>0, <1>1, <2>2, <2>7, <2>9, <3>2 DEF Informed
    <3> QED
      BY <3>1, <3>2
  <2>10. Posted'
    BY <1>0, <2>8, <2>9 DEF Posted
  <2> QED
    BY <2>1, <2>3, <2>6, <2>10
<1> QED
  BY <1>2, <1>3, <1>4

-----------------------------------------------------------------------------
\* A half is submitted, again or with the others, under a counter that has
\* passed all transactions of the pool.
LEMMA SubmittingInv ==
  ASSUME OInv, NEW h \in SUBSET Jobs, job' = Submitting(h), phase' = "submit",
         phase = "submit" \/ (phase = "connect" /\ h = Jobs), round >= 1,
         next' = next \/ (next' = 0 /\ phase = "connect"),
         UNCHANGED <<chainNonce, pool, faults, round, posted, done, stray>>
  PROVE  OInv'
<1> USE DEF OInv
<1>0. TypeOK
  OBVIOUS
<1>1. \A j \in Jobs : /\ job'[j] \in JobRecord
                      /\ job'[j].stamp = round
                      /\ \/ job'[j] = job[j] /\ phase = "submit"
                         \/ job'[j].st = "read"
  BY <1>0, JobType DEF Submitting, Calls
<1>2. TypeOK'
  <2>1. job' \in [Jobs -> JobRecord]
    BY <1>1 DEF Submitting
  <2> QED
    BY <2>1 DEF TypeOK, SubmissionTypeOK, JobRecord
<1>3. Calls' /\ RoundsBegun'
  BY <1>1 DEF Calls, RoundsBegun
<1>4. ASSUME ~ stray PROVE OwnPool' /\ Watched' /\ InOrder' /\ Posted'
  <2> USE <1>4
  <2>1. OwnPool'
    BY DEF OwnPool
  <2>2. Watched'
    BY <1>1 DEF Watched
  <2>3. InOrder'
    BY <1>0, <1>1, TxType DEF InOrder, OwnPool
  <2>4. Posted'
    BY <1>1 DEF Posted
  <2> QED
    BY <2>1, <2>2, <2>3, <2>4
<1> QED
  BY <1>2, <1>3, <1>4

\* The process ends: what is left in the pool is stray.
LEMMA GoDownInv ==
  ASSUME OInv, GoDown, faults' \in 0..MaxFaults
  PROVE  OInv'
<1> USE DEF OInv, GoDown
<1>1. \A j \in Jobs : job'[j] = NoJob /\ NoJob.st = "idle" /\ NoJob \in JobRecord
  BY JobType
<1>2. TypeOK'
  <2>1. job' \in [Jobs -> JobRecord]
    BY <1>1
  <2> QED
    BY <2>1 DEF TypeOK, SubmissionTypeOK, JobRecord
<1>3. Calls' /\ RoundsBegun'
  BY <1>1 DEF Calls, RoundsBegun
<1>4. ASSUME ~ stray' PROVE OwnPool' /\ Watched' /\ InOrder' /\ Posted'
  <2>1. ~ stray /\ pool = {}
    BY <1>4
  <2>2. OwnPool'
    BY <2>1 DEF OwnPool
  <2>3. Watched' /\ InOrder'
    BY <1>1, <2>1 DEF Watched, InOrder
  <2>4. Posted'
    BY <1>1, <2>1 DEF Posted
  <2> QED
    BY <2>2, <2>3, <2>4
<1> QED
  BY <1>2, <1>3, <1>4

\* Every call is in one of the two halves.
LEMMA TwoHalves ==
  /\ \A h \in Halves : h \subseteq Jobs
  /\ \A j \in Jobs : \E h \in Halves : j \in h
<1>1. \A j \in Jobs : j \in {Fee} \cap Jobs \/ j \in Jobs \ {Fee}
  OBVIOUS
<1> QED
  BY <1>1 DEF Halves

\* A round ends well: all calls have succeeded, so that the pool is empty and
\* all values are on the chain.
LEMMA SucceededAll ==
  ASSUME OInv, phase = "submit", \A h \in Halves : Succeeded(h)
  PROVE  /\ \A j \in Jobs : job[j].st = "ok"
         /\ ~ stray => pool = {} /\ \A j \in Jobs : posted[j] = round
<1>1. \A j \in Jobs : job[j].st = "ok"
  BY TwoHalves DEF Succeeded
<1>2. ASSUME ~ stray, NEW t \in pool PROVE FALSE
  BY <1>1, <1>2, TxType DEF OInv, InOrder
<1> QED
  BY <1>1, <1>2 DEF OInv, Posted

LEMMA EndRoundInv == ASSUME OInv, EndRound PROVE OInv'
<1>0. phase = "submit" /\ faults' \in 0..MaxFaults
  BY DEF EndRound, OInv, TypeOK, SubmissionTypeOK
<1>1. CASE GoDown
  BY <1>0, <1>1, GoDownInv
<1>2. CASE /\ \A h \in Halves : Succeeded(h)
           /\ phase' = "sleep" /\ done' = round
           /\ job' = [j \in Jobs |-> NoJob]
           /\ UNCHANGED <<chainNonce, pool, next, round, posted, stray>>
  <2> USE <1>2 DEF OInv
  <2>1. \A j \in Jobs : job'[j] = NoJob /\ NoJob.st = "idle" /\ NoJob \in JobRecord
    BY JobType
  <2>2. TypeOK'
    <3>1. job' \in [Jobs -> JobRecord]
      BY <2>1
    <3> QED
      BY <1>0, <3>1 DEF TypeOK, SubmissionTypeOK, JobRecord
  <2>3. Calls' /\ RoundsBegun'
    BY <2>1 DEF Calls, RoundsBegun, TypeOK
  <2>4. ASSUME ~ stray PROVE OwnPool' /\ Watched' /\ InOrder' /\ Posted'
    <3>1. pool = {} /\ \A j \in Jobs : posted[j] = round
      BY <1>0, <2>4, SucceededAll
    <3>2. OwnPool'
      BY <3>1 DEF OwnPool
    <3>3. Watched' /\ InOrder'
      BY <2>1, <3>1 DEF Watched, InOrder
    <3>4. Posted'
      BY <2>1, <3>1 DEF Posted, TypeOK
    <3> QED
      BY <3>2, <3>3, <3>4
  <2> QED
    BY <2>2, <2>3, <2>4
<1> QED
  BY <1>1, <1>2 DEF EndRound

\* A new round begins: no value of it has been posted.
LEMMA FetchInv == ASSUME OInv, FetchValues PROVE OInv'
<1> USE OracleAssumption DEF OInv, FetchValues, submissionVars
<1>0. /\ round \in 0..MaxRounds /\ done \in 0..MaxRounds /\ posted \in [Jobs -> 0..MaxRounds]
      /\ MaxRounds \in Nat
  BY DEF TypeOK
<1>1. round' \in 0..MaxRounds /\ round' >= 1 /\ round' >= round
  BY <1>0
<1>2. TypeOK'
  BY <1>1 DEF TypeOK, SubmissionTypeOK
<1>3. Calls'
  BY DEF Calls
<1>4. RoundsBegun'
  <2>1. \A t \in pool : t.stamp \in 1..round'
    BY <1>0, <1>1 DEF RoundsBegun
  <2> QED
    BY <1>0, <1>1, <2>1 DEF RoundsBegun
<1>5. ASSUME ~ stray PROVE OwnPool' /\ Watched' /\ InOrder' /\ Posted'
  <2>1. OwnPool' /\ Watched' /\ InOrder'
    BY <1>5 DEF OwnPool, Watched, InOrder, Calls
  <2>2. round' = round \/ (round' = round + 1 /\ done # round')
    BY <1>0 DEF RoundsBegun
  <2>3. Posted'
    BY <1>0, <1>5, <2>2 DEF Posted, Calls
  <2> QED
    BY <2>1, <2>3
<1> QED
  BY <1>2, <1>3, <1>4, <1>5

\* Every step preserves the invariant.
LEMMA NextInv == ASSUME OInv, [Next]_vars PROVE OInv'
<1>0. TypeOK
  BY DEF OInv
<1>1. CASE UNCHANGED vars
  <2> USE <1>1 DEF vars, submissionVars, oracleVars
  <2>1. TypeOK' /\ Calls' /\ RoundsBegun'
    BY DEF OInv, TypeOK, SubmissionTypeOK, Calls, RoundsBegun
  <2>2. ~ stray' => OwnPool' /\ Watched' /\ InOrder' /\ Posted'
    BY DEF OInv, OwnPool, Watched, InOrder, Posted
  <2> QED
    BY <2>1, <2>2 DEF OInv
<1>2. CASE FetchValues
  BY <1>2, FetchInv
<1>3. CASE Connect
  <2>1. round >= 1
    BY <1>3 DEF Connect, OInv, RoundsBegun
  <2>2. Jobs \in SUBSET Jobs
    OBVIOUS
  <2> QED
    BY <1>3, <2>1, <2>2, SubmittingInv DEF Connect, NewConnection
<1>4. ASSUME NEW h \in Halves, Retry(h) PROVE OInv'
  <2>1. round >= 1 /\ h \in SUBSET Jobs
    BY <1>4, TwoHalves DEF Retry, OInv, RoundsBegun
  <2> QED
    BY <1>4, <2>1, SubmittingInv DEF Retry, oracleVars
<1>5. CASE EndRound
  BY <1>5, EndRoundInv
<1>6. CASE Sleep \/ Restart
  <2> USE <1>6 DEF Sleep, Restart, submissionVars
  <2>1. TypeOK' /\ Calls' /\ RoundsBegun'
    BY DEF OInv, TypeOK, SubmissionTypeOK, Calls, RoundsBegun
  <2>2. ~ stray' => OwnPool' /\ Watched' /\ InOrder' /\ Posted'
    BY DEF OInv, OwnPool, Watched, InOrder, Posted
  <2> QED
    BY <2>1, <2>2 DEF OInv
<1>7. ASSUME NEW j \in Jobs, JobStep(j), UNCHANGED oracleVars PROVE OInv'
  BY <1>7, JobStepInv
<1>8. ASSUME NEW t \in pool, FeedValues(t) PROVE OInv'
  <2>1. PICK st \in {"ok", "err", "read"} :
          /\ job' = [j \in Jobs |-> IF Watches(j, t.nonce) THEN [job[j] EXCEPT !.st = st]
                                    ELSE job[j]]
          /\ IF st = "ok" THEN UNCHANGED faults
             ELSE Fault /\ \E j \in Jobs : Watches(j, t.nonce)
    BY <1>8 DEF FeedValues, ExecuteTx
  <2>2. faults' \in 0..MaxFaults
    BY <1>0, <2>1, SubmissionAssumption DEF Fault, TypeOK, SubmissionTypeOK
  <2>3. Informed(t.nonce, st)
    BY <1>0, <2>1, JobsInformed DEF JobStates
  <2>4. /\ pool' = pool \ {t} /\ t.nonce = chainNonce /\ chainNonce' = chainNonce + 1
        /\ posted' = [posted EXCEPT ![t.job] = t.stamp]
        /\ UNCHANGED <<next, phase, round, done, stray>>
    BY <1>8 DEF FeedValues, ExecuteTx
  <2> QED
    BY <2>2, <2>3, <2>4, LeaveInv
<1>9. ASSUME NEW t \in pool, Evict(t), UNCHANGED oracleVars PROVE OInv'
  <2>1. faults' \in 0..MaxFaults
    BY <1>0, <1>9, SubmissionAssumption DEF Evict, Fault, TypeOK, SubmissionTypeOK
  <2>2. Informed(t.nonce, "err")
    BY <1>0, <1>9, JobsInformed DEF Evict, JobStates
  <2>3. pool' = pool \ {t} /\ UNCHANGED <<chainNonce, posted, next, phase, round, done, stray>>
    BY <1>9 DEF Evict, oracleVars
  <2> QED
    BY <2>1, <2>2, <2>3, LeaveInv
<1>10. ASSUME NEW h \in Halves, RunsOut(h) PROVE OInv'
  <2>1. PICK j \in h : Goto(j, "expired")
    BY <1>10 DEF RunsOut
  <2>2. j \in Jobs
    BY TwoHalves
  <2>3. Moves(j, "expired")
    BY <1>0, <2>1, <2>2, GotoMoves DEF JobStates
  <2>4. /\ phase = "submit" /\ faults' \in 0..MaxFaults
        /\ UNCHANGED <<chainNonce, pool, next, oracleVars>>
    BY <1>0, <1>10 DEF RunsOut, TypeOK, SubmissionTypeOK
  <2> QED
    BY <2>2, <2>3, <2>4, MoveInv
<1>11. CASE Stops
  <2>1. faults' \in 0..MaxFaults
    BY <1>0, <1>11, SubmissionAssumption DEF Stops, Fault, TypeOK, SubmissionTypeOK
  <2> QED
    BY <1>11, <2>1, GoDownInv DEF Stops
<1>12. CASE Rest
  BY <1>1, <1>12 DEF Rest
<1> QED
  BY <1>1, <1>2, <1>3, <1>4, <1>5, <1>6, <1>7, <1>8, <1>9, <1>10, <1>11, <1>12
     DEF Next, OracleStep

-----------------------------------------------------------------------------
(***************************************************************************)
(* The refinement.  A transaction that is executed publishes its value, a  *)
(* round that ends well completes, a process that leaves transactions      *)
(* behind abandons them; every other step stutters.                        *)
(***************************************************************************)

\* Executing a transaction is a Publish; or the last round is submitted once
\* more and the same value is stored again.
LEMMA FeedValuesPublishes ==
  ASSUME OInv, NEW t \in pool, FeedValues(t)
  PROVE  [F!Next]_(F!vars)
<1> USE DEF OInv, F!vars
<1>1. /\ t.job \in Jobs /\ t.stamp \in 1..round /\ round \in 0..MaxRounds
      /\ posted \in [Jobs -> 0..MaxRounds] /\ done <= round /\ done \in 0..MaxRounds
  BY TxType DEF RoundsBegun, TypeOK
<1>2. posted' = [posted EXCEPT ![t.job] = t.stamp] /\ UNCHANGED <<done, stray>>
  BY DEF FeedValues
<1>3. t.stamp \in F!Rounds
  BY <1>1, OracleAssumption DEF F!Rounds
<1>4. CASE stray
  BY <1>1, <1>2, <1>3, <1>4 DEF F!Next, F!Publish
<1>5. CASE ~ stray /\ done = round
  <2>1. t.stamp = posted[t.job]
    BY <1>1, <1>5 DEF OwnPool, Posted
  <2> QED
    BY <1>1, <1>2, <2>1
<1>6. CASE ~ stray /\ done # round
  <2>1. t.stamp > done /\ t.stamp >= posted[t.job]
    BY <1>1, <1>6 DEF OwnPool, Posted
  <2> QED
    BY <1>1, <1>2, <1>3, <2>1 DEF F!Next, F!Publish
<1> QED
  BY <1>4, <1>5, <1>6

\* The end of a process abandons what is in the pool.
LEMMA GoDownAbandons == ASSUME OInv, GoDown PROVE [F!Next]_(F!vars)
<1>1. UNCHANGED <<posted, done>> /\ stray' = (stray \/ pool # {})
  BY DEF GoDown
<1>2. CASE pool = {}
  <2>1. stray' = stray
    BY <1>1, <1>2 DEF OInv, TypeOK
  <2> QED
    BY <1>1, <2>1 DEF F!vars
<1>3. CASE pool # {}
  BY <1>1, <1>3 DEF F!Next, F!Abandon
<1> QED
  BY <1>2, <1>3

\* The end of a round completes it, unless it is the last one once more.
LEMMA EndRoundCompletes == ASSUME OInv, EndRound PROVE [F!Next]_(F!vars)
<1>1. CASE GoDown
  BY <1>1, GoDownAbandons
<1>2. CASE /\ \A h \in Halves : Succeeded(h)
           /\ done' = round
           /\ UNCHANGED <<round, posted, stray>>
  <2>1. phase = "submit"
    BY DEF EndRound
  <2>2. stray \/ \A j \in Jobs : posted[j] = round
    BY <1>2, <2>1, SucceededAll
  <2>3. round \in 1..MaxRounds /\ done <= round /\ done \in 0..MaxRounds
    BY <2>1 DEF OInv, RoundsBegun, TypeOK
  <2>4. CASE done = round
    BY <1>2, <2>4 DEF F!vars
  <2>5. CASE done # round
    BY <1>2, <2>2, <2>3, <2>5 DEF F!Next, F!Complete, F!Rounds
  <2> QED
    BY <2>4, <2>5
<1> QED
  BY <1>1, <1>2 DEF EndRound

\* Every step of the client is a step of Feed or leaves its state alone.
LEMMA StepSimulation == ASSUME OInv, [Next]_vars PROVE [F!Next]_(F!vars)
<1>1. CASE UNCHANGED <<posted, done, stray>>
  BY <1>1 DEF F!vars
<1>2. CASE OracleStep
  BY <1>1, <1>2, EndRoundCompletes
     DEF OracleStep, FetchValues, Connect, Retry, Sleep, Restart, oracleVars
<1>3. ASSUME NEW t \in pool, FeedValues(t) PROVE [F!Next]_(F!vars)
  BY <1>3, FeedValuesPublishes
<1>4. CASE Stops
  BY <1>4, GoDownAbandons DEF Stops
<1> QED
  BY <1>1, <1>2, <1>3, <1>4 DEF Next, RunsOut, Rest, vars, oracleVars

\* The oracle client implements Feed: whatever the keys, the rounds and the
\* faults, no value is replaced by an older one and a round that is done has
\* all its values on the parachain, until a process leaves transactions
\* behind.
THEOREM FeedImplemented == Spec => ImplementsFeed
<1>1. Init => F!Init
  BY DEF Init, F!Init
<1>2. Init => OInv
  BY InitInv
<1>3. OInv /\ [Next]_vars => OInv'
  BY NextInv
<1>4. OInv /\ [Next]_vars => [F!Next]_(F!vars)
  BY StepSimulation
<1> QED
  BY <1>1, <1>2, <1>3, <1>4, PTL DEF Spec, ImplementsFeed, F!Spec

-----------------------------------------------------------------------------
(* Prices.  The fold over a route is unwound by induction: a set of naturals *)
(* without a least counterexample has none.                                  *)

\* Every set of naturals has a least element.
LEMMA LeastNatural ==
    ASSUME NEW S \in SUBSET Nat, S # {}
    PROVE  \E x \in S : \A y \in S : x <= y
<1> DEFINE R == OpToRel(<, Nat)
<1>1. IsWellFoundedOn(R, Nat)
  BY NatLessThanWellFounded
<1>2. R = {ss \in Nat \X Nat : ss[1] < ss[2]}
  BY Zenon DEF OpToRel
<1> HIDE DEF R
<1>3. \E x \in S : \A y \in S : ~ (<<y, x>> \in R)
  BY <1>1, WFMin
<1>4. ASSUME NEW x \in S, NEW y \in S, ~ (<<y, x>> \in R)
      PROVE  x <= y
  <2>1. x \in Nat /\ y \in Nat
    OBVIOUS
  <2>2. <<y, x>> \in Nat \X Nat /\ <<y, x>>[1] = y /\ <<y, x>>[2] = x
    BY <2>1
  <2>3. ~ (y < x)
    BY <1>2, <1>4, <2>2
  <2> QED BY <2>1, <2>3
<1> QED BY <1>3, <1>4

\* Induction: a set of naturals with zero and the successors of its elements.
LEMMA NaturalsIn ==
    ASSUME NEW S \in SUBSET Nat, 0 \in S, \A n \in S : n + 1 \in S
    PROVE  S = Nat
<1>1. SUFFICES ASSUME Nat \ S # {}
               PROVE  FALSE
  OBVIOUS
<1>2. PICK m \in Nat \ S : \A y \in Nat \ S : m <= y
  BY <1>1, LeastNatural
<1>3. m # 0 /\ m - 1 \in Nat /\ m - 1 \in S
  BY <1>2
<1> QED BY <1>2, <1>3

\* The prices of a route, reduced from the left.
Reduced(b, q) == FoldLeft(Reduce, b, q)

\* What FoldLeft of Reduce defines by recursion over sets of indices.
Step(it, b, q, D) ==
    [s \in SUBSET D |-> IF s = {} THEN b ELSE Reduce(it[s \ {Max(s)}], q[Max(s)])]

LEMMA MaxOf ==
    ASSUME NEW n \in Nat, NEW s \in SUBSET (1..n), n \in s
    PROVE  Max(s) = n
<1>1. \A y \in s : y \in Nat /\ n >= y
  OBVIOUS
<1>2. \E x \in s : \A y \in s : x >= y
  BY <1>1
<1>3. Max(s) \in s /\ \A y \in s : Max(s) >= y
  BY <1>2 DEF Max
<1>4. PICK x \in s : x = Max(s) /\ \A y \in s : x >= y
  BY <1>3
<1>5. x \in Nat /\ n >= x /\ x >= n
  BY <1>1, <1>4
<1> QED BY <1>4, <1>5

LEMMA FoldExists ==
    ASSUME NEW b, NEW q, NEW n \in Nat
    PROVE  \E it : it = Step(it, b, q, 1..n)
<1> DEFINE S == {m \in Nat : \E it : it = Step(it, b, q, 1..m)}
<1>1. 0 \in S
  <2>1. 1..0 = {}
    OBVIOUS
  <2> DEFINE f == [s \in SUBSET {} |-> b]
  <2>2. f = Step(f, b, q, {})
    BY DEF Step
  <2> QED BY <2>1, <2>2
<1>2. ASSUME NEW m \in S
      PROVE  m + 1 \in S
  <2>1. m \in Nat /\ m + 1 \in Nat
    OBVIOUS
  <2>2. PICK f : f = Step(f, b, q, 1..m)
    OBVIOUS
  <2> DEFINE g == [s \in SUBSET (1..m + 1) |->
                     IF m + 1 \in s THEN Reduce(f[s \ {m + 1}], q[m + 1]) ELSE f[s]]
  <2>3. ASSUME NEW s \in SUBSET (1..m + 1)
        PROVE  g[s] = IF s = {} THEN b ELSE Reduce(g[s \ {Max(s)}], q[Max(s)])
    <3>1. CASE m + 1 \in s
      <4>1. Max(s) = m + 1
        BY <2>1, <3>1, MaxOf
      <4>2. s \ {m + 1} \in SUBSET (1..m + 1) /\ m + 1 \notin s \ {m + 1}
        OBVIOUS
      <4> QED BY <3>1, <4>1, <4>2
    <3>2. CASE m + 1 \notin s
      <4>1. s \in SUBSET (1..m) /\ s \ {Max(s)} \in SUBSET (1..m + 1) /\ m + 1 \notin s \ {Max(s)}
        <5>1. \A x \in s : x \in 1..m
          BY <2>1, <3>2
        <5> QED BY <3>2, <5>1
      <4>2. f[s] = IF s = {} THEN b ELSE Reduce(f[s \ {Max(s)}], q[Max(s)])
        BY <2>2, <4>1 DEF Step
      <4> QED BY <3>2, <4>1, <4>2
    <3> QED BY <3>1, <3>2
  <2>4. g = Step(g, b, q, 1..m + 1)
    <3> HIDE DEF g
    <3>1. g = [s \in SUBSET (1..m + 1) |-> g[s]]
      BY DEF g
    <3> QED BY <2>3, <3>1 DEF Step
  <2> QED BY <2>1, <2>4
<1>3. S = Nat
  <2>1. S \in SUBSET Nat
    OBVIOUS
  <2> HIDE DEF S
  <2> QED BY <1>1, <1>2, <2>1, NaturalsIn
<1> QED BY <1>3

\* The fold of a sequence, index by index.
Folds(it, b, q, n) ==
    /\ Reduced(b, q) = it[1..n]
    /\ it[1..0] = b
    /\ \A m \in 1..n : it[1..m] = Reduce(it[1..m - 1], q[m])

LEMMA FoldSteps ==
    ASSUME NEW b, NEW n \in Nat, NEW q, DOMAIN q = 1..n
    PROVE  \E it : Folds(it, b, q, n)
<1> DEFINE iter == CHOOSE it : it = Step(it, b, q, 1..n)
<1>1. Reduced(b, q) = iter[1..n]
  BY DEF Reduced, FoldLeft, MapThenFoldSet, Step
<1>2. iter = Step(iter, b, q, 1..n)
  BY FoldExists
<1> HIDE DEF iter
<1>3. \A s \in SUBSET (1..n) : iter[s] = IF s = {} THEN b ELSE Reduce(iter[s \ {Max(s)}], q[Max(s)])
  BY <1>2 DEF Step
<1>4. iter[1..0] = b
  <2>1. 1..0 = {}
    OBVIOUS
  <2> QED BY <1>3, <2>1
<1>5. ASSUME NEW m \in 1..n
      PROVE  iter[1..m] = Reduce(iter[1..m - 1], q[m])
  <2>1. 1..m \in SUBSET (1..n) /\ m \in 1..m /\ m \in Nat /\ 1..m # {}
    OBVIOUS
  <2>2. Max(1..m) = m
    BY <2>1, MaxOf
  <2>3. (1..m) \ {m} = 1..m - 1
    BY <2>1
  <2>4. iter[1..m] = Reduce(iter[(1..m) \ {Max(1..m)}], q[Max(1..m)])
    BY <1>3, <2>1
  <2> QED BY <2>2, <2>3, <2>4
<1> QED BY <1>1, <1>4, <1>5 DEF Folds

----------------------------------------------------------------------------
\* x is the right price of the currencies c and d, in one direction or the other.
Right(x, c, d) ==
    /\ {x.base, x.quote} = {c, d}
    /\ x.price = Worth[x.base] - Worth[x.quote]

\* One hop: the common currency cancels, whichever way round the pairs are.
LEMMA ReduceRight ==
    ASSUME NEW c \in Currencies, NEW d \in Currencies, NEW e \in Currencies,
           c # d, d # e, c # e,
           NEW x, NEW y, Right(x, c, d), Right(y, d, e)
    PROVE  Right(Reduce(x, y), c, e)
<1>1. Worth[c] \in Int /\ Worth[d] \in Int /\ Worth[e] \in Int
  BY PricesAssumption
<1>2. /\ (x.base = c /\ x.quote = d) \/ (x.base = d /\ x.quote = c)
      /\ (y.base = d /\ y.quote = e) \/ (y.base = e /\ y.quote = d)
  BY DEF Right
<1>3. x.price = Worth[x.base] - Worth[x.quote] /\ y.price = Worth[y.base] - Worth[y.quote]
  BY DEF Right
<1> DEFINE z == Reduce(x, y)
<1>4. CASE x.base = c /\ x.quote = d /\ y.base = d /\ y.quote = e
  BY <1>1, <1>3, <1>4 DEF Reduce, Right, Invert
<1>5. CASE x.base = c /\ x.quote = d /\ y.base = e /\ y.quote = d
  BY <1>1, <1>3, <1>5 DEF Reduce, Right, Invert
<1>6. CASE x.base = d /\ x.quote = c /\ y.base = d /\ y.quote = e
  BY <1>1, <1>3, <1>6 DEF Reduce, Right, Invert
<1>7. CASE x.base = d /\ x.quote = c /\ y.base = e /\ y.quote = d
  BY <1>1, <1>3, <1>7 DEF Reduce, Right, Invert
<1> QED BY <1>2, <1>4, <1>5, <1>6, <1>7

LEMMA RoutePriceRight ==
    ASSUME NEW n \in Nat, n >= 1, NEW route \in [1..n -> Pairs],
           NEW x \in [0..n -> Currencies], IsInjective(x),
           \A i \in 1..n : {route[i].base, route[i].quote} = {x[i - 1], x[i]},
           NEW pair \in Pairs, {x[0], x[n]} = {pair.base, pair.quote}
    PROVE  /\ RoutePrice(pair, route).base = pair.base
           /\ RoutePrice(pair, route).quote = pair.quote
           /\ RoutePrice(pair, route).price = Worth[pair.base] - Worth[pair.quote]
<1> DEFINE q == [i \in 1..Len(route) - 1 |-> GetPrice(route[i + 1])]
           b == GetPrice(Head(route))
           total == Reduced(b, q)
<1>1. /\ Len(route) = n /\ Head(route) = route[1] /\ n - 1 \in Nat /\ DOMAIN q = 1..n - 1
      /\ \A i \in 1..n - 1 : q[i] = GetPrice(route[i + 1])
  OBVIOUS
<1>2. \A i \in 1..n : Right(GetPrice(route[i]), x[i - 1], x[i])
  BY DEF Right, GetPrice
<1>3. \A i, j \in 0..n : i # j => x[i] # x[j]
  BY DEF IsInjective
<1>4. b = GetPrice(route[1])
  BY <1>1
<1> HIDE DEF q, b
<1>5. PICK it : /\ total = it[1..n - 1]
                /\ it[1..0] = b
                /\ \A m \in 1..n - 1 : it[1..m] = Reduce(it[1..m - 1], q[m])
  <2>1. \E it : Folds(it, b, q, n - 1)
    BY <1>1, FoldSteps
  <2> QED BY <2>1 DEF Folds
<1> DEFINE S == {m \in Nat : m <= n - 1 => Right(it[1..m], x[0], x[m + 1])}
<1>6. S = Nat
  <2>1. 0 \in S
    <3>1. Right(GetPrice(route[1]), x[1 - 1], x[1])
      BY <1>2
    <3> QED BY <1>4, <1>5, <3>1
  <2>2. ASSUME NEW m \in S
        PROVE  m + 1 \in S
    <3>1. SUFFICES ASSUME m + 1 <= n - 1
                   PROVE  Right(it[1..m + 1], x[0], x[m + 2])
      OBVIOUS
    <3>2. m \in Nat /\ Right(it[1..m], x[0], x[m + 1])
      BY <3>1
    <3>3. it[1..m + 1] = Reduce(it[1..m], GetPrice(route[m + 2]))
      <4>1. m + 1 \in 1..n - 1 /\ (m + 1) - 1 = m /\ (m + 1) + 1 = m + 2
        BY <3>1, <3>2
      <4> QED BY <1>1, <1>5, <4>1
    <3>4. Right(GetPrice(route[m + 2]), x[m + 1], x[m + 2])
      <4>1. m + 2 \in 1..n /\ (m + 2) - 1 = m + 1
        BY <3>1, <3>2
      <4> QED BY <1>2, <4>1
    <3>5. /\ x[0] \in Currencies /\ x[m + 1] \in Currencies /\ x[m + 2] \in Currencies
          /\ x[0] # x[m + 1] /\ x[m + 1] # x[m + 2] /\ x[0] # x[m + 2]
      <4>1. 0 \in 0..n /\ m + 1 \in 0..n /\ m + 2 \in 0..n /\ m + 1 # 0 /\ m + 2 # 0 /\ m + 1 # m + 2
        BY <3>1, <3>2
      <4> QED BY <1>3, <4>1
    <3> QED BY <3>2, <3>3, <3>4, <3>5, ReduceRight
  <2>3. S \in SUBSET Nat
    OBVIOUS
  <2> HIDE DEF S
  <2> QED BY <2>1, <2>2, <2>3, NaturalsIn
<1>7. Right(total, pair.base, pair.quote)
  <2>1. n - 1 \in S /\ (n - 1) + 1 = n
    BY <1>1, <1>6
  <2>2. Right(total, x[0], x[n])
    BY <1>5, <2>1
  <2> HIDE DEF total
  <2> QED BY <2>2 DEF Right
<1>8. RoutePrice(pair, route) = IF total.base # pair.base THEN Invert(total) ELSE total
  BY DEF RoutePrice, Reduced, q, b
<1>9. pair.base # pair.quote /\ Worth[pair.base] \in Int /\ Worth[pair.quote] \in Int
  BY PricesAssumption DEF Pairs
<1> HIDE DEF total
<1>10. CASE total.base = pair.base
  BY <1>7, <1>8, <1>9, <1>10 DEF Right
<1>11. CASE total.base # pair.base
  <2>1. total.base = pair.quote /\ total.quote = pair.base
    BY <1>7, <1>9, <1>11 DEF Right
  <2>2. -(Worth[pair.quote] - Worth[pair.base]) = Worth[pair.base] - Worth[pair.quote]
    BY <1>9
  <2> QED BY <1>7, <1>8, <1>11, <2>1, <2>2 DEF Right, Invert
<1> QED BY <1>10, <1>11

LEMMA RouteAccepted ==
    ASSUME NEW n \in Nat, n >= 1, NEW route \in [1..n -> Pairs],
           NEW x \in [0..n -> Currencies], IsInjective(x),
           \A i \in 1..n : {route[i].base, route[i].quote} = {x[i - 1], x[i]},
           NEW pair \in Pairs, {x[0], x[n]} = {pair.base, pair.quote}
    PROVE  Validate(pair, route)
<1>1. Len(route) = n /\ Head(route) = route[1] /\ Last(route) = route[n] /\ route # <<>>
  BY DEF Last
<1>2. ASSUME NEW i \in 1..n
      PROVE  HasCurrency(route[i], x[i - 1]) /\ HasCurrency(route[i], x[i])
  BY DEF HasCurrency
<1>3. HasCurrency(route[1], x[0]) /\ HasCurrency(route[n], x[n]) /\ HasCurrency(route[n], x[n - 1])
  <2>1. 1 \in 1..n /\ n \in 1..n /\ 1 - 1 = 0
    OBVIOUS
  <2> QED BY <1>2, <2>1
<1>4. HasShared(pair, route[1])
  BY <1>3 DEF HasShared, HasCurrency
<1>5. HasCurrency(route[n], IF HasCurrency(route[1], pair.base) THEN pair.quote ELSE pair.base)
  <2>1. CASE x[0] = pair.base /\ x[n] = pair.quote
    BY <1>3, <2>1 DEF HasCurrency
  <2>2. CASE x[0] = pair.quote /\ x[n] = pair.base
    <3>1. CASE n = 1
      BY <1>3, <2>2, <3>1
    <3>2. CASE n # 1
      <4>1. 1 \in 1..n /\ 0 \in 0..n /\ 1 \in 0..n /\ n \in 0..n /\ n # 0 /\ n # 1 /\ 1 - 1 = 0
        BY <3>2
      <4>2. x[1] # x[n] /\ x[0] # x[n]
        BY <4>1 DEF IsInjective
      <4>3. {route[1].base, route[1].quote} = {x[0], x[1]}
        BY <4>1
      <4>4. ~ HasCurrency(route[1], pair.base)
        BY <2>2, <4>2, <4>3 DEF HasCurrency
      <4> QED BY <1>3, <2>2, <4>4
    <3> QED BY <3>1, <3>2
  <2> QED BY <2>1, <2>2
<1>6. ASSUME NEW i \in 1..n - 1
      PROVE  HasShared(route[i], route[i + 1])
  <2>1. i \in 1..n /\ i + 1 \in 1..n /\ (i + 1) - 1 = i
    OBVIOUS
  <2>2. HasCurrency(route[i], x[i]) /\ HasCurrency(route[i + 1], x[i])
    BY <1>2, <2>1
  <2> QED BY <2>2 DEF HasShared, HasCurrency
<1> QED BY <1>1, <1>4, <1>5, <1>6 DEF Validate

\* Every route that leads from one currency of a pair to the other is accepted
\* by validate and gives the right rate, for any number of currencies and hops
\* and whatever the direction of the pairs on the way.
THEOREM RoutesAlwaysRight == Spec => []RoutesRight
<1>1. ASSUME NEW pair \in Pairs, NEW route \in Routes, route # <<>>, Leads(pair, route)
      PROVE  /\ Validate(pair, route)
             /\ ExchangeRate(pair, RoutePrice(pair, route).price) =
                      (Worth[pair.base] - Decimals[pair.base])
                      - (Worth[pair.quote] - Decimals[pair.quote])
  <2>1. PICK n \in Nat : route \in [1..n -> Pairs]
    BY PricesAssumption DEF Routes, SeqOf
  <2>2. n >= 1 /\ Len(route) = n
    BY <1>1, <2>1
  <2>3. PICK x \in [0..n -> Currencies] :
            /\ IsInjective(x)
            /\ \A i \in 1..n : {route[i].base, route[i].quote} = {x[i - 1], x[i]}
            /\ {x[0], x[n]} = {pair.base, pair.quote}
    BY <1>1, <2>2 DEF Leads
  <2>4. Validate(pair, route)
    BY <2>1, <2>2, <2>3, RouteAccepted
  <2>5. RoutePrice(pair, route).price = Worth[pair.base] - Worth[pair.quote]
    BY <2>1, <2>2, <2>3, RoutePriceRight
  <2>6. /\ Worth[pair.base] \in Int /\ Worth[pair.quote] \in Int
        /\ Decimals[pair.base] \in Int /\ Decimals[pair.quote] \in Int
    BY PricesAssumption DEF Pairs
  <2> QED BY <2>4, <2>5, <2>6 DEF ExchangeRate
<1>2. RoutesRight
  BY <1>1 DEF RoutesRight
<1> QED BY <1>2, PTL
=============================================================================
