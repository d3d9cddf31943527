------------------------- MODULE RegistrationProofs -------------------------
(***************************************************************************)
(* Proofs about Registration and the Faucet it composes, for any accounts, *)
(* currencies, cooldown, amounts, number of concurrent requests and        *)
(* faults: types, the cooldown, the bound on balances, and that a vault    *)
(* puts up the faucet's allowances once.                                   *)
(***************************************************************************)
EXTENDS Registration, Integers, TLAPS

----------------------------------------------------------------------------
(***************************************************************************)
(* Types.                                                                  *)
(***************************************************************************)

\* g is f but for slot r, whose handler has these fields.
Put(f, g, r, s, a, k, n) ==
    /\ g \in [Slots -> Handlers]
    /\ g[r] = [st |-> s, acct |-> a, kind |-> k, age |-> n]
    /\ g[r].st = s /\ g[r].acct = a /\ g[r].kind = k /\ g[r].age = n
    /\ \A q \in Slots \ {r} : g[q] = f[q]

LEMMA Constants ==
    /\ Old \in Nat /\ Cooldown \in Nat /\ Cooldown >= 1 /\ Old = 2 * Cooldown + 1
    /\ Idle \in Handlers /\ Idle.st = "idle" /\ Idle.acct \in Accounts
    /\ Idle.kind = "User" /\ Idle.age = 0
    /\ \A k \in Kinds : Allowance(k) \in Nat
    /\ MaxBalance \in Nat
    /\ NoClaim \in Claims
<1>1. (CHOOSE a \in Accounts : TRUE) \in Accounts
  BY RegistrationAssumption
<1>2. Old \in Nat /\ Cooldown \in Nat /\ Cooldown >= 1 /\ Old = 2 * Cooldown + 1
  BY FaucetAssumption DEF Old
<1> QED BY <1>1, <1>2, FaucetAssumption DEF Idle, Handlers, Steps, Kinds, Allowance, NoClaim, Claims

\* The ways in which a handler moves.
LEMMA Moves ==
    ASSUME NEW f \in [Slots -> Handlers], NEW r \in Slots, NEW s \in Steps,
           NEW a \in Accounts, NEW k \in Kinds, NEW n \in 0..Old
    PROVE  /\ Put(f, [f EXCEPT ![r].st = s], r, s, f[r].acct, f[r].kind, f[r].age)
           /\ Put(f, [f EXCEPT ![r].st = s, ![r].kind = k], r, s, f[r].acct, k, f[r].age)
           /\ Put(f, [f EXCEPT ![r].st = s, ![r].age = n], r, s, f[r].acct, f[r].kind, n)
           /\ Put(f, [f EXCEPT ![r] = [Idle EXCEPT !.st = s]], r, s, Idle.acct, "User", 0)
           /\ Put(f, [f EXCEPT ![r] = [Idle EXCEPT !.st = s, !.acct = a]], r, s, a, "User", 0)
           /\ Put(f, [f EXCEPT ![r] = Idle], r, "idle", Idle.acct, "User", 0)
<1>1. f[r] \in Handlers
  OBVIOUS
<1>2. Put(f, [f EXCEPT ![r].st = s], r, s, f[r].acct, f[r].kind, f[r].age)
  BY <1>1 DEF Put, Handlers
<1>3. Put(f, [f EXCEPT ![r].st = s, ![r].kind = k], r, s, f[r].acct, k, f[r].age)
  BY <1>1 DEF Put, Handlers
<1>4. Put(f, [f EXCEPT ![r].st = s, ![r].age = n], r, s, f[r].acct, f[r].kind, n)
  BY <1>1 DEF Put, Handlers
<1>5. Put(f, [f EXCEPT ![r] = [Idle EXCEPT !.st = s]], r, s, Idle.acct, "User", 0)
  BY Constants DEF Put, Handlers
<1>6. Put(f, [f EXCEPT ![r] = [Idle EXCEPT !.st = s, !.acct = a]], r, s, a, "User", 0)
  BY Constants DEF Put, Handlers
<1>7. Put(f, [f EXCEPT ![r] = Idle], r, "idle", Idle.acct, "User", 0)
  BY Constants DEF Put, Handlers
<1> QED BY <1>2, <1>3, <1>4, <1>5, <1>6, <1>7

UnderWay == {"transfer", "adrift"}   \* a claim whose transfer may be executed
Deciding == {"lock", "write"}        \* a request that was checked

LEMMA RequestMoves ==
    ASSUME FaucetTypeOK, NEW r \in Slots, NEW a \in Accounts, Request(r, a)
    PROVE  req[r].st = "idle" /\ Put(req, req', r, "kind", a, "User", 0)
<1>1. "kind" \in Steps /\ "User" \in Kinds /\ 0 \in 0..Old
  BY Constants DEF Steps, Kinds
<1> QED BY <1>1, Moves DEF FaucetTypeOK, Request

LEMMA AnswerMoves ==
    ASSUME FaucetTypeOK, NEW r \in Slots, NEW s \in Steps, Answer(r, s)
    PROVE  Put(req, req', r, s, Idle.acct, "User", 0)
<1>1. "User" \in Kinds /\ 0 \in 0..Old /\ Idle.acct \in Accounts
  BY Constants DEF Kinds
<1> QED BY <1>1, Moves DEF FaucetTypeOK, Answer

LEMMA GotoMoves ==
    ASSUME FaucetTypeOK, NEW r \in Slots, NEW s \in Steps, Goto(r, s)
    PROVE  Put(req, req', r, s, req[r].acct, req[r].kind, req[r].age)
<1>1. "User" \in Kinds /\ 0 \in 0..Old /\ Idle.acct \in Accounts
  BY Constants DEF Kinds
<1> QED BY <1>1, Moves DEF FaucetTypeOK, Goto

\* An answer is taken, or thrown away.
LEMMA TakeMoves ==
    ASSUME FaucetTypeOK, NEW r \in Slots, req' = [req EXCEPT ![r] = Idle]
    PROVE  Put(req, req', r, "idle", Idle.acct, "User", 0)
<1>1. "User" \in Kinds /\ 0 \in 0..Old /\ Idle.acct \in Accounts /\ "idle" \in Steps
  BY Constants DEF Kinds, Steps
<1> QED BY <1>1, Moves DEF FaucetTypeOK

LEMMA GetAccountTypeMoves ==
    ASSUME FaucetTypeOK, NEW r \in Slots, GetAccountType(r)
    PROVE  /\ req[r].st = "kind"
           /\ \E k \in Kinds : Put(req, req', r, "checks", req[r].acct, k, req[r].age)
<1>1. "User" \in Kinds /\ "Vault" \in Kinds /\ 0 \in 0..Old /\ Idle.acct \in Accounts /\ "checks" \in Steps
  BY Constants DEF Kinds, Steps
<1>2. PICK k \in Kinds : req' = [req EXCEPT ![r].st = "checks", ![r].kind = k]
  BY <1>1 DEF GetAccountType
<1>3. req \in [Slots -> Handlers]
  BY DEF FaucetTypeOK
<1>4. Put(req, [req EXCEPT ![r].st = "checks", ![r].kind = k], r, "checks", req[r].acct, k, req[r].age)
  BY <1>1, <1>3, Moves
<1> QED BY <1>2, <1>4 DEF GetAccountType

LEMMA EnsureMoves ==
    ASSUME FaucetTypeOK, NEW r \in Slots, EnsureFundingAllowed(r)
    PROVE  /\ req[r].st = "checks"
           /\ \/ Put(req, req', r, "remove", req[r].acct, req[r].kind, Old)
              \/ Put(req, req', r, "err", Idle.acct, "User", 0)
              \/ /\ Put(req, req', r, "lock", req[r].acct, req[r].kind, req[r].age)
                 /\ \A c \in Currencies : ~ (balance[req[r].acct][c] > MaxBalance)
<1>1. "remove" \in Steps /\ "err" \in Steps /\ "lock" \in Steps /\ Old \in 0..Old
      /\ "User" \in Kinds /\ Idle.acct \in Accounts
  BY Constants DEF Steps, Kinds
<1>2. CASE req' = [req EXCEPT ![r].st = "remove", ![r].age = Old]
  BY <1>1, <1>2, Moves DEF FaucetTypeOK, EnsureFundingAllowed
<1>3. CASE Answer(r, "err")
  BY <1>1, <1>3, AnswerMoves DEF EnsureFundingAllowed
<1>4. CASE Goto(r, "lock") /\ ~ \E c \in Currencies : balance[req[r].acct][c] > MaxBalance
  BY <1>1, <1>4, GotoMoves DEF EnsureFundingAllowed
<1> QED BY <1>2, <1>3, <1>4 DEF EnsureFundingAllowed

LEMMA CheckMoves ==
    ASSUME FaucetTypeOK, NEW r \in Slots, CheckCooldown(r)
    PROVE  /\ req[r].st = "lock"
           /\ \/ Put(req, req', r, "err", Idle.acct, "User", 0)
              \/ /\ Put(req, req', r, "write", req[r].acct, req[r].kind, req[r].age)
                 /\ HasRequestExpired(store[req[r].acct], req[r].age, req[r].kind)
                 /\ ~ Locked
<1>1. "write" \in Steps /\ "err" \in Steps
  BY DEF Steps
<1> QED BY <1>1, AnswerMoves, GotoMoves DEF CheckCooldown

LEMMA UpdateMoves ==
    ASSUME FaucetTypeOK, NEW r \in Slots, UpdateKvStore(r)
    PROVE  req[r].st = "write" /\ Put(req, req', r, "transfer", req[r].acct, req[r].kind, 0)
<1>1. "transfer" \in Steps /\ 0 \in 0..Old /\ "User" \in Kinds /\ Idle.acct \in Accounts
  BY Constants DEF Steps, Kinds
<1> QED BY <1>1, Moves DEF FaucetTypeOK, UpdateKvStore

LEMMA ExecuteMoves ==
    ASSUME FaucetTypeOK, NEW r \in Slots, ExecuteTransfer(r)
    PROVE  /\ req[r].st \in UnderWay
           /\ \E s \in {"ok", "err"} : Put(req, req', r, s, Idle.acct, "User", 0)
           /\ \E S \in SUBSET Currencies : balance' = [balance EXCEPT
                 ![req[r].acct] = [c \in Currencies |->
                     @[c] + IF c \in S THEN Allowance(req[r].kind) ELSE 0]]
<1>1. "ok" \in Steps /\ "err" \in Steps
  BY DEF Steps
<1>2. \E S \in SUBSET Currencies, s \in {"ok", "err"} :
         /\ balance' = [balance EXCEPT
                 ![req[r].acct] = [c \in Currencies |->
                     @[c] + IF c \in S THEN Allowance(req[r].kind) ELSE 0]]
         /\ Answer(r, s)
  BY DEF ExecuteTransfer
<1> QED BY <1>1, <1>2, AnswerMoves DEF ExecuteTransfer, UnderWay

LEMMA TransferFailsMoves ==
    ASSUME FaucetTypeOK, NEW r \in Slots, TransferFails(r)
    PROVE  /\ req[r].st = "transfer"
           /\ \E s \in {"adrift", "remove"} :
                 Put(req, req', r, s, req[r].acct, req[r].kind, req[r].age)
<1>1. "adrift" \in Steps /\ "remove" \in Steps
  BY DEF Steps
<1> QED BY <1>1, GotoMoves DEF TransferFails

LEMMA ErrorMoves ==
    ASSUME FaucetTypeOK, NEW r \in Slots, RemoveRecord(r) \/ DropTransfer(r)
    PROVE  /\ req[r].st \in {"remove", "adrift"}
           /\ Put(req, req', r, "err", Idle.acct, "User", 0)
<1>1. "err" \in Steps
  BY DEF Steps
<1> QED BY <1>1, AnswerMoves DEF RemoveRecord, DropTransfer

\* The first of two transfers drifts in a slot that was free.
LEMMA ResendMoves ==
    ASSUME FaucetTypeOK, NEW r \in Slots, ResendTransfer(r)
    PROVE  /\ req[r].st = "transfer"
           /\ \E q \in Slots : /\ req[q].st = "idle"
                               /\ Put(req, req', q, "adrift", req[r].acct, req[r].kind, req[r].age)
<1>1. PICK q \in Slots : /\ req[q].st = "idle"
                         /\ req' = [req EXCEPT ![q] = [req[r] EXCEPT !.st = "adrift"]]
  BY DEF ResendTransfer
<1>2. req \in [Slots -> Handlers] /\ req[r] \in Handlers /\ "adrift" \in Steps
  BY DEF FaucetTypeOK, Steps
<1>3. [req[r] EXCEPT !.st = "adrift"] \in Handlers
  BY <1>2 DEF Handlers
<1>4. [req[r] EXCEPT !.st = "adrift"]
        = [st |-> "adrift", acct |-> req[r].acct, kind |-> req[r].kind, age |-> req[r].age]
  BY <1>2 DEF Handlers
<1>5. Put(req, req', q, "adrift", req[r].acct, req[r].kind, req[r].age)
  BY <1>1, <1>2, <1>3, <1>4 DEF Put
<1> QED BY <1>1, <1>5 DEF ResendTransfer

LEMMA FaultType ==
    ASSUME FaucetTypeOK, Fault \/ UNCHANGED faults
    PROVE  faults' \in 0..MaxFaults
  BY FaucetAssumption DEF FaucetTypeOK, Fault

LEMMA TransferType ==
    ASSUME FaucetTypeOK, NEW r \in Slots, ExecuteTransfer(r)
    PROVE  balance' \in [Accounts -> [Currencies -> Nat]]
<1> DEFINE a == req[r].acct
           n == Allowance(req[r].kind)
<1>1. PICK S \in SUBSET Currencies :
        balance' = [balance EXCEPT ![a] = [c \in Currencies |-> @[c] + IF c \in S THEN n ELSE 0]]
  BY ExecuteMoves
<1>2. a \in Accounts /\ n \in Nat /\ balance \in [Accounts -> [Currencies -> Nat]]
  BY Constants DEF FaucetTypeOK, Handlers
<1> HIDE DEF a, n
<1>3. [c \in Currencies |-> balance[a][c] + IF c \in S THEN n ELSE 0] \in [Currencies -> Nat]
  BY <1>2
<1>4. balance' = [balance EXCEPT ![a] = [c \in Currencies |-> balance[a][c] + IF c \in S THEN n ELSE 0]]
  BY <1>1, <1>2
<1> QED BY <1>2, <1>3, <1>4

LEMMA HandlerType ==
    ASSUME FaucetTypeOK, NEW r \in Slots, HandlerStep(r)
    PROVE  FaucetTypeOK'
<1>1. req[r] \in Handlers /\ req[r].acct \in Accounts /\ req[r].kind \in Kinds
  BY DEF FaucetTypeOK, Handlers
<1>2. CASE GetAccountType(r)
  <2>1. req' \in [Slots -> Handlers]
    BY <1>2, GetAccountTypeMoves DEF Put
  <2>2. faults' \in 0..MaxFaults
    BY <1>2, FaultType DEF GetAccountType
  <2> QED BY <1>2, <2>1, <2>2 DEF GetAccountType, FaucetTypeOK, chainVars, history
<1>3. CASE EnsureFundingAllowed(r)
  <2>1. req' \in [Slots -> Handlers]
    BY <1>3, EnsureMoves DEF Put
  <2>2. faults' \in 0..MaxFaults
    BY <1>3, FaultType DEF EnsureFundingAllowed
  <2> QED BY <1>3, <2>1, <2>2 DEF EnsureFundingAllowed, FaucetTypeOK, chainVars, history
<1>4. CASE CheckCooldown(r)
  <2>1. req' \in [Slots -> Handlers]
    BY <1>4, CheckMoves DEF Put
  <2> QED BY <1>4, <2>1 DEF CheckCooldown, FaucetTypeOK, chainVars, history
<1>5. CASE UpdateKvStore(r)
  <2>1. req' \in [Slots -> Handlers]
    BY <1>5, UpdateMoves DEF Put
  <2>2. [kind |-> req[r].kind, age |-> 0] \in Claims
    BY <1>1, Constants DEF Claims
  <2>3. store' \in [Accounts -> Claims]
    BY <1>5, <2>2 DEF UpdateKvStore, FaucetTypeOK
  <2> QED BY <1>5, <2>1, <2>3 DEF UpdateKvStore, FaucetTypeOK, chainVars, history
<1>6. CASE ExecuteTransfer(r)
  <2>1. req' \in [Slots -> Handlers]
    BY <1>6, ExecuteMoves DEF Put
  <2>2. balance' \in [Accounts -> [Currencies -> Nat]]
    BY <1>6, TransferType
  <2>3. faults' \in 0..MaxFaults
    BY <1>6, FaultType DEF ExecuteTransfer
  <2>4. tooSoon' \subseteq Accounts
    BY <1>1, <1>6 DEF ExecuteTransfer, FaucetTypeOK
  <2>5. req[r].age \in 0..Old
    BY <1>1 DEF Handlers
  <2>6. paid' \in [Accounts -> [Kinds -> 0..Old]]
    BY <1>1, <1>6, <2>5 DEF ExecuteTransfer, FaucetTypeOK
  <2> QED BY <1>6, <2>1, <2>2, <2>3, <2>4, <2>6 DEF ExecuteTransfer, FaucetTypeOK
<1>7. CASE TransferFails(r)
  <2>1. req' \in [Slots -> Handlers]
    BY <1>7, TransferFailsMoves DEF Put
  <2>2. faults' \in 0..MaxFaults
    BY <1>7, FaultType DEF TransferFails
  <2> QED BY <1>7, <2>1, <2>2 DEF TransferFails, FaucetTypeOK, chainVars, history
<1>8. CASE RemoveRecord(r)
  <2>1. req' \in [Slots -> Handlers]
    BY <1>8, ErrorMoves DEF Put
  <2>2. store' \in [Accounts -> Claims] /\ excused' \subseteq Accounts
    BY <1>1, <1>8, Constants DEF RemoveRecord, FaucetTypeOK
  <2> QED BY <1>8, <2>1, <2>2 DEF RemoveRecord, FaucetTypeOK, chainVars
<1>9. CASE DropTransfer(r)
  <2>1. req' \in [Slots -> Handlers]
    BY <1>9, ErrorMoves DEF Put
  <2> QED BY <1>9, <2>1 DEF DropTransfer, FaucetTypeOK, chainVars, history
<1> QED BY <1>2, <1>3, <1>4, <1>5, <1>6, <1>7, <1>8, <1>9 DEF HandlerStep

\* What a crash makes of a handler.
Crashed(h) ==
    CASE h.st \in {"idle", "ok", "err", "adrift"} -> h
      [] h.st = "transfer" -> [h EXCEPT !.st = "adrift"]
      [] OTHER -> [Idle EXCEPT !.st = "err"]

LEMMA CrashedFacts ==
    ASSUME NEW h \in Handlers
    PROVE  /\ Crashed(h) \in Handlers
           /\ h.st \in {"idle", "ok", "err", "adrift"} => Crashed(h) = h
           /\ h.st = "transfer" => /\ Crashed(h).st = "adrift" /\ Crashed(h).acct = h.acct
                                   /\ Crashed(h).kind = h.kind /\ Crashed(h).age = h.age
           /\ h.st \notin {"idle", "ok", "err", "adrift", "transfer"} => Crashed(h).st = "err"
<1>1. CASE h.st \in {"idle", "ok", "err", "adrift"}
  BY <1>1 DEF Crashed
<1>2. CASE h.st = "transfer"
  <2>1. Crashed(h) = [h EXCEPT !.st = "adrift"]
    BY <1>2 DEF Crashed
  <2>2. "adrift" \in Steps
    BY DEF Steps
  <2> QED BY <1>2, <2>1, <2>2 DEF Handlers
<1>3. CASE h.st \notin {"idle", "ok", "err", "adrift", "transfer"}
  <2>1. Crashed(h) = [Idle EXCEPT !.st = "err"]
    BY <1>3 DEF Crashed
  <2>2. "err" \in Steps
    BY DEF Steps
  <2> QED BY <1>3, <2>1, <2>2, Constants DEF Handlers
<1> QED BY <1>1, <1>2, <1>3

LEMMA CrashMoves ==
    ASSUME FaucetTypeOK, Crash
    PROVE  /\ req' \in [Slots -> Handlers]
           /\ \A q \in Slots : req'[q] = Crashed(req[q]) /\ req[q] \in Handlers
<1>1. req' = [q \in Slots |-> Crashed(req[q])]
  BY DEF Crash, Crashed
<1>2. \A q \in Slots : req[q] \in Handlers
  BY DEF FaucetTypeOK
<1> QED BY <1>1, <1>2, CrashedFacts

LEMMA CrashType ==
    ASSUME FaucetTypeOK, Crash
    PROVE  FaucetTypeOK'
<1>1. req' \in [Slots -> Handlers]
  BY CrashMoves
<1>2. faults' \in 0..MaxFaults
  BY FaultType DEF Crash
<1>3. PICK lost \in SUBSET Accounts :
          /\ store' = [a \in Accounts |-> IF a \in lost THEN disk[a] ELSE store[a]]
          /\ disk' = store' /\ excused' = excused \cup lost
  BY DEF Crash
<1>4. store' \in [Accounts -> Claims] /\ disk' \in [Accounts -> Claims] /\ excused' \subseteq Accounts
  BY <1>3 DEF FaucetTypeOK
<1> QED BY <1>1, <1>2, <1>4 DEF Crash, FaucetTypeOK, chainVars

\* A record and a handler one tick later.
AgedClaim(cl) == IF cl.age + 1 >= Old THEN NoClaim ELSE [cl EXCEPT !.age = @ + 1]

LEMMA AgedFacts ==
    ASSUME NEW cl \in Claims
    PROVE  /\ AgedClaim(cl) \in Claims
           /\ cl.age + 1 < Old => AgedClaim(cl).age = cl.age + 1 /\ AgedClaim(cl).kind = cl.kind
<1>1. cl.age \in Nat /\ cl.kind \in Kinds
  BY Constants DEF Claims, NoClaim, Kinds
<1>2. CASE cl.age + 1 >= Old
  BY <1>1, <1>2, Constants DEF AgedClaim
<1>3. CASE ~ (cl.age + 1 >= Old)
  <2>1. cl \in [kind : Kinds, age : 0..Old - 1]
    BY <1>3, Constants DEF Claims, NoClaim
  <2>2. AgedClaim(cl) = [cl EXCEPT !.age = cl.age + 1]
    BY <1>3 DEF AgedClaim
  <2>3. cl.age + 1 \in 0..Old - 1
    BY <1>1, <1>3, Constants
  <2> QED BY <2>1, <2>2, <2>3, Constants DEF Claims
<1> QED BY <1>2, <1>3

LEMMA TickMoves ==
    ASSUME FaucetTypeOK, Tick
    PROVE  /\ req' \in [Slots -> Handlers]
           /\ \A q \in Slots :
                /\ req'[q].st = req[q].st /\ req'[q].acct = req[q].acct /\ req'[q].kind = req[q].kind
                /\ req[q].st \in {"lock", "transfer", "adrift"} => req'[q].age = Older(req[q].age)
                /\ req[q].st \notin {"lock", "transfer", "adrift", "remove"} => req'[q] = req[q]
           /\ \A a \in Accounts : store'[a] = AgedClaim(store[a])
           /\ \A a \in Accounts, k \in Kinds : paid'[a][k] = Older(paid[a][k])
<1>1. ASSUME NEW n \in 0..Old
      PROVE  Older(n) \in 0..Old
  BY <1>1, Constants DEF Older
<1>2. ASSUME NEW q \in Slots
      PROVE  /\ req'[q] \in Handlers
             /\ req'[q].st = req[q].st /\ req'[q].acct = req[q].acct /\ req'[q].kind = req[q].kind
             /\ req[q].st \in {"lock", "transfer", "adrift"} => req'[q].age = Older(req[q].age)
             /\ req[q].st \notin {"lock", "transfer", "adrift", "remove"} => req'[q] = req[q]
  <2>1. req[q] \in Handlers /\ req[q].age \in 0..Old
    BY DEF FaucetTypeOK, Handlers
  <2>2. req'[q] = IF req[q].st \in {"lock", "transfer", "adrift", "remove"}
                  THEN [req[q] EXCEPT !.age = Older(req[q].age)] ELSE req[q]
    BY DEF Tick
  <2>3. Older(req[q].age) \in 0..Old
    BY <1>1, <2>1
  <2> QED BY <2>1, <2>2, <2>3 DEF Handlers
<1>3. req' = [q \in Slots |-> req'[q]]
  BY DEF Tick
<1>4. req' \in [Slots -> Handlers]
  BY <1>2, <1>3
<1>5. \A a \in Accounts : store'[a] = AgedClaim(store[a])
  BY DEF Tick, AgedClaim
<1>6. \A a \in Accounts, k \in Kinds : paid'[a][k] = Older(paid[a][k])
  BY DEF Tick
<1> QED BY <1>2, <1>4, <1>5, <1>6

LEMMA TickType ==
    ASSUME FaucetTypeOK, Tick
    PROVE  FaucetTypeOK'
<1>1. req' \in [Slots -> Handlers]
  BY TickMoves
<1>2. \A a \in Accounts : store[a] \in Claims
  BY DEF FaucetTypeOK
<1>3. store' = [a \in Accounts |-> AgedClaim(store[a])] /\ disk' = store'
  BY DEF Tick, AgedClaim
<1>4. store' \in [Accounts -> Claims]
  BY <1>2, <1>3, AgedFacts
<1>5. ASSUME NEW n \in 0..Old
      PROVE  Older(n) \in 0..Old
  BY <1>5, Constants DEF Older
<1>6. paid' \in [Accounts -> [Kinds -> 0..Old]]
  BY <1>5 DEF Tick, FaucetTypeOK
<1> QED BY <1>1, <1>3, <1>4, <1>6 DEF Tick, FaucetTypeOK, chainVars

LEMMA InitType == Init => TypeOK
<1> SUFFICES ASSUME Init PROVE TypeOK
  OBVIOUS
<1>1. PICK cf \in Configs : amount = cf.amount /\ unknown = cf.unknown /\ faults = cf.spent
  BY DEF Init
<1>2. cf.unknown \subseteq Kinds /\ cf.spent \in 0..MaxFaults
  BY RegistrationAssumption
<1>3. Old \in 0..Old
  BY Constants
<1>4. FaucetTypeOK
  <2>1. store \in [Accounts -> Claims] /\ disk \in [Accounts -> Claims]
    BY Constants DEF Init, FaucetInit
  <2>2. req \in [Slots -> Handlers]
    BY Constants DEF Init, FaucetInit
  <2>3. /\ registered \in [Accounts -> SUBSET Currencies]
        /\ balance \in [Accounts -> [Currencies -> Nat]]
        /\ paid \in [Accounts -> [Kinds -> 0..Old]]
        /\ tooSoon \subseteq Accounts /\ excused \subseteq Accounts
    BY <1>3 DEF Init, FaucetInit
  <2> QED BY <1>1, <1>2, <2>1, <2>2, <2>3 DEF FaucetTypeOK
<1> QED BY <1>1, <1>4 DEF Init, TypeOK, Tasks

\* A request of the vault, or its answer.
LEMMA AskedType ==
    ASSUME TypeOK, NEW w \in Waiters, GetFunding(w)
    PROVE  /\ req' \in [Slots -> Handlers]
           /\ waits' \in [Waiters -> Slots \cup {NoSlot}]
           /\ \E r \in Slots : Request(r, Operator)
<1>1. PICK r \in Slots : Request(r, Operator) /\ waits' = [waits EXCEPT ![w] = r]
  BY DEF GetFunding
<1>2. req' \in [Slots -> Handlers]
  BY <1>1, RequestMoves, RegistrationAssumption DEF TypeOK, Put
<1> QED BY <1>1, <1>2 DEF TypeOK

LEMMA AnsweredType ==
    ASSUME TypeOK, NEW w \in Waiters, NEW ok \in BOOLEAN, Answered(w, ok)
    PROVE  /\ req' \in [Slots -> Handlers]
           /\ waits' \in [Waiters -> Slots \cup {NoSlot}]
           /\ \/ req' = req
              \/ \E r \in Slots : /\ req[r].st \in {"ok", "err"}
                                  /\ Put(req, req', r, "idle", Idle.acct, "User", 0)
<1>1. waits[w] \in Slots /\ waits' = [waits EXCEPT ![w] = NoSlot]
  BY DEF Answered, TypeOK
<1>2. FaucetTypeOK /\ req \in [Slots -> Handlers]
  BY DEF TypeOK, FaucetTypeOK
<1>3. CASE req' = req
  BY <1>1, <1>2, <1>3 DEF TypeOK
<1>4. CASE req[waits[w]].st # "adrift"
  <2>1. req' = [req EXCEPT ![waits[w]] = Idle] /\ req[waits[w]].st \in {"ok", "err"}
    BY <1>4 DEF Answered
  <2>2. Put(req, req', waits[w], "idle", Idle.acct, "User", 0)
    BY <1>1, <1>2, <2>1, TakeMoves
  <2> QED BY <1>1, <2>1, <2>2 DEF Put, TypeOK
<1> QED BY <1>3, <1>4 DEF Answered

LEMMA MaybeRegisterVaultType == \A c : MaybeRegisterVault(c) \in Tasks
  BY DEF MaybeRegisterVault, Tasks

LEMMA RegisterVaultType ==
    ASSUME TypeOK, NEW c \in Currencies, RegisterVault(c)
    PROVE  TypeOK'
<1> DEFINE coll == RegistrationCollateral(c)
<1>1. coll \in Int
  <2>1. amount[c] = NoAmount => coll = UserAllowance - TxFees
    BY DEF RegistrationCollateral
  <2>2. balance[Operator][c] \in Nat /\ collateral[c] \in Nat
    BY RegistrationAssumption DEF TypeOK, FaucetTypeOK
  <2>3. amount[c] \in Nat \cup {NoAmount}
    BY RegistrationAssumption DEF TypeOK
  <2> QED BY <2>1, <2>2, <2>3, FaucetAssumption, RegistrationAssumption
         DEF RegistrationCollateral, Free
<1> HIDE DEF coll
<1>2. registered' \in [Accounts -> SUBSET Currencies]
  <2>1. \/ registered' = [registered EXCEPT ![Operator] = @ \cup {c}]
        \/ registered' = registered
    BY DEF RegisterVault
  <2>2. registered \in [Accounts -> SUBSET Currencies]
    BY DEF TypeOK, FaucetTypeOK
  <2> QED BY <2>1, <2>2
<1>3. collateral' \in [Currencies -> Nat]
  <2>1. CASE coll > 0 /\ collateral' = [collateral EXCEPT ![c] = @ + coll]
    BY <1>1, <2>1 DEF TypeOK
  <2>2. CASE UNCHANGED collateral
    BY <2>2 DEF TypeOK
  <2> QED BY <2>1, <2>2 DEF RegisterVault, coll
<1>4. faults' \in 0..MaxFaults
  BY FaultType DEF RegisterVault, TypeOK
<1>5. task' \in [Currencies -> Tasks]
  BY DEF RegisterVault, TypeOK, Tasks
<1>6. FaucetTypeOK'
  BY <1>2, <1>4 DEF RegisterVault, TypeOK, FaucetTypeOK, history
<1> QED BY <1>3, <1>5, <1>6 DEF RegisterVault, TypeOK

LEMMA DepositType ==
    ASSUME TypeOK, NEW c \in Currencies,
           DepositCollateral(c) \/ ResendDeposit(c) \/ LateDeposit(c)
    PROVE  TypeOK'
<1>1. (VaultAllowance \div 3) * 2 \in Nat
  BY FaucetAssumption
<1>2. collateral' \in [Currencies -> Nat] /\ deposits' \in [Currencies -> Nat]
  <2>1. DepositExecuted(c) \/ UNCHANGED <<collateral, deposits>>
    BY DEF DepositCollateral, ResendDeposit, LateDeposit
  <2> QED BY <1>1, <2>1 DEF DepositExecuted, TypeOK
<1>3. late' \in [Currencies -> Nat] /\ resends' \in [Currencies -> Nat]
  <2>1. CASE DepositCollateral(c) \/ ResendDeposit(c)
    BY <2>1 DEF DepositCollateral, ResendDeposit, TypeOK
  <2>2. CASE LateDeposit(c)
    BY <2>2 DEF LateDeposit, TypeOK
  <2> QED BY <2>1, <2>2
<1>4. faults' \in 0..MaxFaults
  BY FaultType DEF DepositCollateral, ResendDeposit, LateDeposit, TypeOK, faucetVars
<1>5. task' \in [Currencies -> Tasks]
  BY DEF DepositCollateral, ResendDeposit, LateDeposit, TypeOK, Tasks
<1>6. UNCHANGED <<store, disk, req, chainVars, unknown, history, vault, key, waits, amount>>
  BY DEF DepositCollateral, ResendDeposit, LateDeposit, faucetVars
<1>7. FaucetTypeOK'
  BY <1>4, <1>6 DEF TypeOK, FaucetTypeOK, history, chainVars
<1> QED BY <1>2, <1>3, <1>5, <1>6, <1>7 DEF TypeOK

LEMMA NextType ==
    ASSUME TypeOK, [Next]_vars
    PROVE  TypeOK'
<1> USE DEF startVars, faucetRest, faucetVars, chainVars, history
<1>0. AtStart \in Waiters /\ \A c \in Currencies : c \in Waiters
  BY DEF Waiters
<1>1. CASE FaucetStep /\ UNCHANGED startVars
  <2>1. FaucetTypeOK'
    <3>1. ASSUME NEW r \in Slots, HandlerStep(r)
          PROVE  FaucetTypeOK'
      BY <3>1, HandlerType DEF TypeOK
    <3>2. ASSUME NEW r \in Slots, NEW a \in Accounts, StrangerRequests(r, a)
          PROVE  FaucetTypeOK'
      <4>1. req' \in [Slots -> Handlers]
        BY <3>2, RequestMoves DEF StrangerRequests, TypeOK, Put
      <4>2. faults' \in 0..MaxFaults
        BY <3>2, FaultType DEF StrangerRequests, TypeOK
      <4> QED BY <3>2, <4>1, <4>2 DEF StrangerRequests, TypeOK, FaucetTypeOK
    <3>3. ASSUME NEW r \in Slots, ResendTransfer(r)
          PROVE  FaucetTypeOK'
      <4>1. req' \in [Slots -> Handlers]
        BY <3>3, ResendMoves DEF TypeOK, Put
      <4>2. faults' \in 0..MaxFaults
        BY <3>3, FaultType DEF ResendTransfer, TypeOK
      <4>3. req[r].acct \in Accounts
        BY DEF TypeOK, FaucetTypeOK, Handlers
      <4> QED BY <3>3, <4>1, <4>2, <4>3 DEF ResendTransfer, TypeOK, FaucetTypeOK
    <3> QED BY <1>1, <3>1, <3>2, <3>3, CrashType, TickType DEF FaucetStep, TypeOK
  <2>2. unknown' = unknown
    BY <1>1 DEF FaucetStep, HandlerStep, GetAccountType, EnsureFundingAllowed, CheckCooldown,
       UpdateKvStore, ExecuteTransfer, TransferFails, RemoveRecord, DropTransfer, Crash, Tick,
       StrangerRequests, ResendTransfer
  <2> QED BY <1>1, <2>1, <2>2 DEF TypeOK
<1>2. ASSUME NEW r \in Slots, Unclaimed(r)
      PROVE  TypeOK'
  <2>1. req' \in [Slots -> Handlers]
    BY <1>2, TakeMoves DEF Unclaimed, TypeOK, Put
  <2> QED BY <1>2, <2>1 DEF Unclaimed, TypeOK, FaucetTypeOK
<1>3. CASE FundAtStart
  BY <1>0, <1>3, AskedType DEF FundAtStart, TypeOK, FaucetTypeOK
<1>4. CASE MaybeRegisterPublicKey
  <2>1. req' \in [Slots -> Handlers] /\ waits' \in [Waiters -> Slots \cup {NoSlot}]
    BY <1>0, <1>4, AnsweredType DEF MaybeRegisterPublicKey
  <2>2. task' \in [Currencies -> Tasks]
    BY <1>4, MaybeRegisterVaultType DEF MaybeRegisterPublicKey
  <2> QED BY <1>4, <2>1, <2>2 DEF MaybeRegisterPublicKey, TypeOK, FaucetTypeOK
<1>5. ASSUME NEW c \in Currencies, AskFaucet(c)
      PROVE  TypeOK'
  <2>1. req' \in [Slots -> Handlers] /\ waits' \in [Waiters -> Slots \cup {NoSlot}]
    BY <1>0, <1>5, AskedType DEF AskFaucet
  <2> QED BY <1>5, <2>1 DEF AskFaucet, TypeOK, FaucetTypeOK
<1>6. ASSUME NEW c \in Currencies, Funded(c)
      PROVE  TypeOK'
  <2>1. req' \in [Slots -> Handlers] /\ waits' \in [Waiters -> Slots \cup {NoSlot}]
    BY <1>0, <1>6, AnsweredType DEF Funded
  <2>2. task' \in [Currencies -> Tasks]
    BY <1>6 DEF Funded, TypeOK, Tasks
  <2> QED BY <1>6, <2>1, <2>2 DEF Funded, TypeOK, FaucetTypeOK
<1>7. ASSUME NEW c \in Currencies, RegisterVault(c)
      PROVE  TypeOK'
  BY <1>7, RegisterVaultType
<1>8. ASSUME NEW c \in Currencies, DepositCollateral(c) \/ ResendDeposit(c) \/ LateDeposit(c)
      PROVE  TypeOK'
  BY <1>8, DepositType
<1>9. CASE Registered
  BY <1>9 DEF Registered, TypeOK, FaucetTypeOK, Tasks
<1>10. CASE KillVault
  <2>1. faults' \in 0..MaxFaults
    BY <1>10, FaultType DEF KillVault, TypeOK
  <2> QED BY <1>10, <2>1 DEF KillVault, TypeOK, FaucetTypeOK, Tasks
<1>11. CASE UNCHANGED vars
  BY <1>11 DEF vars, TypeOK, FaucetTypeOK
<1> QED
  BY <1>1, <1>2, <1>3, <1>4, <1>5, <1>6, <1>7, <1>8, <1>9, <1>10, <1>11 DEF Next, VaultStep

\* Every variable keeps its type.
THEOREM RegistrationTypeCorrect == Spec => []TypeOK
  BY InitType, NextType, PTL DEF Spec

----------------------------------------------------------------------------
(***************************************************************************)
(* The allowances are put up once.  What the registration of a currency    *)
(* does next depends on the chain and not on the vault's memory: only a    *)
(* currency that is not registered is, and only one that was registered in *)
(* this very run, by the faucet, goes on to a deposit.                     *)
(***************************************************************************)

FromFaucet(c) == amount[c] = NoAmount

\* A deposit that is under way counts as one that was made.
Base(c) == IF FromFaucet(c) THEN UserAllowance ELSE amount[c]
PutUp(c) ==
    /\ c \notin registered[Operator] => collateral[c] = 0 /\ deposits[c] = 0 /\ late[c] = 0
    /\ task[c] \in {"refund", "deposit"} =>
            c \in registered[Operator] /\ FromFaucet(c) /\ deposits[c] + late[c] <= resends[c]
    /\ deposits[c] + late[c] <= 1 + resends[c]
    /\ ~ FromFaucet(c) => deposits[c] = 0 /\ late[c] = 0
    /\ collateral[c] <= Base(c) + deposits[c] * VaultAllowance

PutUpInv == TypeOK /\ \A c \in Currencies : PutUp(c)

LEMMA AmountType ==
    ASSUME TypeOK, NEW c \in Currencies, ~ FromFaucet(c)
    PROVE  amount[c] \in Nat
  BY RegistrationAssumption DEF TypeOK, FromFaucet

\* Nothing is put up, and no task comes to its deposit.
LEMMA SamePutUp ==
    ASSUME PutUpInv, NEW c \in Currencies,
           UNCHANGED <<registered, collateral, late, deposits, resends, amount>>,
           task'[c] = task[c] \/ task'[c] \notin {"refund", "deposit"}
                \/ (task[c] = "refund" /\ task'[c] = "deposit")
    PROVE  PutUp(c)'
  BY DEF PutUpInv, PutUp, Base, FromFaucet

LEMMA RegisterPutUp ==
    ASSUME PutUpInv, NEW c \in Currencies, RegisterVault(c), NEW d \in Currencies
    PROVE  PutUp(d)'
<1> DEFINE coll == RegistrationCollateral(c)
<1>1. amount' = amount /\ deposits' = deposits /\ late' = late /\ resends' = resends /\ TypeOK
  BY DEF RegisterVault, PutUpInv
<1>2. CASE d # c
  <2>1. task'[d] = task[d] /\ collateral'[d] = collateral[d]
    BY <1>1, <1>2 DEF RegisterVault, TypeOK
  <2>2. (d \in registered'[Operator]) <=> (d \in registered[Operator])
    BY <1>1, <1>2, RegistrationAssumption DEF RegisterVault, TypeOK, FaucetTypeOK
  <2> QED BY <1>1, <2>1, <2>2 DEF PutUpInv, PutUp, Base, FromFaucet
<1>3. CASE d = c /\ UNCHANGED <<registered, collateral>> /\ task' = [task EXCEPT ![c] = "failed"]
  <2>1. task'[c] = "failed"
    BY <1>1, <1>3 DEF RegisterVault, TypeOK
  <2> QED BY <1>1, <1>3, <2>1, SamePutUp
<1>4. CASE /\ d = c /\ coll > 0 /\ coll <= Free(c) /\ c \notin registered[Operator]
           /\ registered' = [registered EXCEPT ![Operator] = @ \cup {c}]
           /\ collateral' = [collateral EXCEPT ![c] = @ + coll]
  <2>1. collateral[c] = 0 /\ deposits[c] = 0 /\ late[c] = 0 /\ resends[c] \in Nat
    BY <1>1, <1>4 DEF PutUpInv, PutUp, TypeOK
  <2>2. c \in registered'[Operator]
    BY <1>1, <1>4, RegistrationAssumption DEF TypeOK, FaucetTypeOK
  <2>3. balance[Operator][c] \in Nat /\ collateral[c] \in Nat
    BY <1>1, RegistrationAssumption DEF TypeOK, FaucetTypeOK
  <2>4. coll \in Int /\ coll <= Base(c)
    <3>1. CASE FromFaucet(c)
      BY <3>1, FaucetAssumption, RegistrationAssumption DEF RegistrationCollateral, FromFaucet, Base
    <3>2. CASE ~ FromFaucet(c)
      BY <1>1, <2>3, <3>2, AmountType DEF RegistrationCollateral, FromFaucet, Base, Free
    <3> QED BY <3>1, <3>2
  <2> HIDE DEF coll
  <2>5. collateral'[c] = coll
    BY <1>1, <1>4, <2>1, <2>4 DEF TypeOK
  <2>6. task'[c] \in {"refund", "done", "failed"} /\ (task'[c] = "refund" => FromFaucet(c))
    BY <1>1 DEF RegisterVault, TypeOK, FromFaucet
  <2>7. FromFaucet(c)' = FromFaucet(c) /\ Base(c)' = Base(c)
    BY <1>1 DEF FromFaucet, Base
  <2>8. Base(c) \in Nat
    BY <1>1, AmountType, FaucetAssumption DEF Base
  <2>9. collateral'[c] <= Base(c) + deposits'[c] * VaultAllowance
    BY <1>1, <2>1, <2>4, <2>5, <2>8, FaucetAssumption
  <2> QED BY <1>1, <1>4, <2>1, <2>2, <2>6, <2>7, <2>9 DEF PutUp
<1> QED BY <1>2, <1>3, <1>4 DEF RegisterVault

LEMMA DepositPutUp ==
    ASSUME PutUpInv, NEW c \in Currencies, NEW d \in Currencies,
           DepositCollateral(c) \/ ResendDeposit(c) \/ LateDeposit(c)
    PROVE  PutUp(d)'
<1> DEFINE coll == (VaultAllowance \div 3) * 2
<1>1. amount' = amount /\ registered' = registered /\ TypeOK
  BY DEF DepositCollateral, ResendDeposit, LateDeposit, PutUpInv, chainVars, faucetVars
<1>2. CASE d # c
  <2>1. task'[d] = task[d] /\ late'[d] = late[d] /\ resends'[d] = resends[d]
    BY <1>1, <1>2 DEF DepositCollateral, ResendDeposit, LateDeposit, TypeOK
  <2>2. collateral'[d] = collateral[d] /\ deposits'[d] = deposits[d]
    BY <1>1, <1>2 DEF DepositCollateral, ResendDeposit, LateDeposit, DepositExecuted, TypeOK
  <2> QED BY <1>1, <2>1, <2>2 DEF PutUpInv, PutUp, Base, FromFaucet
<1>3. /\ collateral[c] \in Nat /\ deposits[c] \in Nat /\ late[c] \in Nat /\ resends[c] \in Nat
      /\ PutUp(c) /\ Base(c)' = Base(c) /\ FromFaucet(c)' = FromFaucet(c)
  BY <1>1 DEF PutUpInv, TypeOK, Base, FromFaucet
<1>4. Base(c) \in Nat /\ coll \in Nat /\ coll <= VaultAllowance /\ VaultAllowance \in Nat
  BY <1>1, AmountType, FaucetAssumption DEF Base
<1>5. DepositExecuted(c) => collateral'[c] = collateral[c] + coll /\ deposits'[c] = deposits[c] + 1
  BY <1>1 DEF DepositExecuted, TypeOK
<1> HIDE DEF coll
<1>6. collateral[c] + coll <= Base(c) + (deposits[c] + 1) * VaultAllowance
  <2>1. (deposits[c] + 1) * VaultAllowance = deposits[c] * VaultAllowance + VaultAllowance
    BY <1>3, <1>4
  <2>2. deposits[c] * VaultAllowance \in Nat
    BY <1>3, <1>4
  <2>3. collateral[c] <= Base(c) + deposits[c] * VaultAllowance
    BY <1>3 DEF PutUp
  <2> QED BY <1>3, <1>4, <2>1, <2>2, <2>3
<1>7. DepositExecuted(c) => collateral'[c] <= Base(c) + deposits'[c] * VaultAllowance
  BY <1>5, <1>6
<1>8. CASE d = c /\ DepositCollateral(c)
  <2>1. /\ c \in registered[Operator] /\ FromFaucet(c) /\ deposits[c] + late[c] <= resends[c]
        /\ task'[c] \in {"done", "failed"} /\ resends' = resends
    BY <1>1, <1>3, <1>8 DEF PutUp, DepositCollateral, TypeOK
  <2>2. CASE DepositExecuted(c) /\ late' = late
    <3>1. /\ deposits'[c] = deposits[c] + 1 /\ late'[c] = late[c] /\ resends'[c] = resends[c]
          /\ collateral'[c] <= Base(c) + deposits'[c] * VaultAllowance
      BY <1>5, <1>7, <2>1, <2>2
    <3>2. registered' = registered
      BY <1>1
    <3> QED BY <1>1, <1>3, <1>8, <2>1, <3>1, <3>2 DEF PutUp
  <2>3. CASE UNCHANGED <<collateral, deposits, late>>
    BY <1>1, <1>3, <1>8, <2>1, <2>3 DEF PutUp
  <2>4. CASE UNCHANGED <<collateral, deposits>> /\ late'[c] = late[c] + 1
    BY <1>1, <1>3, <1>8, <2>1, <2>4 DEF PutUp
  <2>5. late' = [late EXCEPT ![c] = @ + 1] => late'[c] = late[c] + 1
    BY <1>1 DEF TypeOK
  <2> QED BY <1>8, <2>2, <2>3, <2>4, <2>5 DEF DepositCollateral
<1>9. CASE d = c /\ ResendDeposit(c)
  <2>1. /\ late'[c] = late[c] + 1 /\ resends'[c] = resends[c] + 1
        /\ UNCHANGED <<collateral, deposits, task>> /\ task[c] = "deposit"
    BY <1>1, <1>9 DEF ResendDeposit, TypeOK
  <2>2. c \in registered[Operator] /\ FromFaucet(c) /\ deposits[c] + late[c] <= resends[c]
    BY <1>3, <2>1 DEF PutUp
  <2>3. deposits'[c] + late'[c] <= resends'[c]
    BY <1>3, <2>1, <2>2
  <2>4. collateral'[c] <= Base(c) + deposits'[c] * VaultAllowance
    BY <1>3, <2>1 DEF PutUp
  <2>5. c \in registered'[Operator] /\ resends'[c] \in Nat
    BY <1>1, <1>3, <2>1, <2>2
  <2> QED BY <1>3, <1>9, <2>1, <2>2, <2>3, <2>4, <2>5 DEF PutUp
<1>10. CASE d = c /\ LateDeposit(c)
  <2>1. late[c] > 0 /\ late'[c] = late[c] - 1 /\ resends' = resends /\ task' = task
    BY <1>1, <1>10 DEF LateDeposit, TypeOK
  <2>2. c \in registered[Operator] /\ FromFaucet(c)
    BY <1>3, <2>1 DEF PutUp
  <2>3. CASE DepositExecuted(c)
    BY <1>1, <1>3, <1>5, <1>7, <1>10, <2>1, <2>2, <2>3 DEF PutUp
  <2>4. CASE UNCHANGED <<collateral, deposits>>
    BY <1>1, <1>3, <1>10, <2>1, <2>2, <2>4 DEF PutUp
  <2> QED BY <1>10, <2>3, <2>4 DEF LateDeposit
<1> QED BY <1>2, <1>8, <1>9, <1>10

LEMMA PutUpNext ==
    ASSUME PutUpInv, [Next]_vars
    PROVE  PutUpInv'
<1> USE DEF startVars, faucetRest, faucetVars, chainVars
<1>1. TypeOK /\ TypeOK'
  BY NextType DEF PutUpInv
<1> SUFFICES ASSUME NEW c \in Currencies
             PROVE  PutUp(c)'
  BY <1>1 DEF PutUpInv
<1>2. CASE FaucetStep /\ UNCHANGED startVars
  <2>1. registered' = registered
    BY <1>2 DEF FaucetStep, HandlerStep, GetAccountType, EnsureFundingAllowed, CheckCooldown,
       UpdateKvStore, ExecuteTransfer, TransferFails, RemoveRecord, DropTransfer, Crash, Tick,
       StrangerRequests, ResendTransfer
  <2> QED BY <1>2, <2>1, SamePutUp
<1>3. CASE (\E r \in Slots : Unclaimed(r)) \/ FundAtStart \/ UNCHANGED vars
           \/ \E d \in Currencies : AskFaucet(d)
  BY <1>3, SamePutUp DEF Unclaimed, FundAtStart, AskFaucet, vars
<1>4. CASE MaybeRegisterPublicKey \/ Registered \/ KillVault
  <2>1. task'[c] \notin {"refund", "deposit"}
    BY <1>4 DEF MaybeRegisterPublicKey, MaybeRegisterVault, Registered, KillVault
  <2> QED BY <1>4, <2>1, SamePutUp DEF MaybeRegisterPublicKey, Registered, KillVault
<1>5. ASSUME NEW d \in Currencies, Funded(d)
      PROVE  PutUp(c)'
  <2>1. task'[c] = task[c] \/ task'[c] \notin {"refund", "deposit"}
            \/ (task[c] = "refund" /\ task'[c] = "deposit")
    BY <1>1, <1>5 DEF Funded, TypeOK
  <2> QED BY <1>5, <2>1, SamePutUp DEF Funded
<1> QED
  BY <1>2, <1>3, <1>4, <1>5, RegisterPutUp, DepositPutUp DEF Next, VaultStep

LEMMA PutUpInit == Init => PutUpInv
<1> SUFFICES ASSUME Init, NEW c \in Currencies
             PROVE  PutUp(c)
  BY InitType DEF PutUpInv
<1>1. TypeOK
  BY InitType
<1>2. /\ registered[Operator] = {} /\ task[c] = "none" /\ collateral[c] = 0
      /\ deposits[c] = 0 /\ late[c] = 0 /\ resends[c] = 0
  BY RegistrationAssumption DEF Init, FaucetInit
<1>3. Base(c) \in Nat /\ 0 * VaultAllowance = 0
  BY <1>1, AmountType, FaucetAssumption DEF Base
<1> QED BY <1>2, <1>3 DEF PutUp

\* However often the vault is killed and its registrations run again, the
\* faucet's allowances are put up once in each currency, but for deposits that
\* were sent again.
THEOREM AllowancesPutUpOnce == Spec => []PutUpOnce
<1>1. PutUpInv => PutUpOnce
  <2> SUFFICES ASSUME PutUpInv, NEW c \in Currencies
               PROVE  /\ deposits[c] <= 1 + resends[c]
                      /\ collateral[c] <= Base(c) + deposits[c] * VaultAllowance
                      /\ ~ FromFaucet(c) => deposits[c] = 0
    BY DEF PutUpOnce, FromFaucet, Base
  <2>1. PutUp(c) /\ deposits[c] \in Nat /\ late[c] \in Nat /\ resends[c] \in Nat
    BY DEF PutUpInv, TypeOK
  <2> QED BY <2>1 DEF PutUp
<1> QED BY <1>1, PutUpInit, PutUpNext, PTL DEF Spec

----------------------------------------------------------------------------
(***************************************************************************)
(* The cooldown, and the balance.  An account none of whose claims was     *)
(* excused has at most one claim of each kind under way, more than a       *)
(* cooldown apart from the last one of its kind that was paid; and its     *)
(* record is at least as young as any claim of the last cooldown.  The     *)
(* balance that a request saw below the maximum has grown since by what    *)
(* was paid for claims so young that they were under way at the time of    *)
(* the check, or came later; of each kind that is at most one.             *)
(***************************************************************************)

Flies(r, a, k) == req[r].st \in UnderWay /\ req[r].acct = a /\ req[r].kind = k
Flying(a, k) == \E r \in Slots : Flies(r, a, k)
Decides(r, a) == req[r].st \in Deciding /\ req[r].acct = a

\* What was paid for the last claim of this kind, if that is at most w ticks
\* old and no other is under way.
Got(a, k, w) == IF paid[a][k] <= w /\ ~ Flying(a, k) THEN Allowance(k) ELSE 0

\* The balance is at most the maximum and what was got in w ticks.
Within(a, w) ==
    \A c \in Currencies :
        balance[a][c] <= MaxBalance + Got(a, "User", w) + Got(a, "Vault", w)

\* How long requests wait and claims are under way.
Timely(r) ==
    /\ req[r].st \in {"kind", "checks"} => req[r].age = 0
    /\ req[r].st \in Deciding => req[r].age \in {0, 1}
    /\ req[r].st \in UnderWay => req[r].age <= Cooldown

OneWriter == \A r, q \in Slots : req[r].st = "write" /\ req[q].st = "write" => r = q

\* Claims of one kind are more than a cooldown apart.
ApartFrom(a) ==
    \A k \in Kinds :
        /\ \A r \in Slots : Flies(r, a, k) => paid[a][k] > Cooldown + req[r].age
        /\ \A r, q \in Slots : Flies(r, a, k) /\ Flies(q, a, k) => r = q

\* The record is at least as young as the claims of the last cooldown; and if
\* one of them was a vault's, it is a vault's.
Covers(a, k, x) == store[a].age <= x /\ (k = "Vault" => store[a].kind # "User")
Recorded(a) ==
    \A k \in Kinds :
        /\ paid[a][k] <= Cooldown => Covers(a, k, paid[a][k])
        /\ \A r \in Slots : Flies(r, a, k) => Covers(a, k, req[r].age)

\* What a request that was checked relies on, at LOCK and while it holds LOCK.
\* If a user's claim has hidden a claim of the vault from it, the maker of that
\* claim saw the balance after the vault's.
Unpaid(a, k, w) == paid[a][k] > w /\ ~ Flying(a, k)
Relies(r, a) ==
    /\ Decides(r, a) => \A k \in Kinds : paid[a][k] <= Cooldown + req[r].age
                                        => store[a].age <= paid[a][k]
    /\ Decides(r, a) /\ req[r].st = "lock" =>
            /\ Within(a, Cooldown + req[r].age)
            /\ store[a].kind = "User" /\ paid[a]["Vault"] = Cooldown + 1 => Within(a, Cooldown)
    /\ Decides(r, a) /\ req[r].st = "write" =>
            /\ HasRequestExpired(store[a], req[r].age, req[r].kind)
            /\ \E w \in {Cooldown, Cooldown + req[r].age} :
                    Within(a, w) /\ Unpaid(a, req[r].kind, w)

\* The balance, and what is under way.
Left(a, k) == IF Flying(a, k) THEN 0 ELSE Allowance(k)
Bounded(a) ==
    \A c \in Currencies : balance[a][c] <= MaxBalance + Left(a, "User") + Left(a, "Vault")

Sound(a) ==
    /\ a \notin tooSoon
    /\ ApartFrom(a) /\ Recorded(a) /\ Bounded(a)
    /\ \A r \in Slots : Relies(r, a)

CoolInv ==
    /\ TypeOK
    /\ \A r \in Slots : Timely(r)
    /\ OneWriter
    /\ \A a \in Accounts \ excused : Sound(a)

LEMMA Numbers ==
    ASSUME TypeOK, NEW a \in Accounts
    PROVE  /\ \A k \in Kinds : paid[a][k] \in Nat /\ paid[a][k] <= Old
           /\ \A c \in Currencies : balance[a][c] \in Nat
           /\ store[a].age \in Nat /\ store[a].kind \in Kinds /\ store[a] \in Claims
           /\ \A r \in Slots : /\ req[r].age \in Nat /\ req[r].age <= Old
                               /\ req[r].kind \in Kinds /\ req[r].acct \in Accounts
           /\ "User" \in Kinds /\ "Vault" \in Kinds
           /\ \A k \in Kinds : k = "User" \/ k = "Vault"
           /\ \A k \in Kinds : \A w : Got(a, k, w) \in Nat /\ Got(a, k, w) <= Left(a, k) /\ Left(a, k) \in Nat
<1>1. store[a] \in Claims
  BY DEF TypeOK, FaucetTypeOK
<1>2. store[a].age \in Nat /\ store[a].kind \in Kinds
  BY <1>1, Constants DEF Claims, NoClaim, Kinds
<1>3. \A r \in Slots : req[r] \in Handlers
  BY DEF TypeOK, FaucetTypeOK
<1>4. \A k \in Kinds : \A w : Got(a, k, w) \in Nat /\ Got(a, k, w) <= Left(a, k) /\ Left(a, k) \in Nat
  BY Constants DEF Got, Left
<1> QED BY <1>1, <1>2, <1>3, <1>4, Constants DEF TypeOK, FaucetTypeOK, Handlers, Kinds

\* Within holds for longer times too.
LEMMA WithinLonger ==
    ASSUME TypeOK, NEW a \in Accounts, NEW v \in Nat, NEW w \in Nat, v <= w, Within(a, v)
    PROVE  Within(a, w)
<1>1. \A k \in Kinds : Got(a, k, v) \in Nat /\ Got(a, k, w) \in Nat /\ Got(a, k, v) <= Got(a, k, w)
  BY Numbers, Constants DEF Got
<1>2. \A c \in Currencies : balance[a][c] \in Nat
  BY Numbers
<1>3. "User" \in Kinds /\ "Vault" \in Kinds /\ MaxBalance \in Nat
  BY Constants DEF Kinds
<1> QED BY <1>1, <1>2, <1>3 DEF Within

\* What is no longer under way does no harm.
LEMMA WithinKept ==
    ASSUME TypeOK, TypeOK', NEW a \in Accounts, NEW w \in Nat,
           balance'[a] = balance[a], paid'[a] = paid[a],
           \A k \in Kinds : Flying(a, k)' => Flying(a, k)
    PROVE  /\ Within(a, w) => Within(a, w)'
           /\ Bounded(a) => Bounded(a)'
           /\ \A k \in Kinds : Unpaid(a, k, w) => Unpaid(a, k, w)'
<1>1. \A k \in Kinds : /\ Got(a, k, w) \in Nat /\ Got(a, k, w)' \in Nat /\ Got(a, k, w) <= Got(a, k, w)'
                       /\ Left(a, k) \in Nat /\ Left(a, k)' \in Nat /\ Left(a, k) <= Left(a, k)'
  BY Constants DEF Got, Left
<1>2. \A c \in Currencies : balance[a][c] \in Nat
  BY Numbers
<1>3. "User" \in Kinds /\ "Vault" \in Kinds /\ MaxBalance \in Nat
  BY Constants DEF Kinds
<1>4. Within(a, w) => Within(a, w)'
  BY <1>1, <1>2, <1>3 DEF Within
<1>5. Bounded(a) => Bounded(a)'
  BY <1>1, <1>2, <1>3 DEF Bounded
<1> QED BY <1>4, <1>5 DEF Unpaid

\* For account a, a slot stays as it is, is left, or is lost to its client.
Keeps(q, a) ==
    \/ req'[q] = req[q]
    \/ req'[q].st \notin Deciding \cup UnderWay \/ req'[q].acct # a
    \/ /\ req[q].st = "transfer" /\ req'[q].st = "adrift"
       /\ req'[q].acct = req[q].acct /\ req'[q].kind = req[q].kind /\ req'[q].age = req[q].age

\* A slot in which a request decides, with what it relies on.
Decided(q, a) == req'[q].st \in Deciding /\ Relies(q, a)'

LEMMA SlotsSound ==
    ASSUME TypeOK, TypeOK', NEW a \in Accounts, Sound(a),
           \A q \in Slots : Keeps(q, a) \/ Decided(q, a),
           store'[a] = store[a], paid'[a] = paid[a], balance'[a] = balance[a], a \notin tooSoon'
    PROVE  Sound(a)'
<1>1. ASSUME NEW q \in Slots, NEW k \in Kinds, Flies(q, a, k)'
      PROVE  Flies(q, a, k) /\ req'[q].age = req[q].age
  BY <1>1 DEF Keeps, Decided, Flies, UnderWay, Deciding
<1>2. ASSUME NEW q \in Slots, Decides(q, a)', ~ Decided(q, a)
      PROVE  Decides(q, a) /\ req'[q] = req[q]
  BY <1>2 DEF Keeps, Decides, UnderWay, Deciding
<1>3. \A k \in Kinds : Flying(a, k)' => Flying(a, k)
  BY <1>1 DEF Flying
<1>4. ApartFrom(a)'
  BY <1>1 DEF Sound, ApartFrom
<1>5. Recorded(a)'
  BY <1>1 DEF Sound, Recorded, Covers
<1>6. ASSUME NEW q \in Slots
      PROVE  Relies(q, a)'
  <2>1. CASE Decided(q, a)
    BY <2>1 DEF Decided
  <2>2. CASE ~ Decides(q, a)'
    BY <2>2 DEF Relies
  <2>3. CASE Decides(q, a)' /\ ~ Decided(q, a)
    <3>1. Decides(q, a) /\ req'[q] = req[q] /\ Relies(q, a)
      BY <1>2, <2>3 DEF Sound
    <3>2. PICK k \in Kinds, n \in Nat : k = req[q].kind /\ n = req[q].age
      BY Numbers
    <3>3. Cooldown \in Nat /\ Cooldown + n \in Nat
      BY <3>2, Constants
    <3>4. \A v \in Nat : /\ Within(a, v) => Within(a, v)'
                         /\ Unpaid(a, k, v) => Unpaid(a, k, v)'
      BY <1>3, WithinKept
    <3>5. \A j \in Kinds : paid[a][j] <= Cooldown + n => store[a].age <= paid[a][j]
      BY <3>1, <3>2 DEF Relies
    <3>6. req[q].st = "lock" =>
            /\ Within(a, Cooldown + n)'
            /\ store[a].kind = "User" /\ paid[a]["Vault"] = Cooldown + 1 => Within(a, Cooldown)'
      BY <3>1, <3>2, <3>3, <3>4 DEF Relies
    <3>7. req[q].st = "write" =>
            /\ HasRequestExpired(store[a], n, k)
            /\ \E w \in {Cooldown, Cooldown + n} : Within(a, w)' /\ Unpaid(a, k, w)'
      BY <3>1, <3>2, <3>3, <3>4 DEF Relies
    <3>8. req'[q].kind = k /\ req'[q].age = n /\ req'[q].st = req[q].st
      BY <3>1, <3>2
    <3> QED BY <3>5, <3>6, <3>7, <3>8 DEF Relies, HasRequestExpired
  <2> QED BY <2>1, <2>2, <2>3
<1>7. Bounded(a)'
  BY <1>3, WithinKept, Constants DEF Sound
<1> QED BY <1>4, <1>5, <1>6, <1>7 DEF Sound

\* A request that was just checked: its account was not above the maximum.
LEMMA CheckedSound ==
    ASSUME TypeOK, TypeOK', NEW r \in Slots, NEW a \in Accounts, Sound(a),
           req[r].acct = a, req[r].age = 0,
           Put(req, req', r, "lock", req[r].acct, req[r].kind, req[r].age),
           \A c \in Currencies : ~ (balance[a][c] > MaxBalance),
           store'[a] = store[a], paid'[a] = paid[a], balance'[a] = balance[a]
    PROVE  Decided(r, a)
<1>1. req'[r].st = "lock" /\ req'[r].acct = a /\ req'[r].age = 0
  BY DEF Put
<1>2. ASSUME NEW k \in Kinds, paid[a][k] <= Cooldown + 0
      PROVE  store[a].age <= paid[a][k]
  BY <1>2, Constants DEF Sound, Recorded, Covers
<1>3. Within(a, Cooldown)'
  <2>1. \A k \in Kinds : Got(a, k, Cooldown)' \in Nat
    BY Constants DEF Got
  <2>2. "User" \in Kinds /\ "Vault" \in Kinds /\ MaxBalance \in Nat
    BY Constants DEF Kinds
  <2>3. \A c \in Currencies : balance'[a][c] \in Nat /\ balance'[a][c] <= MaxBalance
    BY <2>2, Numbers
  <2> QED BY <2>1, <2>2, <2>3 DEF Within
<1>4. Within(a, Cooldown + 0)'
  BY <1>3, Constants
<1> QED BY <1>1, <1>2, <1>3, <1>4, Constants DEF Decided, Deciding, Relies

\* A request that was granted the cooldown.
LEMMA GrantedSound ==
    ASSUME TypeOK, TypeOK', NEW r \in Slots, NEW a \in Accounts, Sound(a), Timely(r),
           req[r].st = "lock", req[r].acct = a,
           Put(req, req', r, "write", req[r].acct, req[r].kind, req[r].age),
           HasRequestExpired(store[a], req[r].age, req[r].kind),
           store'[a] = store[a], paid'[a] = paid[a], balance'[a] = balance[a]
    PROVE  Decided(r, a)
<1> DEFINE e == req[r].age
           k == req[r].kind
<1>1. /\ k \in Kinds /\ e \in {0, 1} /\ Cooldown \in Nat /\ Cooldown + e \in Nat
      /\ req'[r].st = "write" /\ req'[r].acct = a /\ req'[r].kind = k /\ req'[r].age = e
  BY Numbers, Constants DEF Put, Timely, Deciding
<1>2. Decides(r, a) /\ Relies(r, a)
  BY DEF Decides, Deciding, Sound
<1> HIDE DEF e, k
<1>3. \A j \in Kinds : paid[a][j] <= Cooldown + e => store[a].age <= paid[a][j]
  BY <1>2 DEF Relies, e
<1>4. /\ Within(a, Cooldown + e)
      /\ store[a].kind = "User" /\ paid[a]["Vault"] = Cooldown + 1 => Within(a, Cooldown)
  BY <1>2 DEF Relies, e
<1>5. \A j \in Kinds : Flying(a, j)' => Flying(a, j)
  <2>1. ASSUME NEW q \in Slots, NEW j \in Kinds, Flies(q, a, j)'
        PROVE  Flies(q, a, j)
    BY <1>1, <2>1 DEF Put, Flies, UnderWay
  <2> QED BY <2>1 DEF Flying
<1>6. \E w \in {Cooldown, Cooldown + e} : Within(a, w) /\ Unpaid(a, k, w)
  <2>1. \A j \in Kinds : paid[a][j] \in Nat /\ store[a].age \in Nat
    BY Numbers
  <2>2. ASSUME NEW q \in Slots, Flies(q, a, k)
        PROVE  /\ req[q].age \in Nat /\ req[q].age <= Cooldown /\ store[a].age <= req[q].age
               /\ k = "Vault" => store[a].kind # "User"
    <3>1. paid[a][k] > Cooldown + req[q].age /\ req[q].age \in Nat
      BY <1>1, <2>2, Numbers DEF Sound, ApartFrom
    <3>2. store[a].age <= req[q].age /\ (k = "Vault" => store[a].kind # "User")
      BY <1>1, <2>2 DEF Sound, Recorded, Covers
    <3>3. paid[a][k] <= Old /\ Old = 2 * Cooldown + 1
      BY <1>1, Numbers, Constants
    <3> QED BY <1>1, <2>1, <3>1, <3>2, <3>3
  <2>3. CASE store[a].age > Cooldown + e
    <3>1. paid[a][k] > Cooldown + e
      BY <1>1, <1>3, <2>1, <2>3
    <3>2. ~ Flying(a, k)
      BY <1>1, <2>1, <2>2, <2>3 DEF Flying
    <3> QED BY <1>4, <3>1, <3>2 DEF Unpaid
  <2>4. CASE k = "Vault" /\ store[a].kind = "User"
    <3>1. ~ Flying(a, k)
      BY <2>2, <2>4 DEF Flying
    <3>2. paid[a][k] > Cooldown
      BY <1>1, <2>1, <2>4 DEF Sound, Recorded, Covers
    <3>3. CASE paid[a][k] > Cooldown + e
      BY <1>4, <3>1, <3>3 DEF Unpaid
    <3>4. CASE paid[a][k] <= Cooldown + e
      <4>1. paid[a]["Vault"] = Cooldown + 1
        BY <1>1, <2>1, <2>4, <3>2, <3>4
      <4> QED BY <1>4, <2>4, <3>1, <3>2, <4>1 DEF Unpaid
    <3> QED BY <1>1, <2>1, <3>3, <3>4
  <2> QED BY <2>3, <2>4 DEF HasRequestExpired, e, k
<1>7. PICK j \in Kinds, n \in {0, 1}, w \in Nat :
            j = k /\ n = e /\ w \in {Cooldown, Cooldown + n} /\ Within(a, w) /\ Unpaid(a, j, w)
  BY <1>1, <1>6
<1>8. w \in Nat /\ w \in {Cooldown, Cooldown + n}
  BY <1>1, <1>7
<1>9. Within(a, w)' /\ Unpaid(a, j, w)'
  BY <1>5, <1>7, <1>8, WithinKept
<1>10. HasRequestExpired(store[a], n, j)
  BY <1>7 DEF e, k
<1>11. req'[r].kind = j /\ req'[r].age = n
  BY <1>1, <1>7 DEF e, k
<1>12. \A i \in Kinds : paid[a][i] <= Cooldown + n => store[a].age <= paid[a][i]
  BY <1>3, <1>7
<1>13. req'[r].st = "write" /\ req'[r].acct = a
  BY <1>1
<1>14. \E v \in {Cooldown, Cooldown + n} : Within(a, v)' /\ Unpaid(a, j, v)'
  BY <1>8, <1>9
<1>15. HasRequestExpired(store[a], n, j)'
  BY <1>10 DEF HasRequestExpired
<1> QED BY <1>11, <1>12, <1>13, <1>14, <1>15 DEF Decided, Deciding, Relies

\* A claim that is recorded, and submitted, was not hidden from anyone.
LEMMA WrittenSound ==
    ASSUME TypeOK, TypeOK', NEW r \in Slots, NEW a \in Accounts, Sound(a), OneWriter,
           \A q \in Slots : Timely(q),
           req[r].st = "write", req[r].acct = a,
           Put(req, req', r, "transfer", req[r].acct, req[r].kind, 0),
           store'[a] = [kind |-> req[r].kind, age |-> 0],
           paid'[a] = paid[a], balance'[a] = balance[a], a \notin tooSoon'
    PROVE  Sound(a)'
<1>1. PICK k \in Kinds, e \in {0, 1}, w \in Nat :
          /\ k = req[r].kind /\ e = req[r].age /\ w \in {Cooldown, Cooldown + e}
          /\ Within(a, w) /\ Unpaid(a, k, w)
          /\ HasRequestExpired(store[a], e, k)
          /\ \A j \in Kinds : paid[a][j] <= Cooldown + e => store[a].age <= paid[a][j]
  <2>1. Decides(r, a) /\ Relies(r, a) /\ Timely(r)
    BY DEF Decides, Deciding, Sound
  <2>2. req[r].kind \in Kinds /\ req[r].age \in {0, 1} /\ Cooldown \in Nat
        /\ Cooldown + req[r].age \in Nat
    BY <2>1, Numbers, Constants DEF Timely, Deciding
  <2>3. \E w \in {Cooldown, Cooldown + req[r].age} : Within(a, w) /\ Unpaid(a, req[r].kind, w)
    BY <2>1 DEF Relies
  <2> QED BY <2>1, <2>2, <2>3 DEF Relies
<1>2. /\ Cooldown \in Nat /\ w >= Cooldown /\ "User" \in Kinds /\ "Vault" \in Kinds
      /\ \A j \in Kinds : paid[a][j] \in Nat
      /\ store[a].age \in Nat
      /\ paid[a][k] > w /\ ~ Flying(a, k)
      /\ MaxBalance \in Nat
      /\ \A j \in Kinds : j = "User" \/ j = "Vault"
  BY <1>1, Numbers, Constants DEF Unpaid
<1>3. /\ req'[r].st = "transfer" /\ req'[r].acct = a /\ req'[r].kind = k /\ req'[r].age = 0
      /\ \A q \in Slots \ {r} : req'[q] = req[q]
      /\ store'[a].kind = k /\ store'[a].age = 0
  BY <1>1 DEF Put
<1>4. ASSUME NEW q \in Slots, NEW j \in Kinds
      PROVE  Flies(q, a, j)' <=> (Flies(q, a, j) \/ (q = r /\ j = k))
  BY <1>3 DEF Flies, UnderWay
<1>5. \A j \in Kinds : Flying(a, j)' <=> (Flying(a, j) \/ j = k)
  BY <1>4 DEF Flying
<1>6. ASSUME NEW v \in Nat, paid[a][k] > v, Within(a, v)
      PROVE  Within(a, v)'
  <2>1. \A j \in Kinds : Got(a, j, v)' = Got(a, j, v)
    BY <1>2, <1>5, <1>6 DEF Got
  <2> QED BY <1>2, <1>6, <2>1 DEF Within
<1>7. k = "User" => /\ store[a].age > Cooldown + e
                    /\ paid[a]["Vault"] > Cooldown + e
                    /\ ~ Flying(a, "Vault")
  <2>1. k = "User" => store[a].age > Cooldown + e
    BY <1>1 DEF HasRequestExpired
  <2>2. k = "User" => paid[a]["Vault"] > Cooldown + e
    BY <1>1, <1>2, <2>1
  <2>3. ASSUME k = "User", NEW q \in Slots, Flies(q, a, "Vault")
        PROVE  FALSE
    <3>1. req[q].age <= Cooldown /\ req[q].age \in Nat
      BY <2>3, Numbers DEF Flies, Timely
    <3>2. store[a].age <= req[q].age
      BY <1>2, <2>3 DEF Sound, Recorded, Covers
    <3> QED BY <1>1, <1>2, <2>1, <2>3, <3>1, <3>2
  <2> QED BY <2>1, <2>2, <2>3 DEF Flying
<1>8. ApartFrom(a)'
  <2>1. ASSUME NEW j \in Kinds, NEW q \in Slots, Flies(q, a, j)'
        PROVE  paid'[a][j] > Cooldown + req'[q].age
    <3>1. CASE q = r
      BY <1>2, <1>3, <2>1, <3>1 DEF Flies
    <3>2. CASE q # r
      BY <1>3, <1>4, <2>1, <3>2 DEF Sound, ApartFrom
    <3> QED BY <3>1, <3>2
  <2>2. ASSUME NEW j \in Kinds, NEW p \in Slots, NEW q \in Slots, Flies(p, a, j)', Flies(q, a, j)'
        PROVE  p = q
    BY <1>2, <1>4, <2>2 DEF Flying, Sound, ApartFrom
  <2> QED BY <2>1, <2>2 DEF ApartFrom
<1>9. Recorded(a)'
  <2>1. ASSUME NEW j \in Kinds, paid[a][j] <= Cooldown
        PROVE  j = "Vault" => k # "User"
    BY <1>1, <1>2, <1>7, <2>1
  <2>2. ASSUME NEW j \in Kinds, NEW q \in Slots, Flies(q, a, j)'
        PROVE  (j = "Vault" => k # "User") /\ req'[q].age \in Nat
    <3>1. req'[q] \in Handlers
      BY DEF TypeOK, FaucetTypeOK
    <3> QED BY <1>4, <1>5, <1>7, <2>2, <3>1 DEF Handlers, Flying
  <2> QED BY <1>2, <1>3, <2>1, <2>2 DEF Recorded, Covers
<1>10. Bounded(a)'
  <2>1. /\ Left(a, k)' = 0 /\ Got(a, k, w) = 0
        /\ \A j \in Kinds \ {k} : Left(a, j)' = Left(a, j)
    BY <1>2, <1>5 DEF Left, Got
  <2>2. \A j \in Kinds : Got(a, j, w) \in Nat /\ Left(a, j) \in Nat /\ Got(a, j, w) <= Left(a, j)
    BY Numbers
  <2>3. \A c \in Currencies : balance[a][c] \in Nat
    BY Numbers
  <2>4. \A j \in Kinds : Left(a, j)' \in Nat /\ Got(a, j, w) <= Left(a, j)'
    BY <2>1, <2>2
  <2> HIDE DEF Bounded
  <2> QED BY <1>1, <1>2, <2>2, <2>3, <2>4 DEF Bounded, Within
<1>11. ASSUME NEW q \in Slots
       PROVE  Relies(q, a)'
  <2>1. CASE ~ Decides(q, a)'
    BY <2>1 DEF Relies
  <2>2. CASE Decides(q, a)'
    <3>1. q # r /\ req'[q] = req[q] /\ Decides(q, a) /\ Relies(q, a) /\ Timely(q)
      BY <1>3, <2>2 DEF Decides, Deciding, Sound
    <3>2. req[q].st = "lock"
      BY <3>1 DEF Decides, Deciding, OneWriter
    <3>3. PICK n \in {0, 1} : n = req[q].age
      BY <3>1, <3>2 DEF Timely, Deciding
    <3>4. Within(a, Cooldown + n)
      BY <3>1, <3>2, <3>3 DEF Relies
    <3>5. Within(a, Cooldown + n)'
      <4>1. CASE paid[a][k] > Cooldown + n
        BY <1>2, <1>6, <3>4, <4>1
      <4>2. CASE ~ (paid[a][k] > Cooldown + n)
        <5>1. w = Cooldown
          BY <1>1, <1>2, <4>2
        <5>2. Within(a, Cooldown)'
          BY <1>1, <1>2, <1>6, <5>1
        <5>3. \A v \in Nat : Cooldown <= v => Within(a, v)'
          <6>1. \A j \in Kinds : \A v \in Nat : Cooldown <= v =>
                   /\ Got(a, j, Cooldown)' \in Nat /\ Got(a, j, v)' \in Nat
                   /\ Got(a, j, Cooldown)' <= Got(a, j, v)'
            BY <1>2, Constants DEF Got
          <6>2. \A c \in Currencies : balance'[a][c] \in Nat
            BY Numbers
          <6> QED BY <1>2, <5>2, <6>1, <6>2 DEF Within
        <5> QED BY <1>2, <5>3
      <4> QED BY <4>1, <4>2
    <3>6. k = "User" /\ paid[a]["Vault"] = Cooldown + 1 => Within(a, Cooldown)'
      <4>1. ASSUME k = "User", paid[a]["Vault"] = Cooldown + 1
            PROVE  w = Cooldown
        BY <1>1, <1>2, <1>7, <4>1
      <4> QED BY <1>1, <1>2, <1>6, <4>1
    <3>7. req'[q].st = "lock" /\ req'[q].age = n
      BY <3>1, <3>2, <3>3
    <3>8. \A j \in Kinds : store'[a].age <= paid'[a][j]
      BY <1>2, <1>3
    <3> QED BY <1>3, <3>5, <3>6, <3>7, <3>8 DEF Relies
  <2> QED BY <2>1, <2>2
<1> QED BY <1>8, <1>9, <1>10, <1>11 DEF Sound

\* A claim that is paid was more than a cooldown apart from the last one.
LEMMA PaidSound ==
    ASSUME TypeOK, TypeOK', NEW r \in Slots, NEW a \in Accounts, Sound(a),
           \A q \in Slots : Timely(q),
           ExecuteTransfer(r), req[r].acct = a
    PROVE  Sound(a)'
<1>1. PICK k \in Kinds, x \in Nat : k = req[r].kind /\ x = req[r].age
  BY Numbers
<1>2. /\ Cooldown \in Nat /\ "User" \in Kinds /\ "Vault" \in Kinds
      /\ \A j \in Kinds : paid[a][j] \in Nat
      /\ store[a].age \in Nat /\ MaxBalance \in Nat
      /\ \A j \in Kinds : j = "User" \/ j = "Vault"
      /\ \A j \in Kinds : Allowance(j) \in Nat
      /\ \A c \in Currencies : balance[a][c] \in Nat /\ balance'[a][c] \in Nat
  <2>1. \A c \in Currencies : balance'[a][c] \in Nat
    BY DEF TypeOK, FaucetTypeOK
  <2> QED BY <2>1, Numbers, Constants
<1>3. req[r].st \in UnderWay /\ Flies(r, a, k) /\ x <= Cooldown /\ paid[a][k] > Cooldown + x
  BY <1>1, ExecuteMoves DEF Flies, Sound, ApartFrom, Timely, TypeOK
<1>4. /\ req'[r].st \in {"ok", "err"}
      /\ \A q \in Slots \ {r} : req'[q] = req[q]
  BY ExecuteMoves DEF TypeOK, Put
<1>5. /\ store' = store
      /\ tooSoon' = IF Apart(paid[a][k], x) <= Cooldown THEN tooSoon \cup {a} ELSE tooSoon
      /\ paid' = [paid EXCEPT ![a][k] = IF @ < x THEN @ ELSE x]
  BY <1>1 DEF ExecuteTransfer
<1>6. a \notin tooSoon'
  BY <1>2, <1>3, <1>5 DEF Apart, Sound
<1>7. paid'[a][k] = x /\ \A j \in Kinds \ {k} : paid'[a][j] = paid[a][j]
  BY <1>2, <1>3, <1>5 DEF TypeOK, FaucetTypeOK
<1>8. \A c \in Currencies : balance'[a][c] <= balance[a][c] + Allowance(k)
  <2>1. PICK S \in SUBSET Currencies : balance' = [balance EXCEPT
                 ![req[r].acct] = [c \in Currencies |->
                     @[c] + IF c \in S THEN Allowance(req[r].kind) ELSE 0]]
    BY ExecuteMoves DEF TypeOK
  <2>2. \A c \in Currencies : balance'[a][c] = balance[a][c] + IF c \in S THEN Allowance(k) ELSE 0
    BY <1>1, <2>1 DEF TypeOK, FaucetTypeOK
  <2> QED BY <1>2, <2>2
<1>9. ASSUME NEW q \in Slots, NEW j \in Kinds
      PROVE  Flies(q, a, j)' <=> (Flies(q, a, j) /\ q # r)
  BY <1>4 DEF Flies, UnderWay
<1>10. /\ Flying(a, k) /\ ~ Flying(a, k)'
       /\ \A j \in Kinds \ {k} : Flying(a, j)' <=> Flying(a, j)
  <2>1. \A q \in Slots : Flies(q, a, k) => q = r
    BY <1>3 DEF Sound, ApartFrom
  <2>2. \A j \in Kinds \ {k} : ~ Flies(r, a, j)
    BY <1>3 DEF Flies
  <2> QED BY <1>3, <1>9, <2>1, <2>2 DEF Flying
<1>11. ASSUME NEW v \in Nat, v >= Cooldown, Within(a, v)
       PROVE  Within(a, v)'
  <2>1. Got(a, k, v) = 0
    BY <1>10 DEF Got
  <2>2. Got(a, k, v)' = Allowance(k)
    BY <1>2, <1>3, <1>7, <1>10, <1>11 DEF Got, Allowance
  <2>3. \A j \in Kinds \ {k} : Got(a, j, v)' = Got(a, j, v) /\ Got(a, j, v) \in Nat
    BY <1>2, <1>7, <1>10 DEF Got, Allowance
  <2> QED BY <1>2, <1>8, <1>11, <2>1, <2>2, <2>3 DEF Within
<1>12. Bounded(a)'
  <2>1. Left(a, k) = 0 /\ Left(a, k)' = Allowance(k)
    BY <1>10 DEF Left
  <2>2. \A j \in Kinds \ {k} : Left(a, j)' = Left(a, j) /\ Left(a, j) \in Nat
    BY <1>2, <1>10 DEF Left
  <2> QED BY <1>2, <1>8, <2>1, <2>2 DEF Bounded, Sound
<1>13. ASSUME NEW q \in Slots, NEW j \in Kinds, Flies(q, a, j)'
       PROVE  Flies(q, a, j) /\ q # r /\ j # k /\ req'[q].age = req[q].age
  BY <1>4, <1>9, <1>10, <1>13 DEF Flying
<1>14. ApartFrom(a)'
  BY <1>7, <1>13 DEF Sound, ApartFrom
<1>15. Covers(a, k, x)
  BY <1>1, <1>3 DEF Sound, Recorded
<1>16. Recorded(a)'
  <2>1. Covers(a, k, paid[a][k])'
    BY <1>5, <1>7, <1>15 DEF Covers
  <2>2. \A j \in Kinds \ {k} : paid[a][j] <= Cooldown => Covers(a, j, paid[a][j])'
    BY <1>5, <1>7 DEF Sound, Recorded, Covers
  <2>3. ASSUME NEW q \in Slots, NEW j \in Kinds, Flies(q, a, j)'
        PROVE  Covers(a, j, req[q].age)'
    BY <1>5, <1>13, <2>3 DEF Sound, Recorded, Covers
  <2> QED BY <1>7, <2>1, <2>2, <2>3 DEF Recorded
<1>17. ASSUME NEW q \in Slots
       PROVE  Relies(q, a)'
  <2>1. CASE ~ Decides(q, a)'
    BY <2>1 DEF Relies
  <2>2. CASE Decides(q, a)'
    <3>1. req'[q] = req[q] /\ Decides(q, a) /\ Relies(q, a)
      BY <1>4, <2>2 DEF Decides, Deciding, Sound
    <3>2. PICK j \in Kinds, n \in Nat : j = req[q].kind /\ n = req[q].age
      BY Numbers
    <3>3. \A i \in Kinds : paid'[a][i] <= Cooldown + n => store[a].age <= paid'[a][i]
      BY <1>7, <1>15, <3>1, <3>2 DEF Relies, Covers
    <3>4. ASSUME req[q].st = "lock"
          PROVE  /\ Within(a, Cooldown + n)'
                 /\ store[a].kind = "User" /\ paid'[a]["Vault"] = Cooldown + 1 => Within(a, Cooldown)'
      <4>1. /\ Within(a, Cooldown + n)
            /\ store[a].kind = "User" /\ paid[a]["Vault"] = Cooldown + 1 => Within(a, Cooldown)
        BY <3>1, <3>2, <3>4 DEF Relies
      <4>2. paid'[a]["Vault"] = Cooldown + 1 => paid[a]["Vault"] = Cooldown + 1
        BY <1>1, <1>2, <1>3, <1>7
      <4>3. Cooldown + n \in Nat /\ Cooldown + n >= Cooldown
        BY <1>2, <3>2
      <4> QED BY <1>2, <1>11, <4>1, <4>2, <4>3
    <3>5. ASSUME req[q].st = "write"
          PROVE  /\ HasRequestExpired(store[a], n, j)
                 /\ \E w \in {Cooldown, Cooldown + n} : Within(a, w)' /\ Unpaid(a, j, w)'
      <4>1. HasRequestExpired(store[a], n, j)
        BY <3>1, <3>2, <3>5 DEF Relies
      <4>2. PICK w \in {Cooldown, Cooldown + n} : Within(a, w) /\ Unpaid(a, j, w)
        BY <3>1, <3>2, <3>5 DEF Relies
      <4>3. w \in Nat /\ w >= Cooldown
        BY <1>2, <3>2
      <4>4. j # k
        BY <1>10, <4>2 DEF Unpaid
      <4>5. Unpaid(a, j, w)'
        BY <1>7, <1>10, <4>2, <4>4 DEF Unpaid
      <4>6. Within(a, w)'
        BY <1>11, <4>2, <4>3
      <4> QED BY <4>1, <4>2, <4>5, <4>6
    <3>6. req'[q].kind = j /\ req'[q].age = n /\ req'[q].st = req[q].st
      BY <3>1, <3>2
    <3> QED BY <1>5, <3>3, <3>4, <3>5, <3>6 DEF Relies, HasRequestExpired
  <2> QED BY <2>1, <2>2
<1> QED BY <1>6, <1>12, <1>14, <1>16, <1>17 DEF Sound

\* A tick: everything grows older together.
LEMMA TickSound ==
    ASSUME TypeOK, TypeOK', NEW a \in Accounts, Sound(a), \A q \in Slots : Timely(q), Tick
    PROVE  Sound(a)'
<1>1. /\ Cooldown \in Nat /\ Cooldown >= 1 /\ Old = 2 * Cooldown + 1
      /\ "User" \in Kinds /\ "Vault" \in Kinds
      /\ \A j \in Kinds : paid[a][j] \in Nat /\ paid[a][j] <= Old
      /\ store[a].age \in Nat /\ MaxBalance \in Nat /\ store[a] \in Claims
      /\ \A j \in Kinds : j = "User" \/ j = "Vault"
      /\ \A c \in Currencies : balance[a][c] \in Nat
  BY Numbers, Constants
<1>2. /\ \A q \in Slots :
            /\ req'[q].st = req[q].st /\ req'[q].acct = req[q].acct /\ req'[q].kind = req[q].kind
            /\ req[q].st \in {"lock", "transfer", "adrift"} => req'[q].age = Older(req[q].age)
      /\ \A j \in Kinds : paid'[a][j] = Older(paid[a][j])
      /\ store'[a] = AgedClaim(store[a])
  BY TickMoves DEF TypeOK
<1>3. balance' = balance /\ tooSoon' = tooSoon
  BY DEF Tick, chainVars
<1>4. \A q \in Slots : /\ req[q].st # "write"
                       /\ req[q].st = "lock" => req[q].age = 0
                       /\ req[q].st \in UnderWay => req[q].age < Cooldown
  BY DEF Tick, UnderWay
<1>5. \A j \in Kinds, n \in Nat : n + 1 < Old =>
          /\ paid'[a][j] <= n + 1 <=> paid[a][j] <= n
          /\ paid[a][j] <= n => paid'[a][j] = paid[a][j] + 1
  BY <1>1, <1>2 DEF Older
<1>6. store[a].age + 1 < Old => store'[a].age = store[a].age + 1 /\ store'[a].kind = store[a].kind
  BY <1>1, <1>2, AgedFacts
<1>7. ASSUME NEW q \in Slots, NEW j \in Kinds
      PROVE  /\ Flies(q, a, j)' <=> Flies(q, a, j)
             /\ Flies(q, a, j) => /\ req[q].age \in Nat /\ req[q].age < Cooldown
                                  /\ req'[q].age = req[q].age + 1
  <2>1. req[q].age \in Nat
    BY Numbers
  <2> QED BY <1>1, <1>2, <1>4, <2>1 DEF Flies, UnderWay, Older
<1>8. \A j \in Kinds : Flying(a, j)' <=> Flying(a, j)
  BY <1>7 DEF Flying
<1>9. ASSUME NEW v \in Nat, v + 1 < Old, Within(a, v)
      PROVE  Within(a, v + 1)'
  <2>1. \A j \in Kinds : Got(a, j, v + 1)' = Got(a, j, v)
    BY <1>5, <1>8, <1>9 DEF Got
  <2> QED BY <1>1, <1>3, <1>9, <2>1 DEF Within
<1>10. Bounded(a)'
  <2>1. \A j \in Kinds : Left(a, j)' = Left(a, j)
    BY <1>8 DEF Left
  <2> QED BY <1>1, <1>3, <2>1 DEF Bounded, Sound
<1>11. ApartFrom(a)'
  <2>1. ASSUME NEW q \in Slots, NEW j \in Kinds, Flies(q, a, j)'
        PROVE  paid'[a][j] > Cooldown + req'[q].age
    <3>1. Flies(q, a, j) /\ paid[a][j] > Cooldown + req[q].age
      BY <1>7, <2>1 DEF Sound, ApartFrom
    <3> QED BY <1>1, <1>2, <1>7, <3>1 DEF Older
  <2> QED BY <1>7, <2>1 DEF Sound, ApartFrom
<1>12. Recorded(a)'
  <2>1. ASSUME NEW j \in Kinds, paid'[a][j] <= Cooldown
        PROVE  Covers(a, j, paid[a][j])'
    <3>1. paid[a][j] < Cooldown /\ paid'[a][j] = paid[a][j] + 1
      BY <1>1, <1>2, <2>1 DEF Older
    <3>2. Covers(a, j, paid[a][j])
      BY <1>1, <3>1 DEF Sound, Recorded
    <3> QED BY <1>1, <1>6, <3>1, <3>2 DEF Covers
  <2>2. ASSUME NEW q \in Slots, NEW j \in Kinds, Flies(q, a, j)'
        PROVE  Covers(a, j, req[q].age)'
    <3>1. Flies(q, a, j) /\ Covers(a, j, req[q].age)
      BY <1>7, <2>2 DEF Sound, Recorded
    <3> QED BY <1>1, <1>6, <1>7, <3>1 DEF Covers
  <2> QED BY <2>1, <2>2 DEF Recorded, Covers
<1>13. ASSUME NEW q \in Slots
       PROVE  Relies(q, a)'
  <2>1. CASE ~ Decides(q, a)'
    BY <2>1 DEF Relies
  <2>2. CASE Decides(q, a)'
    <3>1. Decides(q, a) /\ Relies(q, a) /\ req[q].st = "lock" /\ req[q].age = 0
      BY <1>2, <1>4, <2>2 DEF Decides, Deciding, Sound
    <3>2. req'[q].st = "lock" /\ req'[q].age = 1
      BY <1>1, <1>2, <3>1 DEF Older
    <3>3. ASSUME NEW i \in Kinds, paid'[a][i] <= Cooldown + 1
          PROVE  store'[a].age <= paid'[a][i]
      <4>1. paid[a][i] <= Cooldown /\ paid'[a][i] = paid[a][i] + 1
        BY <1>1, <1>5, <3>3
      <4>2. store[a].age <= paid[a][i]
        BY <1>1, <3>1, <4>1 DEF Relies
      <4> QED BY <1>1, <1>6, <4>1, <4>2
    <3>4. Within(a, Cooldown + 1)'
      <4>1. Within(a, Cooldown)
        BY <1>1, <3>1 DEF Relies
      <4> QED BY <1>1, <1>9, <4>1
    <3>5. ~ (store'[a].kind = "User" /\ paid'[a]["Vault"] = Cooldown + 1)
      <4>1. ASSUME paid'[a]["Vault"] = Cooldown + 1
            PROVE  store'[a].kind # "User"
        <5>1. paid[a]["Vault"] <= Cooldown
          BY <1>1, <1>5, <4>1
        <5>2. Covers(a, "Vault", paid[a]["Vault"])
          BY <1>1, <5>1 DEF Sound, Recorded
        <5> QED BY <1>1, <1>6, <5>1, <5>2 DEF Covers
      <4> QED BY <4>1
    <3> QED BY <3>2, <3>3, <3>4, <3>5 DEF Relies
  <2> QED BY <2>1, <2>2
<1> QED BY <1>3, <1>10, <1>11, <1>12, <1>13 DEF Sound

\* A record that is dropped when no other claim of the account is recent.
LEMMA DroppedSound ==
    ASSUME TypeOK, TypeOK', NEW r \in Slots, NEW a \in Accounts, Sound(a),
           \A q \in Slots : Timely(q),
           RemoveRecord(r), req[r].acct = a, a \notin excused'
    PROVE  Sound(a)'
<1>1. /\ Cooldown \in Nat /\ "User" \in Kinds /\ "Vault" \in Kinds
      /\ \A j \in Kinds : paid[a][j] \in Nat
  BY Numbers, Constants
<1>2. /\ req[r].st = "remove" /\ req'[r].st = "err" /\ ~ CoolingDown(r, a)
      /\ paid' = paid /\ balance' = balance /\ tooSoon' = tooSoon
      /\ \A q \in Slots \ {r} : req'[q] = req[q]
  <2>1. req[r].st = "remove" /\ ~ CoolingDown(r, a)
    BY DEF RemoveRecord
  <2>2. Put(req, req', r, "err", Idle.acct, "User", 0)
    BY ErrorMoves DEF TypeOK
  <2> QED BY <2>1, <2>2 DEF RemoveRecord, chainVars, Put
<1>3. /\ \A k \in Kinds : paid[a][k] > Cooldown
      /\ \A q \in Slots : req[q].acct = a =>
            /\ req[q].st \notin {"write", "transfer", "adrift"}
            /\ req[q].st = "lock" => \A k \in Kinds : paid[a][k] > Cooldown + req[q].age
  <2>1. \A k \in Kinds : ~ (paid[a][k] <= Cooldown)
    BY <1>2 DEF CoolingDown
  <2>2. ASSUME NEW q \in Slots \ {r}, req[q].acct = a
        PROVE  /\ req[q].st \notin {"write", "transfer", "adrift"}
               /\ req[q].st = "lock" => \A k \in Kinds : ~ (paid[a][k] <= Cooldown + req[q].age)
    BY <1>2, <2>2 DEF CoolingDown
  <2>3. \A q \in Slots : req[q].age \in Nat
    BY Numbers
  <2> QED BY <1>1, <1>2, <2>1, <2>2, <2>3
<1>4. ASSUME NEW q \in Slots, NEW j \in Kinds
      PROVE  ~ Flies(q, a, j) /\ ~ Flies(q, a, j)'
  BY <1>2, <1>3 DEF Flies, UnderWay
<1>5. \A j \in Kinds : ~ Flying(a, j)' /\ ~ Flying(a, j)
  BY <1>4 DEF Flying
<1>6. Bounded(a)'
  BY <1>1, <1>2, <1>5, WithinKept DEF Sound
<1>7. ApartFrom(a)' /\ Recorded(a)'
  BY <1>1, <1>2, <1>3, <1>4 DEF ApartFrom, Recorded
<1>8. ASSUME NEW q \in Slots
      PROVE  Relies(q, a)'
  <2>1. CASE ~ Decides(q, a)'
    BY <2>1 DEF Relies
  <2>2. CASE Decides(q, a)'
    <3>1. /\ req'[q] = req[q] /\ Decides(q, a) /\ Relies(q, a) /\ req[q].st = "lock"
          /\ \A k \in Kinds : paid[a][k] > Cooldown + req[q].age
      BY <1>2, <1>3, <2>2 DEF Decides, Deciding, Sound
    <3>2. PICK n \in {0, 1} : n = req[q].age
      BY <3>1 DEF Timely, Deciding
    <3>3. Within(a, Cooldown + n)'
      BY <1>1, <1>2, <1>5, <3>1, <3>2, WithinKept DEF Relies
    <3>4. paid[a]["Vault"] = Cooldown + 1 => n = 0
      BY <1>1, <3>1, <3>2
    <3>5. paid[a]["Vault"] = Cooldown + 1 => Within(a, Cooldown)'
      BY <1>1, <3>3, <3>4
    <3>6. \A k \in Kinds : ~ (paid'[a][k] <= Cooldown + n)
      BY <1>1, <1>2, <3>1, <3>2
    <3>7. req'[q].st = "lock" /\ req'[q].age = n
      BY <3>1, <3>2
    <3> QED BY <1>2, <3>3, <3>5, <3>6, <3>7 DEF Relies
  <2> QED BY <2>1, <2>2
<1> QED BY <1>2, <1>6, <1>7, <1>8 DEF Sound

\* A slot moves on, and nothing is under way or decided in it any longer.
LEMMA SlotLeft ==
    ASSUME CoolInv, TypeOK', UNCHANGED <<store, paid, balance, tooSoon, excused>>,
           NEW r \in Slots, NEW s \in Steps \ (Deciding \cup UnderWay),
           NEW b \in Accounts, NEW k \in Kinds, NEW n \in 0..Old,
           s \in {"kind", "checks"} => n = 0,
           Put(req, req', r, s, b, k, n)
    PROVE  CoolInv'
<1>1. req'[r].st = s /\ req'[r].age = n /\ \A q \in Slots \ {r} : req'[q] = req[q]
  BY DEF Put
<1>2. ASSUME NEW q \in Slots
      PROVE  Timely(q)'
  BY <1>1 DEF CoolInv, Timely
<1>3. OneWriter'
  BY <1>1 DEF CoolInv, OneWriter, Deciding
<1>4. ASSUME NEW a \in Accounts \ excused'
      PROVE  Sound(a)'
  <2>1. \A q \in Slots : Keeps(q, a)
    BY <1>1 DEF Keeps
  <2>2. TypeOK /\ Sound(a) /\ a \notin tooSoon'
    BY <1>4 DEF CoolInv, Sound
  <2> QED BY <1>4, <2>1, <2>2, SlotsSound
<1> QED BY <1>2, <1>3, <1>4 DEF CoolInv

LEMMA SlotsUnmoved ==
    ASSUME CoolInv, TypeOK', UNCHANGED <<req, store, paid, balance, tooSoon, excused>>
    PROVE  CoolInv'
<1>1. ASSUME NEW a \in Accounts \ excused'
      PROVE  Sound(a)'
  <2>1. \A q \in Slots : Keeps(q, a)
    BY DEF Keeps
  <2>2. TypeOK /\ Sound(a) /\ a \notin tooSoon'
    BY <1>1 DEF CoolInv, Sound
  <2> QED BY <1>1, <2>1, <2>2, SlotsSound
<1> QED BY <1>1 DEF CoolInv, Timely, OneWriter

\* A request that decides: what it relies on, and that LOCK has one holder.
LEMMA DecisionMade ==
    ASSUME CoolInv, TypeOK', UNCHANGED <<store, paid, balance, tooSoon, excused>>,
           NEW r \in Slots, NEW s \in Deciding, req[r].age \in {0, 1},
           Put(req, req', r, s, req[r].acct, req[r].kind, req[r].age),
           s = "write" => ~ Locked,
           req[r].acct \notin excused => Decided(r, req[r].acct)
    PROVE  CoolInv'
<1>1. /\ req'[r].st = s /\ req'[r].acct = req[r].acct /\ req'[r].age = req[r].age
      /\ \A q \in Slots \ {r} : req'[q] = req[q]
  BY DEF Put
<1>2. ASSUME NEW q \in Slots
      PROVE  Timely(q)'
  BY <1>1 DEF CoolInv, Timely, Deciding, UnderWay
<1>3. OneWriter'
  BY <1>1 DEF CoolInv, OneWriter, Locked
<1>4. ASSUME NEW a \in Accounts \ excused'
      PROVE  Sound(a)'
  <2>1. TypeOK /\ Sound(a) /\ a \notin tooSoon' /\ a \notin excused
    BY <1>4 DEF CoolInv, Sound
  <2>2. CASE a = req[r].acct
    <3>1. Decided(r, a)
      BY <2>1, <2>2
    <3>2. \A q \in Slots : Keeps(q, a) \/ Decided(q, a)
      BY <1>1, <3>1 DEF Keeps
    <3> QED BY <1>4, <2>1, <3>2, SlotsSound
  <2>3. CASE a # req[r].acct
    <3>1. \A q \in Slots : Keeps(q, a)
      BY <1>1, <2>3 DEF Keeps
    <3> QED BY <1>4, <2>1, <3>1, SlotsSound
  <2> QED BY <2>2, <2>3
<1> QED BY <1>2, <1>3, <1>4 DEF CoolInv

LEMMA EnsureCool ==
    ASSUME CoolInv, TypeOK', NEW r \in Slots, EnsureFundingAllowed(r)
    PROVE  CoolInv'
<1>1. UNCHANGED <<store, paid, balance, tooSoon, excused>> /\ TypeOK /\ FaucetTypeOK
  BY DEF EnsureFundingAllowed, chainVars, history, CoolInv, TypeOK
<1>2. /\ req[r].acct \in Accounts /\ req[r].kind \in Kinds /\ Old \in 0..Old /\ 0 \in 0..Old
      /\ Idle.acct \in Accounts /\ "User" \in Kinds
      /\ {"remove", "err"} \subseteq Steps \ (Deciding \cup UnderWay)
  BY <1>1, Numbers, Constants DEF Steps, Deciding, UnderWay
<1>3. CASE Put(req, req', r, "remove", req[r].acct, req[r].kind, Old)
  BY <1>1, <1>2, <1>3, SlotLeft
<1>4. CASE Put(req, req', r, "err", Idle.acct, "User", 0)
  BY <1>1, <1>2, <1>4, SlotLeft
<1>5. CASE /\ Put(req, req', r, "lock", req[r].acct, req[r].kind, req[r].age)
           /\ \A c \in Currencies : ~ (balance[req[r].acct][c] > MaxBalance)
  <2>1. req[r].st = "checks" /\ req[r].age = 0
    BY <1>1, EnsureMoves DEF CoolInv, Timely
  <2>2. req[r].acct \notin excused => Decided(r, req[r].acct)
    BY <1>1, <1>2, <1>5, <2>1, CheckedSound DEF CoolInv
  <2>3. "lock" \in Deciding
    BY DEF Deciding
  <2> QED BY <1>1, <1>5, <2>1, <2>2, <2>3, DecisionMade
<1> QED BY <1>1, <1>3, <1>4, <1>5, EnsureMoves

LEMMA CheckCool ==
    ASSUME CoolInv, TypeOK', NEW r \in Slots, CheckCooldown(r)
    PROVE  CoolInv'
<1>1. UNCHANGED <<store, paid, balance, tooSoon, excused>> /\ TypeOK /\ FaucetTypeOK
  BY DEF CheckCooldown, chainVars, history, CoolInv, TypeOK
<1>2. /\ req[r].acct \in Accounts /\ 0 \in 0..Old /\ Idle.acct \in Accounts /\ "User" \in Kinds
      /\ "err" \in Steps \ (Deciding \cup UnderWay) /\ "write" \in Deciding
  BY <1>1, Numbers, Constants DEF Steps, Deciding, UnderWay
<1>3. CASE Put(req, req', r, "err", Idle.acct, "User", 0)
  BY <1>1, <1>2, <1>3, SlotLeft
<1>4. CASE /\ Put(req, req', r, "write", req[r].acct, req[r].kind, req[r].age)
           /\ HasRequestExpired(store[req[r].acct], req[r].age, req[r].kind)
           /\ ~ Locked
  <2>1. req[r].st = "lock" /\ req[r].age \in {0, 1} /\ Timely(r)
    BY <1>1, CheckMoves DEF CoolInv, Timely, Deciding
  <2>2. req[r].acct \notin excused => Decided(r, req[r].acct)
    BY <1>1, <1>2, <1>4, <2>1, GrantedSound DEF CoolInv
  <2> QED BY <1>1, <1>2, <1>4, <2>1, <2>2, DecisionMade
<1> QED BY <1>1, <1>3, <1>4, CheckMoves

\* A step that writes the record or the payment of one account.
LEMMA OthersSound ==
    ASSUME CoolInv, TypeOK', NEW r \in Slots, NEW b \in Accounts,
           b \notin excused' => Sound(b)',
           excused \subseteq excused', tooSoon' \subseteq tooSoon \cup {b},
           \A q \in Slots \ {r} : req'[q] = req[q],
           req'[r].acct = b \/ req'[r].st \notin Deciding \cup UnderWay,
           \A a \in Accounts \ {b} : store'[a] = store[a] /\ paid'[a] = paid[a]
                                  /\ balance'[a] = balance[a],
           Timely(r)', req'[r].st # "write"
    PROVE  CoolInv'
<1>1. ASSUME NEW q \in Slots
      PROVE  Timely(q)'
  <2>1. CASE q = r
    BY <2>1
  <2>2. CASE q # r
    BY <2>2 DEF CoolInv, Timely
  <2> QED BY <2>1, <2>2
<1>2. OneWriter'
  BY DEF CoolInv, OneWriter
<1>3. ASSUME NEW a \in Accounts \ excused', a # b
      PROVE  Sound(a)'
  <2>1. TypeOK /\ Sound(a) /\ a \notin tooSoon'
    BY <1>3 DEF CoolInv, Sound
  <2>2. \A q \in Slots : Keeps(q, a)
    BY <1>3 DEF Keeps
  <2> QED BY <1>3, <2>1, <2>2, SlotsSound
<1> QED BY <1>1, <1>2, <1>3 DEF CoolInv

LEMMA UpdateCool ==
    ASSUME CoolInv, TypeOK', NEW r \in Slots, UpdateKvStore(r)
    PROVE  CoolInv'
<1> DEFINE b == req[r].acct
<1>1. TypeOK /\ FaucetTypeOK /\ b \in Accounts /\ \A q \in Slots : Timely(q)
  BY Numbers DEF CoolInv, TypeOK, FaucetTypeOK, Handlers
<1>2. req[r].st = "write" /\ Put(req, req', r, "transfer", b, req[r].kind, 0)
  BY <1>1, UpdateMoves
<1>3. /\ store' = [store EXCEPT ![b] = [kind |-> req[r].kind, age |-> 0]]
      /\ paid' = paid /\ balance' = balance /\ tooSoon' = tooSoon /\ excused' = excused
  BY DEF UpdateKvStore, chainVars, history
<1>4. store'[b] = [kind |-> req[r].kind, age |-> 0]
      /\ \A a \in Accounts \ {b} : store'[a] = store[a]
  BY <1>1, <1>3 DEF FaucetTypeOK
<1>5. /\ req'[r].st = "transfer" /\ req'[r].acct = b /\ req'[r].age = 0
      /\ \A q \in Slots \ {r} : req'[q] = req[q]
  BY <1>2 DEF Put
<1>6. Timely(r)'
  BY <1>5, Constants DEF Timely, Deciding
<1>7. PICK a \in Accounts : a = b
  BY <1>1
<1>8. a \notin excused' => Sound(a)'
  <2>1. SUFFICES ASSUME a \notin excused'
                 PROVE  Sound(a)'
    OBVIOUS
  <2>2. Sound(a) /\ a \notin tooSoon' /\ OneWriter
    BY <1>3, <2>1 DEF CoolInv, Sound
  <2> QED BY <1>1, <1>2, <1>3, <1>4, <1>7, <2>2, WrittenSound
<1> QED BY <1>3, <1>4, <1>5, <1>6, <1>7, <1>8, OthersSound

LEMMA ExecuteCool ==
    ASSUME CoolInv, TypeOK', NEW r \in Slots, ExecuteTransfer(r)
    PROVE  CoolInv'
<1>1. TypeOK /\ FaucetTypeOK /\ req[r].acct \in Accounts /\ \A q \in Slots : Timely(q)
  BY Numbers DEF CoolInv, TypeOK, FaucetTypeOK, Handlers
<1>2. PICK a \in Accounts : a = req[r].acct
  BY <1>1
<1>3. /\ store' = store /\ excused' = excused /\ tooSoon' \subseteq tooSoon \cup {a}
      /\ \A b \in Accounts \ {a} : paid'[b] = paid[b]
  BY <1>1, <1>2 DEF ExecuteTransfer, FaucetTypeOK
<1>4. \A b \in Accounts \ {a} : balance'[b] = balance[b]
  BY <1>1, <1>2, ExecuteMoves DEF FaucetTypeOK
<1>5. /\ req'[r].st \in {"ok", "err"}
      /\ \A q \in Slots \ {r} : req'[q] = req[q]
  BY <1>1, ExecuteMoves DEF Put
<1>6. Timely(r)' /\ req'[r].st \notin Deciding \cup UnderWay /\ req'[r].st # "write"
  BY <1>5 DEF Timely, Deciding, UnderWay
<1>7. a \notin excused' => Sound(a)'
  BY <1>1, <1>2, <1>3, PaidSound DEF CoolInv
<1> QED BY <1>2, <1>3, <1>4, <1>5, <1>6, <1>7, OthersSound

LEMMA RemoveCool ==
    ASSUME CoolInv, TypeOK', NEW r \in Slots, RemoveRecord(r)
    PROVE  CoolInv'
<1>1. TypeOK /\ FaucetTypeOK /\ req[r].acct \in Accounts /\ \A q \in Slots : Timely(q)
  BY Numbers DEF CoolInv, TypeOK, FaucetTypeOK, Handlers
<1>2. PICK a \in Accounts : a = req[r].acct
  BY <1>1
<1>3. /\ paid' = paid /\ balance' = balance /\ tooSoon' = tooSoon
      /\ excused \subseteq excused'
      /\ \A b \in Accounts \ {a} : store'[b] = store[b]
  BY <1>1, <1>2 DEF RemoveRecord, FaucetTypeOK, chainVars
<1>4. /\ req'[r].st = "err"
      /\ \A q \in Slots \ {r} : req'[q] = req[q]
  BY <1>1, ErrorMoves DEF Put
<1>5. Timely(r)' /\ req'[r].st \notin Deciding \cup UnderWay /\ req'[r].st # "write"
  BY <1>4 DEF Timely, Deciding, UnderWay
<1>6. a \notin excused' => Sound(a)'
  BY <1>1, <1>2, <1>3, DroppedSound DEF CoolInv
<1> QED BY <1>2, <1>3, <1>4, <1>5, <1>6, OthersSound

LEMMA FailsCool ==
    ASSUME CoolInv, TypeOK', NEW r \in Slots, TransferFails(r)
    PROVE  CoolInv'
<1>1. UNCHANGED <<store, paid, balance, tooSoon, excused>> /\ TypeOK /\ FaucetTypeOK
  BY DEF TransferFails, chainVars, history, CoolInv, TypeOK
<1>2. /\ req[r].acct \in Accounts /\ req[r].kind \in Kinds /\ req[r].age \in 0..Old
      /\ "remove" \in Steps \ (Deciding \cup UnderWay)
  BY <1>1, Numbers, Constants DEF Steps, Deciding, UnderWay
<1>3. CASE Put(req, req', r, "remove", req[r].acct, req[r].kind, req[r].age)
  BY <1>1, <1>2, <1>3, SlotLeft
<1>4. CASE Put(req, req', r, "adrift", req[r].acct, req[r].kind, req[r].age)
  <2>1. req[r].st = "transfer"
    BY <1>1, TransferFailsMoves
  <2>2. /\ req'[r].st = "adrift" /\ req'[r].acct = req[r].acct /\ req'[r].kind = req[r].kind
        /\ req'[r].age = req[r].age
        /\ \A q \in Slots \ {r} : req'[q] = req[q]
    BY <1>4 DEF Put
  <2>3. ASSUME NEW q \in Slots
        PROVE  Timely(q)'
    BY <2>1, <2>2 DEF CoolInv, Timely, Deciding, UnderWay
  <2>4. OneWriter'
    BY <2>2 DEF CoolInv, OneWriter
  <2>5. ASSUME NEW a \in Accounts \ excused'
        PROVE  Sound(a)'
    <3>1. Sound(a) /\ a \notin tooSoon'
      BY <1>1, <2>5 DEF CoolInv, Sound
    <3>2. \A q \in Slots : Keeps(q, a)
      BY <2>1, <2>2 DEF Keeps
    <3> QED BY <1>1, <2>5, <3>1, <3>2, SlotsSound
  <2> QED BY <2>3, <2>4, <2>5 DEF CoolInv
<1> QED BY <1>1, <1>3, <1>4, TransferFailsMoves

LEMMA ResendCool ==
    ASSUME CoolInv, TypeOK', NEW r \in Slots, ResendTransfer(r)
    PROVE  CoolInv'
<1>1. TypeOK /\ FaucetTypeOK /\ req[r].acct \in Accounts /\ Timely(r)
  BY Numbers DEF CoolInv, TypeOK, FaucetTypeOK, Handlers
<1>2. PICK a \in Accounts : a = req[r].acct
  BY <1>1
<1>3. UNCHANGED <<store, paid, balance, tooSoon>> /\ excused' = excused \cup {a}
  BY <1>2 DEF ResendTransfer, chainVars
<1>4. PICK q \in Slots : Put(req, req', q, "adrift", a, req[r].kind, req[r].age)
  BY <1>1, <1>2, ResendMoves
<1>5. /\ req'[q].st = "adrift" /\ req'[q].acct = a /\ req'[q].age = req[r].age
      /\ \A p \in Slots \ {q} : req'[p] = req[p]
  BY <1>4 DEF Put
<1>6. req[r].st = "transfer"
  BY DEF ResendTransfer
<1>7. Timely(q)'
  BY <1>1, <1>5, <1>6 DEF Timely, Deciding, UnderWay
<1>8. a \in excused'
  BY <1>3
<1> QED BY <1>3, <1>5, <1>7, <1>8, OthersSound

LEMMA CrashCool ==
    ASSUME CoolInv, TypeOK', Crash
    PROVE  CoolInv'
<1>1. TypeOK /\ FaucetTypeOK
  BY DEF CoolInv, TypeOK
<1>2. ASSUME NEW q \in Slots
      PROVE  \/ req'[q] = req[q] /\ req[q].st \in {"idle", "ok", "err", "adrift"}
             \/ /\ req[q].st = "transfer" /\ req'[q].st = "adrift"
                /\ req'[q].acct = req[q].acct /\ req'[q].kind = req[q].kind
                /\ req'[q].age = req[q].age
             \/ req'[q].st = "err"
  BY <1>1, CrashMoves, CrashedFacts
<1>3. ASSUME NEW q \in Slots
      PROVE  Timely(q)' /\ req'[q].st # "write"
  BY <1>2 DEF CoolInv, Timely, Deciding, UnderWay
<1>4. ASSUME NEW a \in Accounts \ excused'
      PROVE  Sound(a)'
  <2>1. PICK lost \in SUBSET Accounts :
            /\ store' = [b \in Accounts |-> IF b \in lost THEN disk[b] ELSE store[b]]
            /\ excused' = excused \cup lost
    BY DEF Crash
  <2>2. store'[a] = store[a] /\ a \notin excused
    BY <1>4, <2>1
  <2>3. paid' = paid /\ balance' = balance /\ tooSoon' = tooSoon
    BY DEF Crash, chainVars
  <2>4. Sound(a) /\ a \notin tooSoon'
    BY <2>2, <2>3, <1>4 DEF CoolInv, Sound
  <2>5. \A q \in Slots : Keeps(q, a)
    BY <1>2 DEF Keeps, Deciding, UnderWay
  <2> QED BY <1>1, <1>4, <2>2, <2>3, <2>4, <2>5, SlotsSound
<1> QED BY <1>3, <1>4 DEF CoolInv, OneWriter

LEMMA TickCool ==
    ASSUME CoolInv, TypeOK', Tick
    PROVE  CoolInv'
<1>1. TypeOK /\ FaucetTypeOK /\ \A q \in Slots : Timely(q)
  BY DEF CoolInv, TypeOK
<1>2. ASSUME NEW q \in Slots
      PROVE  Timely(q)' /\ req'[q].st # "write"
  <2>1. /\ req'[q].st = req[q].st
        /\ req[q].st \in {"lock", "transfer", "adrift"} => req'[q].age = Older(req[q].age)
        /\ req[q].st \notin {"lock", "transfer", "adrift", "remove"} => req'[q] = req[q]
    BY <1>1, TickMoves
  <2>2. /\ req[q].st # "write"
        /\ req[q].st = "lock" => req[q].age = 0
        /\ req[q].st \in UnderWay => req[q].age < Cooldown
    BY DEF Tick, UnderWay
  <2>3. req[q].age \in Nat
    BY <1>1, Numbers, RegistrationAssumption
  <2>4. Older(0) = 1
    BY Constants DEF Older
  <2>5. req[q].age < Cooldown => Older(req[q].age) <= Cooldown
    BY <2>3, Constants DEF Older
  <2> QED BY <1>1, <2>1, <2>2, <2>4, <2>5 DEF Timely, Deciding, UnderWay
<1>3. excused' = excused
  BY DEF Tick
<1>4. ASSUME NEW a \in Accounts \ excused'
      PROVE  Sound(a)'
  BY <1>1, <1>3, <1>4, TickSound DEF CoolInv
<1> QED BY <1>2, <1>4 DEF CoolInv, OneWriter

LEMMA HandlerCool ==
    ASSUME CoolInv, TypeOK', NEW r \in Slots, HandlerStep(r)
    PROVE  CoolInv'
<1>1. TypeOK /\ FaucetTypeOK
  BY DEF CoolInv, TypeOK
<1>2. /\ req[r].acct \in Accounts /\ 0 \in 0..Old /\ Idle.acct \in Accounts /\ "User" \in Kinds
      /\ {"checks", "err"} \subseteq Steps \ (Deciding \cup UnderWay)
  BY <1>1, Numbers, Constants DEF Steps, Deciding, UnderWay
<1>3. CASE GetAccountType(r)
  <2>1. UNCHANGED <<store, paid, balance, tooSoon, excused>>
    BY <1>3 DEF GetAccountType, chainVars, history
  <2>2. PICK k \in Kinds : Put(req, req', r, "checks", req[r].acct, k, req[r].age)
    BY <1>1, <1>3, GetAccountTypeMoves
  <2>3. req[r].age = 0
    BY <1>1, <1>3, GetAccountTypeMoves DEF CoolInv, Timely
  <2> QED BY <1>2, <2>1, <2>2, <2>3, SlotLeft
<1>4. CASE DropTransfer(r)
  <2>1. UNCHANGED <<store, paid, balance, tooSoon, excused>>
    BY <1>4 DEF DropTransfer, chainVars, history
  <2>2. Put(req, req', r, "err", Idle.acct, "User", 0)
    BY <1>1, <1>4, ErrorMoves
  <2> QED BY <1>2, <2>1, <2>2, SlotLeft
<1> QED
  BY <1>3, <1>4, EnsureCool, CheckCool, UpdateCool, ExecuteCool, FailsCool, RemoveCool
     DEF HandlerStep

\* Somebody asks the faucet; an answer is taken.
LEMMA RequestCool ==
    ASSUME CoolInv, TypeOK', UNCHANGED <<store, paid, balance, tooSoon, excused>>,
           NEW r \in Slots, NEW a \in Accounts, Request(r, a)
    PROVE  CoolInv'
<1>1. FaucetTypeOK /\ "kind" \in Steps \ (Deciding \cup UnderWay) /\ "User" \in Kinds /\ 0 \in 0..Old
  BY Constants DEF CoolInv, TypeOK, Steps, Deciding, UnderWay, Kinds
<1>2. Put(req, req', r, "kind", a, "User", 0)
  BY <1>1, RequestMoves
<1> QED BY <1>1, <1>2, SlotLeft

LEMMA TakenCool ==
    ASSUME CoolInv, TypeOK', UNCHANGED <<store, paid, balance, tooSoon, excused>>,
           NEW r \in Slots, Put(req, req', r, "idle", Idle.acct, "User", 0)
    PROVE  CoolInv'
<1>1. "idle" \in Steps \ (Deciding \cup UnderWay) /\ "User" \in Kinds /\ 0 \in 0..Old
      /\ Idle.acct \in Accounts
  BY Constants DEF Steps, Deciding, UnderWay, Kinds
<1> QED BY <1>1, SlotLeft

LEMMA AnsweredCool ==
    ASSUME CoolInv, TypeOK', UNCHANGED <<store, paid, balance, tooSoon, excused>>,
           NEW w \in Waiters, NEW ok \in BOOLEAN, Answered(w, ok)
    PROVE  CoolInv'
<1>1. \/ req' = req
      \/ \E r \in Slots : Put(req, req', r, "idle", Idle.acct, "User", 0)
  BY AnsweredType DEF CoolInv
<1> QED BY <1>1, TakenCool, SlotsUnmoved

LEMMA CoolNext ==
    ASSUME CoolInv, [Next]_vars
    PROVE  CoolInv'
<1> USE DEF startVars, faucetRest, faucetVars, chainVars, history
<1>0. /\ AtStart \in Waiters /\ \A c \in Currencies : c \in Waiters
      /\ TypeOK /\ TypeOK' /\ Operator \in Accounts
  BY NextType, RegistrationAssumption DEF Waiters, CoolInv
<1>1. CASE FaucetStep /\ UNCHANGED startVars
  <2>1. ASSUME NEW r \in Slots, NEW a \in Accounts, StrangerRequests(r, a)
        PROVE  CoolInv'
    BY <1>0, <2>1, RequestCool DEF StrangerRequests
  <2> QED BY <1>0, <1>1, <2>1, HandlerCool, ResendCool, CrashCool, TickCool DEF FaucetStep
<1>2. ASSUME NEW r \in Slots, Unclaimed(r)
      PROVE  CoolInv'
  <2>1. Put(req, req', r, "idle", Idle.acct, "User", 0)
    BY <1>0, <1>2, TakeMoves DEF Unclaimed, TypeOK
  <2> QED BY <1>0, <1>2, <2>1, TakenCool DEF Unclaimed
<1>3. CASE FundAtStart
  <2>1. \E r \in Slots : Request(r, Operator)
    BY <1>3 DEF FundAtStart, GetFunding
  <2> QED BY <1>0, <1>3, <2>1, RequestCool DEF FundAtStart
<1>4. CASE MaybeRegisterPublicKey
  BY <1>0, <1>4, AnsweredCool DEF MaybeRegisterPublicKey
<1>5. ASSUME NEW c \in Currencies, AskFaucet(c)
      PROVE  CoolInv'
  <2>1. \E r \in Slots : Request(r, Operator)
    BY <1>5 DEF AskFaucet, GetFunding
  <2> QED BY <1>0, <1>5, <2>1, RequestCool DEF AskFaucet
<1>6. ASSUME NEW c \in Currencies, Funded(c)
      PROVE  CoolInv'
  BY <1>0, <1>6, AnsweredCool DEF Funded
<1>7. ASSUME NEW c \in Currencies, RegisterVault(c) \/ DepositCollateral(c)
                                   \/ ResendDeposit(c) \/ LateDeposit(c)
      PROVE  CoolInv'
  BY <1>0, <1>7, SlotsUnmoved DEF RegisterVault, DepositCollateral, ResendDeposit, LateDeposit
<1>8. CASE Registered \/ KillVault \/ UNCHANGED vars
  BY <1>0, <1>8, SlotsUnmoved DEF Registered, KillVault, vars
<1> QED
  BY <1>1, <1>2, <1>3, <1>4, <1>5, <1>6, <1>7, <1>8 DEF Next, VaultStep

LEMMA CoolInit == Init => CoolInv
<1> SUFFICES ASSUME Init
             PROVE  CoolInv
  OBVIOUS
<1>1. TypeOK
  BY InitType
<1>2. \A q \in Slots : req[q].st = "idle" /\ req[q].age = 0
  BY Constants DEF Init, FaucetInit
<1>3. (\A q \in Slots : Timely(q)) /\ OneWriter
  BY <1>2 DEF Timely, OneWriter, Deciding, UnderWay
<1>4. ASSUME NEW a \in Accounts
      PROVE  Sound(a)
  <2>1. \A q \in Slots : ~ Decides(q, a) /\ \A k \in Kinds : ~ Flies(q, a, k)
    BY <1>2 DEF Decides, Flies, Deciding, UnderWay
  <2>2. /\ a \notin tooSoon
        /\ \A k \in Kinds : paid[a][k] = Old
        /\ \A c \in Currencies : balance[a][c] = 0
    BY DEF Init, FaucetInit
  <2>3. ApartFrom(a) /\ Recorded(a)
    BY <2>1, <2>2, Constants DEF ApartFrom, Recorded
  <2>4. Bounded(a)
    <3>1. Left(a, "User") \in Nat /\ Left(a, "Vault") \in Nat
      BY <1>1, Numbers
    <3> QED BY <2>2, <3>1, Constants DEF Bounded
  <2>5. \A q \in Slots : Relies(q, a)
    BY <2>1 DEF Relies
  <2> QED BY <2>2, <2>3, <2>4, <2>5 DEF Sound
<1> QED BY <1>1, <1>3, <1>4 DEF CoolInv

\* No account is paid twice, as the same kind, for claims within one cooldown,
\* unless a claim of it was lost or sent twice: any number of requests at once, whoever
\* makes them, before and after its registration as a vault.
THEOREM CooldownAlwaysKept == Spec => []CooldownKept
<1>1. CoolInv => CooldownKept
  BY DEF CoolInv, Sound, CooldownKept, TypeOK, FaucetTypeOK
<1> QED BY <1>1, CoolInit, CoolNext, PTL DEF Spec

\* An account ends at most one claim of each kind above the maximum that the
\* faucet checks before it pays.
THEOREM BalanceAlwaysBounded == Spec => []BalanceBounded
<1>1. CoolInv => BalanceBounded
  <2> SUFFICES ASSUME CoolInv, NEW a \in Accounts \ excused, NEW c \in Currencies
               PROVE  balance[a][c] <= MaxBalance + UserAllowance + VaultAllowance
    BY DEF BalanceBounded
  <2>1. balance[a][c] <= MaxBalance + Left(a, "User") + Left(a, "Vault")
    BY DEF CoolInv, Sound, Bounded
  <2>2. /\ Left(a, "User") \in 0..UserAllowance /\ Left(a, "Vault") \in 0..VaultAllowance
    BY FaucetAssumption DEF Left, Allowance
  <2>3. balance[a][c] \in Nat
    BY Numbers DEF CoolInv
  <2> QED BY <2>1, <2>2, <2>3, FaucetAssumption
<1> QED BY <1>1, CoolInit, CoolNext, PTL DEF Spec
=============================================================================
