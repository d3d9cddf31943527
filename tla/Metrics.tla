------------------------------ MODULE Metrics -------------------------------
(***************************************************************************)
(* The vault's prometheus metrics (vault/src/metrics.rs), on top of the    *)
(* registries: the gauges of a vault id are those of a label made of the   *)
(* symbol its collateral has when the vault id is added, and the gauges of *)
(* a label live as long as the process.                                    *)
(*                                                                         *)
(* Two tasks write them: poll_metrics reads the requests and then          *)
(* publishes their number and the time to the first deadline, and          *)
(* monitor_bridge_metrics publishes the collateral when the oracle feeds a *)
(* price.  A vault id that is added has its collateral published, too.     *)
(*                                                                         *)
(* Abstractions.  Time is counted in parachain blocks.  The three gauges   *)
(* of the collateral are one; the gauges that only repeat what a call      *)
(* returns (balances, unspent outputs, tokio) are left out, and so are the *)
(* average fee and the fee budget, which depend on what entries the        *)
(* wallet's list of transactions has.                                      *)
(***************************************************************************)
EXTENDS Registry, FiniteSetsExt

CONSTANTS
    Issues, Redeems,    \* requests that can be made
    VaultOf,            \* vault id of a request
    RedeemPeriod,       \* redeem_period of the parachain, in parachain blocks
    PeriodOf,           \* the period a redeem was requested with
    ParaPerBtc,         \* parachain blocks per bitcoin block
    MaxPara, MaxBtc     \* bounds: heights of the chains

Requests == Issues \cup Redeems

ASSUME MetricsAssumption ==
    /\ Issues \cap Redeems = {}
    /\ VaultOf \in [Requests -> Assets]
    /\ PeriodOf \in [Redeems -> Nat]
    /\ {RedeemPeriod, ParaPerBtc} \subseteq Nat \ {0}
    /\ {MaxPara, MaxBtc} \subseteq Nat

VARIABLES
    \* the chains
    status,         \* of each request
    opened,         \* heights of the two chains when a redeem was made
    para, btc,      \* their heights now
    collateral,     \* collateral of a vault id
    \* the process
    gauge,          \* the gauges of each label
    \* the generation
    label,          \* label of the metrics of each entry
    poll,           \* where poll_metrics is
    snap,           \* the requests it has read
    round           \* it has published everything once

requestVars == <<status, opened, para, btc, collateral>>
metricVars == <<gauge, label, poll, snap, round>>
metricsVars == <<registryVars, requestVars, metricVars>>

Labels == Symbols \cup {0}
Status == {"none", "pending", "completed", "expired"}
NoGauges == [issues |-> <<0, 0, 0>>, redeems |-> <<0, 0, 0>>, remaining |-> 0,
             locked |-> 0]

TypeOK ==
    /\ RegistryTypeOK
    /\ status \in [Requests -> Status]
    /\ opened \in [Redeems -> (0..MaxPara) \X (0..MaxBtc)]
    /\ para \in 0..MaxPara /\ btc \in 0..MaxBtc
    /\ collateral \in [Assets -> {0, 1}]
    /\ \A l \in Labels :
         /\ \A c \in {gauge[l].issues, gauge[l].redeems} : Len(c) = 3
         /\ gauge[l].remaining \in Nat /\ gauge[l].locked \in {0, 1}
    /\ label \in [Assets -> Labels]
    /\ poll \in {"issues", "publishIssues", "redeems", "publishRedeems", "deadline"}
    /\ snap \in [Requests -> Status]
    /\ round \in BOOLEAN

Init ==
    /\ RegistryInit
    /\ \E open \in SUBSET {r \in Redeems : VaultOf[r] \in vaults} :
         status = [r \in Requests |-> IF r \in open THEN "pending" ELSE "none"]
    /\ opened = [r \in Redeems |-> <<0, 0>>]
    /\ para = 0 /\ btc = 0
    /\ collateral = [v \in Assets |-> 0]
    /\ gauge = [l \in Labels |-> NoGauges]
    /\ label = [v \in Assets |-> 0]
    /\ poll = "issues"
    /\ snap = [r \in Requests |-> "none"]
    /\ round = FALSE

----------------------------------------------------------------------------
(***************************************************************************)
(* Deadlines.                                                              *)
(***************************************************************************)

Larger(x, y) == IF x > y THEN x ELSE y
Monus(x, y) == IF x > y THEN x - y ELSE 0

Period(r) == Larger(RedeemPeriod, PeriodOf[r])
\* parachain_blocks_to_bitcoin_blocks_rounded_up.
BitcoinPeriod(r) == (Period(r) + ParaPerBtc - 1) \div ParaPerBtc

\* Mutant: only the parachain's deadline counts.
CalculateRemainingTime_Either(r) ==
    Monus(opened[r][1] + Period(r), para)

\* calculate_remaining_time: a redeem ends when both chains have passed its
\* deadline.
CalculateRemainingTime(r) ==
    Larger(Monus(opened[r][1] + Period(r), para),
           ParaPerBtc * Monus(opened[r][2] + BitcoinPeriod(r), btc))

\* When the parachain lets a redeem be cancelled: both chains are past the
\* deadline.
ExpiredAt(r, p, b) ==
    /\ p > opened[r][1] + Period(r)
    /\ b > opened[r][2] + BitcoinPeriod(r)
Expired(r) == ExpiredAt(r, para, btc)

----------------------------------------------------------------------------
(***************************************************************************)
(* The chains.                                                             *)
(***************************************************************************)

Step == changes < MaxChanges /\ changes' = changes + 1
RegistryRest == <<symbol, markets, vaults, liquidated, assetVars, phase, queue,
                  entries, faults>>

MakeRequest(r) ==
    /\ status[r] = "none" /\ VaultOf[r] \in vaults \ liquidated
    /\ Step
    /\ status' = [status EXCEPT ![r] = "pending"]
    /\ opened' = IF r \in Redeems THEN [opened EXCEPT ![r] = <<para, btc>>] ELSE opened
    /\ UNCHANGED <<RegistryRest, para, btc, collateral, metricVars>>

CloseRequest(r) ==
    /\ status[r] = "pending"
    /\ Step
    /\ \E s \in {"completed", "expired"} :
         /\ s = "expired" /\ r \in Redeems => Expired(r)
         /\ status' = [status EXCEPT ![r] = s]
    /\ UNCHANGED <<RegistryRest, opened, para, btc, collateral, metricVars>>

LockCollateral(v) ==
    /\ v \in vaults /\ collateral[v] = 0
    /\ Step
    /\ collateral' = [collateral EXCEPT ![v] = 1]
    /\ UNCHANGED <<RegistryRest, status, opened, para, btc, metricVars>>

\* Blocks of the chains.
Tick ==
    /\ Step
    /\ \E p \in para..MaxPara, b \in btc..MaxBtc : p + b > para + btc /\ para' = p /\ btc' = b
    /\ UNCHANGED <<RegistryRest, status, opened, collateral, metricVars>>

----------------------------------------------------------------------------
(***************************************************************************)
(* The tasks.                                                              *)
(***************************************************************************)

\* Sets a gauge of every entry v to val[v].  When two of them have the same
\* label either may be the last.
Set(field, val) ==
    \E last \in [{label[v] : v \in entries} -> entries] :
        /\ \A l \in DOMAIN last : label[last[l]] = l
        /\ gauge' = [l \in Labels |-> IF l \in DOMAIN last
                                       THEN [gauge[l] EXCEPT ![field] = val[last[l]]]
                                       ELSE gauge[l]]

\* Mutant: all vault ids have the same label.
PerCurrencyLabel_Fixed(v) == CHOOSE s \in Symbols : TRUE

\* PerCurrencyMetrics::label.
PerCurrencyLabel(v) == SymbolOf(v)

\* PerCurrencyMetrics::new and initialize_values for the vault ids S that
\* are added.
InitializeValues(S) ==
    /\ label' = [v \in Assets |-> IF v \in S THEN PerCurrencyLabel(v) ELSE label[v]]
    /\ \E last \in [{label'[v] : v \in S} -> S] :
         /\ \A l \in DOMAIN last : label'[last[l]] = l
         /\ gauge' = [l \in Labels |->
                        IF l \in DOMAIN last
                        THEN [gauge[l] EXCEPT !.locked = collateral[last[l]]]
                        ELSE gauge[l]]

\* add_vault_id, at the start and on an event.
AddVaultIds ==
    /\ FetchVaultIds \/ ListenForVaultIdRegistrations
    /\ InitializeValues(entries' \ entries)
    /\ UNCHANGED <<requestVars, poll, snap, round>>

\* How many of the requests S of vault id v are open, completed, expired.
Counts(S, v, st) ==
    LET number(x) == Cardinality({r \in S : VaultOf[r] = v /\ st[r] = x})
    IN  <<number("pending"), number("completed"), number("expired")>>

PollStep(from, to) ==
    /\ phase = "running" /\ poll = from /\ poll' = to
    /\ UNCHANGED <<requestVars, label>>

\* A query of the requests S; one that fails is passed over.
QueryRequests(S, from, to) ==
    /\ PollStep(from, to)
    /\ snap' = [r \in Requests |-> IF r \in S THEN status[r] ELSE "none"]
    /\ UNCHANGED <<registryVars, gauge, round>>

QueryRequestsFails(from, to) ==
    /\ PollStep(from, to)
    /\ faults < MaxFaults
    /\ faults' = faults + 1
    /\ UNCHANGED <<chainVars, assetVars, phase, queue, entries, gauge, snap, round>>

PublishIssueCount ==
    /\ PollStep("publishIssues", "redeems")
    /\ Set("issues", [v \in Assets |-> Counts(Issues, v, snap)])
    /\ snap' = [r \in Requests |-> "none"]
    /\ UNCHANGED <<registryVars, round>>

PublishRedeemCount ==
    /\ PollStep("publishRedeems", "deadline")
    /\ Set("redeems", [v \in Assets |-> Counts(Redeems, v, snap)])
    /\ UNCHANGED <<registryVars, snap, round>>

\* Without a redeem to pay, the redeem period.
TimeToFirstDeadline(v, st) ==
    LET open == {r \in Redeems : VaultOf[r] = v /\ st[r] = "pending"}
    IN  IF open = {} THEN RedeemPeriod
        ELSE Min({CalculateRemainingTime(r) : r \in open})

PublishTimeToFirstDeadline ==
    /\ PollStep("deadline", "issues")
    /\ Set("remaining", [v \in Assets |-> TimeToFirstDeadline(v, snap)])
    /\ snap' = [r \in Requests |-> "none"]
    /\ round' = TRUE
    /\ UNCHANGED registryVars

\* poll_metrics.
PollMetrics ==
    \/ QueryRequests(Issues, "issues", "publishIssues") \/ PublishIssueCount
    \/ QueryRequests(Redeems, "redeems", "publishRedeems") \/ PublishRedeemCount
    \/ PublishTimeToFirstDeadline

\* publish_locked_collateral, _required_collateral and _collateralization.
PublishLockedCollateral(v) == [gauge EXCEPT ![label[v]].locked = collateral[v]]

\* monitor_bridge_metrics: the oracle feeds the price of a collateral.
MonitorBridgeMetrics(v) ==
    /\ phase = "running" /\ v \in entries
    /\ gauge' = PublishLockedCollateral(v)
    /\ UNCHANGED <<registryVars, requestVars, label, poll, snap, round>>

\* The generation ends; the gauges stay.
EndGeneration ==
    /\ Restart
    /\ poll' = "issues"
    /\ snap' = [r \in Requests |-> "none"]
    /\ round' = FALSE
    /\ label' = [v \in Assets |-> 0]
    /\ UNCHANGED <<requestVars, gauge>>

\* The timer goes off after many rounds of poll_metrics.
RestartTimer == round /\ EndGeneration

Next ==
    \/ RegistryStep /\ UNCHANGED <<requestVars, metricVars>>
    \/ \E r \in Requests : MakeRequest(r) \/ CloseRequest(r)
    \/ \E v \in Assets : LockCollateral(v) \/ MonitorBridgeMetrics(v)
    \/ Tick \/ AddVaultIds \/ PollMetrics \/ RestartTimer
    \/ QueryRequestsFails("issues", "redeems") \/ QueryRequestsFails("redeems", "issues")

\* The service starts, polls and is restarted every three hours.
Fairness ==
    WF_metricsVars(\/ StoreAssetsMetadata /\ UNCHANGED <<requestVars, metricVars>>
                   \/ FetchVaultIds /\ AddVaultIds
                   \/ Subscribe /\ UNCHANGED <<requestVars, metricVars>>
                   \/ PollMetrics /\ ~ round
                   \/ RestartTimer)

Spec == Init /\ [][Next]_metricsVars /\ Fairness

----------------------------------------------------------------------------
(***************************************************************************)
(* Properties.                                                             *)
(***************************************************************************)

\* Once the chains are quiet, every vault id the running service serves has
\* gauges of its own that show its requests and its collateral, although
\* labels go stale when an asset is renamed and polls read and publish at
\* different times.
GaugesSettle ==
    <>[](round => \A v \in entries :
             /\ gauge[label[v]].issues = Counts(Issues, v, status)
             /\ gauge[label[v]].redeems = Counts(Redeems, v, status)
             /\ gauge[label[v]].locked = collateral[v])

\* In the end the time to the first deadline is zero if there is a redeem that
\* the parachain lets somebody cancel, and only if there is one that it will
\* let somebody cancel after another block of each chain: the gauge is neither
\* alarming nor reassuring without reason.
DeadlineSettles ==
    <>[](round => \A v \in entries :
             LET open == {r \in Redeems : VaultOf[r] = v /\ status[r] = "pending"}
                 zero == gauge[label[v]].remaining = 0
             IN  /\ (\E r \in open : Expired(r)) => zero
                 /\ zero => \E r \in open : ExpiredAt(r, para + 1, btc + 1))
=============================================================================
