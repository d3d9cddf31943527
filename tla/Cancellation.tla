---------------------------- MODULE Cancellation ----------------------------
(***************************************************************************)
(* The cancellation scheduler of vault/src/cancellation.rs, and the        *)
(* listeners that feed it.  One scheduler runs for issue requests and one  *)
(* for replace requests; they differ in the calls they make, and in that   *)
(* the replace listener sends Opened when its own accept_replace is done.  *)
(*                                                                         *)
(* The scheduler keeps a list of open requests and two heights, the active *)
(* parachain block and the relayed bitcoin block, and works through a      *)
(* bounded channel of events.  It does not follow the requests one by one: *)
(* an Opened event only marks the list invalid, and the next event, of     *)
(* whatever kind, makes it query the parachain again.                      *)
(*                                                                         *)
(* Abstractions.  A deadline is the height at which the request was opened *)
(* plus a fixed period.  Heights stop at MaxHeight: the chains go on and   *)
(* their blocks are still announced, but no deadline is beyond it.         *)
(***************************************************************************)
EXTENDS Naturals, Sequences

CONSTANTS
    Requests,           \* issue (or replace) requests of this vault
    ParachainPeriod,    \* the request period in active parachain blocks ...
    BitcoinPeriod,      \* ... and converted to bitcoin blocks, rounded up
    ChannelSize,        \* what the event channel holds: its buffer (32, or 16)
                        \* and one more event for each sender
    MaxHeight,          \* bound: height of either chain
    MaxQueryFaults,     \* bound: queries of the open requests that fail
    MaxCancelFaults,    \* bound: cancellations that fail for no reason
    MaxCrashes          \* bound: restarts before all events are handled

ASSUME CancellationAssumption ==
    /\ ParachainPeriod \in Nat /\ BitcoinPeriod \in Nat
    /\ ChannelSize \in Nat \ {0}
    /\ MaxHeight \in Nat \ {0}
    /\ MaxQueryFaults \in Nat /\ MaxCancelFaults \in Nat /\ MaxCrashes \in Nat

Chains == {"parachain", "bitcoin"}
Period == [c \in Chains |-> IF c = "parachain" THEN ParachainPeriod ELSE BitcoinPeriod]
Heights == [Chains -> 0..MaxHeight]

\* enum Event.
Opened == [type |-> "opened"]
Executed(r) == [type |-> "executed", id |-> r]
Block(c, h) == [type |-> c, height |-> h]
Event == {Opened} \cup {Executed(r) : r \in Requests}
                  \cup {Block(c, h) : c \in Chains, h \in 0..MaxHeight}

\* What a block of the parachain tells the two listeners for requests.
Notices == {"opened", "executed"} \X Requests

VARIABLES
    \* the parachain
    status,         \* status of each request
    height,         \* height of each chain, as the parachain knows it
    openedAt,       \* those heights when a request was opened
    fresh,          \* notices in the finalized head block
    \* the listeners
    subscribed,     \* the request listeners that are subscribed
    notices,        \* notices that they have not yet sent to the scheduler
    announced,      \* height of the last block of each chain sent to it
    channel,        \* events sent and not yet received
    \* CancellationScheduler and handle_cancellation
    pc,             \* where process_event is
    event,          \* the event it handles
    known,          \* parachain_height and bitcoin_height
    list,           \* active_requests
    listState,      \* ListState
    draining,       \* expired requests yet to be cancelled
    \* history and bounds
    told,           \* requests that this generation has a way to know of
    queryFaults, cancelFaults, crashes

chainVars == <<status, height, openedAt, fresh>>
listenerVars == <<subscribed, notices, announced>>
schedulerVars == <<pc, event, known, list, listState, draining>>
boundVars == <<queryFaults, cancelFaults, crashes>>
vars == <<chainVars, listenerVars, channel, schedulerVars, told, boundVars>>

TypeOK ==
    /\ status \in [Requests -> {"none", "open", "executed", "cancelled"}]
    /\ height \in Heights
    /\ openedAt \in [Requests -> Heights]
    /\ fresh \subseteq Notices
    /\ subscribed \subseteq {"opened", "executed"}
    /\ notices \subseteq Notices
    /\ announced \in Heights
    /\ channel \in Seq(Event) /\ Len(channel) <= ChannelSize
    /\ pc \in {"idle", "query", "handle", "cancel"}
    /\ event \in Event
    /\ known \in Heights
    /\ list \subseteq Requests
    /\ listState \in {"Valid", "Invalid"}
    /\ draining \subseteq Requests
    /\ told \subseteq Requests
    /\ queryFaults \in 0..MaxQueryFaults
    /\ cancelFaults \in 0..MaxCancelFaults
    /\ crashes \in 0..MaxCrashes

Open == {r \in Requests : status[r] = "open"}

\* drain_expired, at heights h.
Expired(r, h) == \A c \in Chains : h[c] > openedAt[r][c] + Period[c]

\* The first block a subscription yields is the head of that moment.
BeforeHead == [c \in Chains |-> IF height[c] = 0 THEN 0 ELSE height[c] - 1]

Init ==
    /\ status = [r \in Requests |-> "none"]
    /\ height = [c \in Chains |-> 0]
    /\ openedAt = [r \in Requests |-> [c \in Chains |-> 0]]
    /\ fresh = {}
    /\ subscribed = {}
    /\ notices = {}
    /\ announced = [c \in Chains |-> 0]
    /\ channel = <<>>
    /\ pc = "idle"
    /\ event = Opened
    /\ known = [c \in Chains |-> 0]
    /\ list = {}
    /\ listState = "Invalid"
    /\ draining = {}
    /\ told = {}
    /\ queryFaults = 0 /\ cancelFaults = 0 /\ crashes = 0

----------------------------------------------------------------------------
(***************************************************************************)
(* The parachain.                                                          *)
(***************************************************************************)

\* A block with the notices N is finalized; subscribed listeners get them.
Announce(N) ==
    /\ fresh' = N
    /\ notices' = notices \cup {n \in N : n[1] \in subscribed}
    /\ told' = told \cup {n[2] : n \in {m \in N : m[1] = "opened" /\ "opened" \in subscribed}}

OpenRequest(r) ==
    /\ status[r] = "none"
    /\ status' = [status EXCEPT ![r] = "open"]
    /\ openedAt' = [openedAt EXCEPT ![r] = height]
    /\ Announce({<<"opened", r>>})
    /\ UNCHANGED <<height, subscribed, announced, channel, schedulerVars, boundVars>>

ExecuteRequest(r) ==
    /\ status[r] = "open"
    /\ status' = [status EXCEPT ![r] = "executed"]
    /\ Announce({<<"executed", r>>})
    /\ UNCHANGED <<height, openedAt, subscribed, announced, channel, schedulerVars, boundVars>>

Grow(c) ==
    /\ height[c] < MaxHeight
    /\ height' = [height EXCEPT ![c] = @ + 1]
    /\ Announce({})
    /\ UNCHANGED <<status, openedAt, subscribed, announced, channel, schedulerVars, boundVars>>

----------------------------------------------------------------------------
(***************************************************************************)
(* The listeners.                                                          *)
(***************************************************************************)

Subscribe(l) ==
    /\ l \notin subscribed
    /\ subscribed' = subscribed \cup {l}
    /\ notices' = notices \cup {n \in fresh : n[1] = l}
    /\ told' = told \cup {n[2] : n \in {m \in fresh : m[1] = "opened" /\ l = "opened"}}
    /\ UNCHANGED <<chainVars, announced, channel, schedulerVars, boundVars>>

\* Mutant of Put: the capacity of the channel is off by one.
PutTooMany(e) ==
    /\ Len(channel) <= ChannelSize
    /\ channel' = Append(channel, e)

Put(e) ==
    /\ Len(channel) < ChannelSize
    /\ channel' = Append(channel, e)

\* listen_for_issue_requests, listen_for_issue_executes and their replace
\* counterparts: the event waits until the channel has room.
SendNotice(n) ==
    /\ n \in notices
    /\ Put(IF n[1] = "opened" THEN Opened ELSE Executed(n[2]))
    /\ notices' = notices \ {n}
    /\ UNCHANGED <<chainVars, subscribed, announced, schedulerVars, told, boundVars>>

\* active_block_listener and relay_block_listener.
SendBlock(c) ==
    LET h == IF announced[c] = MaxHeight THEN MaxHeight ELSE announced[c] + 1 IN
    /\ h <= height[c]
    /\ Put(Block(c, h))
    /\ announced' = [announced EXCEPT ![c] = h]
    /\ UNCHANGED <<chainVars, subscribed, notices, schedulerVars, told, boundVars>>

----------------------------------------------------------------------------
(***************************************************************************)
(* CancellationScheduler.                                                  *)
(***************************************************************************)

Idle == pc' = "idle" /\ event' = Opened /\ draining' = {}

\* handle_cancellation: the next event.
Receive ==
    /\ pc = "idle"
    /\ channel # <<>>
    /\ event' = Head(channel)
    /\ channel' = Tail(channel)
    /\ pc' = IF listState = "Invalid" THEN "query" ELSE "handle"
    /\ UNCHANGED <<chainVars, listenerVars, known, list, listState, draining, told, boundVars>>

\* get_open_requests.
Query ==
    /\ pc = "query"
    /\ list' = Open
    /\ pc' = "handle"
    /\ UNCHANGED <<chainVars, listenerVars, channel, event, known, listState, draining,
                   told, boundVars>>

\* The query fails: the list is cleared and the event handled all the same.
QueryFails ==
    /\ pc = "query"
    /\ queryFaults < MaxQueryFaults
    /\ queryFaults' = queryFaults + 1
    /\ list' = {}
    /\ pc' = "handle"
    /\ UNCHANGED <<chainVars, listenerVars, channel, event, known, listState, draining,
                   told, cancelFaults, crashes>>

\* Mutant of HandleBlock: every height is taken for a parachain height.
HandleBlockMixedUp ==
    /\ pc = "handle"
    /\ event.type \in Chains
    /\ known' = [known EXCEPT !["parachain"] = event.height]
    /\ draining' = {r \in list : Expired(r, known')}
    /\ list' = list \ draining'
    /\ pc' = "cancel"
    /\ UNCHANGED <<chainVars, listenerVars, channel, event, listState, told, boundVars>>

\* process_event: a block sets the height and drains the expired requests.
HandleBlock ==
    /\ pc = "handle"
    /\ event.type \in Chains
    /\ known' = [known EXCEPT ![event.type] = event.height]
    /\ draining' = {r \in list : Expired(r, known')}
    /\ list' = list \ draining'
    /\ pc' = "cancel"
    /\ UNCHANGED <<chainVars, listenerVars, channel, event, listState, told, boundVars>>

HandleExecuted ==
    /\ pc = "handle"
    /\ event.type = "executed"
    /\ list' = list \ {event.id}
    /\ listState' = "Valid"
    /\ Idle
    /\ UNCHANGED <<chainVars, listenerVars, channel, known, told, boundVars>>

HandleOpened ==
    /\ pc = "handle"
    /\ event.type = "opened"
    /\ listState' = "Invalid"
    /\ Idle
    /\ UNCHANGED <<chainVars, listenerVars, channel, known, list, told, boundVars>>

\* cancel_requests: the parachain cancels an open request that has expired.
CancelOne(r) ==
    /\ pc = "cancel"
    /\ r \in draining
    /\ status[r] = "open"
    /\ Expired(r, height)
    /\ status' = [status EXCEPT ![r] = "cancelled"]
    /\ draining' = draining \ {r}
    /\ UNCHANGED <<height, openedAt, fresh, listenerVars, channel, pc, event, known, list,
                   listState, told, boundVars>>

\* Mutant of CancelFails: the drained requests are dropped for good.
CancelFailsValid(r) ==
    /\ pc = "cancel"
    /\ r \in draining
    /\ \/ /\ status[r] # "open" \/ ~Expired(r, height)
          /\ UNCHANGED cancelFaults
       \/ /\ cancelFaults < MaxCancelFaults
          /\ cancelFaults' = cancelFaults + 1
    /\ listState' = "Valid"
    /\ Idle
    /\ UNCHANGED <<chainVars, listenerVars, channel, known, list, told, queryFaults, crashes>>

\* A request that the parachain does not let us cancel, or a failed call: the
\* other drained requests are dropped, and the list with them.
CancelFails(r) ==
    /\ pc = "cancel"
    /\ r \in draining
    /\ \/ /\ status[r] # "open" \/ ~Expired(r, height)
          /\ UNCHANGED cancelFaults
       \/ /\ cancelFaults < MaxCancelFaults
          /\ cancelFaults' = cancelFaults + 1
    /\ listState' = "Invalid"
    /\ Idle
    /\ UNCHANGED <<chainVars, listenerVars, channel, known, list, told, queryFaults, crashes>>

CancelDone ==
    /\ pc = "cancel"
    /\ draining = {}
    /\ listState' = "Valid"
    /\ Idle
    /\ UNCHANGED <<chainVars, listenerVars, channel, known, list, told, boundVars>>

----------------------------------------------------------------------------
(***************************************************************************)
(* A new generation of the service: new channel, scheduler and listeners.  *)
(* The parachain height that the scheduler starts with is the block        *)
(* number, which is at least the number of active blocks; the bitcoin      *)
(* height is zero if it cannot be read.                                    *)
(***************************************************************************)
NewGeneration ==
    /\ subscribed' = {}
    /\ notices' = {}
    /\ announced' = BeforeHead
    /\ channel' = <<>>
    /\ known' \in {k \in Heights : /\ k["parachain"] >= height["parachain"]
                                   /\ k["bitcoin"] \in {0, height["bitcoin"]}}
    /\ list' = {}
    /\ listState' = "Invalid"
    /\ told' = Open
    /\ Idle

Crash ==
    /\ crashes < MaxCrashes
    /\ crashes' = crashes + 1
    /\ NewGeneration
    /\ UNCHANGED <<chainVars, queryFaults, cancelFaults>>

\* The restart timer (three hours): there was time enough to subscribe, to
\* learn the heights and to bring the list up to date.
RestartTimer ==
    /\ pc = "idle" /\ listState = "Valid"
    /\ notices = {}
    /\ subscribed = {"opened", "executed"}
    /\ announced = height /\ known = height
    /\ NewGeneration
    /\ UNCHANGED <<chainVars, boundVars>>

----------------------------------------------------------------------------
Parachain ==
    \/ \E r \in Requests : OpenRequest(r) \/ ExecuteRequest(r)
    \/ \E c \in Chains : Grow(c)

Listener ==
    \/ \E l \in {"opened", "executed"} : Subscribe(l)
    \/ \E n \in Notices : SendNotice(n)
    \/ \E c \in Chains : SendBlock(c)

Scheduler ==
    \/ Receive \/ Query \/ QueryFails \/ HandleBlock \/ HandleExecuted \/ HandleOpened
    \/ \E r \in Requests : CancelOne(r) \/ CancelFails(r)
    \/ CancelDone

Next == Parachain \/ Listener \/ Scheduler \/ Crash \/ RestartTimer

Spec == Init /\ [][Next]_vars

\* Blocks keep coming, the listeners and the scheduler run, a cancellation is
\* answered, and the restart timer fires.
Fairness ==
    /\ \A c \in Chains : WF_vars(Grow(c)) /\ SF_vars(SendBlock(c))
    /\ \A l \in {"opened", "executed"} : WF_vars(Subscribe(l))
    /\ \A n \in Notices : SF_vars(SendNotice(n))
    /\ WF_vars(Receive) /\ WF_vars(Query) /\ WF_vars(HandleBlock)
    /\ WF_vars(HandleExecuted) /\ WF_vars(HandleOpened) /\ WF_vars(CancelDone)
    /\ \A r \in Requests : WF_vars(CancelOne(r)) /\ WF_vars(CancelFails(r))
    /\ SF_vars(RestartTimer)

FairSpec == Spec /\ Fairness

----------------------------------------------------------------------------
\* Whenever the scheduler trusts its list, the list has every open request
\* that it has a way to know of: those open when the generation started and
\* those opened under the eyes of the listener, up to the Opened events that
\* are still on their way.
TrustedListComplete ==
    pc = "idle" /\ listState = "Valid" /\ (\A i \in 1..Len(channel) : channel[i] # Opened) =>
        \A r \in told \cap Open : <<"opened", r>> \in notices \/ r \in list

\* The same as long as no query of the open requests fails: whatever the order
\* of events, although requests close while they are handled and cancellations
\* fail midway.
NothingForgotten == queryFaults = 0 => TrustedListComplete

\* An open request that has expired is eventually closed, whatever was missed
\* before the listeners were subscribed, and although queries and
\* cancellations fail and the service crashes.
EventuallyClosed ==
    \A r \in Requests : (status[r] = "open" /\ Expired(r, height)) ~> status[r] # "open"
============================================================================
