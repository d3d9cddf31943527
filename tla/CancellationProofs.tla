------------------------ MODULE CancellationProofs ------------------------
(***************************************************************************)
(* Proofs about Cancellation, for any set of requests, any size of the     *)
(* event channel and any number of faults: type correctness, and that the  *)
(* list of open requests, while it is trusted, lacks none of them as long  *)
(* as the queries succeed.                                                 *)
(***************************************************************************)
EXTENDS Cancellation, TLAPS

\* Requests that the list should have: open ones that this generation knows
\* of and whose opening is not waiting to be sent.
Due == {r \in told : status[r] = "open" /\ <<"opened", r>> \notin notices}

\* An Opened event is on its way.
Coming == \E i \in 1..Len(channel) : channel[i] = Opened

\* Only requests that were opened are known, or announced as opened.
KnownWasOpened ==
    /\ \A r \in told : status[r] # "none"
    /\ \A r \in Requests : <<"opened", r>> \in fresh => status[r] # "none"

\* Only requests that are no longer open are announced as executed, at each
\* stage from the parachain's block to the event that is being handled.
ExecutedIsOver(r) ==
    \/ <<"executed", r>> \in fresh \cup notices
    \/ \E i \in 1..Len(channel) : channel[i] = Executed(r)
    \/ event = Executed(r)
    => status[r] \notin {"none", "open"}

ExecutedAreOver == \A r \in Requests : ExecutedIsOver(r)

\* The list has what is due, or an event to come will invalidate it.  While
\* requests are being cancelled, the drained ones count too.
ListComplete ==
    queryFaults = 0 =>
        /\ pc = "idle" /\ listState = "Valid" => Coming \/ Due \subseteq list
        /\ pc = "handle" => event = Opened \/ Coming \/ Due \subseteq list
        /\ pc = "cancel" => Coming \/ Due \subseteq list \cup draining

IInv == TypeOK /\ KnownWasOpened /\ ExecutedAreOver /\ ListComplete

----------------------------------------------------------------------------
\* The constructors of events make events, and different ones.
LEMMA Events ==
    /\ Opened \in Event
    /\ \A r \in Requests : Executed(r) \in Event /\ Executed(r) # Opened
    /\ \A c \in Chains, h \in 0..MaxHeight :
        /\ Block(c, h) \in Event
        /\ Block(c, h) # Opened
        /\ \A r \in Requests : Block(c, h) # Executed(r)
    /\ \A r, s \in Requests : Executed(r) = Executed(s) => r = s
<1>1. Opened \in Event
  BY DEF Event
<1>2. ASSUME NEW r \in Requests
      PROVE  Executed(r) \in Event /\ Executed(r).type = "executed" /\ Executed(r).id = r
  BY DEF Event, Executed
<1>3. ASSUME NEW c \in Chains, NEW h \in 0..MaxHeight
      PROVE  Block(c, h) \in Event /\ Block(c, h).type = c
  BY DEF Event, Block
<1>4. Opened.type = "opened"
  BY DEF Opened
<1>5. \A c \in Chains : c # "opened" /\ c # "executed"
  BY DEF Chains
<1>6. \A c \in Chains, h \in 0..MaxHeight :
        Block(c, h) # Opened /\ \A r \in Requests : Block(c, h) # Executed(r)
  BY <1>2, <1>3, <1>4, <1>5
<1>7. \A r \in Requests : Executed(r) # Opened
  BY <1>2, <1>4
<1>8. \A r, s \in Requests : Executed(r) = Executed(s) => r = s
  BY <1>2
<1> QED
  BY <1>1, <1>2, <1>3, <1>6, <1>7, <1>8

\* The kinds of events, by their type.
LEMMA EventKinds ==
    ASSUME NEW e \in Event
    PROVE  /\ e.type \in Chains => e.height \in 0..MaxHeight /\ e # Opened
           /\ e.type = "executed" => e.id \in Requests /\ e = Executed(e.id)
           /\ e.type = "opened" => e = Opened
BY DEF Opened, Executed, Block, Event, Chains

\* Initially all is well.
LEMMA InitInv == Init => IInv
<1> SUFFICES ASSUME Init PROVE IInv
  OBVIOUS
<1>1. TypeOK
  BY CancellationAssumption, Events DEF Init, TypeOK, Heights
<1>2. KnownWasOpened
  BY DEF Init, KnownWasOpened
<1>3. ExecutedAreOver
  BY Events DEF Init, ExecutedAreOver, ExecutedIsOver
<1>4. ListComplete
  BY DEF Init, ListComplete
<1> QED
  BY <1>1, <1>2, <1>3, <1>4 DEF IInv

----------------------------------------------------------------------------
\* Every step keeps the types.
LEMMA NextType == TypeOK /\ [Next]_vars => TypeOK'
<1> SUFFICES ASSUME TypeOK, [Next]_vars PROVE TypeOK'
  OBVIOUS
<1> USE CancellationAssumption
<1>1. ASSUME NEW r \in Requests, OpenRequest(r) PROVE TypeOK'
  BY <1>1 DEF OpenRequest, Announce, TypeOK, Heights, Notices, schedulerVars, boundVars
<1>2. ASSUME NEW r \in Requests, ExecuteRequest(r) PROVE TypeOK'
  BY <1>2 DEF ExecuteRequest, Announce, TypeOK, Heights, Notices, schedulerVars, boundVars
<1>3. ASSUME NEW c \in Chains, Grow(c) PROVE TypeOK'
  BY <1>3 DEF Grow, Announce, TypeOK, Heights, Notices, schedulerVars, boundVars
<1>4. ASSUME NEW l \in {"opened", "executed"}, Subscribe(l) PROVE TypeOK'
  BY <1>4 DEF Subscribe, TypeOK, Notices, chainVars, schedulerVars, boundVars
<1>5. ASSUME NEW n \in Notices, SendNotice(n) PROVE TypeOK'
  <2>1. (IF n[1] = "opened" THEN Opened ELSE Executed(n[2])) \in Event
    BY Events DEF Notices
  <2> QED
    BY <1>5, <2>1 DEF SendNotice, Put, TypeOK, chainVars, schedulerVars, boundVars
<1>6. ASSUME NEW c \in Chains, SendBlock(c) PROVE TypeOK'
  <2> DEFINE h == IF announced[c] = MaxHeight THEN MaxHeight ELSE announced[c] + 1
  <2>1. h \in 0..MaxHeight
    BY DEF TypeOK, Heights
  <2>2. Block(c, h) \in Event
    BY <2>1, Events
  <2>3. /\ Put(Block(c, h)) /\ announced' = [announced EXCEPT ![c] = h]
        /\ UNCHANGED <<chainVars, subscribed, notices, schedulerVars, told, boundVars>>
    BY <1>6 DEF SendBlock
  <2> HIDE DEF h
  <2> QED
    BY <2>1, <2>2, <2>3 DEF Put, TypeOK, Heights, chainVars, schedulerVars, boundVars
<1>7. CASE Receive
  BY <1>7 DEF Receive, TypeOK, chainVars, listenerVars, boundVars
<1>8. CASE Query
  BY <1>8 DEF Query, Open, TypeOK, chainVars, listenerVars, boundVars
<1>9. CASE QueryFails
  BY <1>9 DEF QueryFails, TypeOK, chainVars, listenerVars
<1>10. CASE HandleBlock
  <2>1. event.height \in 0..MaxHeight /\ event.type \in Chains
    BY <1>10, EventKinds DEF HandleBlock, TypeOK
  <2>2. known' \in Heights
    BY <1>10, <2>1 DEF HandleBlock, TypeOK, Heights
  <2> QED
    BY <1>10, <2>2 DEF HandleBlock, TypeOK, chainVars, listenerVars, boundVars
<1>11. CASE HandleExecuted
  BY <1>11, Events DEF HandleExecuted, Idle, TypeOK, chainVars, listenerVars, boundVars
<1>12. CASE HandleOpened
  BY <1>12, Events DEF HandleOpened, Idle, TypeOK, chainVars, listenerVars, boundVars
<1>13. ASSUME NEW r \in Requests, CancelOne(r) PROVE TypeOK'
  BY <1>13 DEF CancelOne, TypeOK, listenerVars, boundVars
<1>14. ASSUME NEW r \in Requests, CancelFails(r) PROVE TypeOK'
  BY <1>14, Events DEF CancelFails, Idle, TypeOK, chainVars, listenerVars
<1>15. CASE CancelDone
  BY <1>15, Events DEF CancelDone, Idle, TypeOK, chainVars, listenerVars, boundVars
<1>16. ASSUME NewGeneration, UNCHANGED <<chainVars, queryFaults, cancelFaults>>,
              crashes' \in 0..MaxCrashes
       PROVE  TypeOK'
  <2>1. BeforeHead \in Heights
    BY DEF BeforeHead, Heights, TypeOK
  <2> QED
    BY <1>16, <2>1, Events DEF NewGeneration, Idle, Open, TypeOK, chainVars
<1>17. CASE Crash
  BY <1>16, <1>17 DEF Crash, TypeOK
<1>18. CASE RestartTimer
  BY <1>16, <1>18 DEF RestartTimer, TypeOK, boundVars
<1>19. CASE UNCHANGED vars
  BY <1>19 DEF TypeOK, vars, chainVars, listenerVars, schedulerVars, boundVars
<1> QED
  BY <1>1, <1>2, <1>3, <1>4, <1>5, <1>6, <1>7, <1>8, <1>9, <1>10, <1>11, <1>12, <1>13,
     <1>14, <1>15, <1>17, <1>18, <1>19 DEF Next, Parachain, Listener, Scheduler

\* Every variable of the scheduler, its listeners and the parachain keeps its
\* type; in particular the event channel never holds more than it may.
THEOREM CancellationTypeCorrect == Spec => []TypeOK
<1>1. Init => TypeOK
  BY InitInv DEF IInv
<1> QED
  BY <1>1, NextType, PTL DEF Spec

----------------------------------------------------------------------------
\* What is in the channel after an event was put into it.
LEMMA PutEffect ==
    ASSUME TypeOK, NEW e \in Event, Put(e)
    PROVE  /\ Coming => Coming'
           /\ e = Opened => Coming'
           /\ \A x : (\E i \in 1..Len(channel') : channel'[i] = x) =>
                        x = e \/ \E i \in 1..Len(channel) : channel[i] = x
<1>1. /\ Len(channel') = Len(channel) + 1 /\ Len(channel) \in Nat
      /\ channel'[Len(channel) + 1] = e
      /\ \A i \in 1..Len(channel) : channel'[i] = channel[i]
  BY DEF TypeOK, Put
<1> QED
  BY <1>1 DEF Coming

\* What is in the channel after its first event was taken.
LEMMA TakeEffect ==
    ASSUME TypeOK, Receive
    PROVE  /\ Coming => event' = Opened \/ Coming'
           /\ \A x : event' = x \/ (\E i \in 1..Len(channel') : channel'[i] = x) =>
                        \E i \in 1..Len(channel) : channel[i] = x
<1>1. /\ Len(channel) \in Nat /\ Len(channel) >= 1
      /\ Len(channel') = Len(channel) - 1
      /\ event' = channel[1]
      /\ \A i \in 1..Len(channel') : channel'[i] = channel[i + 1]
  BY DEF TypeOK, Receive
<1>2. ASSUME NEW i \in 1..Len(channel), i # 1
      PROVE  i - 1 \in 1..Len(channel') /\ channel'[i - 1] = channel[i]
  <2>1. i - 1 \in 1..Len(channel') /\ (i - 1) + 1 = i
    BY <1>1, <1>2
  <2> QED
    BY <1>1, <2>1
<1>3. ASSUME NEW i \in 1..Len(channel') PROVE i + 1 \in 1..Len(channel)
  BY <1>1
<1>4. Coming => event' = Opened \/ Coming'
  BY <1>1, <1>2 DEF Coming
<1>5. ASSUME NEW x, event' = x \/ (\E i \in 1..Len(channel') : channel'[i] = x)
      PROVE  \E i \in 1..Len(channel) : channel[i] = x
  <2>1. CASE event' = x
    BY <2>1, <1>1
  <2>2. CASE \E i \in 1..Len(channel') : channel'[i] = x
    BY <2>2, <1>1, <1>3
  <2> QED
    BY <1>5, <2>1, <2>2
<1> QED
  BY <1>4, <1>5

\* Steps of the parachain: what they announce is kept where it belongs.
LEMMA ParachainInv == IInv /\ Parachain => IInv'
<1> SUFFICES ASSUME IInv, Parachain PROVE IInv'
  OBVIOUS
<1>t. TypeOK'
  BY NextType DEF IInv, Next
<1>1. ASSUME NEW r \in Requests, OpenRequest(r) PROVE IInv'
  <2>1. /\ status \in [Requests -> {"none", "open", "executed", "cancelled"}]
        /\ status[r] = "none" /\ status' = [status EXCEPT ![r] = "open"]
        /\ fresh' = {<<"opened", r>>}
        /\ notices' = notices \cup {n \in {<<"opened", r>>} : n[1] \in subscribed}
        /\ told' = told \cup {n[2] : n \in {m \in {<<"opened", r>>} :
                                    m[1] = "opened" /\ "opened" \in subscribed}}
        /\ UNCHANGED <<channel, event, pc, list, listState, draining, queryFaults>>
    BY <1>1 DEF IInv, TypeOK, OpenRequest, Announce, schedulerVars, boundVars
  <2>2. \A s : s \in told' => s \in told \/ (s = r /\ <<"opened", r>> \in notices')
    BY <2>1
  <2>3. told \subseteq Requests /\ r \notin told
    BY <2>1 DEF IInv, TypeOK, KnownWasOpened
  <2>4. KnownWasOpened'
    BY <2>1, <2>3, <2>2 DEF IInv, KnownWasOpened
  <2>5. ExecutedAreOver'
    BY <2>1 DEF IInv, ExecutedAreOver, ExecutedIsOver
  <2>6. Due' \subseteq Due
    BY <2>1, <2>3, <2>2 DEF Due
  <2>7. ListComplete'
    BY <2>1, <2>6 DEF IInv, ListComplete, Coming
  <2> QED
    BY <1>t, <2>4, <2>5, <2>7 DEF IInv
<1>2. ASSUME NEW r \in Requests, ExecuteRequest(r) PROVE IInv'
  <2>1. /\ status \in [Requests -> {"none", "open", "executed", "cancelled"}]
        /\ status[r] = "open" /\ status' = [status EXCEPT ![r] = "executed"]
        /\ fresh' = {<<"executed", r>>}
        /\ notices' = notices \cup {n \in {<<"executed", r>>} : n[1] \in subscribed}
        /\ told' = told
        /\ UNCHANGED <<channel, event, pc, list, listState, draining, queryFaults>>
    BY <1>2 DEF IInv, TypeOK, ExecuteRequest, Announce, schedulerVars, boundVars
  <2>2. told \subseteq Requests
    BY DEF IInv, TypeOK
  <2>3. KnownWasOpened'
    BY <2>1, <2>2 DEF IInv, KnownWasOpened
  <2>4. ExecutedAreOver'
    BY <2>1 DEF IInv, ExecutedAreOver, ExecutedIsOver
  <2>5. Due' \subseteq Due
    BY <2>1, <2>2 DEF Due
  <2>6. ListComplete'
    BY <2>1, <2>5 DEF IInv, ListComplete, Coming
  <2> QED
    BY <1>t, <2>3, <2>4, <2>6 DEF IInv
<1>3. ASSUME NEW c \in Chains, Grow(c) PROVE IInv'
  <2>1. /\ fresh' = {} /\ notices' = notices /\ told' = told
        /\ UNCHANGED <<status, channel, event, pc, list, listState, draining, queryFaults>>
    BY <1>3 DEF Grow, Announce, schedulerVars, boundVars
  <2> QED
    BY <1>t, <2>1 DEF IInv, KnownWasOpened, ExecutedAreOver, ExecutedIsOver, ListComplete,
                      Coming, Due
<1> QED
  BY <1>1, <1>2, <1>3 DEF Parachain

\* Steps of the listeners: a request that becomes due was sent as Opened.
LEMMA ListenerInv == IInv /\ Listener => IInv'
<1> SUFFICES ASSUME IInv, Listener PROVE IInv'
  OBVIOUS
<1>t. TypeOK /\ TypeOK'
  BY NextType DEF IInv, Next
<1>1. ASSUME NEW l \in {"opened", "executed"}, Subscribe(l) PROVE IInv'
  <2>1. /\ fresh \subseteq Notices
        /\ notices' = notices \cup {n \in fresh : n[1] = l}
        /\ told' = told \cup {n[2] : n \in {m \in fresh : m[1] = "opened" /\ l = "opened"}}
        /\ UNCHANGED <<status, fresh, channel, event, pc, list, listState, draining, queryFaults>>
    BY <1>1, <1>t DEF TypeOK, Subscribe, chainVars, schedulerVars, boundVars
  <2>2. \A s \in told' : s \in told \/ (<<"opened", s>> \in fresh /\ <<"opened", s>> \in notices')
    <3>1. \A n \in fresh : n = <<n[1], n[2]>>
      BY <2>1 DEF Notices
    <3> QED
      BY <2>1, <3>1
  <2>3. told' \subseteq Requests
    BY <1>t DEF TypeOK
  <2>4. KnownWasOpened'
    BY <2>1, <2>2, <2>3 DEF IInv, KnownWasOpened
  <2>5. ExecutedAreOver'
    BY <2>1 DEF IInv, ExecutedAreOver, ExecutedIsOver
  <2>6. Due' \subseteq Due
    BY <2>1, <2>2 DEF Due
  <2>7. ListComplete'
    BY <2>1, <2>6 DEF IInv, ListComplete, Coming
  <2> QED
    BY <1>t, <2>4, <2>5, <2>7 DEF IInv
<1>2. ASSUME NEW n \in Notices, SendNotice(n) PROVE IInv'
  <2> DEFINE e == IF n[1] = "opened" THEN Opened ELSE Executed(n[2])
  <2>1. /\ e \in Event /\ Put(e)
        /\ n \in notices /\ notices' = notices \ {n}
        /\ UNCHANGED <<status, fresh, told, event, pc, list, listState, draining, queryFaults>>
    BY <1>2, Events DEF SendNotice, Notices, chainVars, schedulerVars, boundVars
  <2>2. /\ Coming => Coming'
        /\ n[1] = "opened" => Coming'
        /\ \A x : (\E i \in 1..Len(channel') : channel'[i] = x) =>
                     x = e \/ \E i \in 1..Len(channel) : channel[i] = x
    BY <1>t, <2>1, PutEffect
  <2>3. KnownWasOpened'
    BY <2>1 DEF IInv, KnownWasOpened
  <2>4. ASSUME NEW r \in Requests PROVE ExecutedIsOver(r)'
    <3>1. e = Executed(r) => n = <<"executed", r>>
      BY Events DEF Notices
    <3>2. (\E i \in 1..Len(channel') : channel'[i] = Executed(r)) =>
              n = <<"executed", r>> \/ \E i \in 1..Len(channel) : channel[i] = Executed(r)
      BY <2>2, <3>1
    <3>3. ExecutedIsOver(r)
      BY DEF IInv, ExecutedAreOver
    <3> QED
      BY <2>1, <3>2, <3>3 DEF ExecutedIsOver, Executed
  <2>5. n[1] = "executed" => Due' \subseteq Due
    BY <2>1 DEF Due
  <2>6. Coming' \/ (n[1] = "executed" /\ Due' \subseteq Due)
    BY <2>2, <2>5 DEF Notices
  <2>7. ListComplete'
    BY <2>1, <2>2, <2>6 DEF IInv, ListComplete
  <2> QED
    BY <1>t, <2>3, <2>4, <2>7 DEF IInv, ExecutedAreOver
<1>3. ASSUME NEW c \in Chains, SendBlock(c) PROVE IInv'
  <2>1. PICK h \in 0..MaxHeight : Put(Block(c, h))
    <3>1. (IF announced[c] = MaxHeight THEN MaxHeight ELSE announced[c] + 1) \in 0..MaxHeight
      BY <1>t, CancellationAssumption DEF TypeOK, Heights
    <3> QED
      BY <1>3, <3>1 DEF SendBlock
  <2>2. UNCHANGED <<status, fresh, told, notices, event, pc, list, listState, draining, queryFaults>>
    BY <1>3 DEF SendBlock, chainVars, schedulerVars, boundVars
  <2>3. /\ Coming => Coming'
        /\ \A x : (\E i \in 1..Len(channel') : channel'[i] = x) =>
                     x = Block(c, h) \/ \E i \in 1..Len(channel) : channel[i] = x
    BY <1>t, <2>1, PutEffect, Events
  <2>4. KnownWasOpened'
    BY <2>2 DEF IInv, KnownWasOpened
  <2>5. ASSUME NEW r \in Requests PROVE ExecutedIsOver(r)'
    <3>1. Block(c, h) # Executed(r)
      BY Events
    <3>2. (\E i \in 1..Len(channel') : channel'[i] = Executed(r)) =>
              \E i \in 1..Len(channel) : channel[i] = Executed(r)
      BY <2>3, <3>1
    <3>3. ExecutedIsOver(r)
      BY DEF IInv, ExecutedAreOver
    <3> QED
      BY <2>2, <3>2, <3>3 DEF ExecutedIsOver, Executed
  <2>6. ListComplete'
    BY <2>2, <2>3 DEF IInv, ListComplete, Due
  <2> QED
    BY <1>t, <2>4, <2>5, <2>6 DEF IInv, ExecutedAreOver
<1> QED
  BY <1>1, <1>2, <1>3 DEF Listener

\* Steps of the scheduler: an event is handled with a complete list, unless it
\* or one that follows invalidates the list; what is drained is cancelled, or
\* the list invalidated.
LEMMA SchedulerInv == IInv /\ Scheduler => IInv'
<1> SUFFICES ASSUME IInv, Scheduler PROVE IInv'
  OBVIOUS
<1>t. TypeOK /\ TypeOK'
  BY NextType DEF IInv, Next
<1>i. KnownWasOpened /\ ExecutedAreOver /\ ListComplete
  BY DEF IInv
<1>k. ASSUME UNCHANGED <<told, status, fresh>> PROVE KnownWasOpened'
  BY <1>i, <1>k DEF KnownWasOpened
<1>e. ASSUME UNCHANGED <<status, fresh, notices, channel>>, event' \in {event, Opened}
      PROVE  ExecutedAreOver'
  BY <1>i, <1>e, Events DEF ExecutedAreOver, ExecutedIsOver, Executed
<1>1. CASE Receive
  <2>1. /\ UNCHANGED <<told, status, fresh, notices, list, listState, draining, queryFaults>>
        /\ pc = "idle" /\ pc' = IF listState = "Invalid" THEN "query" ELSE "handle"
    BY <1>1 DEF Receive, chainVars, listenerVars, boundVars
  <2>2. ASSUME NEW r \in Requests PROVE ExecutedIsOver(r)'
    <3>1. event' = Executed(r) \/ (\E i \in 1..Len(channel') : channel'[i] = Executed(r)) =>
              \E i \in 1..Len(channel) : channel[i] = Executed(r)
      BY <1>t, <1>1, TakeEffect
    <3>2. ExecutedIsOver(r)
      BY <1>i DEF ExecutedAreOver
    <3> QED
      BY <2>1, <3>1, <3>2 DEF ExecutedIsOver, Executed
  <2>3. Due' = Due /\ (Coming => event' = Opened \/ Coming')
    BY <1>t, <1>1, <2>1, TakeEffect DEF Due
  <2>4. ListComplete'
    BY <1>t, <1>i, <2>1, <2>3 DEF ListComplete, TypeOK
  <2> QED
    BY <1>t, <1>k, <2>1, <2>2, <2>4 DEF IInv, ExecutedAreOver
<1>2. CASE Query
  <2>1. /\ UNCHANGED <<told, status, fresh, notices, channel, event, listState, draining, queryFaults>>
        /\ pc' = "handle" /\ list' = Open
    BY <1>2 DEF Query, chainVars, listenerVars, boundVars
  <2>2. Due' \subseteq list'
    BY <1>t, <2>1 DEF Due, Open, TypeOK
  <2> QED
    BY <1>t, <1>k, <1>e, <2>1, <2>2 DEF IInv, ListComplete
<1>3. CASE QueryFails
  <2>1. /\ UNCHANGED <<told, status, fresh, notices, channel, event>>
        /\ queryFaults' # 0
    BY <1>3, <1>t DEF QueryFails, TypeOK, chainVars, listenerVars
  <2> QED
    BY <1>t, <1>k, <1>e, <2>1 DEF IInv, ListComplete
<1>4. CASE HandleBlock
  <2>1. /\ UNCHANGED <<told, status, fresh, notices, channel, event, listState, queryFaults>>
        /\ pc = "handle" /\ pc' = "cancel" /\ event.type \in Chains
        /\ list' = list \ draining'
    BY <1>4 DEF HandleBlock, chainVars, listenerVars, boundVars
  <2>2. event # Opened
    BY <1>t, <2>1, EventKinds DEF TypeOK
  <2>3. ListComplete'
    BY <1>i, <2>1, <2>2 DEF ListComplete, Due, Coming
  <2> QED
    BY <1>t, <1>k, <1>e, <2>1, <2>3 DEF IInv
<1>5. CASE HandleExecuted
  <2>1. /\ UNCHANGED <<told, status, fresh, notices, channel, queryFaults>>
        /\ pc = "handle" /\ pc' = "idle" /\ event' = Opened
        /\ event.type = "executed" /\ list' = list \ {event.id}
    BY <1>5 DEF HandleExecuted, Idle, chainVars, listenerVars, boundVars
  <2>2. event.id \in Requests /\ event = Executed(event.id)
    BY <1>t, <2>1, EventKinds DEF TypeOK
  <2>3. status[event.id] # "open" /\ event # Opened
    BY <1>i, <2>2, Events DEF ExecutedAreOver, ExecutedIsOver
  <2>4. Due' = Due /\ event.id \notin Due
    BY <2>1, <2>3 DEF Due
  <2>5. ListComplete'
    BY <1>i, <2>1, <2>3, <2>4 DEF ListComplete, Coming
  <2> QED
    BY <1>t, <1>k, <1>e, <2>1, <2>5 DEF IInv
<1>6. CASE HandleOpened
  <2>1. /\ UNCHANGED <<told, status, fresh, notices, channel>>
        /\ pc' = "idle" /\ event' = Opened /\ listState' = "Invalid"
    BY <1>6 DEF HandleOpened, Idle, chainVars, listenerVars
  <2> QED
    BY <1>t, <1>k, <1>e, <2>1 DEF IInv, ListComplete
<1>7. ASSUME NEW r \in Requests, CancelOne(r) PROVE IInv'
  <2>1. /\ UNCHANGED <<told, fresh, notices, channel, event, pc, list, listState, queryFaults>>
        /\ pc = "cancel" /\ draining' = draining \ {r} /\ told \subseteq Requests
        /\ status \in [Requests -> {"none", "open", "executed", "cancelled"}]
        /\ status' = [status EXCEPT ![r] = "cancelled"]
    BY <1>t, <1>7 DEF CancelOne, TypeOK, listenerVars, boundVars
  <2>2. KnownWasOpened'
    BY <1>i, <2>1 DEF KnownWasOpened
  <2>3. ExecutedAreOver'
    BY <1>i, <2>1 DEF ExecutedAreOver, ExecutedIsOver
  <2>4. Due' \subseteq Due \ {r}
    BY <2>1 DEF Due
  <2>5. ListComplete'
    BY <1>i, <2>1, <2>4 DEF ListComplete, Coming
  <2> QED
    BY <1>t, <2>2, <2>3, <2>5 DEF IInv
<1>8. ASSUME NEW r \in Requests, CancelFails(r) PROVE IInv'
  <2>1. /\ UNCHANGED <<told, status, fresh, notices, channel>>
        /\ pc' = "idle" /\ event' = Opened /\ listState' = "Invalid"
    BY <1>8 DEF CancelFails, Idle, chainVars, listenerVars
  <2> QED
    BY <1>t, <1>k, <1>e, <2>1 DEF IInv, ListComplete
<1>9. CASE CancelDone
  <2>1. /\ UNCHANGED <<told, status, fresh, notices, channel, list, queryFaults>>
        /\ pc = "cancel" /\ draining = {} /\ pc' = "idle" /\ event' = Opened
    BY <1>9 DEF CancelDone, Idle, chainVars, listenerVars, boundVars
  <2>2. ListComplete'
    BY <1>i, <2>1 DEF ListComplete, Coming, Due
  <2> QED
    BY <1>t, <1>k, <1>e, <2>1, <2>2 DEF IInv
<1> QED
  BY <1>1, <1>2, <1>3, <1>4, <1>5, <1>6, <1>7, <1>8, <1>9 DEF Scheduler

\* A new generation trusts no list.
LEMMA RestartInv == IInv /\ (Crash \/ RestartTimer) => IInv'
<1> SUFFICES ASSUME IInv, Crash \/ RestartTimer PROVE IInv'
  OBVIOUS
<1>1. TypeOK'
  BY NextType DEF IInv, Next
<1>2. /\ UNCHANGED <<status, fresh>>
      /\ notices' = {} /\ channel' = <<>> /\ told' = Open
      /\ pc' = "idle" /\ event' = Opened /\ listState' = "Invalid"
  BY DEF Crash, RestartTimer, NewGeneration, Idle, chainVars
<1>3. KnownWasOpened'
  BY <1>2 DEF IInv, KnownWasOpened, Open
<1>4. ExecutedAreOver'
  BY <1>2, Events DEF IInv, ExecutedAreOver, ExecutedIsOver
<1>5. ListComplete'
  BY <1>2 DEF ListComplete
<1> QED
  BY <1>1, <1>3, <1>4, <1>5 DEF IInv

\* Every step preserves the invariant.
LEMMA NextInv == IInv /\ [Next]_vars => IInv'
<1> SUFFICES ASSUME IInv, [Next]_vars PROVE IInv'
  OBVIOUS
<1>1. CASE UNCHANGED vars
  BY <1>1 DEF IInv, TypeOK, KnownWasOpened, ExecutedAreOver, ExecutedIsOver, ListComplete,
              Coming, Due, vars, chainVars, listenerVars, schedulerVars, boundVars
<1> QED
  BY <1>1, ParachainInv, ListenerInv, SchedulerInv, RestartInv DEF Next

\* As long as get_open_requests succeeds, a list that handle_cancellation
\* trusts has every open request of which it had a way to know, whatever the
\* number of requests, the size of the channel and the order of events, and
\* although cancel_requests may fail midway.
THEOREM NeverForgets == Spec => []NothingForgotten
<1>1. IInv => NothingForgotten
  <2> SUFFICES ASSUME IInv, queryFaults = 0, pc = "idle", listState = "Valid",
                      \A i \in 1..Len(channel) : channel[i] # Opened,
                      NEW r \in told \cap Open
               PROVE  <<"opened", r>> \in notices \/ r \in list
    BY DEF NothingForgotten, TrustedListComplete
  <2>1. Due \subseteq list
    BY DEF IInv, ListComplete, Coming
  <2> QED
    BY <2>1 DEF Due, Open
<1> QED
  BY <1>1, InitInv, NextInv, PTL DEF Spec

============================================================================
