------------------------------- MODULE Rescan -------------------------------
(***************************************************************************)
(* How a vault makes its bitcoin wallet see the deposits of issue requests *)
(* that were opened while it was not there to import their keys:           *)
(* RescanStatus and add_keys_from_past_issue_request (vault/src/issue.rs), *)
(* run by add_vault_id before each generation of the service starts.       *)
(*                                                                         *)
(* The blocks that are still to be scanned are a range, stored in the      *)
(* vault's database.  The range is worked off in chunks, and a crash may   *)
(* fall between any two steps.  Meanwhile blocks arrive, issue requests    *)
(* are opened, and the node prunes old blocks, which it cannot scan any    *)
(* more; for those the vault asks electrs.                                 *)
(*                                                                         *)
(* Abstractions.  What the wallet has seen is, for each request, the set   *)
(* of block heights that were scanned with the request's key imported.     *)
(***************************************************************************)
EXTENDS Integers, FiniteSets, FiniteSetsExt

CONSTANTS
    Issues,         \* issue requests of the vault
    MaxHeight,      \* bound: height of the bitcoin chain
    MaxChunk,       \* bound: chunk size
    MaxKeyFaults,   \* bound: requests whose key cannot be imported at start-up
    MaxCrashes      \* bound: crashes and failed calls

ASSUME RescanAssumption ==
    /\ IsFiniteSet(Issues)
    /\ MaxHeight \in Nat /\ MaxChunk \in Nat \ {0}
    /\ MaxKeyFaults \in Nat /\ MaxCrashes \in Nat

BtcHeights == 0..MaxHeight
Times == 0..Cardinality(Issues)
None == <<>>                                \* no queued_rescan_range
Ranges == {None} \cup (BtcHeights \X BtcHeights)
Status == [newest : Times, range : Ranges]
Blank == [newest |-> 0, range |-> None]

VARIABLES
    opentime,   \* parachain height at which a request was opened, 0: not yet
    btcHeight,  \* bitcoin height at that time
    tip,        \* height of the bitcoin chain
    pruned,     \* lowest height that the node still has
    keys,       \* requests whose deposit key is in the wallet
    seen,       \* heights that the wallet has seen with the request's key
    lost,       \* history: heights of chunks that broke off and count as scanned
    db,         \* RescanStatus in the database
    status,     \* scanning_status, in memory
    pc,         \* where add_keys_from_past_issue_request is
    requests,   \* issue_requests: those that were found on the parachain
    size,       \* chunk_size
    chunk,      \* the chunk that is being rescanned
    \* history and bounds
    failed,     \* requests whose key could not be imported at some start-up
    crashes

chainVars == <<opentime, btcHeight, tip, pruned>>
walletVars == <<keys, seen, lost>>
memVars == <<status, pc, requests, size, chunk>>
vars == <<chainVars, walletVars, db, memVars, failed, crashes>>

TypeOK ==
    /\ opentime \in [Issues -> Times]
    /\ btcHeight \in [Issues -> BtcHeights]
    /\ tip \in BtcHeights /\ pruned \in BtcHeights
    /\ keys \subseteq Issues
    /\ seen \in [Issues -> SUBSET BtcHeights]
    /\ lost \in [Issues -> SUBSET BtcHeights]
    /\ db \in Status /\ status \in Status
    /\ pc \in {"down", "keys", "prune", "store", "chunk", "rescan", "save", "up"}
    /\ requests \subseteq Issues
    /\ size \in 1..MaxChunk
    /\ chunk \in Ranges
    /\ failed \subseteq Issues
    /\ crashes \in 0..MaxCrashes

Init ==
    /\ opentime = [i \in Issues |-> 0]
    /\ btcHeight = [i \in Issues |-> 0]
    /\ tip = 0 /\ pruned = 0
    /\ keys = {}
    /\ seen = [i \in Issues |-> {}]
    /\ lost = [i \in Issues |-> {}]
    /\ db = Blank /\ status = Blank
    /\ pc = "down"
    /\ requests = {}
    /\ size = 1
    /\ chunk = None
    /\ failed = {}
    /\ crashes = 0

Opened == {i \in Issues : opentime[i] # 0}
\* The wallet of the node scans blocks H.
See(H) == seen' = [i \in Issues |-> IF i \in keys THEN seen[i] \cup H ELSE seen[i]]

----------------------------------------------------------------------------
(***************************************************************************)
(* The parachain and bitcoin.                                              *)
(***************************************************************************)

Open(i) ==
    /\ opentime[i] = 0
    /\ opentime' = [opentime EXCEPT ![i] = Cardinality(Opened) + 1]
    /\ btcHeight' = [btcHeight EXCEPT ![i] = tip]
    /\ UNCHANGED <<tip, pruned, walletVars, db, memVars, failed, crashes>>

\* A block arrives, and the wallet looks at it.
Mine ==
    /\ tip < MaxHeight
    /\ tip' = tip + 1
    /\ See({tip + 1})
    /\ UNCHANGED <<opentime, btcHeight, pruned, keys, lost, db, memVars, failed, crashes>>

Prune ==
    /\ pruned < tip
    /\ pruned' = pruned + 1
    /\ UNCHANGED <<opentime, btcHeight, tip, walletVars, db, memVars, failed, crashes>>

\* listen_for_issue_requests: the service imports the key of a new request.
ImportLive(i) ==
    /\ pc = "up"
    /\ i \in Opened \ keys
    /\ keys' = keys \cup {i}
    /\ UNCHANGED <<chainVars, seen, lost, db, memVars, failed, crashes>>

----------------------------------------------------------------------------
(***************************************************************************)
(* RescanStatus.                                                           *)
(***************************************************************************)

\* update: only requests that are newer than those already processed.
Update(s, is, current) ==
    LET new == {i \in is : opentime[i] > s.newest}
        begins == {btcHeight[i] : i \in new} \cup (IF s.range = None THEN {} ELSE {s.range[1]})
        begin == Min(begins)
    IN  IF new = {} THEN s
        ELSE [newest |-> Max({opentime[i] : i \in new}),
              range |-> <<begin, Max({begin, current})>>]

\* prune: what the node cannot scan is cut off.
NeedsPruning(s, start) == s.range # None /\ s.range[1] < start
\* Mutant of CutOff: the range is not cut off.
NoCutOff(s, start) == s

CutOff(s, start) ==
    IF NeedsPruning(s, start) THEN [s EXCEPT !.range = <<start, s.range[2]>>] ELSE s

\* process_blocks: the next chunk, and what is left after it.
ChunkEnd(s, n) == Min({s.range[2], s.range[1] + n - 1})
NextChunk(s, n) == <<s.range[1], ChunkEnd(s, n)>>
\* Mutant of AfterChunk: the chunk is taken to end one block later.
AfterChunkTooFar(s, n) ==
    [s EXCEPT !.range = IF ChunkEnd(s, n) = s.range[2] THEN None
                        ELSE <<ChunkEnd(s, n) + 2, s.range[2]>>]

AfterChunk(s, n) ==
    [s EXCEPT !.range = IF ChunkEnd(s, n) = s.range[2] THEN None
                        ELSE <<ChunkEnd(s, n) + 1, s.range[2]>>]

----------------------------------------------------------------------------
(***************************************************************************)
(* add_keys_from_past_issue_request.                                       *)
(***************************************************************************)

\* Read the status and the requests.
Start ==
    /\ pc = "down"
    /\ status' = db
    /\ requests' = Opened
    /\ size' = 1
    /\ pc' = "keys"
    /\ UNCHANGED <<chainVars, walletVars, db, chunk, failed, crashes>>

\* Import the key of one request after the other.
ImportKey(i) ==
    /\ pc = "keys"
    /\ i \in requests \ keys
    /\ keys' = keys \cup {i}
    /\ UNCHANGED <<chainVars, seen, lost, db, memVars, failed, crashes>>

\* An import that fails is logged, and the start-up goes on.
ImportKeyFails(i) ==
    /\ pc = "keys"
    /\ i \in requests \ keys
    /\ i \notin failed /\ Cardinality(failed) < MaxKeyFaults
    /\ failed' = failed \cup {i}
    /\ UNCHANGED <<chainVars, walletVars, db, memVars, crashes>>

\* Only then read the heights, and update the status.
ReadHeight ==
    /\ pc = "keys"
    /\ requests \subseteq keys \cup failed
    /\ status' = Update(status, requests, tip)
    /\ pc' = "prune"
    /\ UNCHANGED <<chainVars, walletVars, db, requests, size, chunk, failed, crashes>>

\* Ask electrs for what the node has pruned.
PruneStatus ==
    /\ pc = "prune"
    /\ status' = CutOff(status, pruned)
    /\ seen' = [i \in Issues |->
                    IF NeedsPruning(status, pruned) /\ i \in requests /\ btcHeight[i] < pruned
                    THEN seen[i] \cup 0..tip ELSE seen[i]]
    /\ pc' = "store"
    /\ UNCHANGED <<chainVars, keys, lost, db, requests, size, chunk, failed, crashes>>

Store ==
    /\ pc \in {"store", "save"}
    /\ db' = status
    /\ pc' = "chunk"
    /\ UNCHANGED <<chainVars, walletVars, status, requests, size, chunk, failed, crashes>>

\* Mutant of TakeChunk: the progress is saved before the chunk is scanned.
TakeChunkSaved ==
    /\ pc = "chunk"
    /\ status.range # None
    /\ chunk' = NextChunk(status, size)
    /\ status' = AfterChunk(status, size)
    /\ db' = status'
    /\ pc' = "rescan"
    /\ UNCHANGED <<chainVars, walletVars, requests, size, failed, crashes>>

TakeChunk ==
    /\ pc = "chunk"
    /\ status.range # None
    /\ chunk' = NextChunk(status, size)
    /\ status' = AfterChunk(status, size)
    /\ pc' = "rescan"
    /\ UNCHANGED <<chainVars, walletVars, db, requests, size, failed, crashes>>

\* What follows a chunk: the next one is larger, or smaller if this one took
\* too long.
ChunkDone ==
    /\ chunk' = None
    /\ size' \in {Min({2 * size, MaxChunk}), Max({size \div 2, 1})}
    /\ pc' = "save"
    /\ UNCHANGED <<chainVars, keys, db, status, requests, failed>>

Scannable(c) == c[1] >= pruned /\ c[1] <= c[2]

\* The node scans the chunk.
Rescan ==
    /\ pc = "rescan"
    /\ Scannable(chunk)
    /\ See(chunk[1]..chunk[2])
    /\ ChunkDone
    /\ UNCHANGED <<lost, crashes>>

\* The connection breaks.  The client waits until the node is not scanning and
\* takes the chunk for scanned, although the node may have scanned it only up
\* to height h, or not at all.
RescanBreaks ==
    /\ pc = "rescan"
    /\ crashes < MaxCrashes
    /\ crashes' = crashes + 1
    /\ \E h \in {chunk[1] - 1} \cup (IF Scannable(chunk) THEN chunk[1]..(chunk[2] - 1) ELSE {}) :
        /\ See(chunk[1]..h)
        /\ lost' = [i \in Issues |-> IF i \in keys THEN lost[i] \cup (h + 1)..chunk[2] ELSE lost[i]]
    /\ ChunkDone

\* The start-up fails: the service is started anew from the database.
Abort ==
    /\ pc' = "down"
    /\ status' = Blank
    /\ requests' = {}
    /\ size' = 1
    /\ chunk' = None
    /\ UNCHANGED <<chainVars, walletVars, db, failed>>

\* The node rejects a range that it cannot scan.
RescanRejected ==
    /\ pc = "rescan"
    /\ ~ Scannable(chunk)
    /\ Abort
    /\ UNCHANGED crashes

Finish ==
    /\ pc = "chunk"
    /\ status.range = None
    /\ pc' = "up"
    /\ UNCHANGED <<chainVars, walletVars, db, status, requests, size, chunk, failed, crashes>>

\* A crash, at any point, or a call that fails.
Crash ==
    /\ pc # "down"
    /\ crashes < MaxCrashes
    /\ crashes' = crashes + 1
    /\ Abort

\* The service runs and is restarted some time.
RestartService ==
    /\ pc = "up"
    /\ Abort
    /\ UNCHANGED crashes

----------------------------------------------------------------------------
Environment ==
    \/ Mine \/ Prune
    \/ \E i \in Issues : Open(i) \/ ImportLive(i)

AddKeys ==
    \/ Start \/ ReadHeight \/ PruneStatus \/ Store \/ TakeChunk \/ Rescan
    \/ RescanRejected \/ Finish
    \/ \E i \in Issues : ImportKey(i) \/ ImportKeyFails(i)

Next == Environment \/ AddKeys \/ RescanBreaks \/ Crash \/ RestartService

Spec == Init /\ [][Next]_vars

\* The calls of the start-up are answered.
FairSpec == Spec /\ WF_vars(AddKeys)

----------------------------------------------------------------------------
\* When the start-up is complete, the wallet has seen every block since the
\* opening of each request it started with, however often it was interrupted,
\* however far the node has pruned, and although the progress is saved only
\* between chunks.  Not so for a request whose key once could not be imported:
\* its key is imported the next time, but the status says that its blocks were
\* scanned.  Nor for the blocks of a chunk whose call broke off: they were
\* taken for scanned.
NoDepositOverlooked ==
    pc = "up" =>
        \A i \in requests \ failed : btcHeight[i]..tip \subseteq seen[i] \cup lost[i]

\* A range that ends before it begins.
Inverted(s) == s.range # None /\ s.range[1] > s.range[2]

\* prune is to modify the range "to be within scannable range": the range is
\* inverted only if the node has pruned all of it, in memory as on disk.
RangeScannable ==
    \A s \in {status, db} : Inverted(s) => s.range[2] < pruned

\* The vault comes up again and again: the start-up does not fail for ever,
\* however often it is interrupted and whatever the node prunes.  The one
\* exception is a stored range that the node has pruned to its end: it stays
\* inverted, and the node rejects it at every start-up.
ComesUp == []<>(pc = "up") \/ <>[]Inverted(db)
============================================================================
