------------------------------- MODULE Relay -------------------------------
(***************************************************************************)
(* The bitcoin relayer of vault/src/relay: run_relayer calls submit_next   *)
(* over and over, which compares the bitcoin node's chain with the one     *)
(* that the parachain's relay stores, and submits the next headers.        *)
(*                                                                         *)
(* Every comparison is a call to one of the two chains.  Between any two   *)
(* of them the node may follow a longer fork, and another vault's relayer  *)
(* may submit the same headers.                                            *)
(*                                                                         *)
(* Abstractions.  A block is the sequence of choices that lead to it from  *)
(* the genesis block, so its length is its height and its parent is its    *)
(* front.  The parachain's relay is external: it stores a header whose     *)
(* parent it stores, and its main chain is the first longest one.          *)
(***************************************************************************)
EXTENDS Naturals, Sequences

CONSTANTS
    Forks,          \* the choices that tell two blocks of one parent apart
    StartHeight,    \* height the relay is initialized at (Config.start_height)
    Confirmations,  \* Config.btc_confirmations
    MaxBatchSize,   \* Config.max_batch_size
    TopHeight,      \* bound: height of the bitcoin chain
    MaxFaults       \* bound: reorganizations and failed calls

ASSUME RelayAssumption ==
    /\ Forks # {}
    /\ StartHeight \in Nat \ {0}
    /\ Confirmations \in Nat
    /\ MaxBatchSize \in Nat \ {0}
    /\ TopHeight \in Nat /\ StartHeight + Confirmations <= TopHeight
    /\ MaxFaults \in Nat

Block == UNION {[1..h -> Forks] : h \in 0..TopHeight}
Parent(b) == SubSeq(b, 1, Len(b) - 1)

VARIABLES
    network,    \* tip of the bitcoin network's chain
    synced,     \* how much of it the node has
    stored,     \* blocks stored by the parachain's relay
    best,       \* tip of the relay's main chain; <<>>: not initialized
    stage,      \* where submit_next is
    maxHeight,  \* max_height
    height,     \* start_height of compute_start_height
    relayHash,  \* relay_hash: the relay's block at that height, <<>>: none
    left,       \* headers that are still to be collected
    headers,    \* headers collected
    disturbed,  \* history: a reorg or another relayer interfered in this round
    cutShort,   \* history: a failed call ended the forward pass of this round
    faults      \* reorganizations and failed calls so far

chains == <<network, synced, stored, best>>
roundVars == <<stage, maxHeight, height, relayHash, left, headers, cutShort>>
relayVars == <<chains, roundVars, disturbed, faults>>

RelayTypeOK ==
    /\ network \in Block
    /\ synced \in 0..TopHeight
    /\ stored \subseteq Block
    /\ best \in Block
    /\ stage \in {"init", "count", "best", "back", "compare",
                 "forward", "collect", "submit"}
    /\ maxHeight \in 0..TopHeight
    /\ height \in 0..(TopHeight + 1)
    /\ relayHash \in Block
    /\ left \in 0..MaxBatchSize
    /\ headers \in Seq(Block)
    /\ disturbed \in BOOLEAN
    /\ cutShort \in BOOLEAN
    /\ faults \in 0..MaxFaults

RelayInit ==
    /\ network \in [1..(StartHeight + Confirmations) -> Forks]
    /\ synced = StartHeight + Confirmations
    /\ stored = {}
    /\ best = <<>>
    /\ stage = "init"
    /\ maxHeight = 0
    /\ height = 0
    /\ relayHash = <<>>
    /\ left = 0
    /\ headers = <<>>
    /\ disturbed = FALSE
    /\ cutShort = FALSE
    /\ faults = 0

----------------------------------------------------------------------------
(***************************************************************************)
(* The two chains.                                                         *)
(***************************************************************************)

\* get_block_hash of the node.
HasBlock(h) == h <= synced
BlockAt(h) == SubSeq(network, 1, h)

\* get_block_hash of the relay, which knows nothing below where it started.
Relayed(h) == h >= StartHeight /\ h <= Len(best)
RelayedAt(h) == SubSeq(best, 1, h)

\* get_num_confirmed_blocks.
Confirmed == IF synced < Confirmations THEN 0 ELSE synced - Confirmations

\* The relay takes the headers in turn, up to the first that it rejects.
Accepted(hs) ==
    LET ok(i) == \A k \in 1..i :
                    /\ hs[k] \notin stored
                    /\ \A j \in 1..(k - 1) : hs[j] # hs[k]
                    /\ Parent(hs[k]) \in stored \cup {hs[j] : j \in 1..(k - 1)}
    IN  {hs[i] : i \in {i \in 1..Len(hs) : ok(i)}}

StoreHeaders(new) ==
    /\ stored' = stored \cup new
    /\ IF \E b \in new : Len(b) > Len(best)
       THEN best' \in {b \in new : \A c \in new : Len(c) <= Len(b)}
       ELSE UNCHANGED best

MineBlock(f) ==
    /\ Len(network) < TopHeight
    /\ network' = Append(network, f)
    /\ UNCHANGED <<synced, stored, best, roundVars, disturbed, faults>>

\* The node gets the next block.
Sync ==
    /\ synced < Len(network)
    /\ synced' = synced + 1
    /\ UNCHANGED <<network, stored, best, roundVars, disturbed, faults>>

\* The network, and the node, follow a longer chain that forks off above the
\* start height.
Reorg(h, b) ==
    /\ faults < MaxFaults
    /\ h >= StartHeight /\ h < Len(network) /\ best # <<>>
    /\ Len(b) > Len(network)
    /\ SubSeq(b, 1, h) = BlockAt(h)
    /\ b[h + 1] # network[h + 1]
    /\ network' = b
    /\ synced' = IF synced > h THEN Len(b) ELSE synced
    /\ faults' = faults + 1
    /\ disturbed' = TRUE
    /\ UNCHANGED <<stored, best, roundVars>>

\* Another vault's relayer, with a node and settings of its own, submits the
\* next header that the relay lacks.
OtherRelayer(h) ==
    /\ best # <<>>
    /\ h <= Len(network)
    /\ BlockAt(h) \notin stored
    /\ Parent(BlockAt(h)) \in stored
    /\ StoreHeaders({BlockAt(h)})
    /\ disturbed' = TRUE
    /\ UNCHANGED <<network, synced, roundVars, faults>>

----------------------------------------------------------------------------
(***************************************************************************)
(* submit_next.                                                            *)
(***************************************************************************)

\* The round ends, well or with an error that run_relayer logs, and the next
\* one begins.
EndRound ==
    /\ stage' = "init"
    /\ maxHeight' = 0 /\ height' = 0 /\ relayHash' = <<>>
    /\ left' = 0 /\ headers' = <<>>
    /\ disturbed' = FALSE /\ cutShort' = FALSE

\* Initialize the relay if that has not been done.
Initialize ==
    /\ stage = "init"
    /\ IF best = <<>>
       THEN stored' = {BlockAt(StartHeight)} /\ best' = BlockAt(StartHeight)
       ELSE UNCHANGED <<stored, best>>
    /\ stage' = "count"
    /\ UNCHANGED <<network, synced, maxHeight, height, relayHash, left, headers,
                   cutShort, disturbed, faults>>

Count ==
    /\ stage = "count"
    /\ maxHeight' = Confirmed
    /\ stage' = "best"
    /\ UNCHANGED <<chains, height, relayHash, left, headers, cutShort, disturbed, faults>>

\* Mutant of BestHeight: the chains are not compared.
BestHeightUncompared ==
    /\ stage = "best"
    /\ height' = Len(best)
    /\ stage' = "forward"
    /\ UNCHANGED <<chains, maxHeight, relayHash, left, headers, cutShort, disturbed, faults>>

\* compute_start_height: the height of the relay's tip ...
BestHeight ==
    /\ stage = "best"
    /\ height' = Len(best)
    /\ stage' = "back"
    /\ UNCHANGED <<chains, maxHeight, relayHash, left, headers, cutShort, disturbed, faults>>

\* ... down, asking the relay for its block at each height ...
AskRelay ==
    /\ stage = "back"
    /\ relayHash' = IF Relayed(height) THEN RelayedAt(height) ELSE <<>>
    /\ stage' = "compare"
    /\ UNCHANGED <<chains, maxHeight, height, left, headers, cutShort, disturbed, faults>>

\* ... and then the node, until the two agree ...
Backward ==
    /\ stage = "compare"
    /\ HasBlock(height)
    /\ IF relayHash = BlockAt(height)
       THEN stage' = "forward" /\ UNCHANGED height
       ELSE stage' = "back" /\ height' = height - 1
    /\ relayHash' = <<>>
    /\ UNCHANGED <<chains, maxHeight, left, headers, cutShort, disturbed, faults>>

\* ... or fail, since the node does not have the block yet.
BackwardFails ==
    /\ stage = "compare"
    /\ ~HasBlock(height)
    /\ EndRound
    /\ UNCHANGED <<chains, faults>>

\* ... and up past the blocks that the relay stores, in a fork or not.
Forward ==
    /\ stage = "forward"
    /\ HasBlock(height)
    /\ BlockAt(height) \in stored
    /\ height' = height + 1
    /\ UNCHANGED <<chains, stage, maxHeight, relayHash, left, headers, cutShort, disturbed, faults>>

\* Mutant of BatchSize: a full batch is taken too often.
BatchSizeTooEager ==
    IF height + MaxBatchSize > maxHeight + 2
    THEN IF maxHeight + 1 < height THEN 0 ELSE maxHeight + 1 - height
    ELSE MaxBatchSize

BatchSize ==
    IF height + MaxBatchSize > maxHeight
    THEN IF maxHeight + 1 < height THEN 0 ELSE maxHeight + 1 - height
    ELSE MaxBatchSize

\* Nothing to submit: sleep and start over.  Otherwise collect the headers.
CollectFrom(cut) ==
    IF BatchSize = 0
    THEN EndRound
    ELSE /\ left' = BatchSize
         /\ stage' = "collect"
         /\ cutShort' = cut
         /\ UNCHANGED <<maxHeight, height, relayHash, headers, disturbed>>

\* Mutant of ForwardDone: one header too few when the relay is nearly there.
ForwardDoneTooEarly ==
    /\ stage = "forward"
    /\ ~(HasBlock(height) /\ BlockAt(height) \in stored)
    /\ IF BatchSize <= 1 THEN EndRound ELSE CollectFrom(FALSE)
    /\ UNCHANGED <<chains, faults>>

\* The first block that the relay lacks, or that the node does not have.
ForwardDone ==
    /\ stage = "forward"
    /\ ~(HasBlock(height) /\ BlockAt(height) \in stored)
    /\ CollectFrom(FALSE)
    /\ UNCHANGED <<chains, faults>>

\* get_block_hash of the node fails: the pass breaks off at this height, which
\* may be that of a block the relay stores, and the round goes on from there.
ForwardBreaks ==
    /\ stage = "forward"
    /\ faults < MaxFaults
    /\ CollectFrom(TRUE)
    /\ faults' = faults + 1
    /\ UNCHANGED chains

\* get_block_header, collect_headers.
Collect ==
    /\ stage = "collect"
    /\ HasBlock(height)
    /\ headers' = Append(headers, BlockAt(height))
    /\ height' = height + 1
    /\ left' = left - 1
    /\ stage' = IF left = 1 THEN "submit" ELSE "collect"
    /\ UNCHANGED <<chains, maxHeight, relayHash, cutShort, disturbed, faults>>

\* submit_block_header (after a delay, and a look whether the block is stored
\* by now) or submit_block_header_batch.
Submit ==
    /\ stage = "submit"
    /\ StoreHeaders(Accepted(headers))
    /\ EndRound
    /\ UNCHANGED <<network, synced, faults>>

\* Any other call fails: the round ends and the error is logged.
RoundFails ==
    /\ faults < MaxFaults
    /\ faults' = faults + 1
    /\ EndRound
    /\ UNCHANGED chains

----------------------------------------------------------------------------
ChainStep ==
    \/ \E f \in Forks : MineBlock(f)
    \/ Sync
    \/ \E h \in 1..TopHeight, b \in Block : Reorg(h, b)
    \/ \E h \in 1..TopHeight : OtherRelayer(h)

SubmitNext ==
    \/ Initialize \/ Count \/ BestHeight \/ AskRelay \/ Backward \/ BackwardFails
    \/ Forward \/ ForwardDone \/ ForwardBreaks \/ Collect \/ Submit \/ RoundFails

RelayNext == ChainStep \/ SubmitNext

RelaySpec == RelayInit /\ [][RelayNext]_relayVars

\* The node syncs and the relayer's calls are answered; nobody has to mine.
RelayFairSpec == RelaySpec /\ WF_relayVars(Sync)
                 /\ WF_relayVars(Initialize \/ Count \/ BestHeight \/ AskRelay \/ Backward
                             \/ BackwardFails \/ Forward \/ ForwardDone \/ Collect \/ Submit)

----------------------------------------------------------------------------
\* A header is submitted only if its height had the confirmations when the
\* round began.
OnlyConfirmed == \A i \in 1..Len(headers) : Len(headers[i]) <= maxHeight

\* A round in which nobody interferes makes no vain submission: its headers
\* are new, each follows the one before, and the first follows a stored block.
\* If a failed call cut the forward pass short, it may begin with headers that
\* the relay stores, which are refused, but never leaves out one that it lacks.
NothingInVain ==
    stage = "submit" /\ ~disturbed =>
        /\ headers # <<>>
        /\ \A i \in 1..Len(headers) :
              \/ headers[i] \in stored
              \/ Parent(headers[i]) \in stored \cup {headers[j] : j \in 1..(i - 1)}
        /\ cutShort \/ Accepted(headers) = {headers[i] : i \in 1..Len(headers)}

\* Whatever forks the chain went through, when it no longer changes the relay
\* comes to follow it up to the confirmations.
CatchesUp == <>[](BlockAt(Confirmed) \in stored)
============================================================================
