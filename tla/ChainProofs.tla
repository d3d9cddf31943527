---------------------------- MODULE ChainProofs ----------------------------
(***************************************************************************)
(* Proofs about what reads the bitcoin chain block by block.  Rescan: when *)
(* the vault is up its wallet has seen all blocks since the requests it    *)
(* started with were opened, for any requests, heights, chunk sizes,       *)
(* crashes and pruning; and the queued range is inverted only if the node  *)
(* has pruned all of it.  Relay: what a round submits is confirmed and, if *)
(* nobody interferes, accepted, for chains of any height with any forks.   *)
(* The two specifications share no variable.                               *)
(***************************************************************************)
EXTENDS Rescan, Relay, FiniteSetTheorems, SequenceTheorems, WellFoundedInduction, TLAPS

----------------------------------------------------------------------------
(* The wallet and the rescan.                                              *)

\* The heights of a range.
Blocks(r) == IF r = None THEN {} ELSE r[1]..r[2]

\* The requests that a status says are processed.
Processed(s) == {i \in Issues : opentime[i] # 0 /\ opentime[i] <= s.newest}

\* The wallet has the key of request i, and has seen the blocks since i was
\* opened but for those in H and those of calls that broke off.
SeenBut(i, H) == i \in keys /\ btcHeight[i]..tip \subseteq seen[i] \cup lost[i] \cup H

\* Requests are numbered in the order in which they are opened.
Numbered ==
    /\ \A i \in Issues : opentime[i] <= Cardinality(Opened)
    /\ \A i \in Opened : btcHeight[i] <= tip
    /\ status.newest <= Cardinality(Opened) /\ db.newest <= Cardinality(Opened)

\* Those found at the start are all that were opened up to then.
AllFound ==
    /\ requests \subseteq Opened
    /\ \A i \in Opened, k \in requests : opentime[i] <= opentime[k] => i \in requests
    /\ pc # "down" => Processed(status) \subseteq requests
    /\ pc \notin {"down", "keys"} => requests \subseteq Processed(status)

\* Ranges end at or below the tip; there is a chunk only while it is scanned.
Ranged ==
    /\ pruned <= tip
    /\ \A s \in {status, db} : s.range # None => s.range[2] <= tip
    /\ (chunk # None) <=> (pc = "rescan")
    /\ pc = "down" => status = Blank
    /\ pc = "up" => status.range = None

\* Nothing is lost on the way: of the blocks since a processed request was
\* opened, those not seen are in the range, or in the chunk under way.
DbComplete ==
    \A i \in Processed(db) \ failed : SeenBut(i, Blocks(db.range))
StatusComplete ==
    \A i \in Processed(status) \ failed :
        SeenBut(i, Blocks(status.range) \cup Blocks(chunk))

RInv ==
    /\ TypeOK /\ Numbered /\ AllFound /\ Ranged /\ DbComplete /\ StatusComplete

----------------------------------------------------------------------------
(***************************************************************************)
(* Least and greatest heights, and RescanStatus.                           *)
(***************************************************************************)

LEMMA MinFacts ==
    ASSUME NEW S \in SUBSET Nat, S # {}
    PROVE  Min(S) \in S /\ \A y \in S : Min(S) <= y
<1> DEFINE R == {p \in Nat \X Nat : p[1] < p[2]}
<1>1. IsWellFoundedOn(R, Nat)
  BY NatLessThanWellFounded DEF OpToRel
<1>2. PICK x \in S : \A y \in S : ~ (<<y, x>> \in R)
  <2> HIDE DEF R
  <2> QED BY <1>1, WFMin
<1>3. ASSUME NEW y \in S
      PROVE  x <= y
  <2>1. <<y, x>> \in R <=> y < x
    OBVIOUS
  <2> QED BY <1>2, <2>1
<1> QED BY <1>3 DEF Min

LEMMA MaxFacts ==
    ASSUME NEW n \in Nat, NEW S \in SUBSET (0..n), S # {}
    PROVE  Max(S) \in S /\ \A y \in S : y <= Max(S)
<1> DEFINE T == {n - x : x \in S}
<1>1. T \in SUBSET Nat /\ T # {}
  <2>1. \A x \in S : n - x \in Nat
    OBVIOUS
  <2>2. PICK x \in S : TRUE
    OBVIOUS
  <2>3. n - x \in T
    BY <2>2
  <2> QED BY <2>1, <2>3
<1>2. Min(T) \in T /\ \A y \in T : Min(T) <= y
  BY <1>1, MinFacts
<1>3. PICK x \in S : Min(T) = n - x
  BY <1>2
<1>4. \A y \in S : y <= x
  BY <1>2, <1>3
<1> QED BY <1>4 DEF Max

\* The smaller and the larger of two numbers.
LEMMA MinMaxOfTwo ==
    ASSUME NEW a \in Nat, NEW b \in Nat
    PROVE  /\ Min({a, b}) = IF a <= b THEN a ELSE b
           /\ Max({a, b}) = IF a <= b THEN b ELSE a
<1>1. Min({a, b}) \in {a, b} /\ \A y \in {a, b} : Min({a, b}) <= y
  BY MinFacts
<1>2. {a, b} \in SUBSET (0..(a + b))
  OBVIOUS
<1>3. Max({a, b}) \in {a, b} /\ \A y \in {a, b} : y <= Max({a, b})
  BY <1>2, MaxFacts
<1> QED BY <1>1, <1>3

\* A range is a pair of heights.
LEMMA RangeFacts ==
    ASSUME NEW r \in Ranges, r # None
    PROVE  /\ r = <<r[1], r[2]>> /\ r[1] \in Nat /\ r[2] \in Nat
           /\ r[1] <= MaxHeight /\ r[2] <= MaxHeight
  BY RescanAssumption DEF Ranges, BtcHeights, None

LEMMA NewRange ==
    ASSUME NEW a \in BtcHeights, NEW b \in BtcHeights
    PROVE  /\ <<a, b>> \in Ranges /\ <<a, b>> # None
           /\ Blocks(<<a, b>>) = a..b
  BY DEF Ranges, None, Blocks

LEMMA OpenedFacts ==
    IsFiniteSet(Opened) /\ Cardinality(Opened) \in Nat
        /\ Cardinality(Opened) <= Cardinality(Issues) /\ Cardinality(Issues) \in Nat
<1>1. Opened \in SUBSET Issues
  BY DEF Opened
<1> QED BY <1>1, RescanAssumption, FS_Subset, FS_CardinalityType

\* The status after update: the requests that were new are processed, and the
\* range reaches from the first of their heights, or the start of the range
\* there was, to the tip.
LEMMA UpdateFacts ==
    ASSUME RInv,
           NEW new, new = {i \in requests : opentime[i] > status.newest},
           NEW u, u = Update(status, requests, tip)
    PROVE  /\ u \in Status
           /\ new = {} => u = status
           /\ new # {} =>
                /\ \E k \in new : u.newest = opentime[k]
                /\ \A k \in new : opentime[k] <= u.newest
                /\ u.range # None /\ u.range[2] = tip /\ u.range[1] <= tip
                /\ \A k \in new : u.range[1] <= btcHeight[k]
                /\ status.range # None => u.range[1] <= status.range[1]
<1>1. CASE new = {}
  BY <1>1 DEF RInv, TypeOK, Update
<1>2. CASE new # {}
  <2> DEFINE old == IF status.range = None THEN {} ELSE {status.range[1]}
             begins == {btcHeight[i] : i \in new} \cup old
             begin == Min(begins)
             times == {opentime[i] : i \in new}
  <2>1. new \subseteq Issues /\ \A i \in new : i \in Opened
    BY DEF RInv, TypeOK, AllFound
  <2>2. \A i \in new : btcHeight[i] \in Nat /\ btcHeight[i] <= tip
    BY <2>1, RescanAssumption DEF RInv, TypeOK, Numbered, BtcHeights
  <2>3. status.range \in Ranges /\ tip \in Nat /\ tip \in BtcHeights
    BY RescanAssumption DEF RInv, TypeOK, Status, BtcHeights
  <2>4. begins \in SUBSET Nat
    BY <2>2, <2>3, RangeFacts
  <2>5. PICK j \in new : TRUE
    BY <1>2
  <2>6. btcHeight[j] \in begins
    BY <2>5
  <2>7. begin \in Nat /\ \A y \in begins : begin <= y
    <3> HIDE DEF begins
    <3> QED BY <2>4, <2>6, MinFacts
  <2>8. begin <= tip
    <3> HIDE DEF begins, begin
    <3> QED BY <2>2, <2>3, <2>5, <2>6, <2>7
  <2>9. Max({begin, tip}) = tip
    <3> HIDE DEF begin
    <3> QED BY <2>3, <2>7, <2>8, MinMaxOfTwo
  <2>10. times \in SUBSET (0..Cardinality(Issues)) /\ times # {}
    <3>1. \A i \in new : opentime[i] \in 0..Cardinality(Issues)
      BY <2>1 DEF RInv, TypeOK, Times
    <3>2. opentime[j] \in times
      BY <2>5
    <3> QED BY <3>1, <3>2
  <2>11. Max(times) \in times /\ \A y \in times : y <= Max(times)
    <3> HIDE DEF times
    <3> QED BY <2>10, OpenedFacts, MaxFacts
  <2>12. u = [newest |-> Max(times), range |-> <<begin, tip>>]
    BY <1>2, <2>9 DEF Update
  <2>13. begin \in BtcHeights
    <3> HIDE DEF begin
    <3> QED BY <2>3, <2>7, <2>8, RescanAssumption DEF BtcHeights
  <2>14. Max(times) \in Times
    <3> HIDE DEF times
    <3> QED BY <2>10, <2>11 DEF Times
  <2>15. <<begin, tip>> \in Ranges /\ <<begin, tip>> # None
    <3> HIDE DEF begin
    <3> QED BY <2>3, <2>13, NewRange
  <2>16. \A k \in new : begin <= btcHeight[k]
    <3> HIDE DEF begin
    <3> QED BY <2>7
  <2>17. status.range # None => begin <= status.range[1]
    <3> HIDE DEF begin
    <3> QED BY <2>7
  <2>18. (\E k \in new : Max(times) = opentime[k]) /\ \A k \in new : opentime[k] <= Max(times)
    BY <2>11
  <2> HIDE DEF begins, begin, times
  <2> QED BY <1>2, <2>8, <2>12, <2>14, <2>15, <2>16, <2>17, <2>18 DEF Status
<1> QED BY <1>1, <1>2

\* The next chunk and what is left after it make up the range.
LEMMA ChunkFacts ==
    ASSUME NEW s \in Status, s.range # None, NEW n \in Nat \ {0}
    PROVE  /\ NextChunk(s, n) \in Ranges /\ NextChunk(s, n) # None
           /\ AfterChunk(s, n) \in Status
           /\ AfterChunk(s, n).newest = s.newest
           /\ Blocks(s.range) \subseteq
                Blocks(AfterChunk(s, n).range) \cup Blocks(NextChunk(s, n))
           /\ NextChunk(s, n)[1] = s.range[1] /\ NextChunk(s, n)[2] <= s.range[2]
           /\ AfterChunk(s, n).range # None => AfterChunk(s, n).range[2] = s.range[2]
           /\ s.range[1] <= s.range[2] =>
                /\ NextChunk(s, n)[1] <= NextChunk(s, n)[2]
                /\ AfterChunk(s, n).range # None =>
                    AfterChunk(s, n).range[1] <= AfterChunk(s, n).range[2]
<1> DEFINE a == s.range[1]
           b == s.range[2]
           e == Min({b, a + n - 1})
<1>1. s.range \in Ranges /\ s.newest \in Times
  BY DEF Status
<1>2. s.range = <<a, b>> /\ a \in Nat /\ b \in Nat /\ a \in BtcHeights /\ b \in BtcHeights
  BY <1>1, RangeFacts, RescanAssumption DEF BtcHeights
<1>3. a + n - 1 \in Nat
  BY <1>2
<1>4. e = IF b <= a + n - 1 THEN b ELSE a + n - 1
  BY <1>2, <1>3, MinMaxOfTwo
<1> DEFINE rest == IF e = b THEN None ELSE <<e + 1, b>>
<1>5. NextChunk(s, n) = <<a, e>>
  BY DEF NextChunk, ChunkEnd
<1>6. AfterChunk(s, n) = [newest |-> s.newest, range |-> rest]
  <2>1. s = [newest |-> s.newest, range |-> s.range]
    BY DEF Status
  <2>2. AfterChunk(s, n) = [s EXCEPT !.range = rest]
    BY DEF AfterChunk, ChunkEnd
  <2> HIDE DEF rest
  <2> QED BY <2>1, <2>2
<1> HIDE DEF a, b, e
<1>7. e \in BtcHeights /\ e \in Nat /\ e <= b /\ (a <= b => a <= e)
  BY <1>2, <1>4, RescanAssumption DEF BtcHeights
<1>8. e # b => e + 1 \in BtcHeights /\ e + 1 <= b
  BY <1>2, <1>7, RescanAssumption DEF BtcHeights
<1>9. rest \in Ranges /\ Blocks(rest) = (IF e = b THEN {} ELSE (e + 1)..b)
  <2>1. CASE e = b
    BY <2>1 DEF Ranges, Blocks
  <2>2. CASE e # b
    BY <2>2, <1>2, <1>8, NewRange
  <2> QED BY <2>1, <2>2
<1>10. <<a, e>> \in Ranges /\ <<a, e>> # None /\ Blocks(<<a, e>>) = a..e
  BY <1>2, <1>7, NewRange
<1>11. Blocks(s.range) = a..b
  BY <1>2, NewRange
<1>12. a..b \subseteq Blocks(rest) \cup (a..e)
  BY <1>2, <1>7, <1>9
<1>13. rest # None => rest[1] = e + 1 /\ rest[2] = b
  OBVIOUS
<1>14. s.range[1] = a /\ s.range[2] = b
  BY DEF a, b
<1> HIDE DEF rest
<1>15. AfterChunk(s, n).newest = s.newest /\ AfterChunk(s, n).range = rest
  BY <1>6
<1>16. AfterChunk(s, n) \in Status
  BY <1>1, <1>6, <1>9 DEF Status
<1>17. NextChunk(s, n)[1] = a /\ NextChunk(s, n)[2] = e
  BY <1>5
<1>18. rest # None => rest[1] <= rest[2]
  BY <1>8, <1>9, <1>13 DEF Blocks, rest
<1> QED BY <1>5, <1>7, <1>10, <1>11, <1>12, <1>13, <1>14, <1>15, <1>16, <1>17, <1>18

LEMMA CutOffFacts ==
    ASSUME NEW s \in Status, NEW p \in BtcHeights
    PROVE  /\ CutOff(s, p) \in Status
           /\ CutOff(s, p).newest = s.newest
           /\ (CutOff(s, p).range = None) <=> (s.range = None)
           /\ s.range # None =>
                /\ CutOff(s, p).range[2] = s.range[2]
                /\ p <= s.range[2] /\ s.range[1] <= s.range[2]
                        => CutOff(s, p).range[1] <= s.range[2]
                /\ NeedsPruning(s, p) =>
                        /\ Blocks(s.range) = s.range[1]..s.range[2]
                        /\ Blocks(CutOff(s, p).range) = p..s.range[2]
           /\ ~ NeedsPruning(s, p) => CutOff(s, p) = s
<1>1. s.range \in Ranges /\ s.newest \in Times
      /\ s = [newest |-> s.newest, range |-> s.range]
  BY DEF Status
<1>2. CASE ~ NeedsPruning(s, p)
  BY <1>1, <1>2, RangeFacts DEF CutOff
<1>3. CASE NeedsPruning(s, p)
  <2> DEFINE b == s.range[2]
             r == <<p, b>>
  <2>1. s.range # None
    BY <1>3 DEF NeedsPruning
  <2>2. s.range = <<s.range[1], b>> /\ b \in Nat /\ b \in BtcHeights /\ s.range[1] \in BtcHeights
    BY <1>1, <2>1, RangeFacts, RescanAssumption DEF BtcHeights
  <2>3. r \in Ranges /\ r # None /\ Blocks(r) = p..b
    BY <2>2, NewRange
  <2>4. Blocks(s.range) = s.range[1]..b
    BY <2>2, NewRange
  <2>5. CutOff(s, p) = [s EXCEPT !.range = r]
    BY <1>3 DEF CutOff
  <2>6. r[1] = p /\ r[2] = b
    OBVIOUS
  <2> HIDE DEF r
  <2>7. CutOff(s, p) = [newest |-> s.newest, range |-> r]
    BY <1>1, <2>5
  <2>8. CutOff(s, p) \in Status /\ CutOff(s, p).newest = s.newest /\ CutOff(s, p).range = r
    BY <1>1, <2>3, <2>7 DEF Status
  <2> QED BY <1>3, <2>1, <2>3, <2>4, <2>6, <2>8
<1> QED BY <1>2, <1>3

----------------------------------------------------------------------------
(***************************************************************************)
(* RInv is inductive.                                                      *)
(***************************************************************************)

LEMMA InitInv == Init => RInv
<1> SUFFICES ASSUME Init PROVE RInv
  OBVIOUS
<1>1. Opened = {}
  BY DEF Init, Opened
<1>2. Cardinality(Opened) = 0 /\ 0 \in Times
  BY <1>1, OpenedFacts, FS_EmptySet DEF Times
<1>3. None \in Ranges /\ Blank \in Status /\ Blank.newest = 0 /\ Blank.range = None
  BY <1>2 DEF Ranges, Blank, Status
<1>4. 0 \in BtcHeights /\ 1 \in 1..MaxChunk /\ 0 \in 0..MaxCrashes
  BY RescanAssumption DEF BtcHeights
<1>5. TypeOK
  BY <1>2, <1>3, <1>4 DEF Init, TypeOK
<1>6. Processed(db) = {} /\ Processed(status) = {}
  BY DEF Init, Processed
<1>7. Numbered /\ AllFound /\ Ranged
  BY <1>1, <1>2, <1>3, <1>6 DEF Init, Numbered, AllFound, Ranged
<1> QED BY <1>5, <1>6, <1>7 DEF RInv, DbComplete, StatusComplete

LEMMA OpenStep ==
    ASSUME RInv, NEW i \in Issues, Open(i)
    PROVE  RInv'
<1> USE DEF RInv
<1>0. PICK n \in Nat : n = Cardinality(Opened) /\ opentime' = [opentime EXCEPT ![i] = n + 1]
  BY OpenedFacts DEF Open
<1>1. Opened' = Opened \cup {i} /\ i \notin Opened
  <2>1. opentime \in [Issues -> Times] /\ opentime[i] = 0
    BY DEF TypeOK, Open
  <2>2. opentime'[i] # 0 /\ \A j \in Issues \ {i} : opentime'[j] = opentime[j]
    BY <1>0, <2>1
  <2> QED BY <2>1, <2>2 DEF Opened
<1>2. Opened' \in SUBSET Issues
  BY DEF Opened
<1>3. Cardinality(Opened)' = Cardinality(Opened) + 1 /\ Cardinality(Opened)' <= Cardinality(Issues)
  BY <1>1, <1>2, OpenedFacts, RescanAssumption, FS_AddElement, FS_Subset
<1>4. Cardinality(Opened) \in Nat /\ opentime' = [opentime EXCEPT ![i] = Cardinality(Opened) + 1]
  BY OpenedFacts DEF Open
<1>5. Cardinality(Opened) + 1 \in Times
  BY <1>3, <1>4, OpenedFacts DEF Times
<1>6. TypeOK'
  BY <1>4, <1>5 DEF Open, TypeOK, walletVars, memVars
<1>7. \A j \in Issues : opentime[j] \in Nat
  BY OpenedFacts DEF TypeOK, Times
<1>8. status.newest \in Nat /\ db.newest \in Nat
  BY OpenedFacts DEF TypeOK, Times, Status
<1>9. Numbered'
  BY <1>1, <1>3, <1>4, <1>7, <1>8, RescanAssumption DEF Numbered, Open, TypeOK, walletVars, memVars, BtcHeights
<1>10. Processed(db)' = Processed(db) /\ Processed(status)' = Processed(status)
  <2>1. status.newest <= n /\ db.newest <= n /\ opentime[i] = 0
    BY <1>0 DEF Numbered, Open
  <2>2. opentime'[i] = n + 1 /\ \A j \in Issues \ {i} : opentime'[j] = opentime[j]
    BY <1>0 DEF TypeOK
  <2>3. status' = status /\ db' = db
    BY DEF Open, memVars
  <2> QED BY <1>7, <1>8, <2>1, <2>2, <2>3 DEF Processed
<1>11. AllFound'
  <2>1. \A j \in Opened', k \in requests : opentime'[j] <= opentime'[k] => j \in requests
    BY <1>1, <1>4, <1>7 DEF AllFound, Numbered, TypeOK
  <2> QED BY <1>1, <1>10, <2>1 DEF AllFound, Open, memVars
<1>12. Ranged'
  BY DEF Ranged, Open, walletVars, memVars
<1>13. i \notin Processed(db) /\ i \notin Processed(status)
  BY <1>1 DEF Processed, Opened
<1>14. DbComplete' /\ StatusComplete'
  BY <1>10, <1>13 DEF DbComplete, StatusComplete, SeenBut, Open, TypeOK, walletVars, memVars, Processed
<1> QED BY <1>6, <1>9, <1>11, <1>12, <1>14

\* Steps that leave the requests and the statuses alone.
LEMMA SameStatus ==
    ASSUME UNCHANGED <<opentime, status, db>>
    PROVE  /\ Opened' = Opened
           /\ Processed(db)' = Processed(db) /\ Processed(status)' = Processed(status)
  BY DEF Opened, Processed

LEMMA MineStep ==
    ASSUME RInv, Mine
    PROVE  RInv'
<1> USE DEF RInv
<1> USE DEF Mine, memVars
<1>1. Opened' = Opened /\ Processed(db)' = Processed(db) /\ Processed(status)' = Processed(status)
  BY SameStatus
<1>2. tip \in Nat /\ tip + 1 \in BtcHeights /\ tip' = tip + 1
  BY RescanAssumption DEF TypeOK, BtcHeights
<1>3. TypeOK'
  BY <1>2 DEF TypeOK, See
<1>4. \A i \in Issues : btcHeight[i] \in Nat
  BY RescanAssumption DEF TypeOK, BtcHeights
<1>5. Numbered'
  BY <1>1, <1>2, <1>4 DEF Numbered, Opened
<1>6. AllFound'
  BY <1>1 DEF AllFound
<1>7. Ranged'
  <2>1. ASSUME NEW s \in {status, db}, s.range # None
        PROVE  s.range[2] <= tip + 1
    <3>1. s.range \in Ranges
      BY DEF TypeOK, Status
    <3> QED BY <1>2, <2>1, <3>1, RangeFacts DEF Ranged
  <2>2. pruned <= tip + 1
    BY <1>2, RescanAssumption DEF Ranged, TypeOK, BtcHeights
  <2> QED BY <2>1, <2>2 DEF Ranged
<1>8. ASSUME NEW i \in Issues, NEW H, SeenBut(i, H)
      PROVE  i \in keys' /\ btcHeight'[i]..tip' \subseteq seen'[i] \cup lost'[i] \cup H
  <2>1. i \in keys /\ btcHeight[i]..tip \subseteq seen[i] \cup lost[i] \cup H
    BY <1>8 DEF SeenBut
  <2>2. seen'[i] = seen[i] \cup {tip + 1} /\ lost' = lost
    BY <2>1 DEF See
  <2>3. btcHeight[i]..(tip + 1) \subseteq (btcHeight[i]..tip) \cup {tip + 1}
    BY <1>2, <1>4
  <2> QED BY <2>1, <2>2, <2>3
<1>9. DbComplete' /\ StatusComplete'
  BY <1>1, <1>8 DEF DbComplete, StatusComplete, SeenBut, Processed
<1> QED BY <1>3, <1>5, <1>6, <1>7, <1>9

LEMMA PruneStep ==
    ASSUME RInv, Prune
    PROVE  RInv'
<1> USE DEF RInv
<1> USE DEF Prune, memVars, walletVars
<1>1. Opened' = Opened /\ Processed(db)' = Processed(db) /\ Processed(status)' = Processed(status)
  BY SameStatus
<1>2. tip \in Nat /\ pruned \in Nat /\ pruned + 1 \in BtcHeights /\ pruned + 1 <= tip
  BY RescanAssumption DEF TypeOK, BtcHeights
<1>3. TypeOK'
  BY <1>2 DEF TypeOK
<1>4. Numbered' /\ AllFound'
  BY <1>1 DEF Numbered, AllFound
<1>5. Ranged'
  BY <1>2 DEF Ranged
<1>6. DbComplete' /\ StatusComplete'
  BY <1>1 DEF DbComplete, StatusComplete, SeenBut
<1> QED BY <1>3, <1>4, <1>5, <1>6

\* A key is imported.
LEMMA KeyStep ==
    ASSUME RInv, NEW i \in Issues, ImportLive(i) \/ ImportKey(i)
    PROVE  RInv'
<1> USE DEF RInv
<1> USE DEF ImportLive, ImportKey, memVars, chainVars
<1>1. Opened' = Opened /\ Processed(db)' = Processed(db) /\ Processed(status)' = Processed(status)
  BY SameStatus
<1>2. TypeOK'
  BY DEF TypeOK
<1>3. Numbered' /\ AllFound' /\ Ranged'
  BY <1>1 DEF Numbered, AllFound, Ranged
<1>4. DbComplete' /\ StatusComplete'
  BY <1>1 DEF DbComplete, StatusComplete, SeenBut
<1> QED BY <1>2, <1>3, <1>4

LEMMA KeyFailsStep ==
    ASSUME RInv, NEW i \in Issues, ImportKeyFails(i)
    PROVE  RInv'
<1> USE DEF RInv
<1> USE DEF ImportKeyFails, memVars, chainVars, walletVars
<1>1. Opened' = Opened /\ Processed(db)' = Processed(db) /\ Processed(status)' = Processed(status)
  BY SameStatus
<1>2. TypeOK'
  BY DEF TypeOK
<1>3. Numbered' /\ AllFound' /\ Ranged'
  BY <1>1 DEF Numbered, AllFound, Ranged
<1>4. DbComplete' /\ StatusComplete'
  BY <1>1 DEF DbComplete, StatusComplete, SeenBut
<1> QED BY <1>2, <1>3, <1>4

\* Start: memory takes over the status of the database.
LEMMA StartStep ==
    ASSUME RInv, Start
    PROVE  RInv'
<1> USE DEF RInv
<1> USE DEF Start, chainVars, walletVars
<1>1. Opened' = Opened /\ Processed(db)' = Processed(db) /\ Processed(status)' = Processed(db)
  BY DEF Opened, Processed
<1>2. Opened \subseteq Issues /\ 1 \in 1..MaxChunk
  BY RescanAssumption DEF Opened
<1>3. TypeOK'
  BY <1>2 DEF TypeOK
<1>4. Numbered'
  BY <1>1 DEF Numbered
<1>5. AllFound'
  BY <1>1 DEF AllFound, Processed, Opened
<1>6. chunk = None
  BY DEF Ranged
<1>7. Ranged'
  BY <1>6 DEF Ranged
<1>8. DbComplete' /\ StatusComplete'
  <2>1. DbComplete'
    BY <1>1 DEF DbComplete, SeenBut
  <2>2. ASSUME NEW i \in Processed(db) \ failed
        PROVE  SeenBut(i, Blocks(db.range) \cup Blocks(chunk))
    BY DEF DbComplete, SeenBut
  <2> QED BY <1>1, <2>1, <2>2 DEF StatusComplete, SeenBut
<1> QED BY <1>3, <1>4, <1>5, <1>7, <1>8

\* ReadHeight: the range takes in the blocks of the requests that are new, and
\* no other request is processed by the new status.
LEMMA ReadHeightStep ==
    ASSUME RInv, ReadHeight
    PROVE  RInv'
<1> USE DEF RInv
<1> USE DEF ReadHeight, chainVars, walletVars
<1> DEFINE new == {i \in requests : opentime[i] > status.newest}
           u == Update(status, requests, tip)
<1>0. status' = u
  OBVIOUS
<1>1. /\ u \in Status
      /\ new = {} => u = status
      /\ new # {} =>
            /\ \E k \in new : u.newest = opentime[k]
            /\ \A k \in new : opentime[k] <= u.newest
            /\ u.range # None /\ u.range[2] = tip /\ u.range[1] <= tip
            /\ \A k \in new : u.range[1] <= btcHeight[k]
            /\ status.range # None => u.range[1] <= status.range[1]
  BY UpdateFacts
<1>2. Opened' = Opened /\ Processed(db)' = Processed(db)
  BY DEF Opened, Processed
<1>3. \A i \in Issues : opentime[i] \in Nat /\ btcHeight[i] \in Nat
  BY OpenedFacts, RescanAssumption DEF TypeOK, Times, BtcHeights
<1>4. status.newest \in Nat /\ u.newest \in Nat /\ tip \in Nat
  BY <1>1, OpenedFacts, RescanAssumption DEF TypeOK, Status, Times, BtcHeights
<1>5. new \subseteq requests /\ requests \subseteq Issues /\ \A i \in requests : i \in Opened
  BY DEF TypeOK, AllFound
<1>6. new # {} => status.newest < u.newest
  BY <1>1, <1>3, <1>4, <1>5
<1>7. Processed(u) = Processed(status) \cup new
  <2>1. ASSUME NEW i \in Processed(u), i \notin Processed(status)
        PROVE  i \in new
    <3>1. new # {}
      BY <1>1, <2>1
    <3>2. PICK k \in new : u.newest = opentime[k]
      BY <1>1, <3>1
    <3>3. i \in Opened /\ i \in Issues /\ opentime[i] <= opentime[k]
      BY <3>2 DEF Processed, Opened
    <3>4. i \in requests
      BY <1>5, <3>3 DEF AllFound
    <3> QED BY <1>3, <1>4, <2>1, <3>3, <3>4 DEF Processed
  <2>2. ASSUME NEW i \in new
        PROVE  i \in Processed(u)
    BY <1>1, <1>5, <2>2 DEF Processed, Opened
  <2>3. ASSUME NEW i \in Processed(status)
        PROVE  i \in Processed(u)
    BY <1>1, <1>3, <1>4, <1>6 DEF Processed
  <2> QED BY <2>1, <2>2, <2>3
<1>8. requests \subseteq Processed(status) \cup new
  BY <1>3, <1>4, <1>5 DEF Processed, Opened
<1>9. chunk = None
  BY DEF Ranged
<1>10. TypeOK'
  BY <1>1 DEF TypeOK
<1>11. Numbered'
  <2>1. u.newest <= Cardinality(Opened)
    BY <1>1, <1>5 DEF Numbered
  <2> QED BY <1>0, <1>2, <2>1 DEF Numbered
<1>12. Processed(status)' = Processed(u)
  BY DEF Processed
<1>13. AllFound'
  <2>1. Processed(u) \subseteq requests
    BY <1>5, <1>7 DEF AllFound
  <2>2. requests \subseteq Processed(u)
    BY <1>7, <1>8
  <2>3. requests' = requests /\ opentime' = opentime
    OBVIOUS
  <2> HIDE DEF u, new
  <2> QED BY <1>2, <1>12, <2>1, <2>2, <2>3 DEF AllFound
<1>14. Ranged'
  <2>1. u.range # None => u.range[2] <= tip
    BY <1>1, <1>4 DEF Ranged
  <2> HIDE DEF u, new
  <2> QED BY <1>0, <1>9, <2>1 DEF Ranged
<1>15. DbComplete'
  BY <1>2 DEF DbComplete, SeenBut
<1>16. ASSUME NEW i \in Processed(u) \ failed
       PROVE  SeenBut(i, Blocks(u.range))
  <2>1. CASE new = {}
    BY <1>1, <1>9, <2>1 DEF StatusComplete, SeenBut, Blocks
  <2>2. CASE new # {}
    <3>1. u.range # None /\ u.range[2] = tip
      BY <1>1, <2>2
    <3>2. Blocks(u.range) = u.range[1]..tip /\ u.range[1] \in Nat
      BY <1>1, <3>1, RangeFacts DEF Blocks, Status
    <3>3. CASE i \in new
      <4>1. u.range[1] <= btcHeight[i]
        BY <1>1, <2>2, <3>3
      <4>2. i \in keys
        BY <1>5, <3>3
      <4>3. btcHeight[i]..tip \subseteq u.range[1]..tip
        BY <1>3, <1>4, <1>5, <3>2, <3>3, <4>1
      <4> QED BY <3>2, <4>2, <4>3 DEF SeenBut
    <3>4. CASE i \in Processed(status)
      <4>1. SeenBut(i, Blocks(status.range))
        BY <1>9, <3>4 DEF StatusComplete, SeenBut, Blocks
      <4>2. Blocks(status.range) \subseteq Blocks(u.range)
        <5>1. CASE status.range = None
          BY <5>1 DEF Blocks
        <5>2. CASE status.range # None
          <6>1. u.range[1] <= status.range[1] /\ status.range[2] <= tip
            BY <1>1, <2>2, <5>2 DEF Ranged
          <6>2. Blocks(status.range) = status.range[1]..status.range[2]
                /\ status.range[1] \in Nat /\ status.range[2] \in Nat
            BY <5>2, RangeFacts DEF TypeOK, Status, Blocks
          <6>3. status.range[1]..status.range[2] \subseteq u.range[1]..tip
            BY <1>4, <3>2, <6>1, <6>2
          <6> QED BY <3>2, <6>2, <6>3
        <5> QED BY <5>1, <5>2
      <4> QED BY <4>1, <4>2 DEF SeenBut
    <3> QED BY <1>7, <3>3, <3>4
  <2> QED BY <2>1, <2>2
<1>17. StatusComplete'
  <2>1. failed' = failed /\ keys' = keys /\ seen' = seen /\ lost' = lost /\ btcHeight' = btcHeight /\ tip' = tip
    OBVIOUS
  <2> HIDE DEF u, new
  <2> QED BY <1>0, <1>12, <1>16, <2>1 DEF StatusComplete, SeenBut
<1> QED BY <1>10, <1>11, <1>13, <1>14, <1>15, <1>17

\* PruneStatus: what is cut off the range is asked from electrs, for the
\* requests that need it.
LEMMA PruneStatusStep ==
    ASSUME RInv, PruneStatus
    PROVE  RInv'
<1> USE DEF RInv
<1> USE DEF PruneStatus, chainVars
<1> DEFINE u == CutOff(status, pruned)
<1>0. status' = u /\ status \in Status /\ pruned \in BtcHeights
  BY DEF TypeOK
<1>1. /\ u \in Status /\ u.newest = status.newest
      /\ (u.range = None) <=> (status.range = None)
      /\ status.range # None =>
            /\ u.range[2] = status.range[2]
            /\ NeedsPruning(status, pruned) =>
                    /\ Blocks(status.range) = status.range[1]..status.range[2]
                    /\ Blocks(u.range) = pruned..status.range[2]
      /\ ~ NeedsPruning(status, pruned) => u = status
  BY <1>0, CutOffFacts
<1> HIDE DEF u
<1>2. Opened' = Opened /\ Processed(db)' = Processed(db) /\ Processed(status)' = Processed(status)
  BY <1>0, <1>1 DEF Opened, Processed
<1>3. tip \in Nat /\ pruned \in Nat /\ 0..tip \subseteq BtcHeights
  BY RescanAssumption DEF TypeOK, BtcHeights
<1>4. /\ seen' \in [Issues -> SUBSET BtcHeights]
      /\ \A i \in Issues : seen[i] \subseteq seen'[i]
      /\ lost' = lost
  BY <1>3 DEF TypeOK
<1>5. TypeOK'
  BY <1>0, <1>1, <1>4 DEF TypeOK
<1>6. Numbered' /\ AllFound'
  BY <1>0, <1>1, <1>2 DEF Numbered, AllFound
<1>7. chunk = None
  BY DEF Ranged
<1>8. Ranged'
  BY <1>0, <1>1, <1>7 DEF Ranged
<1>9. DbComplete'
  BY <1>2, <1>4 DEF DbComplete, SeenBut, Processed
<1>10. ASSUME NEW i \in Processed(status) \ failed
       PROVE  btcHeight[i]..tip \subseteq seen'[i] \cup lost[i] \cup Blocks(u.range) /\ i \in keys
  <2>1. i \in requests /\ i \in Issues
    BY DEF AllFound, Processed
  <2>2. i \in keys /\ btcHeight[i]..tip \subseteq seen[i] \cup lost[i] \cup Blocks(status.range)
    BY <1>7 DEF StatusComplete, SeenBut, Blocks
  <2>3. btcHeight[i] \in Nat
    BY <2>1, RescanAssumption DEF TypeOK, BtcHeights
  <2>4. CASE ~ NeedsPruning(status, pruned)
    BY <1>1, <1>4, <2>1, <2>2, <2>4
  <2>5. CASE NeedsPruning(status, pruned) /\ btcHeight[i] < pruned
    <3>1. seen'[i] = seen[i] \cup 0..tip
      BY <2>1, <2>5
    <3>2. btcHeight[i]..tip \subseteq 0..tip
      BY <1>3, <2>3
    <3> QED BY <2>2, <3>1, <3>2
  <2>6. CASE NeedsPruning(status, pruned) /\ ~ (btcHeight[i] < pruned)
    <3>1. status.range # None
      BY <2>6 DEF NeedsPruning
    <3>2. status.range[1] \in Nat /\ status.range[2] \in Nat
      BY <1>0, <3>1, RangeFacts DEF Status
    <3>3. ASSUME NEW h \in btcHeight[i]..tip, h \notin seen[i] \cup lost[i]
          PROVE  h \in pruned..status.range[2]
      BY <1>1, <1>3, <2>2, <2>3, <2>6, <3>1, <3>2, <3>3
    <3> QED BY <1>1, <1>4, <2>1, <2>2, <2>6, <3>1, <3>3
  <2> QED BY <2>4, <2>5, <2>6
<1>11. StatusComplete'
  BY <1>0, <1>2, <1>10 DEF StatusComplete, SeenBut
<1> QED BY <1>5, <1>6, <1>8, <1>9, <1>11

\* Store: the database takes over the status of the memory.
LEMMA StoreStep ==
    ASSUME RInv, Store
    PROVE  RInv'
<1> USE DEF RInv
<1> USE DEF Store, chainVars, walletVars
<1>1. Opened' = Opened /\ Processed(db)' = Processed(status) /\ Processed(status)' = Processed(status)
  BY DEF Opened, Processed
<1>2. chunk = None
  BY DEF Ranged
<1>3. TypeOK'
  BY DEF TypeOK
<1>4. Numbered' /\ AllFound'
  BY <1>1 DEF Numbered, AllFound
<1>5. Ranged'
  BY <1>2 DEF Ranged
<1>6. \A i \in Processed(status) \ failed : SeenBut(i, Blocks(status.range))
  BY <1>2 DEF StatusComplete, SeenBut, Blocks
<1>7. DbComplete' /\ StatusComplete'
  BY <1>1, <1>6 DEF DbComplete, StatusComplete, SeenBut
<1> QED BY <1>3, <1>4, <1>5, <1>7

LEMMA TakeChunkStep ==
    ASSUME RInv, TakeChunk
    PROVE  RInv'
<1> USE DEF RInv
<1> USE DEF TakeChunk, chainVars, walletVars
<1> DEFINE u == AfterChunk(status, size)
           c == NextChunk(status, size)
<1>0. /\ status' = u /\ chunk' = c /\ status \in Status /\ status.range # None
      /\ size \in Nat \ {0}
  BY RescanAssumption DEF TypeOK
<1>1. /\ c \in Ranges /\ c # None
      /\ u \in Status /\ u.newest = status.newest
      /\ Blocks(status.range) \subseteq Blocks(u.range) \cup Blocks(c)
      /\ c[1] = status.range[1] /\ c[2] <= status.range[2]
      /\ u.range # None => u.range[2] = status.range[2]
  BY <1>0, ChunkFacts
<1> HIDE DEF u, c
<1>2. Opened' = Opened /\ Processed(db)' = Processed(db) /\ Processed(status)' = Processed(status)
  BY <1>0, <1>1 DEF Opened, Processed
<1>3. TypeOK'
  BY <1>0, <1>1 DEF TypeOK
<1>4. Numbered' /\ AllFound'
  BY <1>0, <1>1, <1>2 DEF Numbered, AllFound
<1>5. chunk = None
  BY DEF Ranged
<1>6. Ranged'
  BY <1>0, <1>1 DEF Ranged
<1>7. DbComplete'
  BY <1>2 DEF DbComplete, SeenBut
<1>8. ASSUME NEW i \in Processed(status) \ failed
      PROVE  SeenBut(i, Blocks(u.range) \cup Blocks(c))
  <2>1. SeenBut(i, Blocks(status.range))
    BY <1>5 DEF StatusComplete, SeenBut, Blocks
  <2> QED BY <1>1, <2>1 DEF SeenBut
<1>9. StatusComplete'
  BY <1>0, <1>2, <1>8 DEF StatusComplete, SeenBut
<1> QED BY <1>3, <1>4, <1>6, <1>7, <1>9

\* Rescan: the wallet has seen the chunk, with the keys that it has, or has
\* lost some of it.
LEMMA RescanStep ==
    ASSUME RInv, Rescan \/ RescanBreaks
    PROVE  RInv'
<1> USE DEF RInv
<1>0. pc = "rescan" /\ ChunkDone /\ crashes' \in 0..MaxCrashes
  BY RescanAssumption DEF Rescan, RescanBreaks, TypeOK
<1> USE DEF ChunkDone, chainVars
<1>1. Opened' = Opened /\ Processed(db)' = Processed(db) /\ Processed(status)' = Processed(status)
  BY <1>0, SameStatus
<1>2. chunk # None /\ chunk \in Ranges
  BY <1>0 DEF Ranged, TypeOK
<1>3. Blocks(chunk) = chunk[1]..chunk[2] /\ chunk[1]..chunk[2] \subseteq BtcHeights
  BY <1>2, RangeFacts, RescanAssumption DEF Blocks, BtcHeights
<1>4. size' \in 1..MaxChunk
  <2>1. size \in Nat /\ MaxChunk \in Nat /\ 1 <= size /\ size <= MaxChunk
    BY RescanAssumption DEF TypeOK
  <2>2. 2 * size \in Nat /\ size \div 2 \in Nat /\ size \div 2 <= size
    BY <2>1
  <2>3. Min({2 * size, MaxChunk}) \in 1..MaxChunk
    <3>1. Min({2 * size, MaxChunk}) = IF 2 * size <= MaxChunk THEN 2 * size ELSE MaxChunk
      BY <2>1, <2>2, MinMaxOfTwo
    <3> QED BY <2>1, <3>1
  <2>4. Max({size \div 2, 1}) \in 1..MaxChunk
    <3>1. Max({size \div 2, 1}) = IF size \div 2 <= 1 THEN 1 ELSE size \div 2
      BY <2>1, <2>2, MinMaxOfTwo
    <3> QED BY <2>1, <2>2, <3>1
  <2> QED BY <1>0, <2>3, <2>4
<1>5. /\ seen' \in [Issues -> SUBSET BtcHeights] /\ lost' \in [Issues -> SUBSET BtcHeights]
      /\ \A i \in Issues : seen[i] \subseteq seen'[i] /\ lost[i] \subseteq lost'[i]
      /\ \A i \in keys : Blocks(chunk) \subseteq seen'[i] \cup lost'[i]
  <2>1. CASE Rescan
    BY <1>3, <2>1 DEF Rescan, TypeOK, See
  <2>2. CASE RescanBreaks
    <3>1. chunk[1] \in Nat /\ chunk[2] \in Nat
      BY <1>2, RangeFacts
    <3> DEFINE S == {chunk[1] - 1} \cup (IF Scannable(chunk) THEN chunk[1]..(chunk[2] - 1) ELSE {})
    <3>a. \A h \in S : h \in Int /\ (h = chunk[1] - 1 \/ h \in chunk[1]..(chunk[2] - 1))
      BY <3>1
    <3>b. PICK h \in S :
            /\ See(chunk[1]..h)
            /\ lost' = [i \in Issues |-> IF i \in keys THEN lost[i] \cup (h + 1)..chunk[2] ELSE lost[i]]
      BY <2>2 DEF RescanBreaks
    <3> HIDE DEF S
    <3>2. /\ h \in Int
          /\ h = chunk[1] - 1 \/ h \in chunk[1]..(chunk[2] - 1)
          /\ See(chunk[1]..h)
          /\ lost' = [i \in Issues |-> IF i \in keys THEN lost[i] \cup (h + 1)..chunk[2] ELSE lost[i]]
      BY <3>a, <3>b
    <3>3. chunk[1]..h \subseteq Blocks(chunk) /\ (h + 1)..chunk[2] \subseteq Blocks(chunk)
          /\ Blocks(chunk) \subseteq (chunk[1]..h) \cup ((h + 1)..chunk[2])
      BY <1>3, <3>1, <3>2
    <3>4. seen' = [i \in Issues |-> IF i \in keys THEN seen[i] \cup (chunk[1]..h) ELSE seen[i]]
      BY <3>2 DEF See
    <3> QED BY <1>3, <3>2, <3>3, <3>4 DEF TypeOK
  <2> QED BY <2>1, <2>2
<1>6. None \in Ranges /\ Blocks(None) = {}
  BY DEF Ranges, Blocks
<1>7. TypeOK'
  BY <1>0, <1>4, <1>5, <1>6 DEF TypeOK
<1>8. Numbered' /\ AllFound'
  BY <1>0, <1>1 DEF Numbered, AllFound
<1>9. Ranged'
  BY <1>0 DEF Ranged
<1>10. DbComplete'
  BY <1>0, <1>1, <1>5 DEF DbComplete, SeenBut, Processed
<1>11. StatusComplete'
  <2>1. ASSUME NEW i \in Processed(status) \ failed
        PROVE  i \in keys /\ btcHeight[i]..tip \subseteq seen'[i] \cup lost'[i] \cup (Blocks(status.range) \cup {})
    <3>1. i \in keys /\ btcHeight[i]..tip \subseteq seen[i] \cup lost[i] \cup (Blocks(status.range) \cup Blocks(chunk))
      BY DEF StatusComplete, SeenBut
    <3>2. i \in Issues
      BY DEF Processed
    <3> QED BY <1>5, <3>1, <3>2
  <2>2. Blocks(chunk)' = {}
    BY <1>0, <1>6
  <2> QED BY <1>0, <1>1, <2>1, <2>2 DEF StatusComplete, SeenBut
<1> QED BY <1>7, <1>8, <1>9, <1>10, <1>11

\* The start-up is given up: what is in memory is lost.
LEMMA AbortStep ==
    ASSUME RInv, Abort, crashes' \in 0..MaxCrashes
    PROVE  RInv'
<1> USE DEF RInv
<1> USE DEF Abort, chainVars, walletVars
<1>1. Opened' = Opened /\ Processed(db)' = Processed(db)
  BY DEF Opened, Processed
<1>2. 0 \in Times /\ Blank \in Status /\ Blank.newest = 0 /\ Blank.range = None /\ None \in Ranges
  BY OpenedFacts DEF Times, Status, Blank, Ranges
<1>3. Processed(status)' = {}
  BY <1>2, OpenedFacts DEF Processed, TypeOK, Times
<1>4. TypeOK'
  BY <1>2, RescanAssumption DEF TypeOK
<1>5. Numbered' /\ AllFound' /\ Ranged'
  BY <1>1, <1>2, <1>3, OpenedFacts DEF Numbered, AllFound, Ranged
<1>6. DbComplete' /\ StatusComplete'
  BY <1>1, <1>3 DEF DbComplete, StatusComplete, SeenBut
<1> QED BY <1>4, <1>5, <1>6

LEMMA FinishStep ==
    ASSUME RInv, Finish
    PROVE  RInv'
<1> USE DEF RInv
<1> USE DEF Finish, chainVars, walletVars
<1>1. Opened' = Opened /\ Processed(db)' = Processed(db) /\ Processed(status)' = Processed(status)
  BY SameStatus
<1>2. TypeOK'
  BY DEF TypeOK
<1>3. Numbered' /\ AllFound' /\ Ranged'
  BY <1>1 DEF Numbered, AllFound, Ranged
<1>4. DbComplete' /\ StatusComplete'
  BY <1>1 DEF DbComplete, StatusComplete, SeenBut
<1> QED BY <1>2, <1>3, <1>4

LEMMA NextInv ==
    ASSUME RInv, [Next]_vars
    PROVE  RInv'
<1>1. ASSUME NEW i \in Issues, Open(i) \/ ImportLive(i)
      PROVE  RInv'
  BY <1>1, OpenStep, KeyStep
<1>2. ASSUME NEW i \in Issues, ImportKey(i) \/ ImportKeyFails(i)
      PROVE  RInv'
  BY <1>2, KeyStep, KeyFailsStep
<1>3. ASSUME RescanRejected \/ RestartService \/ Crash
      PROVE  RInv'
  <2>1. Abort /\ crashes' \in 0..MaxCrashes
    BY <1>3, RescanAssumption DEF RescanRejected, RestartService, Crash, RInv, TypeOK
  <2> QED BY <2>1, AbortStep
<1>4. CASE UNCHANGED vars
  <2>1. Opened' = Opened /\ Processed(db)' = Processed(db) /\ Processed(status)' = Processed(status)
    BY <1>4, SameStatus DEF vars, chainVars, memVars
  <2>2. TypeOK'
    BY <1>4 DEF vars, chainVars, memVars, walletVars, RInv, TypeOK
  <2>3. Numbered' /\ AllFound' /\ Ranged'
    BY <1>4, <2>1 DEF vars, chainVars, memVars, walletVars, RInv, Numbered, AllFound, Ranged
  <2>4. DbComplete' /\ StatusComplete'
    BY <1>4, <2>1 DEF vars, chainVars, memVars, walletVars, RInv, DbComplete, StatusComplete, SeenBut
  <2> QED BY <2>2, <2>3, <2>4 DEF RInv
<1> QED
  BY <1>1, <1>2, <1>3, <1>4, MineStep, PruneStep, StartStep, ReadHeightStep, PruneStatusStep,
     StoreStep, TakeChunkStep, RescanStep, FinishStep
  DEF Next, Environment, AddKeys

\* Every variable keeps its type.
THEOREM RescanTypeCorrect == Spec => []TypeOK
<1>1. RInv => TypeOK
  BY DEF RInv
<1> QED BY <1>1, InitInv, NextInv, PTL DEF Spec

\* When the vault is up, its wallet has seen every block since the opening of
\* each request that the start-up found and whose key was always imported, but
\* for those of chunks whose call broke off.
THEOREM WalletComplete == Spec => []NoDepositOverlooked
<1>1. RInv => NoDepositOverlooked
  <2> SUFFICES ASSUME RInv, pc = "up", NEW i \in requests \ failed
               PROVE  btcHeight[i]..tip \subseteq seen[i] \cup lost[i]
    BY DEF NoDepositOverlooked
  <2>1. status.range = None /\ chunk = None
    BY DEF RInv, Ranged
  <2>2. i \in Processed(status)
    BY DEF RInv, AllFound
  <2> QED BY <2>1, <2>2 DEF RInv, StatusComplete, SeenBut, Blocks
<1> QED BY <1>1, InitInv, NextInv, PTL DEF Spec

----------------------------------------------------------------------------
(***************************************************************************)
(* The queued range can be scanned.                                        *)
(***************************************************************************)

\* A range that ends where the node still has blocks starts before that.
Queued(s) == Inverted(s) => s.range[2] < pruned
QInv == RInv /\ Queued(status) /\ Queued(db)

LEMMA QueuedInit == Init => QInv
  BY InitInv DEF Init, QInv, Queued, Inverted, Blank

LEMMA QueuedNext ==
    ASSUME QInv, [Next]_vars
    PROVE  QInv'
<1>1. RInv /\ RInv'
  BY NextInv DEF QInv
<1>2. pruned \in Nat /\ tip \in Nat /\ pruned <= tip /\ pruned \in BtcHeights
  BY <1>1, RescanAssumption DEF RInv, TypeOK, Ranged, BtcHeights
<1>3. status \in Status /\ db \in Status
  BY <1>1 DEF RInv, TypeOK
<1>4. CASE Mine \/ Finish \/ UNCHANGED vars \/ \E i \in Issues :
              Open(i) \/ ImportLive(i) \/ ImportKey(i) \/ ImportKeyFails(i)
  <2>1. UNCHANGED <<status, db, pruned>>
    BY <1>4 DEF Mine, Finish, Open, ImportLive, ImportKey, ImportKeyFails, vars, chainVars, memVars
  <2> QED BY <1>1, <2>1 DEF QInv, Queued, Inverted
<1>5. CASE Prune
  <2>1. ASSUME NEW s \in {status, db}, Inverted(s)
        PROVE  s.range[2] < pruned + 1
    <3>1. s.range[2] \in Nat
      BY <1>3, <2>1, RangeFacts DEF Status, Inverted
    <3>2. s.range[2] < pruned
      BY <2>1 DEF QInv, Queued
    <3> QED BY <1>2, <3>1, <3>2
  <2>2. UNCHANGED <<status, db>> /\ pruned' = pruned + 1
    BY <1>5 DEF Prune, memVars
  <2> QED BY <1>1, <2>1, <2>2 DEF QInv, Queued, Inverted
<1>6. CASE Start
  BY <1>1, <1>6 DEF Start, QInv, Queued, Inverted, chainVars
<1>7. CASE ReadHeight
  <2> DEFINE new == {i \in requests : opentime[i] > status.newest}
             u == Update(status, requests, tip)
  <2>1. /\ u \in Status
        /\ new = {} => u = status
        /\ new # {} =>
            /\ \E k \in new : u.newest = opentime[k]
            /\ \A k \in new : opentime[k] <= u.newest
            /\ u.range # None /\ u.range[2] = tip /\ u.range[1] <= tip
            /\ \A k \in new : u.range[1] <= btcHeight[k]
            /\ status.range # None => u.range[1] <= status.range[1]
    BY <1>1, UpdateFacts
  <2>2. status' = u /\ UNCHANGED <<db, pruned>>
    BY <1>7 DEF ReadHeight, chainVars
  <2> HIDE DEF new, u
  <2>3. CASE new = {}
    BY <1>1, <2>1, <2>2, <2>3 DEF QInv, Queued, Inverted
  <2>4. CASE new # {}
    <3>1. u.range[1] <= u.range[2]
      BY <2>1, <2>4
    <3>2. u.range[1] \in Nat /\ u.range[2] \in Nat
      BY <2>1, <2>4, RangeFacts DEF Status
    <3> QED BY <1>1, <2>2, <3>1, <3>2 DEF QInv, Queued, Inverted
  <2> QED BY <2>3, <2>4
<1>8. CASE PruneStatus
  <2>1. status' = CutOff(status, pruned) /\ UNCHANGED <<db, pruned>>
    BY <1>8 DEF PruneStatus, chainVars
  <2>2. (CutOff(status, pruned).range = None) <=> (status.range = None)
    BY <1>2, <1>3, CutOffFacts
  <2>3. status.range # None => CutOff(status, pruned).range[2] = status.range[2]
    BY <1>2, <1>3, CutOffFacts
  <2>4. status.range # None /\ pruned <= status.range[2] /\ status.range[1] <= status.range[2]
            => CutOff(status, pruned).range[1] <= status.range[2]
    BY <1>2, <1>3, CutOffFacts
  <2>5. status.range # None => status.range[1] \in Nat /\ status.range[2] \in Nat
    BY <1>3, RangeFacts DEF Status
  <2>6. CutOff(status, pruned).range # None =>
            CutOff(status, pruned).range[1] \in Nat
    BY <1>2, <1>3, CutOffFacts, RangeFacts DEF Status
  <2>7. Queued(status) /\ Queued(db)
    BY DEF QInv
  <2>8. Inverted(CutOff(status, pruned)) => CutOff(status, pruned).range[2] < pruned
    BY <1>2, <2>2, <2>3, <2>4, <2>5, <2>6, <2>7 DEF Queued, Inverted
  <2> QED BY <1>1, <2>1, <2>7, <2>8 DEF QInv, Queued, Inverted
<1>9. CASE Store
  BY <1>1, <1>9 DEF Store, QInv, Queued, Inverted, chainVars
<1>10. CASE TakeChunk
  <2> DEFINE u == AfterChunk(status, size)
  <2>1. status.range # None /\ size \in Nat \ {0} /\ status' = u /\ UNCHANGED <<db, pruned>>
    BY <1>1, <1>10, RescanAssumption DEF TakeChunk, RInv, TypeOK, chainVars
  <2>2. /\ u.range # None => u.range[2] = status.range[2]
        /\ status.range[1] <= status.range[2] /\ u.range # None => u.range[1] <= u.range[2]
        /\ u.range # None => u.range[1] \in Nat /\ u.range[2] \in Nat
    BY <1>3, <2>1, ChunkFacts, RangeFacts DEF Status
  <2>3. status.range[1] \in Nat /\ status.range[2] \in Nat
    BY <1>3, <2>1, RangeFacts DEF Status
  <2> HIDE DEF u
  <2> QED BY <1>1, <2>1, <2>2, <2>3 DEF QInv, Queued, Inverted
<1>11. CASE Rescan \/ RescanBreaks
  BY <1>1, <1>11 DEF Rescan, RescanBreaks, ChunkDone, QInv, Queued, Inverted, chainVars
<1>12. CASE RescanRejected \/ Crash \/ RestartService
  BY <1>1, <1>12 DEF RescanRejected, Crash, RestartService, Abort, QInv, Queued, Inverted, chainVars, Blank
<1> QED
  BY <1>4, <1>5, <1>6, <1>7, <1>8, <1>9, <1>10, <1>11, <1>12 DEF Next, Environment, AddKeys

\* However the node prunes, and wherever the start-up is interrupted, prune and
\* process_blocks leave a range that begins after its end only where the node
\* has pruned all of it.
THEOREM QueuedScannable == Spec => []RangeScannable
<1>1. QInv => RangeScannable
  BY DEF QInv, Queued, RangeScannable
<1> QED BY <1>1, QueuedInit, QueuedNext, PTL DEF Spec

----------------------------------------------------------------------------
(* The relayer.                                                            *)

\* A block goes back, over blocks of S, to where the relay started, and to the
\* block that the bitcoin chain has at that height.
Grounded(b, S) ==
    /\ StartHeight <= Len(b)
    /\ SubSeq(b, 1, StartHeight) = BlockAt(StartHeight)
    /\ \A h \in StartHeight..Len(b) : SubSeq(b, 1, h) \in S

\* What the relay stores has no gap.
StoredChains ==
    /\ StartHeight <= synced /\ synced <= Len(network)
    /\ IF stored = {} THEN best = <<>> ELSE best \in stored
    /\ \A b \in stored : Grounded(b, stored)

\* What a round knows of its heights.
RoundHeights ==
    /\ maxHeight <= synced
    /\ stage # "init" => stored # {}
    /\ stage \in {"back", "forward"} => StartHeight <= height
    /\ stage = "compare" =>
          \/ relayHash \in stored /\ Len(relayHash) = height
          \/ relayHash = <<>> /\ StartHeight < height
    /\ stage = "collect" => left > 0 /\ height + left <= maxHeight + 1
    /\ stage = "submit" => headers # <<>>
    /\ stage \notin {"collect", "submit"} => headers = <<>>
    /\ \A i \in 1..Len(headers) : Len(headers[i]) <= maxHeight

\* On the way up the relay stores the block at this height or at the last.
Meets ==
    \/ height <= synced /\ BlockAt(height) \in stored
    \/ StartHeight < height /\ height <= synced + 1 /\ BlockAt(height - 1) \in stored

\* The headers are those of the chain from height low on, where the relay
\* stores the block at that height or at the last.
From(low) ==
    /\ StartHeight <= low /\ low <= synced /\ height <= synced + 1
    /\ \/ BlockAt(low) \in stored
       \/ StartHeight < low /\ BlockAt(low - 1) \in stored
    /\ \A i \in 1..Len(headers) : headers[i] = BlockAt(low + i - 1)

\* As long as nobody interferes.
Alone ==
    ~disturbed => /\ stage = "forward" => Meets
                  /\ stage \in {"collect", "submit"} =>
                        /\ From(height - Len(headers))
                        /\ cutShort \/ BlockAt(height - Len(headers)) \notin stored

RelayInv == RelayTypeOK /\ StoredChains /\ RoundHeights /\ Alone

----------------------------------------------------------------------------
\* A block is a sequence of at most TopHeight choices.
LEMMA BlockIsSeq ==
    \A b : b \in Block <=> b \in Seq(Forks) /\ Len(b) <= TopHeight
<1>0. TopHeight \in Nat
  BY RelayAssumption
<1>1. ASSUME NEW b \in Block PROVE b \in Seq(Forks) /\ Len(b) <= TopHeight
  <2>1. PICK h \in 0..TopHeight : b \in [1..h -> Forks]
    BY DEF Block
  <2> QED
    BY <1>0, <2>1
<1>2. ASSUME NEW b \in Seq(Forks), Len(b) <= TopHeight PROVE b \in Block
  <2>1. b \in [1..Len(b) -> Forks] /\ Len(b) \in 0..TopHeight
    BY <1>0, <1>2
  <2> QED
    BY <2>1 DEF Block
<1> QED
  BY <1>1, <1>2

\* The ancestor of a block at a height, and the ancestors of that one.
LEMMA Ancestor ==
    ASSUME NEW b \in Seq(Forks), NEW h \in 0..Len(b)
    PROVE  /\ SubSeq(b, 1, h) \in Seq(Forks)
           /\ Len(SubSeq(b, 1, h)) = h
           /\ \A i \in 1..h : SubSeq(b, 1, h)[i] = b[i]
<1>1. \A i \in 1..h : b[i] \in Forks
  BY ElementOfSeq
<1> QED
  BY <1>1, SubSeqProperties

LEMMA AncestorOfAncestor ==
    ASSUME NEW b \in Seq(Forks), NEW g \in 0..Len(b), NEW h \in 0..g
    PROVE  SubSeq(SubSeq(b, 1, g), 1, h) = SubSeq(b, 1, h)
<1> DEFINE a == SubSeq(b, 1, g)
<1>1. a \in Seq(Forks) /\ Len(a) = g /\ \A i \in 1..g : a[i] = b[i]
  BY Ancestor
<1> HIDE DEF a
<1>2. SubSeq(a, 1, h) \in Seq(Forks) /\ Len(SubSeq(a, 1, h)) = h
      /\ \A i \in 1..h : SubSeq(a, 1, h)[i] = a[i]
  BY <1>1, Ancestor
<1>3. SubSeq(b, 1, h) \in Seq(Forks) /\ Len(SubSeq(b, 1, h)) = h
      /\ \A i \in 1..h : SubSeq(b, 1, h)[i] = b[i]
  BY Ancestor
<1>4. \A i \in 1..h : SubSeq(a, 1, h)[i] = SubSeq(b, 1, h)[i]
  BY <1>1, <1>2, <1>3
<1>5. SubSeq(a, 1, h) = SubSeq(b, 1, h)
  BY <1>2, <1>3, <1>4, SeqEqual
<1> QED
  BY <1>5 DEF a

\* A chain that agrees with another up to a height does so below.
LEMMA SameBelow ==
    ASSUME NEW a \in Seq(Forks), NEW b \in Seq(Forks), NEW g \in 0..Len(a), g <= Len(b),
           SubSeq(a, 1, g) = SubSeq(b, 1, g), NEW h \in 0..g
    PROVE  SubSeq(a, 1, h) = SubSeq(b, 1, h)
<1>1. SubSeq(SubSeq(a, 1, g), 1, h) = SubSeq(a, 1, h)
  BY AncestorOfAncestor
<1>2. SubSeq(SubSeq(b, 1, g), 1, h) = SubSeq(b, 1, h)
  BY AncestorOfAncestor
<1> QED
  BY <1>1, <1>2

\* A block keeps its ancestors when the chain grows.
LEMMA Grown ==
    ASSUME NEW b \in Seq(Forks), NEW f \in Forks, NEW h \in 0..Len(b)
    PROVE  SubSeq(Append(b, f), 1, h) = SubSeq(b, 1, h)
<1> DEFINE c == Append(b, f)
<1>1. c \in Seq(Forks) /\ Len(c) = Len(b) + 1 /\ \A i \in 1..Len(b) : c[i] = b[i]
  BY AppendProperties
<1> HIDE DEF c
<1>2. SubSeq(c, 1, h) \in Seq(Forks) /\ Len(SubSeq(c, 1, h)) = h
      /\ \A i \in 1..h : SubSeq(c, 1, h)[i] = c[i]
  BY <1>1, Ancestor
<1>3. SubSeq(b, 1, h) \in Seq(Forks) /\ Len(SubSeq(b, 1, h)) = h
      /\ \A i \in 1..h : SubSeq(b, 1, h)[i] = b[i]
  BY Ancestor
<1>4. \A i \in 1..h : SubSeq(c, 1, h)[i] = SubSeq(b, 1, h)[i]
  BY <1>1, <1>2, <1>3
<1>5. SubSeq(c, 1, h) = SubSeq(b, 1, h)
  BY <1>2, <1>3, <1>4, SeqEqual
<1> QED
  BY <1>5 DEF c

\* The parent of a block is its ancestor one below.
LEMMA ParentIs ==
    ASSUME NEW b \in Seq(Forks), Len(b) > 0
    PROVE  /\ Parent(b) \in Seq(Forks) /\ Len(Parent(b)) = Len(b) - 1
           /\ \A h \in 0..(Len(b) - 1) : SubSeq(Parent(b), 1, h) = SubSeq(b, 1, h)
<1>1. Len(b) - 1 \in 0..Len(b)
  OBVIOUS
<1> QED
  BY <1>1, Ancestor, AncestorOfAncestor DEF Parent

----------------------------------------------------------------------------
\* A block whose parent goes back to the start does so too.
LEMMA ChildGrounded ==
    ASSUME RelayTypeOK, NEW b \in Seq(Forks), NEW S, b \in S, Grounded(Parent(b), S)
    PROVE  Grounded(b, S) /\ StartHeight < Len(b)
<1>1. StartHeight \in Nat \ {0}
  BY RelayAssumption
<1>2. Len(b) > 0
  <2>1. SUFFICES ASSUME b = <<>> PROVE FALSE
    BY EmptySeq
  <2>2. Parent(b) = <<>>
    BY <2>1, SubSeqEmpty, EmptySeq DEF Parent
  <2> QED
    BY <1>1, <2>2, EmptySeq DEF Grounded
<1>3. /\ Len(Parent(b)) = Len(b) - 1
      /\ \A h \in 0..(Len(b) - 1) : SubSeq(Parent(b), 1, h) = SubSeq(b, 1, h)
  BY <1>2, ParentIs
<1>4. StartHeight <= Len(b) - 1 /\ Len(b) \in Nat
  BY <1>3 DEF Grounded
<1>5. SubSeq(b, 1, StartHeight) = BlockAt(StartHeight)
  BY <1>1, <1>3, <1>4 DEF Grounded
<1>6. ASSUME NEW h \in StartHeight..Len(b) PROVE SubSeq(b, 1, h) \in S
  <2>1. CASE h = Len(b)
    BY <2>1, SubSeqFull
  <2>2. CASE h <= Len(b) - 1
    <3>1. h \in StartHeight..(Len(b) - 1) /\ h \in 0..(Len(b) - 1)
      BY <1>1, <1>4, <2>2
    <3>2. SubSeq(Parent(b), 1, h) \in S
      BY <1>3, <3>1 DEF Grounded
    <3> QED
      BY <1>3, <3>1, <3>2
  <2> QED
    BY <1>1, <1>4, <2>1, <2>2
<1> QED
  BY <1>1, <1>4, <1>5, <1>6 DEF Grounded

\* The header at i, and those before it, are accepted.
Acceptable(hs, i) ==
    \A k \in 1..i :
        /\ hs[k] \notin stored
        /\ \A j \in 1..(k - 1) : hs[j] # hs[k]
        /\ Parent(hs[k]) \in stored \cup {hs[j] : j \in 1..(k - 1)}

\* What the relay stores of a batch are the headers accepted in turn.
LEMMA AcceptedAre ==
    \A hs : Accepted(hs) = {hs[i] : i \in {i \in 1..Len(hs) : Acceptable(hs, i)}}
BY DEF Accepted, Acceptable

\* The relay accepts only headers that go back to the start.
LEMMA AcceptedGrounded ==
    ASSUME RelayTypeOK, StoredChains, NEW hs \in Seq(Block)
    PROVE  /\ Accepted(hs) \subseteq Block
           /\ \A b \in Accepted(hs) : Grounded(b, stored \cup Accepted(hs))
<1> DEFINE S == stored \cup Accepted(hs)
           Bad == {k \in 1..Len(hs) : Acceptable(hs, k) /\ ~Grounded(hs[k], S)}
<1>1. Len(hs) \in Nat /\ \A k \in 1..Len(hs) : hs[k] \in Block
  BY ElementOfSeq
<1>2. Accepted(hs) \subseteq Block
  BY <1>1, AcceptedAre
<1>3. \A b \in stored : Grounded(b, S)
  BY DEF StoredChains, Grounded
<1>4. Bad = {}
  <2>1. SUFFICES ASSUME Bad # {} PROVE FALSE
    OBVIOUS
  <2>2. Bad \in SUBSET Nat
    BY <1>1
  <2>3. PICK m \in Bad : \A k \in Bad : m <= k
    BY <2>1, <2>2, MinFacts
  <2> HIDE DEF Bad
  <2>4. m \in 1..Len(hs) /\ Acceptable(hs, m) /\ ~Grounded(hs[m], S)
    BY <2>3 DEF Bad
  <2>5. hs[m] \in S
    BY <2>4, AcceptedAre
  <2>6. Parent(hs[m]) \in stored \cup {hs[j] : j \in 1..(m - 1)}
    BY <2>4 DEF Acceptable
  <2>7. ASSUME NEW j \in 1..(m - 1) PROVE Grounded(hs[j], S)
    <3>1. j \in 1..Len(hs) /\ ~(m <= j)
      BY <1>1, <2>4
    <3>2. Acceptable(hs, j)
      <4>1. \A k \in 1..j : k \in 1..m
        BY <2>4
      <4> QED
        BY <2>4, <4>1 DEF Acceptable
    <3>3. j \notin Bad
      BY <2>3, <3>1
    <3> QED
      BY <3>1, <3>2, <3>3 DEF Bad
  <2>8. Grounded(Parent(hs[m]), S)
    BY <1>3, <2>6, <2>7
  <2>9. hs[m] \in Seq(Forks)
    BY <1>1, <2>4, BlockIsSeq
  <2> QED
    BY <2>4, <2>5, <2>8, <2>9, ChildGrounded
<1>5. \A b \in Accepted(hs) : Grounded(b, S)
  BY <1>4, AcceptedAre
<1> QED
  BY <1>2, <1>5

\* The relay stores headers that go back to the start.
LEMMA StoreGrounded ==
    ASSUME RelayTypeOK, StoredChains, stored # {}, NEW new, new \subseteq Block,
           \A b \in new : Grounded(b, stored \cup new),
           StoreHeaders(new), UNCHANGED <<network, synced>>
    PROVE  /\ StoredChains' /\ stored \subseteq stored'
           /\ stored' \subseteq Block /\ best' \in Block
<1>1. stored' = stored \cup new
  BY DEF StoreHeaders
<1>2. best' \in stored'
  BY <1>1 DEF StoreHeaders, StoredChains
<1>3. \A b \in stored : Grounded(b, stored')
  BY <1>1 DEF StoredChains, Grounded
<1>4. \A b \in stored' : Grounded(b, stored')
  BY <1>1, <1>3
<1>5. \A b \in stored' : Grounded(b, stored)'
  BY <1>4 DEF Grounded, BlockAt
<1> QED
  BY <1>1, <1>2, <1>5 DEF StoredChains, RelayTypeOK

----------------------------------------------------------------------------
\* What the types say of the node's chain and of the constants.
LEMMA ChainFacts ==
    ASSUME RelayTypeOK, StoredChains
    PROVE  /\ StartHeight \in Nat \ {0} /\ Confirmations \in Nat /\ TopHeight \in Nat
           /\ MaxBatchSize \in Nat \ {0} /\ MaxFaults \in Nat
           /\ network \in Seq(Forks) /\ Len(network) \in Nat /\ Len(network) <= TopHeight
           /\ synced \in StartHeight..Len(network)
           /\ \A h \in 0..Len(network) : BlockAt(h) \in Seq(Forks) /\ Len(BlockAt(h)) = h
                                        /\ BlockAt(h) \in Block
<1>1. network \in Seq(Forks) /\ Len(network) \in Nat /\ Len(network) <= TopHeight
  BY BlockIsSeq DEF RelayTypeOK
<1>2. \A h \in 0..Len(network) : BlockAt(h) \in Seq(Forks) /\ Len(BlockAt(h)) = h
  BY <1>1, Ancestor DEF BlockAt
<1>3. TopHeight \in Nat /\ StartHeight \in Nat \ {0}
  BY RelayAssumption
<1>4. \A h \in 0..Len(network) : BlockAt(h) \in Block
  BY <1>1, <1>2, <1>3, BlockIsSeq
<1> QED
  BY <1>1, <1>2, <1>3, <1>4, RelayAssumption DEF RelayTypeOK, StoredChains

\* The block of the chain at a height goes back to the start.
LEMMA ChainGrounded ==
    ASSUME RelayTypeOK, StoredChains, NEW h \in StartHeight..Len(network), NEW S,
           \A g \in StartHeight..h : BlockAt(g) \in S
    PROVE  Grounded(BlockAt(h), S)
<1>1. h \in 0..Len(network) /\ StartHeight \in 0..h
  BY ChainFacts
<1>2. Len(BlockAt(h)) = h
  BY <1>1, ChainFacts
<1>3. \A g \in StartHeight..h : g \in 0..h
  BY <1>1
<1>4. \A g \in StartHeight..h : SubSeq(BlockAt(h), 1, g) = BlockAt(g)
  BY <1>1, <1>3, ChainFacts, AncestorOfAncestor DEF BlockAt
<1>5. StartHeight \in StartHeight..h /\ StartHeight <= h
  BY ChainFacts
<1>6. SubSeq(BlockAt(h), 1, StartHeight) = BlockAt(StartHeight)
  BY <1>4, <1>5
<1> QED
  BY <1>2, <1>4, <1>5, <1>6 DEF Grounded

\* If the relay stores a block of the chain it stores those below.
LEMMA StoredBelow ==
    ASSUME RelayTypeOK, StoredChains, NEW h \in 0..Len(network), BlockAt(h) \in stored,
           NEW g \in StartHeight..h
    PROVE  BlockAt(g) \in stored
<1>1. Grounded(BlockAt(h), stored) /\ Len(BlockAt(h)) = h
  BY ChainFacts DEF StoredChains
<1>2. g \in 0..h
  BY ChainFacts
<1>3. SubSeq(BlockAt(h), 1, g) = BlockAt(g)
  BY <1>2, ChainFacts, AncestorOfAncestor DEF BlockAt
<1> QED
  BY <1>1, <1>3 DEF Grounded

\* The invariant holds at the start.
LEMMA RelayInitInv == RelayInit => RelayInv
<1> SUFFICES ASSUME RelayInit PROVE RelayInv
  OBVIOUS
<1>1. /\ StartHeight \in Nat \ {0} /\ Confirmations \in Nat /\ TopHeight \in Nat
      /\ StartHeight + Confirmations <= TopHeight /\ MaxBatchSize \in Nat /\ MaxFaults \in Nat
  BY RelayAssumption
<1>2. network \in Seq(Forks) /\ Len(network) = StartHeight + Confirmations
  BY <1>1 DEF RelayInit
<1>3. <<>> \in Seq(Forks) /\ Len(<<>>) = 0 /\ <<>> \in Seq(Block)
  BY EmptySeq
<1>4. network \in Block /\ best \in Block
  <2>1. Len(network) <= TopHeight /\ 0 <= TopHeight
    BY <1>1, <1>2
  <2>2. network \in Block /\ <<>> \in Block
    BY <1>2, <1>3, <2>1, BlockIsSeq
  <2> QED
    BY <2>2 DEF RelayInit
<1>5. RelayTypeOK
  <2>1. synced \in 0..TopHeight /\ maxHeight \in 0..TopHeight /\ height \in 0..(TopHeight + 1)
        /\ left \in 0..MaxBatchSize /\ faults \in 0..MaxFaults
    BY <1>1 DEF RelayInit
  <2>2. headers \in Seq(Block) /\ stored \subseteq Block /\ disturbed \in BOOLEAN
    BY <1>3 DEF RelayInit
  <2> QED
    BY <1>4, <2>1, <2>2 DEF RelayInit, RelayTypeOK
<1>6. StoredChains
  BY <1>1, <1>2 DEF RelayInit, StoredChains
<1>7. RoundHeights /\ Alone
  BY <1>1, <1>3 DEF RelayInit, RoundHeights, Alone
<1> QED
  BY <1>5, <1>6, <1>7 DEF RelayInv

\* The chain grows.
LEMMA MineBlockStep ==
    ASSUME RelayInv, NEW f \in Forks, MineBlock(f)
    PROVE  RelayInv'
<1> USE DEF RelayInv
<1>1. UNCHANGED <<synced, stored, best, stage, maxHeight, height, relayHash, left,
                headers, cutShort, disturbed, faults>>
  BY DEF MineBlock, roundVars
<1>2. /\ network' \in Seq(Forks) /\ Len(network') = Len(network) + 1
      /\ \A h \in 0..Len(network) : BlockAt(h)' = BlockAt(h)
  BY ChainFacts, AppendProperties, Grown DEF MineBlock, BlockAt
<1>3. network' \in Block
  <2>1. Len(network) < TopHeight /\ Len(network) \in Nat /\ TopHeight \in Nat
    BY ChainFacts DEF MineBlock
  <2>2. Len(network') <= TopHeight
    BY <1>2, <2>1
  <2> QED
    BY <1>2, <2>2, BlockIsSeq
<1>4. RelayTypeOK'
  BY <1>1, <1>3 DEF RelayTypeOK
<1>5. StoredChains'
  <2>1. StartHeight \in 0..Len(network) /\ synced <= Len(network')
    BY <1>2, ChainFacts
  <2>2. \A b \in stored : Grounded(b, stored)'
    BY <1>1, <1>2, <2>1 DEF StoredChains, Grounded
  <2> QED
    BY <1>1, <2>1, <2>2 DEF StoredChains
<1>6. RoundHeights'
  BY <1>1 DEF RoundHeights
<1>7. Alone'
  <2>1. Meets => Meets'
    <3>1. height <= synced /\ height \in Nat => height \in 0..Len(network)
      BY ChainFacts
    <3>2. StartHeight < height /\ height <= synced + 1 /\ height \in Nat
             => height - 1 \in 0..Len(network)
      BY ChainFacts
    <3> QED
      BY <1>1, <1>2, <3>1, <3>2 DEF Meets, RelayTypeOK
  <2>2. ASSUME NEW low \in Int, From(low), low + Len(headers) = height
        PROVE  From(low)' /\ BlockAt(low)' = BlockAt(low)
    <3>1. Len(headers) \in Nat
      BY DEF RelayTypeOK
    <3>2. low \in 0..Len(network) /\ low - 1 \in 0..Len(network)
      BY <2>2, ChainFacts DEF From
    <3>3. \A i \in 1..Len(headers) : low + i - 1 \in 0..Len(network)
      BY <2>2, <3>1, ChainFacts DEF From
    <3> QED
      BY <1>1, <1>2, <2>2, <3>2, <3>3 DEF From
  <2>3. Len(headers) \in Nat /\ height \in Nat
    BY DEF RelayTypeOK
  <2>4. height - Len(headers) \in Int /\ height - Len(headers) + Len(headers) = height
    BY <2>3
  <2>5. ASSUME NEW low \in Int, low = height - Len(headers)
        PROVE  /\ From(low) => From(low)' /\ BlockAt(low)' = BlockAt(low)
               /\ height' - Len(headers') = low
    BY <1>1, <2>2, <2>4, <2>5
  <2> QED
    BY <1>1, <2>1, <2>4, <2>5 DEF Alone
<1> QED
  BY <1>4, <1>5, <1>6, <1>7

\* The node follows.
LEMMA SyncStep == ASSUME RelayInv, Sync PROVE RelayInv'
<1> USE DEF RelayInv
<1>1. UNCHANGED <<network, stored, best, stage, maxHeight, height, relayHash, left,
                headers, cutShort, disturbed, faults>>
  BY DEF Sync, roundVars
<1>2. synced' = synced + 1 /\ synced' \in StartHeight..Len(network) /\ synced' \in 0..TopHeight
  BY ChainFacts DEF Sync
<1>3. RelayTypeOK'
  BY <1>1, <1>2 DEF RelayTypeOK
<1>4. StoredChains'
  <2>1. StartHeight <= synced' /\ synced' <= Len(network)
    BY <1>2, ChainFacts
  <2>2. \A b \in stored : Grounded(b, stored)'
    BY <1>1 DEF StoredChains, Grounded, BlockAt
  <2> QED
    BY <1>1, <2>1, <2>2 DEF StoredChains
<1>5. RoundHeights'
  BY <1>1, <1>2, ChainFacts DEF RoundHeights, RelayTypeOK
<1>6. Alone'
  <2>1. height \in Nat /\ synced \in Nat
    BY DEF RelayTypeOK
  <2>2. Meets => Meets'
    BY <1>1, <1>2, <2>1 DEF Meets, BlockAt
  <2>3. ASSUME NEW low, From(low), low \in Int
        PROVE  From(low)' /\ BlockAt(low)' = BlockAt(low)
    BY <1>1, <1>2, <2>1, <2>3 DEF From, BlockAt
  <2>4. height - Len(headers) \in Int
    BY DEF RelayTypeOK
  <2> QED
    BY <1>1, <2>2, <2>3, <2>4 DEF Alone
<1> QED
  BY <1>3, <1>4, <1>5, <1>6

\* The chain forks above the start height.
LEMMA ReorgStep ==
    ASSUME RelayInv, NEW h \in 1..TopHeight, NEW b \in Block, Reorg(h, b)
    PROVE  RelayInv'
<1> USE DEF RelayInv
<1>1. UNCHANGED <<stored, best, stage, maxHeight, height, relayHash, left, headers, cutShort>>
  BY DEF Reorg, roundVars
<1>2. /\ network' = b /\ disturbed' = TRUE
      /\ h >= StartHeight /\ h < Len(network) /\ Len(b) > Len(network)
      /\ SubSeq(b, 1, h) = SubSeq(network, 1, h)
      /\ synced' = IF synced > h THEN Len(b) ELSE synced
      /\ faults' = faults + 1 /\ faults < MaxFaults
  BY DEF Reorg, BlockAt
<1>3. b \in Seq(Forks) /\ Len(b) \in Nat /\ Len(b) <= TopHeight
  BY BlockIsSeq
<1>4. synced' \in 0..TopHeight /\ synced <= synced' /\ synced' <= Len(b)
  BY <1>2, <1>3, ChainFacts
<1>5. BlockAt(StartHeight)' = BlockAt(StartHeight)
  <2>1. h \in 0..Len(b) /\ h <= Len(network) /\ StartHeight \in 0..h
    BY <1>2, <1>3, ChainFacts
  <2> QED
    BY <1>2, <1>3, <2>1, ChainFacts, SameBelow DEF BlockAt
<1>6. RelayTypeOK'
  <2>1. faults' \in 0..MaxFaults
    BY <1>2, ChainFacts DEF RelayTypeOK
  <2> QED
    BY <1>1, <1>2, <1>4, <2>1 DEF RelayTypeOK
<1>7. StoredChains'
  <2>1. \A c \in stored : Grounded(c, stored)'
    BY <1>1, <1>5 DEF StoredChains, Grounded
  <2>2. StartHeight <= synced' /\ synced' <= Len(network')
    BY <1>2, <1>4, ChainFacts
  <2> QED
    BY <1>1, <2>1, <2>2 DEF StoredChains
<1>8. RoundHeights'
  <2>1. maxHeight <= synced'
    BY <1>4, ChainFacts DEF RoundHeights, RelayTypeOK
  <2> QED
    BY <1>1, <2>1 DEF RoundHeights
<1> QED
  BY <1>2, <1>6, <1>7, <1>8 DEF Alone

\* Another relayer submits a header.
LEMMA OtherRelayerStep ==
    ASSUME RelayInv, NEW h \in 1..TopHeight, OtherRelayer(h)
    PROVE  RelayInv'
<1> USE DEF RelayInv
<1>1. /\ UNCHANGED <<network, synced, stage, maxHeight, height, relayHash, left, headers,
                     cutShort, faults>>
      /\ disturbed'
  BY DEF OtherRelayer, roundVars
<1>2. stored # {}
  BY DEF OtherRelayer, StoredChains
<1> DEFINE b == BlockAt(h)
<1>3. b \in Block /\ b \in Seq(Forks)
  BY ChainFacts DEF OtherRelayer
<1>4. Grounded(b, stored \cup {b})
  <2>1. Grounded(Parent(b), stored)
    BY DEF OtherRelayer, StoredChains
  <2>2. Grounded(Parent(b), stored \cup {b})
    BY <2>1 DEF Grounded
  <2> QED
    BY <1>3, <2>2, ChildGrounded
<1>5. /\ StoredChains' /\ stored \subseteq stored'
      /\ stored' \subseteq Block /\ best' \in Block
  BY <1>1, <1>2, <1>3, <1>4, StoreGrounded DEF OtherRelayer
<1>6. RelayTypeOK'
  BY <1>1, <1>5 DEF RelayTypeOK
<1>7. RoundHeights'
  BY <1>1, <1>2, <1>5 DEF RoundHeights
<1> QED
  BY <1>1, <1>5, <1>6, <1>7 DEF Alone

----------------------------------------------------------------------------
\* A step of the round that leaves the chains alone.
LEMMA SameChains ==
    ASSUME RelayInv, UNCHANGED chains
    PROVE  StoredChains' /\ \A h : BlockAt(h)' = BlockAt(h)
BY DEF RelayInv, StoredChains, Grounded, BlockAt, chains

\* At the end of a round everything is as before the first.
LEMMA EndRoundStep ==
    ASSUME RelayInv, EndRound, StoredChains', UNCHANGED <<network, synced>>,
           stored' \subseteq Block, best' \in Block, faults' \in 0..MaxFaults
    PROVE  RelayInv'
<1> USE DEF RelayInv
<1>1. /\ stage' = "init" /\ maxHeight' = 0 /\ height' = 0 /\ left' = 0 /\ headers' = <<>>
      /\ relayHash' = <<>> /\ disturbed' = FALSE /\ cutShort' = FALSE
  BY DEF EndRound
<1>2. 0 \in 0..TopHeight /\ 0 \in 0..(TopHeight + 1) /\ 0 \in 0..MaxBatchSize /\ 0 <= synced
  BY ChainFacts
<1>3. <<>> \in Seq(Block) /\ Len(<<>>) = 0 /\ <<>> \in Block
  BY EmptySeq, BlockIsSeq, ChainFacts
<1>4. RelayTypeOK'
  BY <1>1, <1>2, <1>3 DEF RelayTypeOK
<1>5. RoundHeights' /\ Alone'
  BY <1>1, <1>2, <1>3 DEF RoundHeights, Alone
<1> QED
  BY <1>4, <1>5

\* The first relayer initializes the relay with a block of the chain.
LEMMA InitializeStep == ASSUME RelayInv, Initialize PROVE RelayInv'
<1> USE DEF RelayInv
<1>1. /\ UNCHANGED <<network, synced, maxHeight, height, relayHash, left, headers, cutShort,
                     disturbed, faults>>
      /\ stage = "init" /\ stage' = "count"
  BY DEF Initialize
<1>2. StoredChains' /\ stored' \subseteq Block /\ best' \in Block /\ stored' # {}
  <2>1. CASE best # <<>>
    <3>1. UNCHANGED chains /\ stored # {}
      BY <1>1, <2>1 DEF Initialize, StoredChains, chains
    <3> QED
      BY <1>1, <3>1, SameChains DEF RelayTypeOK, chains
  <2>2. CASE best = <<>>
    <3> DEFINE b == BlockAt(StartHeight)
    <3>1. stored' = {b} /\ best' = b
      BY <2>2 DEF Initialize
    <3>2. StartHeight \in StartHeight..Len(network) /\ StartHeight \in 0..Len(network)
      BY ChainFacts
    <3>3. b \in Block
      BY <3>2, ChainFacts
    <3>4. \A g \in StartHeight..StartHeight : BlockAt(g) \in {b}
      BY ChainFacts
    <3>5. Grounded(b, {b})
      BY <3>2, <3>4, ChainGrounded
    <3>6. \A c \in stored' : Grounded(c, stored)'
      BY <1>1, <3>1, <3>5 DEF Grounded, BlockAt
    <3> QED
      BY <1>1, <3>1, <3>3, <3>6 DEF StoredChains
  <2> QED
    BY <2>1, <2>2
<1>3. RelayTypeOK'
  BY <1>1, <1>2 DEF RelayTypeOK
<1> QED
  BY <1>1, <1>2, <1>3 DEF RoundHeights, Alone

\* The confirmed height is one the node has.
LEMMA CountStep == ASSUME RelayInv, Count PROVE RelayInv'
<1> USE DEF RelayInv
<1>1. /\ UNCHANGED <<network, synced, stored, best, height, relayHash, left, headers, cutShort,
                     disturbed, faults>>
      /\ UNCHANGED chains
      /\ stage = "count" /\ stage' = "best" /\ maxHeight' = Confirmed
  BY DEF Count, chains
<1>2. Confirmed \in 0..TopHeight /\ Confirmed <= synced
  BY ChainFacts DEF Confirmed
<1>3. RelayTypeOK' /\ StoredChains'
  BY <1>1, <1>2, SameChains DEF RelayTypeOK
<1>4. headers = <<>> /\ Len(headers) = 0
  BY <1>1, EmptySeq DEF RoundHeights
<1> QED
  BY <1>1, <1>2, <1>3, <1>4 DEF RoundHeights, Alone

\* The way down begins at or above the start.
LEMMA BestHeightStep == ASSUME RelayInv, BestHeight PROVE RelayInv'
<1> USE DEF RelayInv
<1>1. /\ UNCHANGED <<network, synced, stored, best, maxHeight, relayHash, left, headers, cutShort,
                     disturbed, faults>>
      /\ UNCHANGED chains
      /\ stage = "best" /\ stage' = "back" /\ height' = Len(best)
  BY DEF BestHeight, chains
<1>2. best \in stored
  BY <1>1 DEF RoundHeights, StoredChains
<1>3. StartHeight <= Len(best) /\ Len(best) \in 0..(TopHeight + 1)
  <2>1. StartHeight <= Len(best)
    BY <1>2 DEF StoredChains, Grounded
  <2>2. Len(best) \in Nat /\ Len(best) <= TopHeight
    BY BlockIsSeq DEF RelayTypeOK
  <2> QED
    BY <2>1, <2>2, ChainFacts
<1>4. RelayTypeOK' /\ StoredChains'
  BY <1>1, <1>3, SameChains DEF RelayTypeOK
<1> QED
  BY <1>1, <1>3, <1>4 DEF RoundHeights, Alone

\* The relay answers with a block that it stores; it has one at the start.
LEMMA AskRelayStep == ASSUME RelayInv, AskRelay PROVE RelayInv'
<1> USE DEF RelayInv
<1>1. /\ UNCHANGED <<network, synced, stored, best, maxHeight, height, left, headers, cutShort,
                     disturbed, faults>>
      /\ UNCHANGED chains
      /\ stage = "back" /\ stage' = "compare"
      /\ relayHash' = IF Relayed(height) THEN RelayedAt(height) ELSE <<>>
      /\ StartHeight <= height /\ height \in Nat
  BY DEF AskRelay, chains, RoundHeights, RelayTypeOK
<1>2. best \in stored /\ Grounded(best, stored)
  BY <1>1 DEF RoundHeights, StoredChains
<1>3. best \in Seq(Forks) /\ Len(best) \in Nat
  BY BlockIsSeq DEF RelayTypeOK
<1>4. CASE Relayed(height)
  <2>1. height \in StartHeight..Len(best) /\ height \in 0..Len(best)
    BY <1>1, <1>3, <1>4, ChainFacts DEF Relayed
  <2>2. relayHash' \in stored /\ Len(relayHash') = height
    BY <1>1, <1>2, <1>3, <1>4, <2>1, Ancestor DEF Grounded, RelayedAt
  <2>3. RelayTypeOK' /\ StoredChains'
    BY <1>1, <2>2, SameChains DEF RelayTypeOK
  <2> QED
    BY <1>1, <2>2, <2>3 DEF RoundHeights, Alone
<1>5. CASE ~Relayed(height)
  <2>1. StartHeight < height
    BY <1>1, <1>2, <1>3, <1>5, ChainFacts DEF Grounded, Relayed
  <2>2. relayHash' = <<>> /\ <<>> \in Block
    BY <1>1, <1>5, BlockIsSeq, ChainFacts, EmptySeq
  <2>3. RelayTypeOK' /\ StoredChains'
    BY <1>1, <2>2, SameChains DEF RelayTypeOK
  <2> QED
    BY <1>1, <2>1, <2>2, <2>3 DEF RoundHeights, Alone
<1> QED
  BY <1>4, <1>5

\* The way down ends where the relay started at the latest.
LEMMA BackwardStep == ASSUME RelayInv, Backward PROVE RelayInv'
<1> USE DEF RelayInv
<1>1. /\ UNCHANGED <<network, synced, stored, best, maxHeight, left, headers, cutShort, disturbed,
                     faults>>
      /\ UNCHANGED chains
      /\ stage = "compare" /\ height <= synced /\ height \in Nat /\ relayHash' = <<>>
  BY DEF Backward, HasBlock, RelayTypeOK, chains
<1>2. \/ relayHash \in stored /\ Len(relayHash) = height
      \/ relayHash = <<>> /\ StartHeight < height
  BY <1>1 DEF RoundHeights
<1>3. StartHeight <= height
  <2>1. relayHash \in stored => Grounded(relayHash, stored)
    BY DEF StoredChains
  <2>2. StartHeight \in Nat
    BY ChainFacts
  <2>3. relayHash \in stored => StartHeight <= Len(relayHash)
    BY <2>1 DEF Grounded
  <2> QED
    BY <1>1, <1>2, <2>2, <2>3
<1>4. <<>> \in Block
  BY BlockIsSeq, ChainFacts, EmptySeq
<1>5. CASE relayHash = BlockAt(height)
  <2>1. stage' = "forward" /\ height' = height
    BY <1>5 DEF Backward
  <2>2. Len(BlockAt(height)) = height
    BY <1>1, ChainFacts
  <2>3. BlockAt(height) \in stored
    BY <1>2, <1>5, <2>2, ChainFacts, EmptySeq
  <2>4. RelayTypeOK' /\ StoredChains'
    BY <1>1, <1>4, <2>1, SameChains DEF RelayTypeOK
  <2>5. Meets'
    BY <1>1, <2>1, <2>3 DEF Meets, BlockAt
  <2> QED
    BY <1>1, <1>3, <2>1, <2>4, <2>5 DEF RoundHeights, Alone
<1>6. CASE relayHash # BlockAt(height)
  <2>1. stage' = "back" /\ height' = height - 1
    BY <1>1, <1>6 DEF Backward
  <2>2. height # StartHeight
    <3>1. ASSUME relayHash \in stored, Len(relayHash) = StartHeight
          PROVE  relayHash = BlockAt(StartHeight)
      <4>1. SubSeq(relayHash, 1, StartHeight) = BlockAt(StartHeight)
        BY <3>1 DEF StoredChains, Grounded
      <4>2. relayHash \in Seq(Forks)
        BY BlockIsSeq DEF RelayTypeOK
      <4> QED
        BY <3>1, <4>1, <4>2
    <3> QED
      BY <1>2, <1>6, <3>1, ChainFacts
  <2>3. StartHeight <= height - 1 /\ height - 1 \in 0..(TopHeight + 1)
    BY <1>1, <1>3, <2>2, ChainFacts
  <2>4. RelayTypeOK' /\ StoredChains'
    BY <1>1, <1>4, <2>1, <2>3, SameChains DEF RelayTypeOK
  <2> QED
    BY <1>1, <2>1, <2>3, <2>4 DEF RoundHeights, Alone
<1> QED
  BY <1>5, <1>6

\* The way up passes blocks that the relay stores.
LEMMA ForwardStep == ASSUME RelayInv, Forward PROVE RelayInv'
<1> USE DEF RelayInv
<1>1. /\ UNCHANGED <<network, synced, stored, best, stage, maxHeight, relayHash, left, headers,
                     cutShort, disturbed, faults>>
      /\ UNCHANGED chains
      /\ stage = "forward" /\ height <= synced /\ height \in Nat /\ height' = height + 1
      /\ BlockAt(height) \in stored /\ StartHeight <= height
  BY DEF Forward, HasBlock, RoundHeights, RelayTypeOK, chains
<1>2. height' \in 0..(TopHeight + 1) /\ StartHeight < height' /\ height' <= synced + 1
      /\ height' - 1 = height /\ StartHeight <= height'
  BY <1>1, ChainFacts
<1>3. RelayTypeOK' /\ StoredChains'
  BY <1>1, <1>2, SameChains DEF RelayTypeOK
<1>4. Meets'
  BY <1>1, <1>2 DEF Meets, BlockAt
<1> QED
  BY <1>1, <1>2, <1>3, <1>4 DEF RoundHeights, Alone

\* The batch that the code computes stays below the confirmed height.
LEMMA BatchFits ==
    ASSUME RelayTypeOK, StoredChains
    PROVE  /\ BatchSize \in 0..MaxBatchSize
           /\ BatchSize # 0 => height + BatchSize <= maxHeight + 1 /\ height <= maxHeight
<1>1. height \in Nat /\ maxHeight \in Nat /\ MaxBatchSize \in Nat \ {0}
  BY RelayAssumption DEF RelayTypeOK
<1> QED
  BY <1>1 DEF BatchSize

\* The way up ends at the first block that the relay lacks, or where a failed
\* call cuts it short, if there is anything to submit.
LEMMA CollectFromStep ==
    ASSUME RelayInv, stage = "forward", NEW cut \in BOOLEAN, CollectFrom(cut),
           cut \/ ~(height <= synced /\ BlockAt(height) \in stored),
           UNCHANGED chains, faults' \in 0..MaxFaults
    PROVE  RelayInv'
<1> USE DEF RelayInv
<1>1. UNCHANGED <<network, synced, stored, best>>
  BY DEF chains
<1>2. StoredChains'
  BY SameChains
<1>3. CASE BatchSize = 0
  BY <1>1, <1>2, <1>3, EndRoundStep DEF CollectFrom, RelayTypeOK
<1>4. CASE BatchSize # 0
  <2>1. /\ UNCHANGED <<maxHeight, height, relayHash, headers, disturbed>>
        /\ left' = BatchSize /\ stage' = "collect" /\ cutShort' = cut
    BY <1>4 DEF CollectFrom
  <2>2. left' \in 0..MaxBatchSize /\ left' > 0 /\ height + left' <= maxHeight + 1
    BY <1>4, <2>1, BatchFits, ChainFacts
  <2>3. headers = <<>> /\ Len(headers) = 0
    BY EmptySeq DEF RoundHeights
  <2>4. height \in Nat /\ maxHeight \in Nat /\ synced \in Nat /\ maxHeight <= synced
    BY DEF RelayTypeOK, RoundHeights
  <2>5. height <= synced /\ StartHeight <= height
    BY <1>4, <2>4, BatchFits DEF RoundHeights
  <2>6. RelayTypeOK'
    BY <1>1, <2>1, <2>2 DEF RelayTypeOK
  <2>7. RoundHeights'
    BY <1>1, <2>1, <2>2, <2>3 DEF RoundHeights
  <2>8. ASSUME ~disturbed PROVE From(height)'
    <3>1. Meets
      BY <2>8 DEF Alone
    <3>2. height <= synced + 1
      BY <2>4, <2>5
    <3> QED
      BY <1>1, <2>1, <2>3, <2>5, <3>1, <3>2 DEF From, Meets, BlockAt
  <2>9. cut \/ BlockAt(height)' \notin stored'
    BY <1>1, <2>1, <2>5 DEF BlockAt
  <2>10. Alone'
    <3>1. height' - Len(headers') = height'
      BY <2>1, <2>3, <2>4
    <3> QED
      BY <2>1, <2>8, <2>9, <3>1 DEF Alone
  <2> QED
    BY <1>2, <2>6, <2>7, <2>10
<1> QED
  BY <1>3, <1>4

\* So it is, however the way up ends.
LEMMA ForwardDoneStep == ASSUME RelayInv, ForwardDone \/ ForwardBreaks PROVE RelayInv'
<1>1. faults \in 0..MaxFaults /\ MaxFaults \in Nat
  BY ChainFacts DEF RelayInv, RelayTypeOK
<1>2. stage = "forward" /\ UNCHANGED chains /\ faults' \in 0..MaxFaults
  <2>1. ForwardDone => stage = "forward" /\ UNCHANGED chains /\ faults' = faults
    BY DEF ForwardDone, chains
  <2>2. ForwardBreaks => /\ stage = "forward" /\ UNCHANGED chains
                         /\ faults' = faults + 1 /\ faults < MaxFaults
    BY DEF ForwardBreaks, chains
  <2> QED
    BY <1>1, <2>1, <2>2
<1>3. CASE ForwardDone
  <2>1. CollectFrom(FALSE) /\ ~(height <= synced /\ BlockAt(height) \in stored)
    BY <1>3 DEF ForwardDone, HasBlock
  <2> QED
    BY <1>2, <2>1, CollectFromStep
<1>4. CASE ForwardBreaks
  <2>1. CollectFrom(TRUE)
    BY <1>4 DEF ForwardBreaks
  <2> QED
    BY <1>2, <2>1, CollectFromStep
<1> QED
  BY <1>3, <1>4

\* The next header of the batch follows the last.
LEMMA CollectStep == ASSUME RelayInv, Collect PROVE RelayInv'
<1> USE DEF RelayInv
<1>1. /\ UNCHANGED <<network, synced, stored, best, maxHeight, relayHash, cutShort, disturbed,
                     faults>>
      /\ UNCHANGED chains
      /\ stage = "collect" /\ height <= synced
      /\ headers' = Append(headers, BlockAt(height))
      /\ height' = height + 1 /\ left' = left - 1
      /\ stage' = IF left = 1 THEN "submit" ELSE "collect"
  BY DEF Collect, HasBlock, chains
<1>2. /\ height \in Nat /\ left \in Nat /\ maxHeight \in Nat /\ synced \in Nat
      /\ headers \in Seq(Block) /\ Len(headers) \in Nat
  BY ChainFacts DEF RelayTypeOK
<1>3. left > 0 /\ height + left <= maxHeight + 1
  BY <1>1 DEF RoundHeights
<1>4. BlockAt(height) \in Block /\ Len(BlockAt(height)) = height
  BY <1>1, <1>2, ChainFacts
<1>5. /\ headers' \in Seq(Block) /\ headers' # <<>> /\ Len(headers') = Len(headers) + 1
      /\ \A i \in 1..Len(headers) : headers'[i] = headers[i]
      /\ headers'[Len(headers) + 1] = BlockAt(height)
  BY <1>1, <1>2, <1>4, AppendProperties
<1>6. \A i \in 1..Len(headers') :
         \/ i \in 1..Len(headers) /\ headers'[i] = headers[i]
         \/ i = Len(headers) + 1 /\ headers'[i] = BlockAt(height)
  BY <1>2, <1>5
<1>7. RelayTypeOK'
  <2>1. height' \in 0..(TopHeight + 1)
    BY <1>1, <1>2, ChainFacts
  <2>2. left' \in 0..MaxBatchSize
    BY <1>1, <1>2, <1>3, ChainFacts DEF RelayTypeOK
  <2> QED
    BY <1>1, <1>5, <2>1, <2>2 DEF RelayTypeOK
<1>8. StoredChains'
  BY <1>1, SameChains
<1>9. RoundHeights'
  <2>1. height <= maxHeight /\ (left # 1 => left' > 0) /\ height' + left' <= maxHeight + 1
    BY <1>1, <1>2, <1>3
  <2>2. \A i \in 1..Len(headers') : Len(headers'[i]) <= maxHeight
    BY <1>4, <1>6, <2>1 DEF RoundHeights
  <2> QED
    BY <1>1, <1>5, <2>1, <2>2 DEF RoundHeights
<1>10. Alone'
  <2> DEFINE low == height - Len(headers)
  <2>1. low \in Int /\ low + (Len(headers) + 1) - 1 = height /\ height' <= synced + 1
    BY <1>1, <1>2
  <2>2. low' = low /\ height' - Len(headers') = low
    BY <1>1, <1>2, <1>5
  <2>3. stage = "collect" /\ UNCHANGED <<network, synced, stored, disturbed, cutShort>>
    BY <1>1
  <2>4. ~disturbed => From(low) /\ (cutShort \/ BlockAt(low) \notin stored)
    BY <2>3 DEF Alone
  <2>5. stage' # "forward"
    BY <1>1
  <2> HIDE DEF low
  <2>6. ASSUME ~disturbed PROVE From(low)'
    <3>1. \A i \in 1..Len(headers') : headers'[i] = BlockAt(low + i - 1)
      BY <1>6, <2>1, <2>4, <2>6 DEF From
    <3> QED
      BY <2>1, <2>2, <2>3, <2>4, <2>6, <3>1 DEF From, BlockAt
  <2>7. BlockAt(low)' = BlockAt(low)
    BY <2>2, <2>3 DEF BlockAt
  <2>8. ASSUME ~disturbed' PROVE From(low) /\ From(low)' /\ (cutShort' \/ BlockAt(low)' \notin stored')
    BY <2>3, <2>4, <2>6, <2>7, <2>8
  <2> QED
    BY <2>2, <2>5, <2>8 DEF Alone
<1> QED
  BY <1>7, <1>8, <1>9, <1>10

\* What the relay accepts keeps its chains whole.
LEMMA SubmitStep == ASSUME RelayInv, Submit PROVE RelayInv'
<1> USE DEF RelayInv
<1>1. /\ stage = "submit" /\ StoreHeaders(Accepted(headers)) /\ EndRound
      /\ UNCHANGED <<network, synced, faults>>
  BY DEF Submit
<1>2. headers \in Seq(Block) /\ faults \in 0..MaxFaults
  BY DEF RelayTypeOK
<1>3. /\ Accepted(headers) \subseteq Block
      /\ \A b \in Accepted(headers) : Grounded(b, stored \cup Accepted(headers))
  BY <1>2, AcceptedGrounded
<1>4. stored # {}
  BY <1>1 DEF RoundHeights
<1>5. StoredChains' /\ stored' \subseteq Block /\ best' \in Block
  BY <1>1, <1>3, <1>4, StoreGrounded
<1> QED
  BY <1>1, <1>2, <1>5, EndRoundStep

\* A round that fails ends.
LEMMA FailStep == ASSUME RelayInv, BackwardFails \/ RoundFails PROVE RelayInv'
<1> USE DEF RelayInv
<1>1. EndRound /\ UNCHANGED chains /\ UNCHANGED <<network, synced, stored, best>>
  BY DEF BackwardFails, RoundFails, chains
<1>2. faults' \in 0..MaxFaults
  <2>1. faults \in 0..MaxFaults /\ MaxFaults \in Nat
    BY ChainFacts DEF RelayTypeOK
  <2> QED
    BY <2>1 DEF BackwardFails, RoundFails
<1>3. stored' \subseteq Block /\ best' \in Block
  BY <1>1 DEF RelayTypeOK
<1> QED
  BY <1>1, <1>2, <1>3, SameChains, EndRoundStep

\* The invariant is inductive.
LEMMA RelayNextInv == RelayInv /\ [RelayNext]_relayVars => RelayInv'
<1> SUFFICES ASSUME RelayInv, [RelayNext]_relayVars PROVE RelayInv'
  OBVIOUS
<1>1. CASE ChainStep
  BY <1>1, MineBlockStep, SyncStep, ReorgStep, OtherRelayerStep DEF ChainStep
<1>2. CASE SubmitNext
  BY <1>2, InitializeStep, CountStep, BestHeightStep, AskRelayStep, BackwardStep, ForwardStep, ForwardDoneStep,
     CollectStep, SubmitStep, FailStep DEF SubmitNext
<1>3. CASE UNCHANGED relayVars
  BY <1>3 DEF relayVars, roundVars, chains, RelayInv, RelayTypeOK, StoredChains, Grounded,
              RoundHeights, Alone, Meets, From, BlockAt
<1> QED
  BY <1>1, <1>2, <1>3 DEF RelayNext

\* In every reachable state the invariant holds.
LEMMA RelayInvariance == RelaySpec => []RelayInv
BY RelayInitInv, RelayNextInv, PTL DEF RelaySpec

\* Every variable of the relayer keeps its type: no height leaves the chain,
\* although the way down counts without a bound (relay/mod.rs).
THEOREM RelayTypeCorrect == RelaySpec => []RelayTypeOK
<1>1. RelayInv => RelayTypeOK
  BY DEF RelayInv
<1> QED
  BY <1>1, RelayInvariance, PTL

\* Whatever happens between the calls of a round, no header is submitted whose
\* height was not confirmed when it began (relay/mod.rs, submit_next).
THEOREM OnlyConfirmedSubmitted == RelaySpec => []OnlyConfirmed
<1>1. RelayInv => OnlyConfirmed
  BY DEF RelayInv, RoundHeights, OnlyConfirmed
<1> QED
  BY <1>1, RelayInvariance, PTL

\* The headers of a round with which nobody interferes are those of the chain,
\* one after the other.
LEMMA BatchIsChain ==
    ASSUME RelayTypeOK, StoredChains, NEW low, low = height - Len(headers), From(low)
    PROVE  /\ low \in Nat \ {0} /\ Len(headers) \in Nat
           /\ \A k \in 1..Len(headers) :
                 /\ low + k - 1 \in low..Len(network)
                 /\ headers[k] = BlockAt(low + k - 1) /\ Len(headers[k]) = low + k - 1
                 /\ Parent(headers[k]) = BlockAt(low + k - 2)
           /\ \A k \in 1..Len(headers) :
                 \/ headers[k] \in stored
                 \/ Parent(headers[k]) \in stored \cup {headers[j] : j \in 1..(k - 1)}
<1>1. height \in Nat /\ Len(headers) \in Nat
  BY DEF RelayTypeOK
<1>2. low \in Int /\ height = low + Len(headers)
  BY <1>1
<1>3. /\ StartHeight \in Nat \ {0} /\ StartHeight <= low /\ low \in Nat \ {0}
      /\ low + Len(headers) - 1 <= Len(network) /\ Len(network) \in Nat
  BY <1>1, <1>2, ChainFacts DEF From
<1>4. \A k \in 1..Len(headers) : low + k - 1 \in low..Len(network) /\ headers[k] = BlockAt(low + k - 1)
  BY <1>1, <1>3 DEF From
<1>5. ASSUME NEW k \in 1..Len(headers)
      PROVE  /\ Len(headers[k]) = low + k - 1
             /\ Parent(headers[k]) = BlockAt(low + k - 2)
             /\ \/ headers[k] \in stored
                \/ Parent(headers[k]) \in stored \cup {headers[j] : j \in 1..(k - 1)}
  <2> DEFINE h == low + k - 1
  <2>1. h \in low..Len(network) /\ h \in 1..Len(network) /\ h - 1 \in 0..Len(network)
        /\ h \in 0..Len(network) /\ h - 1 = low + k - 2
    BY <1>3, <1>4
  <2>2. headers[k] = BlockAt(h) /\ Len(headers[k]) = h
    BY <1>4, <2>1, ChainFacts
  <2>3. Parent(headers[k]) = BlockAt(h - 1)
    <3>1. h - 1 \in 0..h
      BY <2>1
    <3> QED
      BY <2>1, <2>2, <3>1, ChainFacts, AncestorOfAncestor DEF Parent, BlockAt
  <2>4. \/ BlockAt(h) \in stored
        \/ BlockAt(h - 1) \in stored \cup {headers[j] : j \in 1..(k - 1)}
    <3>1. CASE k = 1
      BY <1>3, <3>1 DEF From
    <3>2. CASE k # 1
      <4>1. k - 1 \in 1..(k - 1) /\ k - 1 \in 1..Len(headers) /\ low + (k - 1) - 1 = h - 1
        BY <1>1, <1>3, <3>2
      <4>2. headers[k - 1] = BlockAt(low + (k - 1) - 1)
        BY <1>4, <4>1
      <4> QED
        BY <4>1, <4>2
    <3> QED
      BY <3>1, <3>2
  <2> QED
    BY <2>1, <2>2, <2>3, <2>4
<1> QED
  BY <1>1, <1>3, <1>4, <1>5

\* Of a batch that begins with a header the relay lacks every one is accepted.
LEMMA BatchAccepted ==
    ASSUME RelayTypeOK, StoredChains, NEW low, low = height - Len(headers), From(low),
           BlockAt(low) \notin stored
    PROVE  Accepted(headers) = {headers[i] : i \in 1..Len(headers)}
<1>1. /\ low \in Nat \ {0} /\ Len(headers) \in Nat
      /\ StartHeight \in Nat \ {0} /\ StartHeight <= low /\ Len(network) \in Nat
  BY BatchIsChain, ChainFacts DEF From
<1>2. \A k \in 1..Len(headers) :
         /\ low + k - 1 \in low..Len(network)
         /\ headers[k] = BlockAt(low + k - 1) /\ Len(headers[k]) = low + k - 1
         /\ \/ headers[k] \in stored
            \/ Parent(headers[k]) \in stored \cup {headers[j] : j \in 1..(k - 1)}
  BY BatchIsChain
<1>3. ASSUME NEW k \in 1..Len(headers)
      PROVE  /\ headers[k] \notin stored
             /\ \A j \in 1..(k - 1) : headers[j] # headers[k]
             /\ Parent(headers[k]) \in stored \cup {headers[j] : j \in 1..(k - 1)}
  <2> DEFINE h == low + k - 1
  <2>1. h \in low..Len(network) /\ h \in 0..Len(network) /\ headers[k] = BlockAt(h)
    BY <1>1, <1>2
  <2>2. BlockAt(h) \notin stored
    <3>1. low \in StartHeight..h
      BY <1>1, <2>1
    <3> QED
      BY <2>1, <3>1, StoredBelow
  <2>3. ASSUME NEW j \in 1..(k - 1) PROVE headers[j] # headers[k]
    <3>1. j \in 1..Len(headers) /\ low + j - 1 # low + k - 1
      BY <1>1
    <3> QED
      BY <1>2, <3>1
  <2> QED
    BY <1>2, <2>1, <2>2, <2>3
<1>4. \A i \in 1..Len(headers) : Acceptable(headers, i)
  <2>1. \A i \in 1..Len(headers) : \A k \in 1..i : k \in 1..Len(headers)
    BY <1>1
  <2> QED
    BY <1>3, <2>1 DEF Acceptable
<1> QED
  BY <1>4, AcceptedAre

\* A round with which nobody interferes submits headers without a gap, and only
\* ones that the relay takes unless a failed call misled it, over any forks
\* between rounds (relay/mod.rs, compute_start_height).
THEOREM NeverInVain == RelaySpec => []NothingInVain
<1>1. RelayInv => NothingInVain
  <2> SUFFICES ASSUME RelayInv, stage = "submit", ~disturbed PROVE NothingInVain
    BY DEF NothingInVain
  <2>1. RelayTypeOK /\ StoredChains /\ headers # <<>>
    BY DEF RelayInv, RoundHeights
  <2>2. PICK low : /\ low = height - Len(headers)
                   /\ From(low) /\ (cutShort \/ BlockAt(low) \notin stored)
    BY DEF RelayInv, Alone
  <2>3. \A k \in 1..Len(headers) :
           \/ headers[k] \in stored
           \/ Parent(headers[k]) \in stored \cup {headers[j] : j \in 1..(k - 1)}
    BY <2>1, <2>2, BatchIsChain
  <2>4. cutShort \/ Accepted(headers) = {headers[i] : i \in 1..Len(headers)}
    BY <2>1, <2>2, BatchAccepted
  <2> QED
    BY <2>1, <2>3, <2>4 DEF NothingInVain
<1> QED
  BY <1>1, RelayInvariance, PTL
============================================================================
