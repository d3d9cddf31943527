-------------------------------- MODULE Feed --------------------------------
(***************************************************************************)
(* What an oracle client promises the parachain: for every key the values  *)
(* of later rounds replace those of earlier ones, and when it considers a  *)
(* round done the parachain has the values of that round, all of them.     *)
(* A client that ended with transactions under way may break the promise   *)
(* from then on (stray).                                                   *)
(***************************************************************************)
EXTENDS Naturals

CONSTANTS Keys, MaxRounds

VARIABLES
    posted, \* the round whose value the parachain has for each key, 0 for none
    done,   \* the last round the client considers done
    stray   \* a client ended with transactions under way

vars == <<posted, done, stray>>
Rounds == 1..MaxRounds

Init ==
    /\ posted = [k \in Keys |-> 0]
    /\ done = 0
    /\ stray = FALSE

\* A value of a round that is not done replaces an older one, or itself.
Publish(k) ==
    /\ \E r \in Rounds :
          /\ stray \/ (r > done /\ r >= posted[k])
          /\ posted' = [posted EXCEPT ![k] = r]
    /\ UNCHANGED <<done, stray>>

\* A round is done: its values are there.
Complete ==
    /\ \E r \in Rounds :
          /\ r > done
          /\ stray \/ \A k \in Keys : posted[k] = r
          /\ done' = r
    /\ UNCHANGED <<posted, stray>>

\* A client ends with transactions under way.
Abandon ==
    /\ stray' = TRUE
    /\ UNCHANGED <<posted, done>>

Next == Complete \/ Abandon \/ \E k \in Keys : Publish(k)

Spec == Init /\ [][Next]_vars

=============================================================================
