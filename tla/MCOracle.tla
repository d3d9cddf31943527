------------------------------ MODULE MCOracle ------------------------------
(* The fee estimate and two exchange rates; prices of four currencies whose *)
(* worths have different differences.                                       *)
EXTENDS Oracle

CONSTANTS btc, usd, dot, ksm
MCWorth == [c \in Currencies |-> CASE c = btc -> 20 [] c = usd -> 0 [] c = dot -> 3 [] c = ksm -> 7]
MCDecimals == [c \in Currencies |-> CASE c = btc -> 8 [] c = usd -> 6 [] c = dot -> 10 [] c = ksm -> 12]

=============================================================================
