------------------------------ MODULE MCMetrics -----------------------------
(* Two assets that may exchange their symbols; an issue and a redeem of one *)
(* vault id.                                                                *)
EXTENDS Metrics

MCFirstSymbol == [a \in Assets |-> IF a = 1 THEN 11 ELSE 0]
MCVaultOf == [r \in Requests |-> 1]
MCPeriodOf == [r \in Redeems |-> 0]
=============================================================================
