---------------------------- MODULE MCMarketData ----------------------------
(* Contracts that are easily taken for each other, for TLC. *)
EXTENDS MarketData, ContractKey

\* A future, the continuous future TWS gives the same ConID, and a combo that
\* has the future for a leg; TWS gives all combos one ConID.
Future     == [secType |-> "FUT", conID |-> 7, legs |-> <<>>]
Continuous == [secType |-> "CONTFUT", conID |-> 7, legs |-> <<>>]
Spread     == [secType |-> "BAG", conID |-> 9,
               legs |-> <<[conID |-> 8, ratio |-> 1], [conID |-> 7, ratio |-> 2]>>]

MCContracts == {Future, Continuous, Spread}
MCKey       == [c \in Contracts |-> KeyOf(c)]
============================================================================
