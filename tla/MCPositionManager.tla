-------------------------- MODULE MCPositionManager --------------------------
(***************************************************************************)
(* Model-checking instance of PositionManager: one trading pair, two      *)
(* prices that are each other's flip, two nonces (so that two positions   *)
(* share a pair and a price), reserves of 0 or 1 on each side.            *)
(***************************************************************************)
EXTENDS PositionManager

MCPairs == {[asset_1 |-> "gm", asset_2 |-> "gn"]}
MCPrices == {[p |-> 1, q |-> 2], [p |-> 2, q |-> 1]}
=============================================================================
