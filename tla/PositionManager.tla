--------------------------- MODULE PositionManager ---------------------------
(***************************************************************************)
(* The liquidity positions of the DEX (component/src/dex/                 *)
(* position_manager.rs): the position records under position_by_id in    *)
(* the verifiable state, and the price index the router reads, kept in    *)
(* the nonverifiable state with nonconsensus_put_raw / _delete.           *)
(*                                                                         *)
(* A position is a record [pair, phi, nonce]; its id is the position      *)
(* itself (position.id() is a hash of it).  A trading pair is ordered    *)
(* (asset_1 before asset_2); phi is the bare trading function, reduced to *)
(* its price [p, q], which flip() swaps.  price_index::key(pair, phi) is   *)
(* outside the repository; from its two arguments it is at best an        *)
(* injective encoding of them, which is what PriceKey is.                  *)
(*                                                                         *)
(* Calls come from the action handlers of the chain, one at a time.  The  *)
(* handler of a position opening is outside the repository; position_open *)
(* itself checks nothing, so the model assumes that handler calls         *)
(* check_position_id_unused first (what PositionRead offers it for).       *)
(* position_withdraw and position_reward_claim are todo!() and are not    *)
(* callable.                                                               *)
(***************************************************************************)
EXTENDS Naturals, FiniteSets, Functions, TLC

CONSTANTS
    Pairs,    \* trading pairs [asset_1, asset_2]
    Prices,   \* bare trading functions [p, q]
    Nonces,   \* the nonces that make positions at one price distinct
    Amounts   \* reserve amounts (0 means none)

VARIABLES
    position_by_id,  \* id -> Metadata [state, reserves]
    price_index      \* nonverifiable index key -> id

vars == <<position_by_id, price_index>>

Position == [pair : Pairs, phi : Prices, nonce : Nonces]
Reserves == [r1 : Amounts, r2 : Amounts]
Metadata == [state : {"Opened", "Closed"}, reserves : Reserves]

flip(phi) == [p |-> phi.q, q |-> phi.p]

(* DirectedTradingPair { start, end }. *)
Directed(start, end) == [start |-> start, end |-> end]

(* state_key::internal::price_index::key(pair, phi). *)
PriceKey(dpair, phi) == <<dpair, phi>>

(* The two index keys of a position: trades from asset 2 to asset 1 (it   *)
(* gives out asset 1), and from asset 1 to asset 2 with the flipped price.*)
Key12(pos) == PriceKey(Directed(pos.pair.asset_1, pos.pair.asset_2), pos.phi)
Key21(pos) == PriceKey(Directed(pos.pair.asset_2, pos.pair.asset_1), flip(pos.phi))

-----------------------------------------------------------------------------
(* PositionRead::position_by_id is Some for a stored id. *)
Stored(id) == id \in DOMAIN position_by_id
IsOpened(id) == Stored(id) /\ position_by_id[id].state = "Opened"

(* Inner::put_position. *)
put_position(id, md) == position_by_id' = id :> md @@ position_by_id

(* Inner::index_position: one nonconsensus_put_raw per side with reserves, *)
(* whatever the key held before.  The mutant indexes both sides always.    *)
IndexEntriesIgnoringReserves(pos, md) == (Key12(pos) :> pos) @@ (Key21(pos) :> pos)
IndexEntries(pos, md) ==
    LET e12 == IF md.reserves.r1 # 0 THEN Key12(pos) :> pos ELSE <<>>
        e21 == IF md.reserves.r2 # 0 THEN Key21(pos) :> pos ELSE <<>>
    IN  e21 @@ e12

index_position(pos, md) == IndexEntries(pos, md) @@ price_index

(* Inner::deindex_position: deletes both keys, whatever they hold.  The   *)
(* mutant forgets the flipped direction.                                   *)
DeindexedKeysOneWay(pos) == {Key12(pos)}
DeindexedKeys(pos) == {Key12(pos), Key21(pos)}

deindex_position(pos) == Restrict(price_index, DOMAIN price_index \ DeindexedKeys(pos))

-----------------------------------------------------------------------------
(***************************************************************************)
(* check_position_id_unused, then position_open(position,                  *)
(* initial_reserves): index the Opened metadata, then store it.  A used   *)
(* id is an Err and changes nothing.                                       *)
(***************************************************************************)
(* Mutant: the handler skips check_position_id_unused. *)
check_position_id_unused_skipped(id) == TRUE
check_position_id_unused(id) == ~Stored(id)

PositionOpen ==
    \E pos \in Position, r \in Reserves :
        \/ /\ check_position_id_unused(pos)
           /\ LET md == [state |-> "Opened", reserves |-> r]
              IN  /\ price_index' = index_position(pos, md)
                  /\ put_position(pos, md)
        \/ /\ ~check_position_id_unused(pos)
           /\ UNCHANGED vars

(***************************************************************************)
(* position_close(id): Err if the id is unknown or the position is not    *)
(* Opened; otherwise mark it Closed, deindex it and store it.              *)
(***************************************************************************)
PositionClose ==
    \E id \in Position :
        \/ /\ IsOpened(id)
           /\ price_index' = deindex_position(id)
           /\ put_position(id, [position_by_id[id] EXCEPT !.state = "Closed"])
        \/ /\ ~IsOpened(id)
           /\ UNCHANGED vars

Init == position_by_id = <<>> /\ price_index = <<>>

Next == PositionOpen \/ PositionClose

Spec == Init /\ [][Next]_vars

-----------------------------------------------------------------------------
TypeOK ==
    /\ DOMAIN position_by_id \subseteq Position
    /\ \A id \in DOMAIN position_by_id : position_by_id[id] \in Metadata
    /\ Range(price_index) \subseteq DOMAIN position_by_id

(* The keys under which an Opened position should be found by the router: *)
(* one per side it has reserves on.                                        *)
ExpectedKeys(id) ==
    LET md == position_by_id[id]
    IN  IF md.state # "Opened" THEN {}
        ELSE (IF md.reserves.r1 # 0 THEN {Key12(id)} ELSE {}) \cup
             (IF md.reserves.r2 # 0 THEN {Key21(id)} ELSE {})

(* The router never finds a position it may not trade against: every      *)
(* price index entry names an Opened position, under a key of a side that *)
(* position has reserves on, across any sequence of openings and closings *)
(* of positions that share prices and pairs.                               *)
PriceIndexSound ==
    \A k \in DOMAIN price_index : k \in ExpectedKeys(price_index[k])

(* Every Opened position is found by the router on each side it has       *)
(* reserves on: the index entry under its key names it (the comments at    *)
(* lines 96 and 108: the position is indexed for trades against it).      *)
PriceIndexComplete ==
    \A id \in DOMAIN position_by_id :
        \A k \in ExpectedKeys(id) : k \in DOMAIN price_index /\ price_index[k] = id

=============================================================================
