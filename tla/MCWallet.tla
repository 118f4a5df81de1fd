------------------------------ MODULE MCWallet ------------------------------
(***************************************************************************)
(* Model-checking instance of Wallet: staking notes of amounts 1 and 2    *)
(* and a delegation note of 1.  With amounts of 0 and 1 and a fee of 1   *)
(* (wallet_sync.cfg) a spend may take one note with change, both notes,   *)
(* or fail part way.                                                       *)
(***************************************************************************)
EXTENDS Wallet

MCIncoming == {[id |-> 1, amt |-> 1, denom |-> STAKING],
               [id |-> 2, amt |-> 2, denom |-> STAKING],
               [id |-> 3, amt |-> 1, denom |-> DELEGATION]}
=============================================================================
