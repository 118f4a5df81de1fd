------------------------------- MODULE Wallet -------------------------------
(***************************************************************************)
(* The note lifecycle of the light wallet's ClientState                   *)
(* (wallet/src/state.rs) against the chain it syncs from.                 *)
(*                                                                         *)
(* A note is a record [id, amt, denom]; its commitment and its nullifier  *)
(* are the note itself (both are injective).  Two denominations: the      *)
(* staking token, in which fees are paid, and one delegation token,       *)
(* exchanged at rate 1.  Time is a bounded counter of ticks; a            *)
(* registration made at                                                    *)
(* now expires once now > now0 + Timeout (SystemTime comparisons).        *)
(*                                                                         *)
(* The chain (the blocks scan_block is fed, the submission of a planned   *)
(* transaction) is the environment.  It mints blocks in order, each       *)
(* carrying an incoming note or one transaction that the MVP node's       *)
(* verify_transaction (penumbra/src/state.rs) accepts: its spend proofs   *)
(* verify against the node's current note commitment tree root and its    *)
(* nullifiers are new.  Any other transaction is dropped.                 *)
(*                                                                         *)
(* A note commitment tree only grows by appends, the wallet's in block    *)
(* order (scan_block appends every note payload), the node's in the same  *)
(* order; so the wallet's tree is a prefix of the node's and two roots     *)
(* are equal exactly when the trees hold as many commitments.  A root is   *)
(* that count.                                                             *)
(***************************************************************************)
EXTENDS Naturals, Sequences, FiniteSets, FiniteSetsExt, Functions, TLC
Seqs == INSTANCE SequencesExt

CONSTANTS
    Incoming,    \* notes sent to the wallet by others
    Amounts,     \* amounts requested by plan_* calls
    Fees,        \* fees passed to plan_* calls
    Timeout,     \* SUBMITTED_TRANSACTION_TIMEOUT, in ticks
    MaxTime,     \* bound on the clock
    MaxHeight,   \* bound on the number of blocks
    MaxNotes,    \* bound on note ids (incoming and change)
    MaxPending   \* bound on the transactions awaiting the node

ASSUME \A n \in Incoming : n.id \in 1..MaxNotes /\ n.amt \in Nat \ {0} /\ n.denom \in {"upenumbra", "delegation"}

VARIABLES
    last_block_height,     \* -1 stands for None
    nullifier_map,         \* notes whose nullifier the wallet knows
    unspent_set,
    submitted_spend_set,   \* note -> time it was registered
    submitted_change_set,  \* note -> time it was registered
    spent_set,
    now,
    blocks,                \* the chain: compact blocks, with the count of commitments each appends
    mempool,               \* submitted transactions not yet confirmed
    next_id                \* the next fresh note id

wallet == <<last_block_height, nullifier_map, unspent_set, submitted_spend_set,
            submitted_change_set, spent_set>>
chain == <<blocks, mempool, next_id>>
vars == <<wallet, chain, now>>

(* The staking token and the delegation token of one validator. *)
STAKING == "upenumbra"
DELEGATION == "delegation"
Denoms == {STAKING, DELEGATION}

Note == [id : 1..MaxNotes, amt : Nat, denom : Denoms]
Value(S) == MapThenSumSet(LAMBDA n : n.amt, S)

(* BTreeMap insert and remove on the submitted sets. *)
Insert(f, S, t) == [n \in S |-> t] @@ f
Remove(f, S) == Restrict(f, DOMAIN f \ S)

(* SystemTime::now() > timeout, with timeout = registration time + Timeout *)
(* (prune_timeouts, lines 703 and 712).  The mutant expires a registration *)
(* at its timeout already.                                                 *)
ExpiredAtTimeout(t) == now >= t + Timeout
Expired(t) == now > t + Timeout

(* The root of a tree holding the commitments of the first k blocks. *)
Root(k) == MapThenSumSet(LAMBDA i : blocks[i].ncm, 1..k)

(* build_transaction (lines 275-305): the witness data anchors every spend *)
(* proof at the root of the wallet's note commitment tree, the one        *)
(* scan_block has built so far.  An auth path is found for every spent    *)
(* note, since plans only spend notes of unspent_set, which scan_block     *)
(* put in that tree.                                                       *)
build_transaction == Root(last_block_height + 1)

-----------------------------------------------------------------------------
(***************************************************************************)
(* unspent_notes: the notes of a denomination the wallet holds, Ready or  *)
(* submitted; notes_to_spend fails when there is none.                    *)
(***************************************************************************)
Known(d) ==
    {n \in unspent_set \cup DOMAIN submitted_spend_set \cup DOMAIN submitted_change_set :
        n.denom = d}
Ready(d) == {n \in unspent_set : n.denom = d}

(***************************************************************************)
(* notes_to_spend(amount, denom): shuffle the notes, push Ready ones and   *)
(* stop right after the push that reaches amount.  Under every shuffle,   *)
(* the pushed notes are a set S with a last element x such that S \ {x}   *)
(* is short of the amount (or empty: amount 0 still takes one note) and S *)
(* is not.  With no Ready note and amount 0 the result is empty.  The      *)
(* empty set of selections is the Err of a missing denomination or of too *)
(* little value.                                                           *)
(***************************************************************************)
Selections(amount, d) ==
    IF Known(d) = {} \/ Value(Ready(d)) < amount THEN {}
    ELSE IF Ready(d) = {} THEN {{}}
    ELSE {S \in SUBSET Ready(d) :
            /\ Value(S) >= amount
            /\ \E x \in S : S = {x} \/ Value(S \ {x}) < amount}

register_spend(S) ==
    /\ unspent_set' = unspent_set \ S
    /\ submitted_spend_set' = Insert(submitted_spend_set, S, now)

(***************************************************************************)
(* The common part of the plan_* methods.  entries are the (denomination, *)
(* amount) pairs notes_to_spend is called with, in order; each call        *)
(* registers its spends at once, so an Err at entry k + 1 (or a later ?,   *)
(* such as change_address) leaves the spends of entries 1..k registered   *)
(* and returns no plan.  A plan the caller builds and submits carries the  *)
(* spends, the outputs to ourselves and a change output of spent - amount *)
(* per entry when positive, plus the outputs to others (nothers); the     *)
(* caller builds it (build_transaction), submits it and registers the      *)
(* change with register_change.  A plan may also never be submitted.      *)
(***************************************************************************)
Change(e, S) == [amt |-> Value(S) - e.amount, denom |-> e.denom]

NewNotes(outs) == {[id |-> next_id + i - 1, amt |-> outs[i].amt, denom |-> outs[i].denom] :
                     i \in DOMAIN outs}

PlanTx(entries, selfOuts, nothers, sent, fee) ==
    \E k \in 0..Len(entries) : \E sel \in [1..k -> SUBSET unspent_set] :
        /\ \A i \in 1..k : sel[i] \in Selections(entries[i].amount, entries[i].denom)
        /\ k < Len(entries) => Selections(entries[k + 1].amount, entries[k + 1].denom) = {}
        /\ register_spend(UNION Range(sel))
        /\ LET changes == SelectSeq([i \in 1..k |-> Change(entries[i], sel[i])],
                                    LAMBDA c : c.amt > 0)
               outs    == selfOuts \o changes
               chg     == NewNotes(outs) \ NewNotes(selfOuts)
           IN  \/ UNCHANGED <<submitted_change_set, mempool, next_id>>
               \/ /\ k = Len(entries)
                  /\ next_id + Len(outs) - 1 <= MaxNotes
                  /\ Cardinality(mempool) < MaxPending
                  /\ mempool' = mempool \cup {[spends |-> UNION Range(sel),
                                               outputs |-> NewNotes(outs),
                                               sent |-> sent, fee |-> fee,
                                               time |-> now,
                                               anchor |-> build_transaction,
                                               ncm |-> Len(outs) + nothers]}
                  /\ submitted_change_set' = Insert(submitted_change_set, chg, now)
                  /\ next_id' = next_id + Len(outs)
        /\ UNCHANGED <<last_block_height, nullifier_map, spent_set, blocks, now>>

(* plan_send: value_to_spend is the output value per denomination, with  *)
(* the fee added to the staking token's entry.  The mutant forgets the fee.*)
SendEntriesWithoutFee(d, amount, fee) == {[denom |-> d, amount |-> amount]}
SendEntries(d, amount, fee) ==
    IF d = STAKING
    THEN {[denom |-> d, amount |-> amount + fee]}
    ELSE {[denom |-> d, amount |-> amount]} \cup
         (IF fee > 0 THEN {[denom |-> STAKING, amount |-> fee]} ELSE {})

(* Zero amounts are skipped; the entries come out of a HashMap, in any    *)
(* order.  The one output, even of amount 0, goes to another address.    *)
PlanSend ==
    \E d \in Denoms, amount \in Amounts, fee \in Fees :
        \E entries \in Seqs!SetToSeqs({e \in SendEntries(d, amount, fee) : e.amount # 0}) :
            PlanTx(entries, <<>>, 1, amount, fee)

(* plan_delegate: spend amount + fee of the staking token and output the   *)
(* delegation tokens (at rate 1) to ourselves.                             *)
PlanDelegate ==
    \E amount \in Amounts, fee \in Fees :
        PlanTx(<<[denom |-> STAKING, amount |-> amount + fee]>>,
               <<[amt |-> amount, denom |-> DELEGATION]>>, 0, 0, fee)

(* plan_undelegate: the fee comes out of the unbonded amount (checked_sub, *)
(* an Err before any spend); spend the delegation tokens and output the    *)
(* rest to ourselves.                                                       *)
PlanUndelegate ==
    \E amount \in Amounts, fee \in Fees :
        /\ fee <= amount
        /\ PlanTx(<<[denom |-> DELEGATION, amount |-> amount]>>,
                  <<[amt |-> amount - fee, denom |-> STAKING]>>, 0, 0, fee)

(* plan_validator_definition: spend the fee in the staking token. *)
PlanValidatorDefinition ==
    \E fee \in Fees :
        PlanTx(<<[denom |-> STAKING, amount |-> fee]>>, <<>>, 0, 0, fee)

(***************************************************************************)
(* prune_timeouts: take both submitted sets; an expired submitted spend   *)
(* goes back to unspent_set unless it is already in spent_set; expired    *)
(* submitted change is dropped; the rest is put back.                     *)
(***************************************************************************)
(* Mutant: expired spends are dropped like expired change. *)
prune_timeouts_dropping_spends ==
    LET expS == {n \in DOMAIN submitted_spend_set : Expired(submitted_spend_set[n])}
        expC == {n \in DOMAIN submitted_change_set : Expired(submitted_change_set[n])}
    IN  /\ submitted_spend_set' = Remove(submitted_spend_set, expS)
        /\ submitted_change_set' = Remove(submitted_change_set, expC)
        /\ UNCHANGED unspent_set

prune_timeouts ==
    LET expS == {n \in DOMAIN submitted_spend_set : Expired(submitted_spend_set[n])}
        expC == {n \in DOMAIN submitted_change_set : Expired(submitted_change_set[n])}
    IN  /\ unspent_set' = unspent_set \cup (expS \ spent_set)
        /\ submitted_spend_set' = Remove(submitted_spend_set, expS)
        /\ submitted_change_set' = Remove(submitted_change_set, expC)

PruneTimeouts ==
    /\ prune_timeouts
    /\ UNCHANGED <<last_block_height, nullifier_map, spent_set, chain, now>>

(***************************************************************************)
(* scan_block(block at height): only the block right after                *)
(* last_block_height is accepted (a wrong height is an Err, no change).   *)
(* Every note payload that decrypts (here: every note, all are ours) is  *)
(* recorded in the nullifier map, removed from the submitted change set   *)
(* and inserted into unspent_set.  Then each nullifier of a known note    *)
(* moves it to spent_set from unspent_set, else from submitted_spend_set, *)
(* else from submitted_change_set.  Finally last_block_height = height.   *)
(***************************************************************************)
(* Mutant: any height after the last one is accepted. *)
ExpectedHeightAfter(height) == height > last_block_height
ExpectedHeight(height) == height = last_block_height + 1

scan_block(height) ==
    LET b   == blocks[height + 1]
        nm  == nullifier_map \cup b.notes
        U1  == unspent_set \cup b.notes
        C1  == Remove(submitted_change_set, b.notes)
        nfs == b.nullifiers \cap nm
        inU == nfs \cap U1
        inS == (nfs \ inU) \cap DOMAIN submitted_spend_set
        inC == (nfs \ (inU \cup inS)) \cap DOMAIN C1
    IN  /\ ExpectedHeight(height)
        /\ nullifier_map' = nm
        /\ unspent_set' = U1 \ inU
        /\ submitted_spend_set' = Remove(submitted_spend_set, inS)
        /\ submitted_change_set' = Remove(C1, inC)
        /\ spent_set' = spent_set \cup inU \cup inS \cup inC
        /\ last_block_height' = height

ScanBlock ==
    /\ \E height \in 0..(Len(blocks) - 1) : scan_block(height)
    /\ UNCHANGED <<chain, now>>

-----------------------------------------------------------------------------
(* The environment: the clock and the chain. *)
Tick ==
    /\ now < MaxTime
    /\ now' = now + 1
    /\ UNCHANGED <<wallet, chain>>

OnChainNotes == UNION {blocks[i].notes : i \in 1..Len(blocks)}
OnChainNullifiers == UNION {blocks[i].nullifiers : i \in 1..Len(blocks)}

MintIncoming ==
    /\ Len(blocks) < MaxHeight
    /\ \E n \in Incoming \ OnChainNotes :
          blocks' = Append(blocks, [notes |-> {n}, nullifiers |-> {}, ncm |-> 1])
    /\ UNCHANGED <<wallet, mempool, next_id, now>>

(* verify_transaction (penumbra/src/state.rs, lines 52-73): each spend     *)
(* proof verifies against the node's root2(), which needs the note in the  *)
(* tree at the transaction's anchor and that anchor to be the node's root  *)
(* now; each nullifier is new.                                           *)
NodeAccepts(t) ==
    /\ t.anchor = Root(Len(blocks))
    /\ t.spends \subseteq OnChainNotes
    /\ t.spends \cap OnChainNullifiers = {}

Confirm ==
    /\ Len(blocks) < MaxHeight
    /\ \E t \in mempool :
          /\ NodeAccepts(t)
          /\ blocks' = Append(blocks, [notes |-> t.outputs, nullifiers |-> t.spends,
                                        ncm |-> t.ncm])
          /\ mempool' = mempool \ {t}
    /\ UNCHANGED <<wallet, next_id, now>>

Reject ==
    /\ \E t \in mempool :
          /\ ~NodeAccepts(t)
          /\ mempool' = mempool \ {t}
    /\ UNCHANGED <<wallet, blocks, next_id, now>>

-----------------------------------------------------------------------------
(* ClientState::new, and an empty chain. *)
Init ==
    /\ last_block_height = -1
    /\ nullifier_map = {} /\ unspent_set = {} /\ spent_set = {}
    /\ submitted_spend_set = <<>> /\ submitted_change_set = <<>>
    /\ now = 0 /\ blocks = <<>> /\ mempool = {}
    /\ next_id = Cardinality(Incoming) + 1

Next ==
    \/ PlanSend \/ PlanDelegate \/ PlanUndelegate \/ PlanValidatorDefinition
    \/ PruneTimeouts \/ ScanBlock
    \/ Tick \/ MintIncoming \/ Confirm \/ Reject

Spec == Init /\ [][Next]_vars

(* The clock runs, and the client calls prune_timeouts again and again   *)
(* (as pcli does on each sync): the only steps the liveness property      *)
(* below relies on.  Blocks, scans and plans need not happen.              *)
LiveSpec == Spec /\ WF_vars(Tick) /\ WF_vars(PruneTimeouts)

-----------------------------------------------------------------------------
TypeOK ==
    /\ last_block_height \in -1..(Len(blocks) - 1)
    /\ unspent_set \subseteq Note /\ spent_set \subseteq Note
    /\ nullifier_map \subseteq Note
    /\ DOMAIN submitted_spend_set \subseteq Note
    /\ DOMAIN submitted_change_set \subseteq Note
    /\ now \in 0..MaxTime

(***************************************************************************)
(* What the scanned blocks say about the wallet's notes.                  *)
(***************************************************************************)
Scanned == SubSeq(blocks, 1, last_block_height + 1)
ScannedNotes == UNION {Scanned[i].notes : i \in DOMAIN Scanned}
ScannedNullifiers == UNION {Scanned[i].nullifiers : i \in DOMAIN Scanned}

(* Whatever sequence of plans, submissions, timeouts and block scans has   *)
(* happened, the wallet agrees with the blocks it has scanned: its spent   *)
(* set is exactly the scanned notes whose nullifier it has scanned; every  *)
(* other scanned note is either ready or a submitted spend, never both;    *)
(* and no scanned note is still expected as change.                       *)
WalletMatchesChain ==
    /\ spent_set = ScannedNotes \cap ScannedNullifiers
    /\ unspent_set \cup DOMAIN submitted_spend_set = ScannedNotes \ ScannedNullifiers
    /\ unspent_set \cap DOMAIN submitted_spend_set = {}
    /\ DOMAIN submitted_change_set \cap ScannedNotes = {}

(* Every transaction a plan_* method builds balances: the value of the     *)
(* notes it spends is the value of its outputs (change and notes to       *)
(* ourselves, at the rate of 1 of the model) plus what it sends away plus *)
(* its fee.  It needs the fee on the staking entry of plan_send, the      *)
(* stop-at-amount loop of notes_to_spend and the change of every entry    *)
(* to be right together.                                                   *)
PlannedTransactionsBalance ==
    \A t \in mempool : Value(t.spends) = Value(t.outputs) + t.sent + t.fee

(* The submitted spend set keeps the wallet from double-spending a note   *)
(* whose transaction is not yet final (register_spend, lines 186-202):    *)
(* until its registration times out, no note spent by a pending          *)
(* transaction is Ready again, whatever plans (submitted or abandoned),   *)
(* block scans and prune_timeouts calls happen meanwhile; so no second    *)
(* plan can select it.                                                     *)
NoReplanWithinTimeout ==
    \A t \in mempool : now <= t.time + Timeout => t.spends \cap unspent_set = {}

(* A registered spend is never stranded (the comment at line 714: "we     *)
(* must recover the submitted spend note or else we can't ever spend it"): *)
(* a note in the submitted spend set, registered early enough to expire    *)
(* within the bounded clock, ends up Ready again or seen spent on chain,   *)
(* whether its transaction was abandoned, failed part way, confirmed, or   *)
(* dropped by the node for an anchor a block made stale.                  *)
PendingSpend(i) ==
    \E n \in DOMAIN submitted_spend_set :
        n.id = i /\ submitted_spend_set[n] + Timeout < MaxTime
Resolved(i) == \E n \in unspent_set \cup spent_set : n.id = i

SpendEventuallyResolved == \A i \in 1..MaxNotes : PendingSpend(i) ~> Resolved(i)

=============================================================================
