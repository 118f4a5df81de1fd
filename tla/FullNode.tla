------------------------------ MODULE FullNode ------------------------------
(***************************************************************************)
(* FullNodeState::verify_transaction (penumbra/src/state.rs): the MVP     *)
(* node checks a transaction's actions in order, returning false at the  *)
(* first failure, and only if all pass applies the queued nullifiers and  *)
(* note commitments.  Calls are sequential (&mut self).                   *)
(*                                                                         *)
(* A note stands for its commitment and its nullifier.  A signature or    *)
(* proof is valid or not (ok); a spend proof also needs its note to be in *)
(* the note commitment tree whose root the node passes as the anchor.     *)
(***************************************************************************)
EXTENDS Naturals, Sequences, FiniteSets, Functions

CONSTANTS Notes, MaxActions

VARIABLES
    note_commitment_tree,  \* the commitments appended so far
    nullifier_set,
    accepted,              \* history: the nullifiers of accepted spends, in order
    last                   \* the last call: its transaction, pre-state and result

vars == <<note_commitment_tree, nullifier_set, accepted, last>>

Action == [kind : {"output", "spend"}, note : Notes, ok : BOOLEAN]
Transaction == [binding : BOOLEAN,
                actions : UNION {[1..n -> Action] : n \in 0..MaxActions}]

(* The anchor a spend proof is verified against: the tree's root as it   *)
(* was before this transaction (root2() of the unmodified tree).  The     *)
(* mutant verifies against a tree that already holds the transaction's   *)
(* earlier outputs.                                                       *)
AnchorWithQueued(tree, cms) == tree \cup cms
Anchor(tree, cms) == tree

(* The nullifier is neither in the set nor revealed earlier in this      *)
(* transaction (lines 69-70); the mutant forgets the second check.        *)
NullifierFreshInSetOnly(a, nfset, nfs) == a.note \notin nfset
NullifierFresh(a, nfset, nfs) == a.note \notin nfset /\ a.note \notin nfs

(***************************************************************************)
(* The loop over the actions (lines 39-79), with its early returns.  The  *)
(* result carries what was queued up to the point it stopped.             *)
(***************************************************************************)
RECURSIVE VerifyActions(_, _, _, _, _)
VerifyActions(acts, tree, nfset, nfs, cms) ==
    IF acts = <<>> THEN [ok |-> TRUE, nfs |-> nfs, cms |-> cms]
    ELSE LET a    == Head(acts)
             fail == [ok |-> FALSE, nfs |-> nfs, cms |-> cms]
         IN  IF a.kind = "output"
             THEN IF ~a.ok THEN fail
                  ELSE VerifyActions(Tail(acts), tree, nfset, nfs, cms \cup {a.note})
             ELSE IF ~a.ok \/ a.note \notin Anchor(tree, cms) THEN fail
                  ELSE IF ~NullifierFresh(a, nfset, nfs) THEN fail
                  ELSE VerifyActions(Tail(acts), tree, nfset, nfs \cup {a.note}, cms)

(* 1. the binding signature; 2. the actions; the result of the call. *)
Verify(tx) ==
    IF ~tx.binding THEN [ok |-> FALSE, nfs |-> {}, cms |-> {}]
    ELSE VerifyActions(tx.actions, note_commitment_tree, nullifier_set, {}, {})

(* 3. update the note state, only when everything verified; the mutant   *)
(* keeps what was queued before a failure.                                *)
ApplyResultEagerly(r) ==
    /\ nullifier_set' = nullifier_set \cup r.nfs
    /\ note_commitment_tree' = note_commitment_tree \cup r.cms
ApplyResult(r) ==
    IF r.ok
    THEN /\ nullifier_set' = nullifier_set \cup r.nfs
         /\ note_commitment_tree' = note_commitment_tree \cup r.cms
    ELSE UNCHANGED <<nullifier_set, note_commitment_tree>>

(* The nullifiers a transaction reveals, in the order of its actions. *)
SpentNotes(tx) ==
    LET sp == SelectSeq(tx.actions, LAMBDA a : a.kind = "spend")
    IN  [i \in 1..Len(sp) |-> sp[i].note]

VerifyTransaction ==
    \E tx \in Transaction :
        LET r == Verify(tx)
        IN  /\ ApplyResult(r)
            /\ accepted' = IF r.ok THEN accepted \o SpentNotes(tx) ELSE accepted
            /\ last' = [tx |-> tx, tree |-> note_commitment_tree,
                        nfset |-> nullifier_set, ok |-> r.ok]

Init ==
    /\ note_commitment_tree = {} /\ nullifier_set = {}
    /\ accepted = <<>>
    /\ last = [tx |-> [binding |-> FALSE, actions |-> <<>>], tree |-> {},
               nfset |-> {}, ok |-> FALSE]

Spec == Init /\ [][VerifyTransaction]_vars

-----------------------------------------------------------------------------
TypeOK ==
    /\ note_commitment_tree \subseteq Notes /\ nullifier_set \subseteq Notes
    /\ accepted \in Seq(Notes) /\ last.ok \in BOOLEAN

(* What verify_transaction should decide, stated without its loop: the    *)
(* binding signature and every proof verify, each spent note was already  *)
(* committed in the tree, and each nullifier is new to the node and to    *)
(* this transaction.                                                       *)
ShouldAccept(tx, tree, nfset) ==
    LET acts == tx.actions
    IN  /\ tx.binding
        /\ \A i \in DOMAIN acts : acts[i].ok
        /\ \A i \in DOMAIN acts : acts[i].kind = "spend" =>
              /\ acts[i].note \in tree /\ acts[i].note \notin nfset
              /\ \A j \in DOMAIN acts : j # i /\ acts[j].kind = "spend"
                    => acts[j].note # acts[i].note

(* The in-order loop with its early returns and its queued updates        *)
(* accepts exactly the transactions the definition above accepts.         *)
VerifyMatchesReference ==
    last.ok = ShouldAccept(last.tx, last.tree, last.nfset)

(* No nullifier is ever accepted twice, across transactions or within     *)
(* one: the node's double-spend protection (lines 69-73).                 *)
NoNullifierAcceptedTwice ==
    \A i, j \in DOMAIN accepted : i # j => accepted[i] # accepted[j]

(* A note is burned only by a transaction the node accepted: every        *)
(* nullifier in the node's set was revealed by an accepted transaction, so *)
(* a note whose spending transaction was rejected, even after its spend   *)
(* had verified and been queued (step 3 runs only after the whole loop),  *)
(* stays spendable.                                                        *)
NoNoteBurnedByRejectedTransaction ==
    nullifier_set = Range(accepted)

=============================================================================
