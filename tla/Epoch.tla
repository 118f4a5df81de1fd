------------------------------- MODULE Epoch -------------------------------
(***************************************************************************)
(* The staking component's end-of-block work (stake/src/component/        *)
(* epoch_handler.rs): end_epoch, which tallies the epoch's delegation     *)
(* changes, runs process_validator for every validator of the consensus   *)
(* set and then set_active_and_inactive_validators; and                   *)
(* build_cometbft_validator_updates, which turns the validator set into   *)
(* the updates CometBFT applies.                                           *)
(*                                                                         *)
(* Exchange rates are fixed at 1 (rate.rs is not part of the source): the *)
(* unbonded amount of a delegation pool and its voting power are its      *)
(* delegation token supply, and penalties and the base rate are left out. *)
(* The consensus set is the validators that are not Defined (a demoted   *)
(* validator leaves it, as the comment at lines 336-337 says; the index   *)
(* is kept outside this file), ordered by <, the order                    *)
(* consensus_set_stream yields them.  The calls happen in the order of    *)
(* the end-block handler: transactions, then (at an epoch boundary)       *)
(* end_epoch, then build_cometbft_validator_updates.  Delegations,        *)
(* jailing, activation and consensus-key changes are made by handlers     *)
(* outside this file: they are the environment.                           *)
(***************************************************************************)
EXTENDS Integers, Sequences, FiniteSets, FiniteSetsExt, Functions

CONSTANTS
    Validators,            \* identity keys, a set of naturals
    Keys,                  \* consensus keys
    ActiveValidatorLimit,  \* stake params: active_validator_limit
    MinValidatorStake,     \* stake params: min_validator_stake
    MaxAmount,             \* the largest delegation or undelegation
    MaxChanges,            \* bound on the delegation changes of an epoch
    MaxHeight              \* bound on the number of blocks

VARIABLES
    validator_state,
    delegation_supply,       \* token supply of each validator's delegation token
    staking_supply,          \* token supply of the staking token
    validator_power,
    consensus_key,           \* the validator's current consensus key
    changes,                 \* the delegation changes of the epoch so far
    funding_queue,           \* what end_epoch queued for the funding component
    current_consensus_keys,  \* the keys the app believes CometBFT holds
    cometbft,                \* the validator set CometBFT holds: key -> power
    phase,                   \* where the block is: "txs", "end_block", "updates"
    height,
    epoch_index

vars == <<validator_state, delegation_supply, staking_supply, validator_power,
          consensus_key, changes, funding_queue, current_consensus_keys,
          cometbft, phase, height, epoch_index>>

States == {"Defined", "Inactive", "Active", "Jailed"}
Amount == 0..(MaxAmount * MaxChanges + MaxAmount)

-----------------------------------------------------------------------------
(***************************************************************************)
(* end_epoch, lines 39-72: the per-validator totals.  Each change does    *)
(* entry(validator).or_default().saturating_add(&amount) and drops the    *)
(* sum it returns: the entry is created at zero and stays zero.           *)
(***************************************************************************)
TotalOf(kind, v) ==
    MapThenSumSet(LAMBDA i : changes[i].amount,
                  {i \in DOMAIN changes : changes[i].kind = kind /\ changes[i].validator = v})

Tally(kind) ==
    [v \in {changes[i].validator : i \in {j \in DOMAIN changes : changes[j].kind = kind}}
        |-> 0]

(* remove(&validator).unwrap_or_else(Amount::zero) *)
TotalFor(tally, v) == IF v \in DOMAIN tally THEN tally[v] ELSE 0

(***************************************************************************)
(* process_validator, lines 174-375, for every validator of the         *)
(* consensus set at once (they touch disjoint keys but the staking        *)
(* supply, whose updates commute):                                        *)
(* a positive delta moves unbonded stake out of the staking token into    *)
(* the delegation token, a negative one back; the voting power is the new *)
(* pool; a pool below min_validator_stake makes the validator Defined;    *)
(* an Active validator's funding streams are queued with its pool.        *)
(***************************************************************************)
Delta(dels, undels, v) == TotalFor(dels, v) - TotalFor(undels, v)

(* consensus_set_stream (lines 131, 385, 451). *)
ConsensusSet == {v \in Validators : validator_state[v] # "Defined"}

(* The pools after process_validator: only the consensus set's move. *)
NewSupply(dels, undels) ==
    [v \in Validators |-> IF v \in ConsensusSet
                          THEN delegation_supply[v] + Delta(dels, undels, v)
                          ELSE delegation_supply[v]]

process_validator(dels, undels) ==
    LET supply == NewSupply(dels, undels)
    IN  /\ delegation_supply' = supply
        /\ staking_supply' = staking_supply - MapThenSumSet(LAMBDA v : Delta(dels, undels, v), ConsensusSet)
        /\ validator_power' = [v \in Validators |->
                                 IF v \in ConsensusSet THEN supply[v] ELSE validator_power[v]]
        /\ funding_queue' = {[validator |-> v, supply |-> supply[v]] :
                                v \in {w \in Validators : validator_state[w] = "Active"}}

(* The validator state once process_validator has demoted small pools. *)
DemotedState(supply) ==
    [v \in Validators |-> IF v \in ConsensusSet /\ supply[v] < MinValidatorStake
                          THEN "Defined" ELSE validator_state[v]]

(***************************************************************************)
(* set_active_and_inactive_validators, lines 379-427: among the Active    *)
(* and Inactive validators, those with nonzero power are sorted by power  *)
(* descending (a stable sort of the stream order); the first              *)
(* active_validator_limit become Active, the others and the zero-power    *)
(* ones Inactive.  Defined and Jailed validators are left alone.          *)
(***************************************************************************)
Ranked(st, pw) == {v \in Validators : st[v] \in {"Active", "Inactive"} /\ pw[v] # 0}

Rank(v, st, pw) ==
    Cardinality({w \in Ranked(st, pw) : pw[w] > pw[v] \/ (pw[w] = pw[v] /\ w < v)})

InTopLimitPlusOne(v, st, pw) == Rank(v, st, pw) <= ActiveValidatorLimit
InTopLimit(v, st, pw) == Rank(v, st, pw) < ActiveValidatorLimit

set_active_and_inactive_validators(st, pw) ==
    [v \in Validators |->
        IF st[v] \notin {"Active", "Inactive"} THEN st[v]
        ELSE IF v \in Ranked(st, pw) /\ InTopLimit(v, st, pw) THEN "Active"
        ELSE "Inactive"]

EndEpoch ==
    /\ phase = "end_block"
    /\ LET dels   == Tally("delegate")
           undels == Tally("undelegate")
           supply == NewSupply(dels, undels)
       IN  /\ process_validator(dels, undels)
           /\ validator_state' =
                 set_active_and_inactive_validators(DemotedState(supply), supply)
    /\ changes' = <<>>
    /\ phase' = "updates"
    /\ epoch_index' = epoch_index + 1
    /\ UNCHANGED <<consensus_key, current_consensus_keys, cometbft, height>>

(* An end of block that is not an epoch boundary. *)
EndBlock ==
    /\ phase = "end_block"
    /\ phase' = "updates"
    /\ UNCHANGED <<validator_state, delegation_supply, staking_supply, validator_power,
                   consensus_key, changes, funding_queue, current_consensus_keys,
                   cometbft, height, epoch_index>>

EffectivePower(v) ==
    IF validator_state[v] = "Active" THEN validator_power[v] ELSE 0

PowerByKey ==
    [k \in {consensus_key[v] : v \in ConsensusSet} |->
        EffectivePower(CHOOSE v \in ConsensusSet : consensus_key[v] = k)]

Retained(m) == {k \in DOMAIN m : m[k] > 0 \/ k \in current_consensus_keys}

DeleteUnknownKeysNever(m) == Restrict(m, Retained(m))
DeleteUnknownKeys(m) ==
    [k \in Retained(m) \cup current_consensus_keys |->
        IF k \in Retained(m) THEN m[k] ELSE 0]

ApplyUpdates(set, upd) ==
    LET keep == (DOMAIN set \cup DOMAIN upd) \ {k \in DOMAIN upd : upd[k] = 0}
    IN  [k \in keep |-> IF k \in DOMAIN upd THEN upd[k] ELSE set[k]]

BuildCometbftValidatorUpdates ==
    /\ phase = "updates"
    /\ height < MaxHeight
    /\ LET upd == DeleteUnknownKeys(PowerByKey)
       IN  /\ current_consensus_keys' = {k \in DOMAIN upd : upd[k] # 0}
           /\ cometbft' = ApplyUpdates(cometbft, upd)
    /\ phase' = "txs"
    /\ height' = height + 1
    /\ UNCHANGED <<validator_state, delegation_supply, staking_supply, validator_power,
                   consensus_key, changes, funding_queue, epoch_index>>

-----------------------------------------------------------------------------
(***************************************************************************)
(* The environment: the transactions of a block and the end of its        *)
(* transaction phase.                                                      *)
(***************************************************************************)
envUnchanged == UNCHANGED <<delegation_supply, staking_supply, validator_power,
                            funding_queue, current_consensus_keys, cometbft, height,
                            epoch_index>>

(* A delegation or an undelegation of at most the pool not already being *)
(* undelegated, recorded for the block.                                   *)
Delegate ==
    /\ phase = "txs" /\ Len(changes) < MaxChanges
    /\ \E v \in Validators, kind \in {"delegate", "undelegate"}, a \in 1..MaxAmount :
          /\ kind = "undelegate" =>
                TotalOf("undelegate", v) + a <= delegation_supply[v]
          /\ changes' = Append(changes, [validator |-> v, kind |-> kind, amount |-> a])
    /\ UNCHANGED <<validator_state, consensus_key, phase>> /\ envUnchanged

(* Jailing for downtime, and a Defined validator whose pool reached the   *)
(* minimum becoming Inactive (validator_handler).                          *)
ChangeState ==
    /\ phase = "txs"
    /\ \E v \in Validators :
          \/ validator_state[v] = "Active"
                /\ validator_state' = [validator_state EXCEPT ![v] = "Jailed"]
          \/ validator_state[v] = "Defined" /\ delegation_supply[v] >= MinValidatorStake
                /\ validator_state' = [validator_state EXCEPT ![v] = "Inactive"]
    /\ UNCHANGED <<consensus_key, changes, phase>> /\ envUnchanged

(* A validator definition update with a new, unused consensus key. *)
RotateConsensusKey ==
    /\ phase = "txs"
    /\ \E v \in Validators, k \in Keys \ Range(consensus_key) :
          consensus_key' = [consensus_key EXCEPT ![v] = k]
    /\ UNCHANGED <<validator_state, changes, phase>> /\ envUnchanged

CloseBlock ==
    /\ phase = "txs" /\ phase' = "end_block"
    /\ UNCHANGED <<validator_state, consensus_key, changes>> /\ envUnchanged

-----------------------------------------------------------------------------
(* A genesis: any states and pools, power equal to the pool, distinct keys, *)
(* and CometBFT holding the Active validators with nonzero power.          *)
Init ==
    /\ validator_state \in [Validators -> {"Defined", "Inactive", "Active"}]
    /\ delegation_supply \in [Validators -> 0..MaxAmount]
    /\ staking_supply = MaxAmount * MaxChanges
    /\ validator_power = delegation_supply
    /\ consensus_key \in {f \in [Validators -> Keys] : IsInjective(f)}
    /\ changes = <<>> /\ funding_queue = {}
    /\ LET live == {v \in Validators : validator_state[v] = "Active" /\ validator_power[v] # 0}
       IN  /\ cometbft = [k \in {consensus_key[v] : v \in live} |->
                            validator_power[CHOOSE v \in live : consensus_key[v] = k]]
           /\ current_consensus_keys = DOMAIN cometbft
    /\ phase = "txs" /\ height = 0 /\ epoch_index = 0

Next ==
    \/ Delegate \/ ChangeState \/ RotateConsensusKey \/ CloseBlock
    \/ EndEpoch \/ EndBlock \/ BuildCometbftValidatorUpdates

Spec == Init /\ [][Next]_vars

-----------------------------------------------------------------------------
TypeOK ==
    /\ validator_state \in [Validators -> States]
    /\ consensus_key \in [Validators -> Keys]
    /\ phase \in {"txs", "end_block", "updates"}

EpochEnds == epoch_index' = epoch_index + 1

(* After end_epoch the active set is the top of the ranking: at most       *)
(* active_validator_limit validators are Active; each was Active or        *)
(* Inactive before, has nonzero power and a pool of at least               *)
(* min_validator_stake; no validator left Inactive has more power than an  *)
(* Active one; and fewer than the limit are Active only when no Inactive   *)
(* validator has nonzero power.                                             *)
ActiveSetIsTopByPower ==
    [][EpochEnds =>
        LET active   == {v \in Validators : validator_state'[v] = "Active"}
            inactive == {v \in Validators : validator_state'[v] = "Inactive"}
            pw       == validator_power'
        IN  /\ Cardinality(active) <= ActiveValidatorLimit
            /\ \A v \in active :
                  /\ validator_state[v] \in {"Active", "Inactive"}
                  /\ pw[v] > 0 /\ delegation_supply'[v] >= MinValidatorStake
                  /\ \A w \in inactive : pw[w] <= pw[v]
            /\ Cardinality(active) < ActiveValidatorLimit =>
                  \A w \in inactive : pw[w] = 0]_vars

(* The keys the app records as known to CometBFT are exactly the keys      *)
(* CometBFT holds, across consensus-key changes, jailing and epochs.       *)
ConsensusKeysTrackCometbft == current_consensus_keys = DOMAIN cometbft

DelegationSupplyTracksChanges ==
    [][EpochEnds =>
        \A v \in ConsensusSet :
            delegation_supply'[v] =
                delegation_supply[v] + TotalOf("delegate", v) - TotalOf("undelegate", v)]_vars

=============================================================================
