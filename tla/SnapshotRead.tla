---------------------------- MODULE SnapshotRead ----------------------------
(***************************************************************************)
(* The point reads of Snapshot (crates/storage/src/snapshot.rs): get_raw, *)
(* nonverifiable_get_raw, get_with_proof, _get_with_proof_new_api and      *)
(* root_hash_for / root_hash.  Each call routes its key synchronously,     *)
(* builds a SubstoreSnapshot from the Snapshot's pinned version and       *)
(* RocksDB snapshot, and spawns a blocking task; the engine read happens  *)
(* when that task runs, after any number of commits.  A call is split     *)
(* into the synchronous part (Call) and the blocking task (Complete).     *)
(*                                                                         *)
(* SubstoreSnapshot (store/substore.rs) is not part of the source under   *)
(* study; its get_with_proof and root_hash are modelled from spec §4.2:   *)
(* a lookup of the given residual key at the pinned version, with a proof *)
(* against the sub-store's root at that version.                          *)
(***************************************************************************)
EXTENDS Storage

CONSTANTS
    RootPrefixes,  \* prefixes passed to root_hash_for ("" is root_hash)
    TmpLeafOp,     \* the tmp_leaf_op of _get_with_proof_new_api
    Err,           \* an anyhow::Error result
    IOFaults       \* may a RocksDB read return an error?

ASSUME TmpLeafOp # JmtLeafOp /\ IOFaults \in BOOLEAN

VARIABLE task
vars == <<history, task>>

NoTask == [op |-> "none", snap |-> SnapshotNew(0, 0), sub |-> MainStore,
           key |-> <<>>, arg |-> <<>>, subroot |-> ZeroHash,
           phase |-> "idle", result |-> Absent, proofs |-> <<>>]

-----------------------------------------------------------------------------
(* SubstoreSnapshot::root_hash(): the sub-store's root at the pinned      *)
(* version (spec §4.2).  The mutant reads the latest version.             *)
substore_root_hash_latest(ss) == SubstoreRoot(Last(history), ss.sub)
substore_root_hash(ss) == SubstoreRoot(StateAt(ss.version), ss.sub)

(* SubstoreSnapshot::get_with_proof(key): the value under key hash of the *)
(* given bytes in this sub-store's tree at the pinned version, and its    *)
(* proof against this sub-store's root at that version (spec §4.2).      *)
substore_get_with_proof(ss, key) ==
    LET v == get_jmt(ss, key)
    IN  <<v, [key |-> key, value |-> v, leaf |-> JmtLeafOp, path |-> <<"jmt">>,
              root |-> substore_root_hash(ss)]>>

(* The root an ics23 existence proof with an empty inner path computes:   *)
(* the hash of its leaf.                                                   *)
LeafOnlyRoot(p) == LeafHash(p.leaf, p.key, p.value)

-----------------------------------------------------------------------------
(***************************************************************************)
(* The synchronous part of each call: route, build the SubstoreSnapshot,  *)
(* spawn.                                                                  *)
(*   get_raw / nonverifiable_get_raw: the residual key is kept (184, 214); *)
(*   get_with_proof and the new API: the residual is discarded (72, 94)    *)
(*   and the full key goes to the task;                                    *)
(*   the new API first reads the sub-store root with ? (103);              *)
(*   root_hash_for routes the prefix string (151).                         *)
(***************************************************************************)
Spawn(op, sn, key, arg, sub) ==
    [NoTask EXCEPT !.op = op, !.snap = sn, !.key = key, !.arg = arg,
                   !.sub = sub, !.phase = "spawned"]

CallGetRaw ==
    \E sn \in Snapshots, k \in Keys :
        LET r == route_key_bytes(k)
        IN  \/ task' = Spawn("get_raw", sn, k, r[1], r[2])
            \/ task' = Spawn("nonverifiable_get_raw", sn, k, r[1], r[2])

CallGetWithProof ==
    \E sn \in Snapshots, k \in Keys :
        LET r == route_key_bytes(k)
        IN  task' = Spawn("get_with_proof", sn, k, k, r[2])

CallGetWithProofNewApi ==
    \E sn \in Snapshots, k \in Keys :
        LET r  == route_key_bytes(k)
            ss == SubstoreSnapshot(sn, r[2])
            t  == Spawn("get_with_proof_new_api", sn, k, k, r[2])
        IN  \/ task' = [t EXCEPT !.subroot = substore_root_hash(ss)]
            \/ IOFaults /\ task' = [t EXCEPT !.phase = "done", !.result = Err]

CallRootHashFor ==
    \E sn \in Snapshots, p \in RootPrefixes :
        task' = Spawn("root_hash_for", sn, p, p, route_key_bytes(p)[2])

Call ==
    /\ task.phase # "spawned"
    /\ \/ CallGetRaw
       \/ CallGetWithProof
       \/ CallGetWithProofNewApi
       \/ CallRootHashFor
    /\ UNCHANGED history

-----------------------------------------------------------------------------
(***************************************************************************)
(* The spawned blocking task, run whenever the pool schedules it; an       *)
(* engine error (or a JoinError) makes the awaited result Err.             *)
(***************************************************************************)
(* The ExistenceProof of the main-store entry prefix -> sub-store root,    *)
(* built with tmp_leaf_op and an empty path (lines 113-133).               *)
OuterProof(t) ==
    [key |-> t.sub, value |-> t.subroot, leaf |-> TmpLeafOp, path |-> <<>>,
     root |-> LeafHash(TmpLeafOp, t.sub, t.subroot)]

(* The Ok result of the task, per method. *)
TaskResult(t) ==
    LET ss == SubstoreSnapshot(t.snap, t.sub)
        gp == substore_get_with_proof(ss, t.arg)
    IN  CASE t.op = "get_raw" -> <<get_jmt(ss, t.arg), <<>>>>
          [] t.op = "nonverifiable_get_raw" ->
                <<TreeGet(NonverifiableColumn(RocksState(ss), t.sub), t.arg), <<>>>>
          [] t.op = "get_with_proof" -> <<gp[1], <<gp[2]>>>>
          [] t.op = "get_with_proof_new_api" ->
                <<gp[1], IF t.sub # MainStore THEN <<gp[2], OuterProof(t)>>
                         ELSE <<gp[2]>>>>
          [] t.op = "root_hash_for" -> <<substore_root_hash(ss), <<>>>>

Complete ==
    /\ task.phase = "spawned"
    /\ \/ task' = [task EXCEPT !.phase = "done", !.result = TaskResult(task)[1],
                               !.proofs = TaskResult(task)[2]]
       \/ IOFaults /\ task' = [task EXCEPT !.phase = "done", !.result = Err]
    /\ UNCHANGED history

Init == StorageInit /\ task = NoTask

Next ==
    \/ Commit /\ UNCHANGED task
    \/ Call
    \/ Complete

Spec == Init /\ [][Next]_vars

-----------------------------------------------------------------------------
(* The value a read of a full key should return at a version (spec §3).   *)
ValueAt(col, k, v) == StateAt(v)[col][k]

Succeeded == task.phase = "done" /\ task.result # Err

(* Snapshot isolation (spec §5): a point read or a root hash computed on a *)
(* snapshot reflects the snapshot's version, however many commits the     *)
(* blocking task was scheduled after.                                      *)
SnapshotIsolation ==
    Succeeded =>
        CASE task.op = "get_raw" ->
                task.result = ValueAt("jmt", task.key, task.snap.version)
          [] task.op = "nonverifiable_get_raw" ->
                task.result = ValueAt("nonverifiable", task.key, task.snap.version)
          [] task.op = "root_hash_for" ->
                task.result = SubstoreRoot(StateAt(task.snap.version), task.sub)
          [] OTHER -> TRUE

(* get_with_proof returns the same value get_raw returns for the key at   *)
(* the snapshot's version (spec §4.3).                                     *)
ProofValueMatchesGet ==
    (Succeeded /\ task.op \in {"get_with_proof", "get_with_proof_new_api"}) =>
        task.result = ValueAt("jmt", task.key, task.snap.version)

(* The proof chain of the new API verifies (spec §4.3, §8): its first     *)
(* link proves the sub-store root that the next link proves, and the last *)
(* link computes the composite root of the snapshot's version.            *)
ProofChainVerifies ==
    (Succeeded /\ task.op = "get_with_proof_new_api") =>
        LET ps == task.proofs
            n  == Len(ps)
            computed(i) == IF ps[i].path = <<>> THEN LeafOnlyRoot(ps[i]) ELSE ps[i].root
        IN  /\ \A i \in 1..(n - 1) : computed(i) = ps[i + 1].value
            /\ computed(n) = CompositeRoot(StateAt(task.snap.version))

=============================================================================
