------------------------------ MODULE Storage ------------------------------
(***************************************************************************)
(* The committed state of the storage engine, as the read path sees it.   *)
(*                                                                         *)
(* A key is a byte sequence.  The multistore routes every key to one       *)
(* sub-store (MultistoreConfig::route_key_bytes), identified by its        *)
(* prefix; the main store has the empty prefix.  Each sub-store keeps      *)
(* three RocksDB column families holding the residual keys (the key with   *)
(* the sub-store prefix stripped):                                         *)
(*   P/tree  the JMT, versioned: nodes of version v are never rewritten;   *)
(*   P/keys  raw key -> key hash, unversioned, the key preimage index;     *)
(*   P/raw   raw key -> value, unversioned, the nonverifiable data.        *)
(* The unversioned columns are only versioned through the RocksDB          *)
(* snapshot a reader holds.  The write/commit path is not part of the     *)
(* source under study; it is modelled from spec.md §3, §6: a commit        *)
(* atomically produces the next version from the latest one.               *)
(*                                                                         *)
(* history[v+1] is the logical content after the commit of version v; the *)
(* RocksDB database as of that commit holds exactly the columns derived    *)
(* from it below.  A key hash is the key itself: the spec assumes no       *)
(* collisions, so an injective stand-in for SHA-256 is exact.              *)
(***************************************************************************)
EXTENDS Naturals, Sequences, SequencesExt, FiniteSets

CONSTANTS
    Keys,              \* full keys that callers use (byte sequences)
    SubstorePrefixes,  \* prefixes of the nested sub-stores (nonempty)
    Vals,              \* values a key may hold
    Absent,            \* no value (None, or a tombstone)
    MaxVersion,        \* bound on the number of commits
    PinAnyVersion,     \* may a Snapshot pin a version older than the DB?
    JmtLeafOp,         \* the ICS23 leaf op of the JMT proof spec
    ZeroHash           \* the all-zero root hash of an empty tree

ASSUME
    /\ \A p \in SubstorePrefixes : p # <<>>
    \* sub-store prefixes are disjoint under prefix matching (spec §3)
    /\ \A p, q \in SubstorePrefixes : p # q => ~IsPrefix(p, q)
    /\ Absent \notin Vals
    /\ MaxVersion \in Nat
    /\ PinAnyVersion \in BOOLEAN

VARIABLE history

MainStore == <<>>
Substores == {MainStore} \cup SubstorePrefixes
Value == Vals \cup {Absent}

(* A state of the multistore: the verifiable (JMT) and the nonverifiable  *)
(* content of every full key.                                              *)
StoreState == [jmt : [Keys -> Value], nonverifiable : [Keys -> Value]]

Latest == Len(history) - 1
StateAt(v) == history[v + 1]

(***************************************************************************)
(* Byte-lexicographic order, the order of RocksDB's default comparator,   *)
(* in which every forward iterator yields its keys.                       *)
(***************************************************************************)
RECURSIVE LexLt(_, _)
LexLt(a, b) ==
    IF b = <<>> THEN FALSE
    ELSE IF a = <<>> THEN TRUE
    ELSE IF Head(a) # Head(b) THEN Head(a) < Head(b)
    ELSE LexLt(Tail(a), Tail(b))

LexLeq(a, b) == a = b \/ LexLt(a, b)

Ascending(S) == SetToSortSeq(S, LexLt)

(***************************************************************************)
(* Key routing (spec §4.1): the sub-store whose prefix is a byte-prefix   *)
(* of the key, else the main store; the residual key is the key with that *)
(* prefix stripped.                                                        *)
(***************************************************************************)
SubstoreOf(key) ==
    IF \E p \in SubstorePrefixes : IsPrefix(p, key)
    THEN CHOOSE p \in SubstorePrefixes : IsPrefix(p, key)
    ELSE MainStore

StripPrefix(key, p) == SubSeq(key, Len(p) + 1, Len(key))

route_key_bytes(key) == <<StripPrefix(key, SubstoreOf(key)), SubstoreOf(key)>>

(* The residual keys stored in sub-store s. *)
Residuals(s) == {StripPrefix(k, s) : k \in {k2 \in Keys : SubstoreOf(k2) = s}}

(***************************************************************************)
(* The physical columns of sub-store s in a state st (spec §6).           *)
(***************************************************************************)
SubstoreTree(st, s) == [rk \in Residuals(s) |-> st.jmt[s \o rk]]
JmtKeysColumn(st, s) == {rk \in Residuals(s) : st.jmt[s \o rk] # Absent}
NonverifiableColumn(st, s) ==
    [rk \in {r \in Residuals(s) : st.nonverifiable[s \o r] # Absent}
        |-> st.nonverifiable[s \o rk]]

(* A lookup by key hash in a tree: a hash that no leaf has is absent. *)
TreeGet(tree, kh) == IF kh \in DOMAIN tree THEN tree[kh] ELSE Absent

(***************************************************************************)
(* Root hashes (spec §3): the all-zero hash for an empty tree; a JMT with *)
(* a single leaf has that leaf's hash as its root; otherwise the root is  *)
(* an injective digest of the leaves.  The main store's tree also holds,  *)
(* at each sub-store prefix, that sub-store's root hash (the composite    *)
(* root, "a tree of trees").                                               *)
(***************************************************************************)
LeafHash(op, k, v) == <<"leaf", op, k, v>>

TreeRoot(entries) ==
    LET present == {k \in DOMAIN entries : entries[k] # Absent}
    IN  IF present = {} THEN ZeroHash
        ELSE IF Cardinality(present) = 1
             THEN LET k == CHOOSE x \in present : TRUE
                  IN  LeafHash(JmtLeafOp, k, entries[k])
             ELSE <<"node", [k \in present |-> entries[k]]>>

SubstoreRoot(st, s) ==
    IF s = MainStore
    THEN LET own == SubstoreTree(st, MainStore)
             nested == [p \in SubstorePrefixes |-> TreeRoot(SubstoreTree(st, p))]
         IN  TreeRoot([k \in DOMAIN own \cup SubstorePrefixes |->
                          IF k \in SubstorePrefixes THEN nested[k] ELSE own[k]])
    ELSE TreeRoot(SubstoreTree(st, s))

CompositeRoot(st) == SubstoreRoot(st, MainStore)

(***************************************************************************)
(* Snapshot::new(db, version, multistore): pins a JMT version and takes a *)
(* RocksDB snapshot of the database as it is at that moment, i.e. as of   *)
(* the latest commit r.  Reads of the JMT go to the pinned version; reads *)
(* of the unversioned columns (key index, nonverifiable data) go to the   *)
(* RocksDB snapshot.                                                       *)
(***************************************************************************)
SnapshotNew(version, r) == [version |-> version, rocks |-> r]

(* The snapshots a caller can hold: created after any commit r, pinning   *)
(* the version just committed or, if PinAnyVersion, any older version.    *)
Snapshots ==
    UNION {{SnapshotNew(v, r) : v \in IF PinAnyVersion THEN 0..r ELSE {r}} :
              r \in 0..Latest}

(* SubstoreSnapshot { config, rocksdb_snapshot, version, db }. *)
SubstoreSnapshot(sn, s) == [sub |-> s, version |-> sn.version, rocks |-> sn.rocks]

(* SubstoreSnapshot::get_jmt(key_hash): a read of the JMT at the pinned   *)
(* version, through the RocksDB snapshot.                                 *)
get_jmt(ss, kh) == TreeGet(SubstoreTree(StateAt(ss.version), ss.sub), kh)

(* The RocksDB snapshot's view of the unversioned columns of ss's store.  *)
RocksState(ss) == StateAt(ss.rocks)

(***************************************************************************)
(* The commit path (spec §6, external to the read path): from the latest  *)
(* version, one mutation of one key in one column, committed atomically   *)
(* as the next version.                                                    *)
(***************************************************************************)
Genesis == [jmt |-> [k \in Keys |-> Absent], nonverifiable |-> [k \in Keys |-> Absent]]

StorageInit == history = <<Genesis>>

Commit ==
    /\ Latest < MaxVersion
    /\ \E col \in {"jmt", "nonverifiable"}, k \in Keys, v \in Value :
          /\ Last(history)[col][k] # v
          /\ history' = Append(history, [Last(history) EXCEPT ![col][k] = v])

StorageTypeOK == history \in Seq(StoreState) /\ Len(history) \in 1..(MaxVersion + 1)

=============================================================================
