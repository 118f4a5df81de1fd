------------------------- MODULE MCSnapshotRead ---------------------------
(***************************************************************************)
(* Model-checking instance of SnapshotRead: the keys and sub-store of     *)
(* MCSnapshotStream, and root_hash() and root_hash_for of the sub-store.  *)
(***************************************************************************)
EXTENDS SnapshotRead

MCKeys == {<<0>>, <<2>>, <<1, 0>>, <<1, 1>>}
MCSubstorePrefixes == {<<1>>}
MCRootPrefixes == {<<>>, <<1>>}
=============================================================================
