------------------------- MODULE MCSnapshotStream --------------------------
(***************************************************************************)
(* Model-checking instance of SnapshotStream.  Bytes are 0..2; the nested *)
(* sub-store has prefix <<1>>.  The main store holds <<0>>, <<0,1>> and   *)
(* <<2>> (a key past the prefix <<0>>, so that an unbounded range scan    *)
(* must break on it); the sub-store holds residual keys <<0>> and <<1>>.  *)
(***************************************************************************)
EXTENDS SnapshotStream

MCKeys == {<<0>>, <<0, 1>>, <<2>>, <<1, 0>>, <<1, 1>>}
MCSubstorePrefixes == {<<1>>}

(* Prefixes that route to the main store, to the sub-store itself, and   *)
(* into the sub-store below its prefix.                                    *)
MCQueryPrefixes == {<<>>, <<0>>, <<1>>}
MCMainPrefixes == {<<>>, <<0>>}
MCSubstoreQueryPrefixes == {<<1>>}
MCRangeStarts == {<<>>, <<1>>}
MCRangeEnds == {<<>>, <<1>>}

MCAllKinds == {"prefix_raw", "prefix_keys",
               "nonverifiable_prefix_raw", "nonverifiable_range_raw"}
MCResidualKinds == {"prefix_keys", "nonverifiable_prefix_raw",
                    "nonverifiable_range_raw"}
MCPrefixRawKinds == {"prefix_raw"}

(* Key-index entries that do not decode: none, or one main-store key.     *)
MCAllUtf8 == {}
MCOneNonUtf8 == {<<0, 1>>}
=============================================================================
