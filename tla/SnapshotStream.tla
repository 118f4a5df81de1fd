--------------------------- MODULE SnapshotStream ---------------------------
(***************************************************************************)
(* The streaming reads of Snapshot (crates/storage/src/snapshot.rs):       *)
(* prefix_raw, prefix_keys, nonverifiable_prefix_raw and                   *)
(* nonverifiable_range_raw.  Each call routes its prefix, builds RocksDB  *)
(* read options, creates mpsc::channel(10) and spawns a blocking producer *)
(* that iterates a column of the pinned RocksDB snapshot and               *)
(* blocking_send()s every item; the caller gets the ReceiverStream.        *)
(*                                                                         *)
(* One stream is modelled at a time: streams share no mutable state (the  *)
(* data they read is immutable), so a second concurrent stream adds only  *)
(* interleavings of independent steps.  Commits interleave freely.        *)
(***************************************************************************)
EXTENDS Storage

CONSTANTS
    Kinds,            \* stream methods exercised
    QueryPrefixes,    \* prefixes passed by callers
    PrefixRawPrefixes, \* prefixes passed to prefix_raw
    RangeStarts,      \* inclusive lower bounds of nonverifiable_range_raw
    RangeEnds,        \* exclusive upper bounds; <<>> is unbounded
    ChannelCapacity,  \* the bound of mpsc::channel (10 in the source)
    IOFaults,         \* may a RocksDB read return an error?
    NonUtf8Keys       \* keys whose key-index bytes are not valid UTF-8

ASSUME
    /\ Kinds \subseteq {"prefix_raw", "prefix_keys",
                        "nonverifiable_prefix_raw", "nonverifiable_range_raw"}
    /\ ChannelCapacity \in Nat \ {0}
    /\ IOFaults \in BOOLEAN
    /\ NonUtf8Keys \subseteq Keys

VARIABLE stream
vars == <<history, stream>>

(***************************************************************************)
(* A stream: the query, the producer's iterator (the keys the RocksDB     *)
(* iterator yields under the read options, fixed by the snapshot) and its *)
(* position, the channel buffer, what the consumer received, and the      *)
(* state of both ends.  prod: "running", or how the producer closure      *)
(* ended: "done" (Ok), "error" (an Err returned by ?), "panic" (an        *)
(* expect failed), "cancelled" (blocking_send failed).  cons: "open",     *)
(* "ended" (the stream yielded None), "dropped".                          *)
(***************************************************************************)
Item == [key : Seq(Nat), val : Value]

Idle == [kind |-> "idle", snap |-> SnapshotNew(0, 0), sub |-> MainStore,
         prefix |-> <<>>, rprefix |-> <<>>, start |-> <<>>, end |-> <<>>,
         iter |-> <<>>, pos |-> 1, buf |-> <<>>, recv |-> <<>>,
         prod |-> "done", cons |-> "ended"]

Finished(st) == st.prod # "running" /\ st.cons # "open"

(* rocksdb::PrefixRange(p): the keys that start with p. *)
PrefixRange(keys, p) == {k \in keys : IsPrefix(p, k)}

(* The keys each method's iterator yields, from the snapshot's RocksDB    *)
(* view of the routed sub-store's column.                                  *)
prefix_raw_iter(ss, prefix) ==
    Ascending(PrefixRange(JmtKeysColumn(RocksState(ss), ss.sub), prefix))

prefix_keys_iter(ss, rprefix) ==
    Ascending(PrefixRange(JmtKeysColumn(RocksState(ss), ss.sub), rprefix))

nonverifiable_prefix_iter(ss, rprefix) ==
    Ascending(PrefixRange(DOMAIN NonverifiableColumn(RocksState(ss), ss.sub), rprefix))

(* Mutant: the upper bound prefix ++ end set even when end is empty.      *)
nonverifiable_range_iter_always_upper(ss, rprefix, start, end) ==
    LET lower == rprefix \o start
        upper == rprefix \o end
    IN  Ascending({k \in DOMAIN NonverifiableColumn(RocksState(ss), ss.sub) :
                      LexLeq(lower, k) /\ LexLt(k, upper)})

(* set_iterate_lower_bound(prefix ++ start); the upper bound prefix ++ end *)
(* is set only when end is nonempty.                                       *)
nonverifiable_range_iter(ss, rprefix, start, end) ==
    LET lower == rprefix \o start
        upper == rprefix \o end
    IN  Ascending({k \in DOMAIN NonverifiableColumn(RocksState(ss), ss.sub) :
                      /\ LexLeq(lower, k)
                      /\ end # <<>> => LexLt(k, upper)})

(***************************************************************************)
(* A call: route the prefix, build the iterator, create the channel and   *)
(* spawn the producer.  prefix_raw routes the prefix but then discards    *)
(* the residual and ranges the sub-store's key index over the full       *)
(* prefix (lines 252, 255); the other methods range over the residual.    *)
(***************************************************************************)
StartStream(kind, sn, prefix, start, end) ==
    LET r  == route_key_bytes(prefix)
        ss == SubstoreSnapshot(sn, r[2])
        it == CASE kind = "prefix_raw"  -> prefix_raw_iter(ss, prefix)
                [] kind = "prefix_keys" -> prefix_keys_iter(ss, r[1])
                [] kind = "nonverifiable_prefix_raw" ->
                        nonverifiable_prefix_iter(ss, r[1])
                [] kind = "nonverifiable_range_raw" ->
                        nonverifiable_range_iter(ss, r[1], start, end)
    IN  [kind |-> kind, snap |-> sn, sub |-> r[2], prefix |-> prefix,
         rprefix |-> r[1], start |-> start, end |-> end, iter |-> it,
         pos |-> 1, buf |-> <<>>, recv |-> <<>>,
         prod |-> "running", cons |-> "open"]

(* The prefixes callers pass to a method. *)
CallerPrefixes(kind) == IF kind = "prefix_raw" THEN PrefixRawPrefixes ELSE QueryPrefixes

Start ==
    /\ Finished(stream)
    /\ \E kind \in Kinds : \E sn \in Snapshots, prefix \in CallerPrefixes(kind) :
         \/ /\ kind # "nonverifiable_range_raw"
            /\ stream' = StartStream(kind, sn, prefix, <<>>, <<>>)
         \/ /\ kind = "nonverifiable_range_raw"
            /\ \E start \in RangeStarts, end \in RangeEnds :
                  stream' = StartStream(kind, sn, prefix, start, end)
    /\ UNCHANGED history

(***************************************************************************)
(* tx.blocking_send(item)?: waits while the channel is full; fails once   *)
(* the receiver is gone (its drop closes the channel and wakes waiting    *)
(* senders), which ends the producer through ?.                           *)
(***************************************************************************)
(* Mutants: a channel that never blocks; a send that waits for capacity  *)
(* even after the receiver is gone.                                        *)
CanSendUnbounded(st) == TRUE
CanSendWaitingForCapacity(st) == Len(st.buf) < ChannelCapacity

CanSend(st) == st.cons = "dropped" \/ Len(st.buf) < ChannelCapacity

(* Mutant: let _ = tx.blocking_send(item), the error ignored. *)
BlockingSendIgnoringError(item) ==
    /\ CanSend(stream)
    /\ stream' = IF stream.cons = "dropped"
                 THEN [stream EXCEPT !.pos = @ + 1]
                 ELSE [stream EXCEPT !.buf = Append(@, item), !.pos = @ + 1]

BlockingSend(item) ==
    /\ CanSend(stream)
    /\ stream' = IF stream.cons = "dropped"
                 THEN [stream EXCEPT !.prod = "cancelled"]
                 ELSE [stream EXCEPT !.buf = Append(@, item), !.pos = @ + 1]

(* nonverifiable_range_raw stops at the first key outside a nonempty     *)
(* prefix (line 468); the mutant has no such filter.                       *)
RangeBreakNever(st, k) == FALSE
RangeBreak(st, k) == st.rprefix # <<>> /\ ~IsPrefix(st.rprefix, k)

(* The loop has consumed the whole iterator: the closure returns Ok. *)
IterExhausted(st) == st.pos > Len(st.iter)

(* std::str::from_utf8(key_preimage).expect("saved jmt keys are utf-8    *)
(* strings") in prefix_raw and prefix_keys (lines 284-286, 339-341): the  *)
(* key-index entry k of the routed sub-store decodes.  Whether every key  *)
(* written is UTF-8 is left open by the spec (§8).                         *)
Utf8Key(st, k) == st.sub \o k \notin NonUtf8Keys

(***************************************************************************)
(* One iteration of the producer loop for the key at the iterator's       *)
(* position; only blocking_send waits for room in the channel.            *)
(*   prefix_raw: decode the key (expect), get_jmt at the pinned version, *)
(*     expect a value ("keys in jmt_keys should have a corresponding      *)
(*     value"), send (k, v) (lines 280-302);                               *)
(*   prefix_keys: decode the key (expect), send k (lines 336-343);        *)
(*   nonverifiable_prefix_raw: send (k, v) (lines 381-384);                *)
(*   nonverifiable_range_raw: break at the first key without the prefix   *)
(*     when the prefix is nonempty, else send (k, v) (lines 461-472).     *)
(***************************************************************************)
ProducerItem ==
    LET k  == stream.iter[stream.pos]
        ss == SubstoreSnapshot(stream.snap, stream.sub)
        nv == NonverifiableColumn(RocksState(ss), stream.sub)
    IN  CASE stream.kind = "prefix_raw" ->
                LET v == get_jmt(ss, k)
                IN  IF ~Utf8Key(stream, k) \/ v = Absent
                    THEN stream' = [stream EXCEPT !.prod = "panic"]
                    ELSE BlockingSend([key |-> k, val |-> v])
          [] stream.kind = "prefix_keys" ->
                IF ~Utf8Key(stream, k) THEN stream' = [stream EXCEPT !.prod = "panic"]
                ELSE BlockingSend([key |-> k, val |-> Absent])
          [] stream.kind = "nonverifiable_prefix_raw" ->
                BlockingSend([key |-> k, val |-> nv[k]])
          [] stream.kind = "nonverifiable_range_raw" ->
                IF RangeBreak(stream, k)
                THEN stream' = [stream EXCEPT !.prod = "done"]
                ELSE BlockingSend([key |-> k, val |-> nv[k]])

ProducerStep ==
    /\ stream.prod = "running"
    /\ \/ /\ IterExhausted(stream)
          /\ stream' = [stream EXCEPT !.prod = "done"]
       \/ /\ ~IterExhausted(stream)
          /\ ProducerItem
    /\ UNCHANGED history

(* The RocksDB iterator (tuple?, i?) or the JMT read (get_jmt(..)?)       *)
(* returns an error: the closure returns Err, which nobody observes.      *)
IterError ==
    /\ IOFaults
    /\ stream.prod = "running"
    /\ ~IterExhausted(stream)
    /\ stream' = [stream EXCEPT !.prod = "error"]
    /\ UNCHANGED history

(***************************************************************************)
(* The consumer (the caller polling the ReceiverStream).                  *)
(***************************************************************************)
Recv ==
    /\ stream.cons = "open"
    /\ stream.buf # <<>>
    /\ stream' = [stream EXCEPT !.recv = Append(@, Head(stream.buf)),
                                !.buf = Tail(@)]
    /\ UNCHANGED history

(* All senders are gone and the buffer is drained: the stream yields None. *)
EndOfStream ==
    /\ stream.cons = "open"
    /\ stream.buf = <<>>
    /\ stream.prod # "running"
    /\ stream' = [stream EXCEPT !.cons = "ended"]
    /\ UNCHANGED history

(* The caller drops the stream, e.g. on its own timeout. *)
Drop ==
    /\ stream.cons = "open"
    /\ stream' = [stream EXCEPT !.cons = "dropped"]
    /\ UNCHANGED history

Init == StorageInit /\ stream = Idle

Next ==
    \/ Commit /\ UNCHANGED stream
    \/ Start
    \/ ProducerStep
    \/ IterError
    \/ Recv
    \/ EndOfStream
    \/ Drop

(* The producer runs on tokio's blocking pool: a thread that can step     *)
(* keeps being scheduled.  Nothing obliges the caller to poll, nor the    *)
(* disk to fail.                                                           *)
Spec == Init /\ [][Next]_vars /\ WF_vars(ProducerStep)

-----------------------------------------------------------------------------
TypeOK ==
    /\ StorageTypeOK
    /\ stream.kind \in Kinds \cup {"idle"}
    /\ stream.pos \in 1..(Len(stream.iter) + 1)
    /\ stream.buf \in Seq(Item) /\ stream.recv \in Seq(Item)
    /\ Len(stream.buf) <= ChannelCapacity
    /\ stream.prod \in {"running", "done", "error", "panic", "cancelled"}
    /\ stream.cons \in {"open", "ended", "dropped"}

FullItems(st, items) ==
    [i \in 1..Len(items) |-> [items[i] EXCEPT !.key = st.sub \o @]]

(***************************************************************************)
(* The refinement mapping to ScanSpec: the producer has handed out what   *)
(* the consumer received plus what is buffered, completed with the        *)
(* sub-store prefix; an Err or a panic of the closure is a failure.       *)
(***************************************************************************)
AbsScan ==
    [kind |-> stream.kind, snap |-> stream.snap, sub |-> stream.sub,
     prefix |-> stream.prefix, start |-> stream.start, end |-> stream.end,
     sent |-> FullItems(stream, stream.recv \o stream.buf),
     prod |-> IF stream.prod \in {"error", "panic"} THEN "failed" ELSE stream.prod,
     cons |-> stream.cons]

Scan == INSTANCE ScanSpec WITH scan <- AbsScan, history <- history


(* The streams implement the abstract scan: every step of the producer    *)
(* and the consumer is a step of ScanSpec or leaves the abstract state    *)
(* unchanged, and the producer completes or stops as ScanSpec requires.  *)
ScanRefinement == Scan!ScanSpec

(* Streams deliver only correct entries, in ascending key order, without  *)
(* loss or duplication across the bounded channel: whatever the consumer  *)
(* has received, followed by what is buffered, is a prefix of the         *)
(* reference result of the pinned version, even while commits proceed.   *)
DeliveredIsPrefixOfReference ==
    stream.kind # "idle" =>
        IsPrefix(FullItems(stream, stream.recv \o stream.buf), Scan!Reference(stream))

(* A scan whose producer closure returned Ok and whose consumer read to   *)
(* the end delivered exactly the reference result: the read options      *)
(* (prefix range, lower/upper bounds) and the break on a foreign prefix   *)
(* neither cut the scan short nor let it run past its range.              *)
CompletedScanMatchesReference ==
    (stream.prod = "done" /\ stream.cons = "ended") =>
        FullItems(stream, stream.recv) = Scan!Reference(stream)

(* The consumer cannot tell how the producer ended: a stream that yields  *)
(* None must have delivered the whole reference result (spec §7: an I/O   *)
(* failure or a consistency violation is never silently swallowed).       *)
EndedStreamIsComplete ==
    stream.cons = "ended" => FullItems(stream, stream.recv) = Scan!Reference(stream)

(* Once the consumer has dropped the stream, the producer reads no further *)
(* item from disk: its next blocking_send fails and ends the scan.        *)
NoScanAfterDrop ==
    [][stream.cons = "dropped" /\ stream'.cons = "dropped"
         => stream'.pos = stream.pos]_vars

(* A dropped stream's producer eventually terminates, even if it was      *)
(* blocked on a full channel (spec §4.5: no orphaned background work).    *)
CancellationTerminates ==
    [](stream.cons = "dropped" => <>(stream.prod # "running"))

=============================================================================
