------------------------------ MODULE ScanSpec ------------------------------
(***************************************************************************)
(* What a streamed scan of a Snapshot promises (spec §4.4, §4.5, §7, §8), *)
(* without channels or iterators.  A scan is a query on a snapshot; the   *)
(* producer hands out, one at a time and in ascending key order, the      *)
(* entries of the query's result at the snapshot's version (sent); it     *)
(* then completes, fails visibly, or, once the consumer has dropped the   *)
(* stream, is cancelled.  The consumer sees the end of the stream only    *)
(* after a completed scan, and an error after a failed one.               *)
(***************************************************************************)
EXTENDS Storage

CONSTANTS Kinds, QueryPrefixes, PrefixRawPrefixes, RangeStarts, RangeEnds, IOFaults

VARIABLE scan
scanvars == <<history, scan>>

NoScan == [kind |-> "idle", snap |-> SnapshotNew(0, 0), sub |-> MainStore,
           prefix |-> <<>>, start |-> <<>>, end |-> <<>>, sent |-> <<>>,
           prod |-> "done", cons |-> "ended"]

(***************************************************************************)
(* The result of a query q (spec §4.4, §8): the entries of the prefix's   *)
(* sub-store whose full key starts with the prefix (for a range: whose    *)
(* suffix after the prefix lies in [start, end), end <<>> meaning         *)
(* unbounded) in the snapshot's version, in ascending key order; a        *)
(* prefix_keys item carries no value.                                      *)
(***************************************************************************)
Reference(q) ==
    LET V    == StateAt(q.snap.version)
        col  == IF q.kind \in {"prefix_raw", "prefix_keys"}
                THEN V.jmt ELSE V.nonverifiable
        InRange(k) ==
            LET x == StripPrefix(k, q.prefix)
            IN  q.kind = "nonverifiable_range_raw" =>
                    /\ LexLeq(q.start, x)
                    /\ q.end # <<>> => LexLt(x, q.end)
        seq == Ascending({k \in Keys : /\ SubstoreOf(k) = q.sub
                                       /\ IsPrefix(q.prefix, k)
                                       /\ col[k] # Absent
                                       /\ InRange(k)})
    IN  [i \in 1..Len(seq) |->
            [key |-> seq[i],
             val |-> IF q.kind = "prefix_keys" THEN Absent ELSE col[seq[i]]]]

Idle == scan.prod # "running" /\ scan.cons # "open"

(* The prefixes callers pass to a method. *)
CallerPrefixes(kind) == IF kind = "prefix_raw" THEN PrefixRawPrefixes ELSE QueryPrefixes

Begin ==
    /\ Idle
    /\ \E kind \in Kinds : \E sn \in Snapshots, prefix \in CallerPrefixes(kind),
          start \in RangeStarts, end \in RangeEnds :
          /\ kind # "nonverifiable_range_raw" => start = <<>> /\ end = <<>>
          /\ scan' = [kind |-> kind, snap |-> sn, sub |-> SubstoreOf(prefix),
                      prefix |-> prefix, start |-> start, end |-> end,
                      sent |-> <<>>, prod |-> "running", cons |-> "open"]

Produce ==
    /\ scan.prod = "running" /\ scan.cons = "open"
    /\ Len(scan.sent) < Len(Reference(scan))
    /\ scan' = [scan EXCEPT !.sent = Append(@, Reference(scan)[Len(@) + 1])]

Complete ==
    /\ scan.prod = "running"
    /\ scan.sent = Reference(scan)
    /\ scan' = [scan EXCEPT !.prod = "done"]

Fail ==
    /\ IOFaults /\ scan.prod = "running"
    /\ scan' = [scan EXCEPT !.prod = "failed"]

Cancel ==
    /\ scan.prod = "running" /\ scan.cons = "dropped"
    /\ scan' = [scan EXCEPT !.prod = "cancelled"]

(* The consumer: end of stream after completion, an error after failure, *)
(* or a drop at any time.                                                  *)
Finish ==
    /\ scan.cons = "open"
    /\ \/ scan.prod = "done" /\ scan' = [scan EXCEPT !.cons = "ended"]
       \/ scan.prod = "failed" /\ scan' = [scan EXCEPT !.cons = "failed"]

DropScan ==
    /\ scan.cons = "open"
    /\ scan' = [scan EXCEPT !.cons = "dropped"]

ScanInit == StorageInit /\ scan = NoScan

ScanNext ==
    \/ Commit /\ UNCHANGED scan
    \/ (Begin \/ Produce \/ Complete \/ Fail \/ Cancel \/ Finish \/ DropScan)
         /\ UNCHANGED history

(* A producer with nothing left to hand out, or whose consumer is gone,  *)
(* stops: the fairness of Complete and Cancel, stated over the state (the *)
(* two actions are enabled exactly when this premise holds).              *)
ScanProgress ==
    []((/\ scan.prod = "running"
        /\ scan.sent = Reference(scan) \/ scan.cons = "dropped")
          => <>(scan.prod # "running"))

ScanSpec == ScanInit /\ [][ScanNext]_scanvars /\ ScanProgress

=============================================================================
