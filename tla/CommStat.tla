------------------------------ MODULE CommStat ------------------------------
(***************************************************************************)
(* The statistics of one entry: cdb_comm_stat_add, and how the adders      *)
(* initialise what it adds to.  An entry of cdb_ins_dml, cdb_ins_conn or   *)
(* cdb_ins_client_dml has one CDBCommStat; an entry of cdb_tab_dml has one *)
(* per statement type (CDB_OP_TYPE_SIZE of them).                          *)
(*                                                                         *)
(* Durations are natural numbers of some unit.  Thresholds is              *)
(* time_bucket_threshold without its last element, DBL_MAX.                *)
(***************************************************************************)
EXTENDS Naturals, Sequences, SequencesExt

CONSTANTS
    Thresholds,    \* the lower bounds of the buckets, increasing
    DBL_MAX        \* larger than any duration

ASSUME CommStatAssumption ==
    /\ Thresholds \in Seq(Nat)
    /\ \A i, j \in DOMAIN Thresholds : i < j => Thresholds[i] < Thresholds[j]
    /\ DBL_MAX \in Nat /\ \A d \in ToSet(Thresholds) : d < DBL_MAX

Buckets == DOMAIN Thresholds

\* reset_stats
Zero == [total |-> 0, sum |-> 0, min |-> 0, max |-> 0, bucket |-> [i \in Buckets |-> 0]]

\* What cdb_comm_stat_add starts from when init is true.
Initial == [Zero EXCEPT !.min = DBL_MAX]

Threshold(i) == IF i \in Buckets THEN Thresholds[i] ELSE DBL_MAX

\* Wrong variant: _time_min and _time_max are tested one after the other.
cdb_comm_stat_add_else(cs, v) ==
    [total  |-> cs.total + 1,
     sum    |-> cs.sum + v,
     min    |-> IF v < cs.min THEN v ELSE cs.min,
     max    |-> IF v < cs.min THEN cs.max ELSE IF v > cs.max THEN v ELSE cs.max,
     bucket |-> [i \in Buckets |->
                   IF Threshold(i) < v /\ v < Threshold(i + 1) THEN cs.bucket[i] + 1
                                                               ELSE cs.bucket[i]]]

\* cdb_comm_stat_add behind its initialisation.
cdb_comm_stat_add(cs, v) ==
    [total  |-> cs.total + 1,
     sum    |-> cs.sum + v,
     min    |-> IF v < cs.min THEN v ELSE cs.min,
     max    |-> IF v > cs.max THEN v ELSE cs.max,
     bucket |-> [i \in Buckets |->
                   IF Threshold(i) < v /\ v < Threshold(i + 1) THEN cs.bucket[i] + 1
                                                               ELSE cs.bucket[i]]]
=============================================================================
