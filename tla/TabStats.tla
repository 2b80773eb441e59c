------------------------------ MODULE TabStats ------------------------------
(***************************************************************************)
(* What one period of statistics says: the four kinds of pool, the adders  *)
(* that fill them when a statement ends (cdb_stat_instance_dml_func) or a  *)
(* client connects, and what cdb_shm_dump makes of them.  Every add is     *)
(* under its pool's lock, and pools do not depend on each other, so that   *)
(* the three adds of a statement are one step.  Which of two pools an add  *)
(* reaches is module ShmPair; how a pool stores entries is module HashMap. *)
(*                                                                         *)
(* A pool maps keys to entries.  The pool "tab" is keyed by the hash of    *)
(* the marshalled key (TabDml), which stands for the bytes themselves:     *)
(* MurmurHash3_x64_128 is taken to have no collisions.                     *)
(***************************************************************************)
EXTENDS TabDml, CommStat, FiniteSets, FiniteSetsExt

CONSTANTS
    Types,         \* statement types, CDB_OTHER_TYPE to CDB_DELETE
    Statements,    \* what can be executed: [type, result, ip, open, time]
    Connections,   \* connection attempts: [ip, result, time]
    NodeTotal,     \* entries a pool holds
    MaxEvents      \* bound: statements and connections

ASSUME TabStatsAssumption ==
    /\ \A s \in Statements :
          /\ s.type \in Types /\ s.result \in Int /\ s.time \in 0..(DBL_MAX - 1)
          /\ s.open \in Seq([_db : Seq((-Half)..(Half - 1)), _table : Seq((-Half)..(Half - 1))])
          /\ \A i \in DOMAIN s.open :
                \A name \in {s.open[i]._db, s.open[i]._table} : Len(name) \in 0..(2 * Half - 1)
    /\ \A c \in Connections : c.time \in 0..(DBL_MAX - 1)
    /\ NodeTotal \in Nat /\ MaxEvents \in Nat

VARIABLES
    pool,          \* pool[p]: the entries of the current pool of p
    samples,       \* history: the samples pool[p] has taken since its reset, in order
    events         \* history: statements and connections so far

vars == <<pool, samples, events>>

InsPools == {"dml", "client", "conn"}
Pools == InsPools \cup {"tab"}

Init ==
    /\ pool = [p \in Pools |-> <<>>]
    /\ samples = [p \in Pools |-> <<>>]
    /\ events = 0

-----------------------------------------------------------------------------
\* find: the pool has an entry of key k; set: it takes one more.
Present(p, k) == k \in DOMAIN pool[p]
Accepts(p, k) == Present(p, k) \/ Cardinality(DOMAIN pool[p]) < NodeTotal

With(m, k, e) == [j \in DOMAIN m \cup {k} |-> IF j = k THEN e ELSE m[j]]

\* Entry and sample of one add; a full pool drops the sample with a log line.
Result(p, k, e, sample) ==
    IF Accepts(p, k) THEN [pool |-> With(pool[p], k, e), samples |-> Append(samples[p], sample)]
                     ELSE [pool |-> pool[p], samples |-> samples[p]]

\* cdb_ins_dml_add, cdb_ins_client_dml_add, cdb_ins_conn_add
ins_add(p, k, v) ==
    Result(p, k, cdb_comm_stat_add(IF Present(p, k) THEN pool[p][k] ELSE Initial, v),
           [key |-> k, type |-> 0, time |-> v])

\* cdb_tab_dml_add of key k: a new entry is zeroed and the one type initialised;
\* later samples of any type go to what is there.
tab_add(k, t, v) ==
    LET b     == marshal_key(k)
        found == Present("tab", b)
        old   == IF found THEN pool["tab"][b].stats ELSE [u \in Types |-> Zero]
        stat  == cdb_comm_stat_add(IF found THEN old[t] ELSE Initial, v)
    IN  Result("tab", b, [size |-> marshal_size(k), stats |-> [old EXCEPT ![t] = stat]],
               [key |-> k, type |-> t, time |-> v])

\* The key of a statement: its result and the first MaxTables tables it has open.
collect(s) ==
    [_result |-> s.result, _names |-> SubSeq(s.open, 1, Min({Len(s.open), MaxTables}))]

\* cdb_stat_instance_dml_func with its three options on, after bootstrap; a
\* statement without open tables is in no "tab" entry.
Statement(s) ==
    /\ events < MaxEvents
    /\ events' = events + 1
    /\ LET r == [dml    |-> ins_add("dml", [type |-> s.type, result |-> s.result], s.time),
                 client |-> ins_add("client", [ip |-> s.ip, type |-> s.type], s.time),
                 conn   |-> [pool |-> pool["conn"], samples |-> samples["conn"]],
                 tab    |-> IF s.open = <<>>
                              THEN [pool |-> pool["tab"], samples |-> samples["tab"]]
                              ELSE tab_add(collect(s), s.type, s.time)]
       IN  /\ pool' = [p \in Pools |-> r[p].pool]
           /\ samples' = [p \in Pools |-> r[p].samples]

\* A client has connected, or has failed to.
Connect(c) ==
    /\ events < MaxEvents
    /\ events' = events + 1
    /\ LET r == ins_add("conn", [ip |-> c.ip, result |-> c.result], c.time)
       IN  /\ pool' = [pool EXCEPT !["conn"] = r.pool]
           /\ samples' = [samples EXCEPT !["conn"] = r.samples]

\* switch_shm of one pair: the adders go on with a pool that has been reset.
Reset(p) ==
    /\ pool' = [pool EXCEPT ![p] = <<>>]
    /\ samples' = [samples EXCEPT ![p] = <<>>]
    /\ UNCHANGED events

Next ==
    \/ \E s \in Statements : Statement(s)
    \/ \E c \in Connections : Connect(c)
    \/ \E p \in Pools : Reset(p)

Spec == Init /\ [][Next]_vars

-----------------------------------------------------------------------------
(* What cdb_shm_dump shows of a pool.                                      *)

\* dump_tab_dml: every entry is read back; the first that cannot be read ends the tool.
dump_tab_dml ==
    LET read == [b \in DOMAIN pool["tab"] |-> de_marshal_key(b)]
    IN  [ended |-> \E b \in DOMAIN read : ~read[b].ok,
         shown |-> {[key |-> read[b].key, stats |-> pool["tab"][b].stats] : b \in DOMAIN read}]

-----------------------------------------------------------------------------
(* Properties, against what the samples themselves say.                    *)

\* Of the samples s of a pool: the keys, those of key k and type t, their durations.
KeysOf(s) == {s[i].key : i \in DOMAIN s}
Own(s, k, t) == {i \in DOMAIN s : s[i].key = k /\ s[i].type = t}
Times(s, k, t) == {s[i].time : i \in Own(s, k, t)}
Sum(s, k, t) == FoldLeft(LAMBDA n, x : IF x.key = k /\ x.type = t THEN n + x.time ELSE n, 0, s)

\* The type of the sample that made the entry of k.
Creator(s, k) == s[Min({i \in DOMAIN s : s[i].key = k})].type

\* The bucket for v by the dump's header: the last of its ">20ms >40ms ..." that v
\* exceeds; a v on a threshold is in none.
BucketOf(v) == Max({0} \cup {i \in Buckets : Thresholds[i] < v})
InBucket(v, b) == BucketOf(v) = b /\ v \notin ToSet(Thresholds)

Describes(cs, s, k, t) ==
    /\ cs.total = Cardinality(Own(s, k, t))
    /\ cs.sum = Sum(s, k, t)
    /\ cs.max = Max({0} \cup Times(s, k, t))
    /\ \A b \in Buckets : cs.bucket[b] = Cardinality({i \in Own(s, k, t) : InBucket(s[i].time, b)})

\* Every instance entry has the count, sum, smallest and largest of exactly the
\* samples of its key since the reset, and each of its buckets has the samples the
\* header promises, but for those on a threshold, which are in none.
InsStatsDescribeSamples ==
    \A p \in InsPools :
        /\ DOMAIN pool[p] = KeysOf(samples[p])
        /\ \A k \in KeysOf(samples[p]) :
              /\ Describes(pool[p][k], samples[p], k, 0)
              /\ pool[p][k].min = Min(Times(samples[p], k, 0))

\* The dump shows one entry for each list of tables and result, with the samples
\* of just those statements by type, although keys are found by a hash of bytes
\* with names and lengths mixed; only a name of Half bytes or more, whose length
\* reads as a negative char, ends it.  The minimum is that of the samples for the
\* type that came first, and 0 for the others.
TabDumpDescribesSamples ==
    LET s    == samples["tab"]
        long == \E k \in KeysOf(s) : \E i \in DOMAIN k._names :
                    Len(k._names[i]._db) >= Half \/ Len(k._names[i]._table) >= Half
        d    == dump_tab_dml
    IN  /\ d.ended <=> long
        /\ ~long =>
             /\ {e.key : e \in d.shown} = KeysOf(s)
             /\ \A e \in d.shown : \A t \in Types :
                   /\ Describes(e.stats[t], s, e.key, t)
                   /\ e.stats[t].min = IF t = Creator(s, e.key) THEN Min(Times(s, e.key, t)) ELSE 0

\* marshal_key fills exactly the buffer that marshal_size asked for, whatever
\* names were collected: it writes behind no end, and the hash over the buffer
\* covers no stray byte.
FillsBuffer == \A b \in DOMAIN pool["tab"] : Len(b) = pool["tab"][b].size
=============================================================================
