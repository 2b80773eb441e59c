------------------------------- MODULE TabDml -------------------------------
(***************************************************************************)
(* The key of a table statistics entry: cdb_stat_instance_dml_func         *)
(* collects the names of the open tables, CDBTabDml::marshal_key writes    *)
(* them into a buffer, whose hash finds the entry, and the dump tool reads *)
(* the buffer back with CDBTabDml::de_marshal_key.                         *)
(*                                                                         *)
(* A byte is a number of -Half .. Half - 1 (char is signed), a string a    *)
(* sequence of bytes.  The statistics before the key have a fixed size and *)
(* are left out (module CommStat); _result, an int, takes one cell.        *)
(***************************************************************************)
EXTENDS Integers, Sequences, SequencesExt

CONSTANTS
    Half,        \* 2^7 in the code
    MaxTables    \* names collected per statement, 10 in the code

ASSUME TabDmlAssumption == Half \in Nat \ {0} /\ MaxTables \in 0..(2 * Half - 1)

\* (char) n and (unsigned char) n
Unsigned(n) == n % (2 * Half)
Signed(n) == IF Unsigned(n) < Half THEN Unsigned(n) ELSE Unsigned(n) - 2 * Half

\* Wrong variant: the bytes for the lengths are forgotten.
marshal_size_of_data(k) ==
    FoldLeft(LAMBDA n, t : n + Len(t._db) + Len(t._table), 2, k._names)

\* marshal_size, without sizeof(_comm_stats)
marshal_size(k) ==
    FoldLeft(LAMBDA n, t : n + Len(t._db) + 1 + Len(t._table) + 1, 2, k._names)

\* *p = (char)ss and memcpy
put_string(s) == <<Signed(Len(s))>> \o s

\* Wrong variant: s still names the database when the table is written.
marshal_key_db_twice(k) ==
    FoldLeft(LAMBDA b, t : b \o put_string(t._db) \o put_string(t._db),
             <<k._result, Unsigned(Len(k._names))>>, k._names)

\* What marshal_key writes.  (s is a reference to _db: "s = ..._table" leaves the
\* table's name in _db as well, of a key that nothing reads again.)
marshal_key(k) ==
    FoldLeft(LAMBDA b, t : b \o put_string(t._db) \o put_string(t._table),
             <<k._result, Unsigned(Len(k._names))>>, k._names)

\* ss = *(char*)p; assign(p, ss): a negative length throws, and what lies behind
\* the buffer is not ours to read.
Readable(b, p) == p <= Len(b) /\ b[p] >= 0 /\ p + b[p] <= Len(b)
get_string(b, p) == SubSeq(b, p + 1, p + b[p])

\* One round of the loop in de_marshal_key; acc.ok becomes false where the program fails.
get_name(b, acc) ==
    LET p == acc.p
        q == p + b[p] + 1
    IN  IF ~(acc.ok /\ Readable(b, p) /\ Readable(b, q)) THEN [acc EXCEPT !.ok = FALSE]
        ELSE [ok |-> TRUE, p |-> q + b[q] + 1,
              names |-> Append(acc.names, [_db |-> get_string(b, p), _table |-> get_string(b, q)])]

de_marshal_key(b) ==
    LET end == FoldLeft(LAMBDA acc, i : get_name(b, acc),
                        [ok |-> TRUE, p |-> 3, names |-> <<>>],
                        [i \in 1..b[2] |-> i])
    IN  [ok |-> end.ok, key |-> [_result |-> b[1], _names |-> end.names]]
=============================================================================
