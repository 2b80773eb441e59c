----------------------------- MODULE MCTabStats -----------------------------
(* TabStats for TLC: a three-bit byte and two buckets.  The names read alike   *)
(* with their lengths left out, or like lengths; one is too long.              *)
EXTENDS TabStats

MCThresholds == <<2, 4>>

Tab(d, t) == [_db |-> d, _table |-> t]
N1 == <<1>>
N2 == <<1, 1>>
Long == <<1, 1, 1, 1>>
Open == {<<>>, <<Tab(N1, N1)>>, <<Tab(N1, N2)>>, <<Tab(N2, N1)>>, <<Tab(N1, Long)>>,
         <<Tab(N1, N1), Tab(N1, N1)>>, <<Tab(N1, N1), Tab(N1, N1), Tab(N2, N2)>>}

MCStatements ==
    [type : {1, 2}, result : {0}, ip : {1}, open : Open, time : {3}]
      \cup [type : {1}, result : {0, 1}, ip : {2}, open : {<<Tab(N1, N2)>>}, time : {0, 2, 4, 5}]

MCConnections == [ip : {1, 2}, result : {0}, time : {3, 5}]
=============================================================================
