----------------------------- MODULE TrxOutcome -----------------------------
(***************************************************************************)
(* What a crash-safe commit promises: the outcome of a transaction is      *)
(* decided at most once, and a client is told only what is decided.        *)
(***************************************************************************)
CONSTANT Trx

VARIABLES outcome, reply

Init ==
    /\ outcome = [t \in Trx |-> "none"]
    /\ reply = [t \in Trx |-> "none"]

\* A crash may decide several transactions at once.
Decide ==
    /\ \E d \in [Trx -> {"none", "committed", "aborted"}] :
          outcome' = [t \in Trx |-> IF outcome[t] = "none" THEN d[t] ELSE outcome[t]]
    /\ UNCHANGED reply

Answer(t) ==
    /\ reply[t] = "none" /\ outcome[t] # "none"
    /\ reply' = [reply EXCEPT ![t] = outcome[t]]
    /\ UNCHANGED outcome

Next == Decide \/ \E t \in Trx : Answer(t)

Spec == Init /\ [][Next]_<<outcome, reply>>
============================================================================
