------------------------------ MODULE MCPersist ------------------------------
(* Persist for TLC: keys are interchangeable, and so are values.             *)
EXTENDS Persist, TLC

Symmetry == Permutations(Keys) \cup Permutations(Values)

\* Dumps of several entries; a pool that is full; a log that rotation shortens.
MCSetups == {[mirror |-> FALSE, nodes |-> 2, records |-> 2],
             [mirror |-> FALSE, nodes |-> 1, records |-> 2],
             [mirror |-> TRUE, nodes |-> 1, records |-> 3]}
=============================================================================
