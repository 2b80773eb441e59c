------------------------------ MODULE MCShmDump ------------------------------
(* ShmDump for TLC: adders of one kind and keys are interchangeable.         *)
EXTENDS ShmDump, TLC

Symmetry == Permutations(EarlyWriters) \cup Permutations(Writers \ EarlyWriters)
            \cup Permutations(Keys)
=============================================================================
