--------------------------- MODULE MCSpinLockInit ---------------------------
(* Instance of SpinLockInit: two processes that ask for one lock, one for two. *)
EXTENDS SpinLockInit, TLC

CONSTANTS p1, p2, p3

MCProcs == {p1, p2, p3}
MCSize == p1 :> 1 @@ p2 :> 1 @@ p3 :> 2
Symmetry == Permutations({p1, p2})
=============================================================================
