----------------------------- MODULE MCDispatch -----------------------------
(* Two jobs, two remote workers, the in-process worker, two goroutines.     *)
EXTENDS Dispatch
CONSTANTS m1, m2, p1, p2, c1, c2
=============================================================================
