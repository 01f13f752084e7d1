----------------------------- MODULE MCDispatch -----------------------------
(* A small instance of Dispatch for TLC.                                   *)
EXTENDS Dispatch

CONSTANTS r1, r2, k1, k2, p1, p2
=============================================================================
