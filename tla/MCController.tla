----------------------------- MODULE MCController -----------------------------
(***************************************************************************)
(* Controller for TLC: two independent runs of emit, or three with a retry. *)
(***************************************************************************)
EXTENDS Controller, TLC

CONSTANTS first, retry, other, e1, e2

Independent == (first :> e1) @@ (other :> e2)
RetryOfFirst == (first :> e1) @@ (retry :> e1) @@ (other :> e2)
=============================================================================
