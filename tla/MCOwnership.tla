----------------------------- MODULE MCOwnership -----------------------------
(***************************************************************************)
(* Two launches of one session and one of a session with the same hash     *)
(* digits, whose state root is a different one or the same.                *)
(***************************************************************************)
EXTENDS Ownership, TLC

CONSTANTS p1, p2, p3, c1, a, b, r1, r2

Alone == p1 :> a
Sessions == (p1 :> a) @@ (p2 :> a) @@ (p3 :> b) @@ (c1 :> a)
Apart == (a :> r1) @@ (b :> r2)
Together == (a :> r1) @@ (b :> r1)
BothLayouts == {Apart, Together}
=============================================================================
