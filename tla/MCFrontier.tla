----------------------------- MODULE MCFrontier -----------------------------
(* Small groups of goroutines for Frontier. *)
EXTENDS Frontier

CONSTANTS p1, p2, c1, c2

TwoProducers == {p1, p2}
TwoConsumers == {c1, c2}
=============================================================================
