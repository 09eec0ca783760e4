------------------------------- MODULE MCFetch -------------------------------
(* Small worker pools and sites for Fetch and Headless. *)
EXTENDS Headless, TLC

CONSTANTS w1, w2, h1, h2

TwoWorkers == {w1, w2}
TwoHosts == {h1, h2}
OneHost == {h1}
FetchSymmetry == Permutations(TwoWorkers) \cup Permutations(TwoHosts)
=============================================================================
