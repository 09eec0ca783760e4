------------------------------ MODULE MCEngine ------------------------------
(* Small sites and worker pools for Engine. *)
EXTENDS EngineRefines, TLC

CONSTANTS w1, w2, w3, a, b, c, d, x, h1, h2

TwoWorkers == {w1, w2}
ThreeWorkers == {w1, w2, w3}
OneWorker == {w1}
WorkerSymmetry == Permutations(Worker)

URLs == {a, b, c, d, x}
Hosts == {h1, h2}
OnTwoHosts == [u \in URLs |-> IF u = d THEN h2 ELSE h1]
Local == URLs \ {x}

\* b and c both link to d; the seed links to a URL out of scope and to itself.
Diamond == a :> <<x, b, c, a>> @@ b :> <<d>> @@ c :> <<d, b>> @@ d :> <<>> @@ x :> <<>>

\* Two pages that can both be expanding while the frontier is full.
Bushy == a :> <<b, c, x>> @@ b :> <<d>> @@ c :> <<>> @@ d :> <<>> @@ x :> <<>>

\* c is one link from the seed, and two links by way of b.
Shortcut == a :> <<b, c>> @@ b :> <<c>> @@ c :> <<d>> @@ d :> <<x>> @@ x :> <<>>

\* Seeds a and c: b is one link from a and two from c, and x lies behind it.
TwoWays == a :> <<b, a>> @@ b :> <<x>> @@ c :> <<d>> @@ d :> <<b>> @@ x :> <<>>

AllOK == [u \in URLs |-> {"ok"}]
SomeFail == [AllOK EXCEPT ![b] = {"ok", "fail"}, ![d] = {"fail"}]

OneFails == [AllOK EXCEPT ![b] = {"ok", "fail"}]

NoLocs == <<>>
OneLoc == <<c>>
SomeLocs == <<x, a, c, d>>
=============================================================================
