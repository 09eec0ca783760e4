---------------------------- MODULE EngineRefines ----------------------------
(* The engine implements the crawl it promises: the mapping from Engine to  *)
(* Crawl reads a URL's fate off the record written about it or, failing     *)
(* that, off the place where its item is.                                   *)
EXTENDS Engine

\* The items not yet settled: queued, being processed, or being pushed.
InFlight ==
  {frontier[i] : i \in DOMAIN frontier}
    \cup {cur[w] : w \in {v \in Busy : pc[v] # "done"}}
    \cup {[url |-> Head(todo[w]), depth |-> cur[w].depth + 1] : w \in Pushing}

FateOf(u) ==
  CASE records[u] # <<>> ->
         [state |-> records[u][1].kind, depth |-> records[u][1].depth]
    [] \E item \in InFlight : item.url = u ->
         [state |-> "claimed", depth |-> (CHOOSE item \in InFlight : item.url = u).depth]
    [] OTHER ->
         [state |-> IF u \in seen THEN "abandoned" ELSE "unknown", depth |-> 0]

Promise == INSTANCE Crawl WITH
  fate <- [u \in URL |-> FateOf(u)],
  stopping <- cause \notin {"none", "run"},
  over <- closed

\* Every behaviour of the engine, with its interleaved workers, lost pushes,
\* retries and cancellations, is a behaviour of Crawl.
ImplementsCrawl == Promise!Spec
=============================================================================
