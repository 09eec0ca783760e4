-------------------------------- MODULE Crawl --------------------------------
(***************************************************************************)
(* What a crawl promises, without workers, queue, WaitGroup or context:    *)
(* each URL is claimed once, from a seed or from a page that is being      *)
(* visited; it ends as a page, an error, or (only in a crawl that is being *)
(* stopped) is abandoned; and a crawl that was not stopped returns only    *)
(* when every claim is settled.  Engine implements this, see EngineRefines.*)
(***************************************************************************)
EXTENDS Integers, Sequences, FiniteSets

CONSTANTS URL, Seed, InScope, Links, Outcome, RobotsBlocked, SitemapLocs,
          MaxDepth, MaxPages

VARIABLES
  fate,      \* [URL -> [state, depth]]
  stopping,  \* a budget, a deadline or the caller is ending the crawl early
  over       \* the workers are gone

vars == <<fate, stopping, over>>

Fate(state, depth) == [state |-> state, depth |-> depth]
In(state) == {u \in URL : fate[u].state = state}
Unknown == Fate("unknown", 0)
Abandoned == Fate("abandoned", 0)
LinkedFrom(p) == {Links[p][i] : i \in DOMAIN Links[p]} \cap InScope

Init == fate = [u \in URL |-> Unknown] /\ stopping = FALSE /\ over = FALSE

Settle(u, f) == fate' = [fate EXCEPT ![u] = f]

MayClaim(u, d) ==
  \/ u = Seed /\ d = 0 /\ In("unknown") = URL
  \/ u \in InScope /\ d = 0 /\ \E i \in DOMAIN SitemapLocs : SitemapLocs[i] = u
  \/ \E p \in In("claimed") : /\ fate[p].depth = d - 1 /\ d <= MaxDepth
                              /\ u \in LinkedFrom(p)

\* The claim of a crawl that is being stopped may be lost at once.
Claim(u, d) ==
  /\ ~over /\ fate[u] = Unknown /\ MayClaim(u, d)
  /\ Settle(u, Fate("claimed", d)) \/ (stopping /\ Settle(u, Abandoned))
  /\ UNCHANGED <<stopping, over>>

\* All links of a page above the depth limit are claimed before it is written.
Visit(u) ==
  /\ ~over /\ u \in In("claimed")
  /\ "ok" \in Outcome[u] /\ (u \notin RobotsBlocked \/ stopping)
  /\ MaxPages = 0 \/ Cardinality(In("page")) < MaxPages
  /\ fate[u].depth < MaxDepth => LinkedFrom(u) \cap In("unknown") = {}
  /\ Settle(u, Fate("page", fate[u].depth))
  /\ UNCHANGED <<stopping, over>>

Fail(u) ==
  /\ ~over /\ u \in In("claimed")
  /\ u \in RobotsBlocked \/ "fail" \in Outcome[u] \/ stopping
  /\ Settle(u, Fate("error", fate[u].depth))
  /\ UNCHANGED <<stopping, over>>

\* A page beyond the budget is not written, and stops the crawl.
Abandon(u) ==
  /\ ~over /\ u \in In("claimed") /\ (stopping \/ MaxPages > 0)
  /\ Settle(u, Abandoned) /\ stopping' = TRUE /\ UNCHANGED over

Stop == ~over /\ stopping' = TRUE /\ UNCHANGED <<fate, over>>

Return ==
  /\ ~over /\ (stopping \/ In("claimed") = {})
  /\ over' = TRUE /\ UNCHANGED <<fate, stopping>>

Next ==
  \/ \E u \in URL : Visit(u) \/ Fail(u) \/ Abandon(u) \/ \E d \in 0..MaxDepth : Claim(u, d)
  \/ Stop \/ Return

Spec == Init /\ [][Next]_vars
=============================================================================
