------------------------------- MODULE Engine -------------------------------
(***************************************************************************)
(* The crawl engine: engine.Run, its workers, and the state they share.    *)
(*                                                                         *)
(* Run seeds a bounded FIFO frontier, starts the workers, and waits until  *)
(* either the WaitGroup `pending' reaches zero or the crawl's context is   *)
(* cancelled.  A worker pops an item, asks robots.txt, takes a slot of the *)
(* item's host, fetches, charges the page budget, pushes the links it has  *)
(* not seen before, and writes one record.  Push blocks on a full frontier *)
(* and every blocking call also watches the context: Go picks one of the   *)
(* ready cases of a select at random, hence the pairs of actions below.    *)
(***************************************************************************)
EXTENDS Integers, Sequences, FiniteSets

CONSTANTS
  Worker,          \* the worker goroutines (cfg.Concurrency of them)
  URL,             \* normalized URL keys
  Host,            \* URL authorities
  HostOf,          \* [URL -> Host]
  Seed,            \* the normalized seed
  InScope,         \* the URLs scope.Policy accepts
  Links,           \* [URL -> Seq(URL)]: a page's discoveries, in order
  Outcome,         \* [URL -> SUBSET {"ok", "fail"}]: what an attempt may give
  RobotsBlocked,   \* the URLs robots.txt disallows ({} when not respected)
  SitemapLocs,     \* what sitemap discovery returned (<<>> when it is off)
  MaxDepth, MaxPages, MaxFrontierSize, PerHost, MaxRetries,
  HasDeadline,     \* cfg.MaxDuration > 0
  CallerMayCancel, \* whether the caller's context may be cancelled
  DiscoverOpenAPI,
  SpecSizes        \* how many operations an OpenAPI spec at the origin may list

ASSUME WorkerAssumption == IsFiniteSet(Worker)

ASSUME SiteAssumption ==
  /\ Seed \in URL /\ InScope \subseteq URL /\ RobotsBlocked \subseteq URL
  /\ HostOf \in [URL -> Host]
  /\ Links \in [URL -> Seq(URL)] /\ SitemapLocs \in Seq(URL)
  /\ Outcome \in [URL -> SUBSET {"ok", "fail"}]

\* What config.Validate lets through.
ASSUME OptionsAssumption ==
  /\ MaxDepth \in Nat /\ MaxPages \in Nat /\ MaxRetries \in Nat
  /\ MaxFrontierSize \in Nat \ {0} /\ PerHost \in Nat \ {0}
  /\ {HasDeadline, CallerMayCancel, DiscoverOpenAPI} \subseteq BOOLEAN
  /\ SpecSizes \subseteq Nat

VARIABLES
  main,      \* where Run is
  partial,   \* Run's local: the summary says the crawl stopped early
  openapi,   \* what was written about the origin's OpenAPI spec
  endpoints, \* the counter openAPIEndpoints
  summary,   \* the summary records written
  cause,     \* who cancelled the derived context first; "none" while it is live
  caller,    \* the caller's context is cancelled
  drainer,   \* the goroutine that turns pending.Wait into close(drained)
  pending,   \* the WaitGroup counter
  frontier,  \* the bounded channel of items
  closed,    \* frontier.Close was called
  seen,      \* dedup.VisitedSet
  sem,       \* per-host semaphore: slots taken
  stats,     \* the counters of engine.Stats the control depends on or balances
  locs,      \* sitemap locations still to inject
  records,   \* what was written about each URL
  pc, cur, todo, tries   \* per worker: position, item, links left, retries made

probeVars == <<openapi, endpoints, summary>>
runVars == <<main, partial, probeVars, closed, locs>>
ctxVars == <<cause, caller>>
workVars == <<pc, cur, todo, tries>>
vars == <<main, partial, probeVars, cause, caller, drainer, pending, frontier, closed,
          seen, sem, stats, locs, records, pc, cur, todo, tries>>

Item == [url : URL, depth : Nat]
Counter == {"discovered", "unique", "duplicates", "robots", "requests",
            "ok", "failed", "inBudget", "sitemap"}
Record == [kind : {"page", "error"}, depth : Nat]
OpenAPIRecord == [kind : {"openapi", "error"}, endpoints : Nat]
Summary == [counters : [Counter -> Nat], endpoints : Nat, partial : BOOLEAN]
WorkerState == {"new", "pop", "robots", "acquire", "fetch", "doomed", "backoff",
                "admit", "expand", "push", "done", "exit"}
-----------------------------------------------------------------------------
Cancelled == cause # "none"

\* cancel() of the derived context: only the first call has an effect.
CancelBy(who) == cause' = IF Cancelled THEN cause ELSE who

Count(names) == stats' = [c \in Counter |-> stats[c] + IF c \in names THEN 1 ELSE 0]

\* frontier.Push blocks until there is room; it gives up on a cancelled context.
CanPush == Len(frontier) < MaxFrontierSize
DropsWhenFull == Cancelled \/ ~CanPush    \* slip: a non-blocking Push
MayDropItem == Cancelled
AddToFront(item) == CanPush /\ frontier' = <<item>> \o frontier    \* slip: LIFO
AddToFrontier(item) == CanPush /\ frontier' = Append(frontier, item)

\* dedup.MarkIfNew: test and insert in one step.
ForgetsSeen(u) == UNCHANGED seen    \* slip: the insert is lost
MarkSeen(u) == seen' = seen \cup {u}

\* The WaitGroup: enqueue's Add, its Done when Push gave up, the worker's Done.
AccountsNothing == UNCHANGED pending    \* slip: a call on the WaitGroup forgotten
RegisterItem == pending' = pending + 1
PushFailed == pending' = pending - 1
FinishItem == pending' = pending - 1

\* At most one location fewer than the frontier holds, so that Push cannot
\* block before a worker exists; MaxPages lowers the limit further.
FullCapacityLimit == MaxFrontierSize    \* slip: no room left for the seed
SitemapLimit ==
  IF MaxPages > 0 /\ MaxPages < MaxFrontierSize - 1 THEN MaxPages ELSE MaxFrontierSize - 1

Init ==
  /\ main = "seed" /\ partial = FALSE
  /\ openapi = <<>> /\ endpoints = 0 /\ summary = <<>>
  /\ cause = "none" /\ caller = FALSE
  /\ drainer = "none" /\ pending = 0
  /\ frontier = <<>> /\ closed = FALSE /\ seen = {}
  /\ sem = [h \in Host |-> 0]
  /\ stats = [c \in Counter |-> 0]
  /\ locs = SitemapLocs
  /\ records = [u \in URL |-> <<>>]
  /\ pc = [w \in Worker |-> "new"]
  /\ cur = [w \in Worker |-> [url |-> Seed, depth |-> 0]]
  /\ todo = [w \in Worker |-> <<>>]
  /\ tries = [w \in Worker |-> 0]
-----------------------------------------------------------------------------
(* Run. Until the workers start nobody else touches pending, so one step   *)
(* covers enqueue's Add, Push and, when Push gives up, Done.               *)

EnqueueBeforeWorkers(item) ==
  \/ AddToFrontier(item) /\ RegisterItem
  \/ MayDropItem /\ UNCHANGED <<frontier, pending>>

SeedFrontier ==
  /\ main = "seed" /\ main' = "sitemap"
  /\ MarkSeen(Seed)
  /\ Count({"unique"})
  /\ EnqueueBeforeWorkers([url |-> Seed, depth |-> 0])
  /\ UNCHANGED <<partial, probeVars, closed, locs, ctxVars, drainer, sem, records, workVars>>

SeedSitemapLoc ==
  /\ main = "sitemap" /\ locs # <<>> /\ stats["sitemap"] < SitemapLimit
  /\ locs' = Tail(locs)
  /\ LET u == Head(locs) IN
       \/ /\ u \notin InScope
          /\ Count({"discovered"})
          /\ UNCHANGED <<seen, frontier, pending>>
       \/ /\ u \in InScope /\ u \in seen
          /\ Count({"discovered", "duplicates"})
          /\ UNCHANGED <<seen, frontier, pending>>
       \/ /\ u \in InScope /\ u \notin seen
          /\ MarkSeen(u)
          /\ Count({"discovered", "unique", "sitemap"})
          /\ EnqueueBeforeWorkers([url |-> u, depth |-> 0])
  /\ UNCHANGED <<main, partial, probeVars, closed, ctxVars, drainer, sem, records, workVars>>

StartWorkers ==
  /\ main = "sitemap" /\ (locs = <<>> \/ stats["sitemap"] >= SitemapLimit)
  /\ main' = "select" /\ drainer' = "waiting"
  /\ pc' = [w \in Worker |-> "pop"]
  /\ UNCHANGED <<partial, probeVars, closed, locs, ctxVars, pending, frontier, seen, sem,
                 stats, records, cur, todo, tries>>

\* pending.Wait returns; the goroutine outlives Run when it never does.
Drain ==
  /\ drainer = "waiting" /\ pending = 0 /\ drainer' = "closed"
  /\ UNCHANGED <<runVars, ctxVars, pending, frontier, seen, sem, stats, records, workVars>>

\* The select on drained and ctx.Done, and the cancel() that follows it.
StopWaiting ==
  /\ main = "select" /\ main' = "join"
  /\ \/ drainer = "closed" /\ UNCHANGED partial
     \/ Cancelled /\ partial' = TRUE
  /\ CancelBy("run")
  /\ UNCHANGED <<probeVars, closed, locs, caller, drainer, pending, frontier, seen, sem,
                 stats, records, workVars>>

NoJoin == TRUE    \* slip: the frontier is closed while workers run
WorkersJoined == \A w \in Worker : pc[w] = "exit"

JoinWorkers ==
  /\ main = "join" /\ WorkersJoined
  /\ main' = "openapi" /\ closed' = TRUE
  /\ UNCHANGED <<partial, probeVars, locs, ctxVars, drainer, pending, frontier, seen, sem,
                 stats, records, workVars>>

\* Looks at the caller's context, not at the derived one.
ProbeAllowed == DiscoverOpenAPI /\ ~caller

StartProbe ==
  /\ main = "openapi" /\ main' = IF ProbeAllowed THEN "probe" ELSE "summary"
  /\ UNCHANGED <<partial, probeVars, closed, locs, ctxVars, drainer, pending, frontier, seen,
                 sem, stats, records, workVars>>

Reported(kind, n) == openapi' = Append(openapi, [kind |-> kind, endpoints |-> n])

\* discoverOpenAPI: a spec is counted and written, an error written (Discover
\* itself never returns one), and nothing found or a cancelled probe is silent.
ProbeEnds ==
  /\ main = "probe" /\ main' = "summary"
  /\ \/ UNCHANGED <<openapi, endpoints>>
     \/ Reported("error", 0) /\ UNCHANGED endpoints
     \/ \E n \in SpecSizes : Reported("openapi", n) /\ endpoints' = endpoints + n
  /\ UNCHANGED <<partial, summary, closed, locs, ctxVars, drainer, pending, frontier, seen,
                 sem, stats, records, workVars>>

\* Snapshot and WriteSummary.
Summarize ==
  /\ main = "summary" /\ main' = "done"
  /\ summary' = Append(summary, [counters |-> stats, endpoints |-> endpoints, partial |-> partial])
  /\ UNCHANGED <<partial, openapi, endpoints, closed, locs, ctxVars, drainer, pending, frontier,
                 seen, sem, stats, records, workVars>>

RunStep == SeedFrontier \/ SeedSitemapLoc \/ StartWorkers \/ StopWaiting \/ JoinWorkers
             \/ StartProbe \/ ProbeEnds \/ Summarize

Deadline ==
  /\ HasDeadline /\ main # "done" /\ ~Cancelled /\ CancelBy("deadline")
  /\ UNCHANGED <<runVars, caller, drainer, pending, frontier, seen, sem, stats, records,
                 workVars>>

CallerCancels ==
  /\ CallerMayCancel /\ main # "done" /\ ~caller
  /\ caller' = TRUE /\ CancelBy("caller")
  /\ UNCHANGED <<runVars, drainer, pending, frontier, seen, sem, stats, records, workVars>>
-----------------------------------------------------------------------------
(* A worker.                                                               *)

Goto(w, label) == pc' = [pc EXCEPT ![w] = label]
HostOfWorker(w) == HostOf[cur[w].url]
TakeSlot(h) == sem[h] < PerHost /\ sem' = [sem EXCEPT ![h] = @ + 1]
FreeSlot(h) == sem' = [sem EXCEPT ![h] = @ - 1]
Write(w, kind) ==
  records' = [records EXCEPT ![cur[w].url] = Append(@, [kind |-> kind, depth |-> cur[w].depth])]

\* An attempt that starts on a cancelled context cannot succeed.
StartAttempt(w) == Goto(w, IF Cancelled THEN "doomed" ELSE "fetch")

Pop(w) ==
  /\ pc[w] = "pop" /\ frontier # <<>>
  /\ frontier' = Tail(frontier) /\ cur' = [cur EXCEPT ![w] = Head(frontier)]
  /\ Goto(w, "robots")
  /\ UNCHANGED <<runVars, ctxVars, drainer, pending, seen, sem, stats, records, todo, tries>>

PopCancelled(w) ==
  /\ pc[w] = "pop" /\ Cancelled /\ Goto(w, "exit")
  /\ UNCHANGED <<runVars, ctxVars, drainer, pending, frontier, seen, sem, stats, records,
                 cur, todo, tries>>

RobotsDisallow(w) ==
  /\ pc[w] = "robots" /\ cur[w].url \in RobotsBlocked
  /\ Count({"robots"}) /\ Write(w, "error") /\ Goto(w, "done")
  /\ UNCHANGED <<runVars, ctxVars, drainer, pending, frontier, seen, sem, cur, todo, tries>>

\* robots.txt itself is fetched with the crawl's context: a cancelled fetch
\* of it counts as "everything allowed".
RobotsAllow(w) ==
  /\ pc[w] = "robots" /\ (cur[w].url \notin RobotsBlocked \/ Cancelled)
  /\ Goto(w, "acquire")
  /\ UNCHANGED <<runVars, ctxVars, drainer, pending, frontier, seen, sem, stats, records,
                 cur, todo, tries>>

AcquireHost(w) ==
  /\ pc[w] = "acquire" /\ TakeSlot(HostOfWorker(w))
  /\ Count({"requests"}) /\ StartAttempt(w)
  /\ tries' = [tries EXCEPT ![w] = 0]
  /\ UNCHANGED <<runVars, ctxVars, drainer, pending, frontier, seen, records, cur, todo>>

\* slip: the request is counted before the slot is granted
AcquireCancelledCounted(w) ==
  /\ pc[w] = "acquire" /\ Cancelled /\ Count({"requests"}) /\ Goto(w, "done")
  /\ UNCHANGED <<runVars, ctxVars, drainer, pending, frontier, seen, sem, records, cur,
                 todo, tries>>

AcquireCancelled(w) ==
  /\ pc[w] = "acquire" /\ Cancelled /\ Goto(w, "done")
  /\ UNCHANGED <<runVars, ctxVars, drainer, pending, frontier, seen, sem, stats, records,
                 cur, todo, tries>>

AttemptFails(w) ==
  \/ pc[w] = "doomed"
  \/ pc[w] = "fetch" /\ ("fail" \in Outcome[cur[w].url] \/ Cancelled)

\* Fetch's retry: the slot is given up for the length of the backoff.
Backoff(w) ==
  /\ AttemptFails(w) /\ tries[w] < MaxRetries
  /\ FreeSlot(HostOfWorker(w))
  /\ tries' = [tries EXCEPT ![w] = @ + 1] /\ Goto(w, "backoff")
  /\ UNCHANGED <<runVars, ctxVars, drainer, pending, frontier, seen, stats, records, cur, todo>>

Retry(w) ==
  /\ pc[w] = "backoff" /\ TakeSlot(HostOfWorker(w)) /\ StartAttempt(w)
  /\ UNCHANGED <<runVars, ctxVars, drainer, pending, frontier, seen, stats, records, cur,
                 todo, tries>>

\* slips: the gate does not remember whether it holds; no Release on failure
ReleaseUnheld(w) ==
  (AttemptFails(w) \/ (pc[w] = "backoff" /\ Cancelled)) /\ FreeSlot(HostOfWorker(w))
ReleaseForgotten(w) ==
  (AttemptFails(w) \/ (pc[w] = "backoff" /\ Cancelled)) /\ UNCHANGED sem

\* The deferred gate.Release frees the slot only if the gate still holds it.
ReleaseOnFailure(w) ==
  \/ AttemptFails(w) /\ FreeSlot(HostOfWorker(w))
  \/ pc[w] = "backoff" /\ Cancelled /\ UNCHANGED sem

\* slip: what failed because the crawl was cancelled is counted but not written
FetchFailedQuietly(w) ==
  /\ ReleaseOnFailure(w)
  /\ Count({"failed"}) /\ Goto(w, "done")
  /\ IF Cancelled THEN UNCHANGED records ELSE Write(w, "error")
  /\ UNCHANGED <<runVars, ctxVars, drainer, pending, frontier, seen, cur, todo, tries>>

\* Fetch returned an error or a status >= 400.
FetchFailed(w) ==
  /\ ReleaseOnFailure(w)
  /\ Count({"failed"}) /\ Write(w, "error") /\ Goto(w, "done")
  /\ UNCHANGED <<runVars, ctxVars, drainer, pending, frontier, seen, cur, todo, tries>>

FetchOK(w) ==
  /\ pc[w] = "fetch" /\ "ok" \in Outcome[cur[w].url]
  /\ FreeSlot(HostOfWorker(w)) /\ Count({"ok"}) /\ Goto(w, "admit")
  /\ UNCHANGED <<runVars, ctxVars, drainer, pending, frontier, seen, records, cur, todo, tries>>

BudgetOffByOne == MaxPages = 0 \/ stats["inBudget"] <= MaxPages    \* slip
WithinBudget == MaxPages = 0 \/ stats["inBudget"] + 1 <= MaxPages

AdmitPage(w) ==
  /\ pc[w] = "admit"
  /\ Count(IF MaxPages = 0 THEN {} ELSE {"inBudget"})
  /\ \/ /\ WithinBudget
        /\ todo' = [todo EXCEPT ![w] = Links[cur[w].url]]
        /\ Goto(w, "expand") /\ UNCHANGED cause
     \/ /\ ~WithinBudget
        /\ CancelBy("budget") /\ Goto(w, "done") /\ UNCHANGED todo
  /\ UNCHANGED <<runVars, caller, drainer, pending, frontier, seen, sem, records, cur, tries>>

\* One discovery: maybeEnqueueChild up to the Push. While Push is pending
\* the child stays at the head of todo.
Discover(w) ==
  /\ pc[w] = "expand" /\ todo[w] # <<>>
  /\ LET child == Head(todo[w])
         skip == [todo EXCEPT ![w] = Tail(@)] IN
       \/ /\ cur[w].depth >= MaxDepth \/ child \notin InScope
          /\ Count({"discovered"}) /\ todo' = skip
          /\ UNCHANGED <<pc, seen, pending>>
       \/ /\ cur[w].depth < MaxDepth /\ child \in InScope /\ child \in seen
          /\ Count({"discovered", "duplicates"}) /\ todo' = skip
          /\ UNCHANGED <<pc, seen, pending>>
       \/ /\ cur[w].depth < MaxDepth /\ child \in InScope /\ child \notin seen
          /\ MarkSeen(child)
          /\ Count({"discovered", "unique"})
          /\ RegisterItem
          /\ Goto(w, "push") /\ UNCHANGED todo
  /\ UNCHANGED <<runVars, ctxVars, drainer, frontier, sem, records, cur, tries>>

Push(w) ==
  /\ pc[w] = "push"
  /\ AddToFrontier([url |-> Head(todo[w]), depth |-> cur[w].depth + 1])
  /\ todo' = [todo EXCEPT ![w] = Tail(@)] /\ Goto(w, "expand")
  /\ UNCHANGED <<runVars, ctxVars, drainer, pending, seen, sem, stats, records, cur, tries>>

PushCancelled(w) ==
  /\ pc[w] = "push" /\ MayDropItem /\ PushFailed
  /\ todo' = [todo EXCEPT ![w] = Tail(@)] /\ Goto(w, "expand")
  /\ UNCHANGED <<runVars, ctxVars, drainer, frontier, seen, sem, stats, records, cur, tries>>

WritePage(w) ==
  /\ pc[w] = "expand" /\ todo[w] = <<>>
  /\ Write(w, "page") /\ Goto(w, "done")
  /\ UNCHANGED <<runVars, ctxVars, drainer, pending, frontier, seen, sem, stats, cur, todo,
                 tries>>

\* process has returned: pending.Done, then the loop.
ItemDone(w) ==
  /\ pc[w] = "done" /\ FinishItem /\ Goto(w, "pop")
  /\ UNCHANGED <<runVars, ctxVars, drainer, frontier, seen, sem, stats, records, cur, todo,
                 tries>>

WorkerStep(w) ==
  \/ Pop(w) \/ PopCancelled(w)
  \/ RobotsDisallow(w) \/ RobotsAllow(w)
  \/ AcquireHost(w) \/ AcquireCancelled(w)
  \/ Backoff(w) \/ Retry(w) \/ FetchFailed(w) \/ FetchOK(w)
  \/ AdmitPage(w) \/ Discover(w) \/ Push(w) \/ PushCancelled(w) \/ WritePage(w)
  \/ ItemDone(w)

\* Run has returned. TLC then reports any other state without a successor.
Terminated == main = "done" /\ UNCHANGED vars

Next == RunStep \/ Drain \/ Deadline \/ CallerCancels \/ (\E w \in Worker : WorkerStep(w))
          \/ Terminated

\* Goroutines that can run do run, and an armed timer fires. Nothing makes
\* the caller cancel.
Fairness ==
  /\ WF_vars(RunStep) /\ WF_vars(Drain) /\ WF_vars(Deadline)
  /\ \A w \in Worker : WF_vars(WorkerStep(w))

Spec == Init /\ [][Next]_vars /\ Fairness
-----------------------------------------------------------------------------
(* Properties.                                                             *)

TypeOK ==
  /\ main \in {"seed", "sitemap", "select", "join", "openapi", "probe", "summary", "done"}
  /\ partial \in BOOLEAN /\ closed \in BOOLEAN
  /\ openapi \in Seq(OpenAPIRecord) /\ endpoints \in Nat /\ summary \in Seq(Summary)
  /\ cause \in {"none", "run", "budget", "deadline", "caller"} /\ caller \in BOOLEAN
  /\ drainer \in {"none", "waiting", "closed"}
  /\ pending \in Nat /\ frontier \in Seq(Item) /\ Len(frontier) <= MaxFrontierSize
  /\ seen \subseteq URL
  /\ sem \in [Host -> 0..PerHost]
  /\ stats \in [Counter -> Nat]
  /\ locs \in Seq(URL)
  /\ records \in [URL -> Seq(Record)]
  /\ pc \in [Worker -> WorkerState] /\ cur \in [Worker -> Item]
  /\ todo \in [Worker -> Seq(URL)] /\ tries \in [Worker -> 0..MaxRetries]

Busy == {w \in Worker : pc[w] \notin {"new", "pop", "exit"}}
Pushing == {w \in Worker : pc[w] = "push"}
HoldingSlot(h) == {w \in Worker : pc[w] \in {"fetch", "doomed"} /\ HostOfWorker(w) = h}
Pages == {u \in URL : \E i \in DOMAIN records[u] : records[u][i].kind = "page"}
Failures == {u \in URL : \E i \in DOMAIN records[u] : records[u][i].kind = "error"}

\* The WaitGroup counts exactly the queued items, the items being processed
\* and the children a worker is still trying to push: enqueue's correction on
\* a failed Push and the worker's single Done keep it so through every early
\* return of process.
PendingAccounting == pending = Len(frontier) + Cardinality(Busy) + Cardinality(Pushing)

\* Once `drained' is closed there is no work, and none can appear: a worker
\* adds a child while its own item is still pending.
DrainedMeansIdle == drainer = "closed" => frontier = <<>> /\ Busy = {}

\* A host's semaphore holds one token per worker with a request in flight to
\* it, whatever mix of backoffs, failed reacquires and deferred Releases.
SlotsAccounted == \A h \in Host : sem[h] = Cardinality(HoldingSlot(h))

\* Several pages linking to one URL at once never get it crawled twice: at
\* most one page or error record is written about a URL (an extractor's errors,
\* which accompany a page, are not recorded here).
OneRecordPerURL == \A u \in URL : Len(records[u]) <= 1

\* MaxPages is a hard cap although workers are mid-fetch when it is hit, and
\* a crawl it stopped still wrote every page it admitted.
PageBudgetExact ==
  MaxPages > 0 =>
    /\ Cardinality(Pages) <= MaxPages
    /\ main = "done" /\ cause = "budget" => Cardinality(Pages) = MaxPages

\* The summary's request counters add up at every moment, not only at the end:
\* what is neither OK nor failed is in flight or waiting out a backoff.
RequestsBalance ==
  stats["requests"] = stats["ok"] + stats["failed"]
                        + Cardinality({w \in Worker : pc[w] \in {"fetch", "doomed", "backoff"}})

\* A crawl nobody stopped accounts for every URL it counted as unique and
\* leaves no in-scope link of an expanded page unvisited.
CleanFinishIsComplete ==
  main = "done" /\ cause = "run" =>
    /\ \A u \in seen : Len(records[u]) = 1
    /\ stats["unique"] = stats["requests"] + stats["robots"]
    /\ \A p \in Pages : records[p][1].depth < MaxDepth =>
          \A i \in DOMAIN Links[p] : Links[p][i] \in InScope => records[Links[p][i]] # <<>>

\* Injecting the sitemap happens before anybody pops, so it must never meet
\* a full frontier.
SeedingNeverBlocks == main = "sitemap" /\ stats["sitemap"] < SitemapLimit => CanPush

\* From frontier.Close on no worker pushes (a send on the closed channel would
\* panic), claims, writes about a URL or counts. What Run itself still writes and
\* counts, the OpenAPI probe's record and endpoints and the summary, is apart.
QuietAfterJoin == [][closed => UNCHANGED <<frontier, records, stats, seen>>]_vars

\* The summary tells what was written before it, however the crawl ended: its
\* failures and robots refusals are the error records, its OK responses the page
\* records or, beyond the page budget, none, its requests all have an outcome,
\* and its OpenAPI endpoints are those of the openapi record.
SummaryMatchesRecords ==
  main = "done" =>
    LET told == summary[1].counters IN
    /\ Cardinality(Failures) = told["failed"] + told["robots"]
    /\ Cardinality(Pages) =
         IF MaxPages = 0 \/ told["ok"] <= MaxPages THEN told["ok"] ELSE MaxPages
    /\ told["requests"] = told["ok"] + told["failed"]
    /\ summary[1].endpoints = IF openapi = <<>> THEN 0 ELSE openapi[1].endpoints

\* The URLs within n links of the seeds, over the pages that were expanded.
Within[n \in Nat] ==
  IF n = 0 THEN {Seed} \cup {u \in URL : \E i \in DOMAIN records[u] : records[u][i].depth = 0}
  ELSE Within[n-1] \cup {u \in InScope :
         \E p \in Pages \cap Within[n-1] : \E i \in DOMAIN Links[p] : Links[p][i] = u}

\* Every URL within MaxDepth links of the seed is visited by a crawl that
\* nothing stopped ("maximum BFS depth from the seed URL").
DepthLimitIsBFS == main = "done" /\ cause = "run" =>
                     \A u \in Within[MaxDepth] : records[u] # <<>>

\* The depth a page reports is its distance from the seeds.
ReportedDepthIsDistance ==
  \A p \in Pages : LET reported == records[p][1].depth IN
    p \in Within[reported] /\ (reported > 0 => p \notin Within[reported - 1])

\* A crawl that hit its page budget says that it stopped early.
BudgetStopIsPartial == main = "done" /\ cause = "budget" => partial

\* Run returns.
RunTerminates == <>(main = "done")

\* The goroutine waiting on the WaitGroup does not outlive the crawl forever.
DrainerExits == <>(drainer = "closed")
=============================================================================
