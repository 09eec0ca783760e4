# A verification project for chcrawl

TLA+ models of the chcrawl web crawler, the TLC runs that check them on small
instances, and TLAPS proofs: for every number of workers, every site and every
limit, of the engine's invariants, of how deep it reaches and of its refinement of an
abstract crawl; of the safety of the frontier, the fetcher with its host slots and
tabs, the robots gate and sitemap discovery; and, for every input, of what the robots
parser, the extractors, the scope policies, source map recovery, the JSON encoder and
the concurrent writers compute. `src/` below is the repository.

## The system

| Component | State it keeps | Operations | Talks to | Hard about it | Right when |
|---|---|---|---|---|---|
| crawl engine (`engine/`) | WaitGroup `pending`, the crawl's context, counters, Run's locals | Run, enqueue, worker, process, maybeEnqueueChild, seedSitemap, discoverOpenAPI | everything below | termination detection, shutdown by drain, budget, deadline or caller, in any interleaving | it returns; nothing is crawled twice; the budget is exact; a clean finish is complete |
| frontier (`internal/frontier`) | a channel, a closed flag | Push, Pop, Close | called by Run and all workers | blocking on both ends, close against push | FIFO, nothing lost, drained before closed |
| visited set (`internal/dedup`) | sharded maps | MarkIfNew | called by all workers | check-and-insert race | one winner per key |
| host limiter and gate (`engine/hostlimiter.go`) | a semaphore per host, a held flag per request | Acquire, Release | workers, and the fetcher during backoff | double release, release after a failed reacquire | a token per holder |
| fetcher (`fetch/`) | HTTP client, cookie jar | Fetch, doOnce, sleepBackoff | gate, retry policy, network | cancellation in every step, redirects | slot held only while a request is out, retries bounded and counted |
| retry policies (`internal/retry`) | none | Next | fetcher | boundaries, overflow of delays | attempts are bounded, delays in range |
| robots gate (`internal/robots`) | an entry with a Once per host | Allowed, parse | workers, network | callers that race the first fetch; record grouping, ties | verdict follows the file, one fetch per host |
| sitemap discovery (`internal/sitemap`) | a queue of documents, local | Discover | seedSitemap, network | cyclic indexes, limits | finds what is reachable, bounded |
| scope, normalization (`internal/scope`, `internal/normalize`) | none | InScope, FromParsed | maybeEnqueueChild, seedSitemap | order of the two, ports | two spellings of one resource have one key; nothing off the seed's site is followed |
| extractors, source maps (`extract/`, `internal/sourcemap`) | none | RunAll, Extract | process, network | a `<base>`, redirects, noise and collisions in maps | links resolve where a browser would; recovered text is filed under its own path |
| headless renderer (`internal/headless`) | page pool | Fetch, Acquire, Release | takes the fetcher's place | pool wait under a host slot, timeouts | tabs bounded |
| OpenAPI (`openapi/`) | none | Discover, Load | Run, after the crawl | which answer is a specification, references, overriding parameters | the first specification is read, each operation once |
| writers (`output/`) | line counts, a mutex | WritePage, WriteError, WriteSummary | workers, Run | concurrent records, pooled buffers, one failing writer | records are whole and are what json.Marshal gives |
| login (`auth/`), configuration, command line | options | FormLogin, config.New, run | before the crawl | flags among words, order of presets and flags, colliding headers | a command line keeps its meaning; credentials are in every request |
| benchmark laboratory (`internal/benchlab`, `cmd/chcrawl-bench`) | results | run crawlers, judge them | uses chcrawl as a program | the oracle re-implements the crawl | the oracle counts what a crawl counts; statistics are what they are called |

How they interact: Run seeds the frontier (seed URL, then sitemap locations),
starts `Concurrency` workers and a goroutine that waits for `pending`, then waits
for either that goroutine or the context. A worker pops an item, asks the robots
gate, takes a slot of the item's host, fetches with retries, gives the slot back,
charges the page budget, marks and pushes the children it is first to see, and
writes one record. Everything that blocks also watches the crawl's context.

## The modules

| Module | Models | Role |
|---|---|---|
| `Engine` | engine.go, pipeline.go, sitemap.go, and how they use frontier, dedup and host slots | core state machine and its properties |
| `Crawl` | what a crawl promises: URLs are claimed, then settled as page, error or abandoned | abstract specification |
| `EngineRefines` | the refinement mapping from Engine to Crawl | composition |
| `Fetch` | hostlimiter.go, fetcher.go, retry.go: gate, retry loop, backoff, redirects, policies | the fetch Engine takes one attempt at a time |
| `Headless` | headless.go, pool.go, assets.go: the rendering fetcher in the plain one's place | EXTENDS Fetch; composition of gate, fetcher and tabs |
| `Frontier` | frontier.go for callers in any order | the interface Engine uses in one particular order |
| `Sitemap` | sitemap.Discover over any site | what Engine takes as SitemapLocs |
| `Robots` | robots.go: parser, longest match, Checker | what Engine takes as RobotsBlocked |
| `Urls` | normalize/url.go, scope.go, the policies engine.New composes | what Engine takes as URL and InScope |
| `Pages` | extract/, sourcemap.go, and the way from a page to queued URLs in pipeline.go | what Engine takes as Links |
| `OpenAPI` | openapi/: probe, parsers, references, parameters | what Engine takes as the probe's outcome: a specification of some size, or none |
| `Encoding`, `Writers` | output/: the JSON encoder; buffer pool, lock, MultiWriter, line limits | what Engine takes as `records` |
| `Session` | cmd/chcrawl, config, auth: arguments, options, preset, validation, login | what comes before a crawl |
| `Lab` | benchlab: oracle, ground truth, statistics | the engine's second description |
| `Algorithms` | nothing of its own: picks an input, says what an input is, states the properties of the seven modules above | composition of the sequential parts |
| `EngineProofs`, `FetchProofs`, `FrontierProofs`, `RobotsProofs`, `SitemapProofs`, `AlgorithmsProofs` | theorems about the modules they are named for (EngineProofs: the refinement as well; FetchProofs: Fetch and Headless) | TLAPS |
| `BeforeAfterProofs` | the theorems of Algorithms about what comes before a crawl (login, command line, specification) and after it (the laboratory) | TLAPS |
| `Induction` | nothing of the code: induction and recursion over the naturals, as lemmas | used by the proof modules |
| `MCEngine`, `MCFetch`, `MCFrontier`, `MCSitemap`, `MCRobots`, `MCAlgorithms` | small constants for TLC | |

Operators commented "slip" are plausible programming errors in the definition
that follows them; no specification uses them. Each property listed in
PROJECT.json is known to fail when the definition is replaced by its slip.

### Engine: state and actions

`main` is Run's program counter and `pc[w]` a worker's; a worker's states are the
points where another goroutine can be noticed (before each blocking or shared
operation). `pending`, `frontier`, `closed`, `seen`, `sem` and `stats` are the
shared objects, `cause` and `caller` the derived and the caller's context,
`drainer` the goroutine of `pending.Wait`. `records` stands for what the writer
was told about URLs; `openapi` and `summary` for the records Run itself writes after
the workers, `endpoints` for the counter its OpenAPI probe raises. A URL is its normalized key; a page is the sequence of its discoveries
(`Links`), a site's answer an element of `Outcome`.

- A `select` with several ready cases takes any of them, so there is a pair of
  actions for each (`Pop`/`PopCancelled`, `Push`/`PushCancelled`,
  `AcquireHost`/`AcquireCancelled`, the two arms of `StopWaiting`).
- `enqueue` is `RegisterItem` (with the claim in `Discover`), then `Push` or
  `PushCancelled` with its correction: another goroutine can run in between.
- After `JoinWorkers` Run goes on alone: `StartProbe` decides by the caller's context,
  `ProbeEnds` is any outcome `discoverOpenAPI` tells apart (nothing, an error record,
  or a specification counted and written), `Summarize` takes the snapshot. The
  caller may still cancel meanwhile.
- `seedSitemap` and the seed's enqueue run before any worker exists, and are
  single steps per item.
- Looser than the code, on purpose: when the context is cancelled a robots check
  may let a blocked URL pass (its fetch failed), and any failed attempt may be
  retried while retries are left; the exact rules are in `Robots` and `Fetch`.

### Fetch, Frontier, Sitemap, Robots

In `Fetch`, `held` and `sems` are the gate's flag and the semaphores, `attempt` is
both the loop variable and the reported count, `at` the host that really serves
the request after redirects; a delay is any value the jitter can give, in units of
the base delay. In `Frontier`, Push is two steps, the check under the mutex and
the send; `accepted` and `taken` are histories. `Sitemap` starts from an arbitrary
site (each document an index, a list or broken) and has one action per turn of the
loop. `Robots` has the parser as a fold over abstract lines, and the Checker's
Once as a three-valued state per host.

### Headless

`Headless` adds to `Fetch` the setting `rendering`, the pool's `tokens`, the workers
whose `tabs` are in use, and the number of tabs `left` in the browser that no fetch
knows of. A page's fetch goes `tab` (wait for a token), `open`,
`render`, possibly `stuck` (a page that never settles), `close`, `free`, with the
worker's host slot held from before the first to after the last; every one of them
has an exit to an error, because one timeout covers wait, opening and rendering.
`close` may leave its tab behind: the page carries the context that may just have
ended, the close's error is dropped, and the token is freed all the same. The browser
may get to such a tab later (`ClosesLate`, without fairness), or never.
Assets go to the plain fetcher. A pool size below one becomes one, as in `New`.

### The sequential algorithms

A behaviour of `Algorithms` picks one `input`: a URL, a page, a source map, the
answers of the OpenAPI locations, an event, a command line, an account to log in
to, a site of the laboratory, or samples. The operators are the code's functions,
and each property compares them with a definition of what the function is for,
written without its control flow: `SameResource` for the normal form, the rules of
encoding/json for the encoder, a command line read from left to right for
reorderArgs, OpenAPI's rule for effective parameters for the merging, a crawl of the
served site for the oracle, nearest ranks and halves of a sample for the statistics.
One kind of input, "stream", takes steps: two workers and, after they have joined,
the main goroutine write events. Each takes a pooled buffer, encodes, takes the
lock, writes to the console (which may fail at any event) and then the line in two
halves, and gives the buffer back.

`AlgorithmsAssumption` says what the inputs are, as far as the proofs need it: a host
is a sequence of characters, a reference is of one of the kinds `Resolve` tells apart,
an event has the fields of its type. It holds of whatever the parsers the models start
from can return, and TLC evaluates it on the inputs of the run.

Names, hosts and paths are short sequences of characters where a definition looks
into them, and opaque otherwise; what a regular expression finds is given as its
matches; a decoded document is a record of what its keys hold.

## The runs

Passing runs (bounds in the cfg of the same name):

| Run | Shows | Bounds |
|---|---|---|
| engine_safety | WaitGroup, slot, budget, uniqueness and counter invariants, quiet after join, the summary tells what the records tell | 3 workers, 5 URLs on 2 hosts with 1 slot, frontier 2, 2 pages, 1 retry; failures, a robots rule, sitemap, deadline and caller cancel, an OpenAPI specification of 0 or 2 operations or none |
| engine_complete | a crawl nothing stops ends, and settled every URL it claimed | 2 workers, frontier 1 so that Push blocks, no deadline |
| engine_one_worker | one worker is a breadth-first search, depths are distances | 1 worker |
| engine_refines | Engine implements Crawl | 2 workers, retries, budget, deadline, cancel |
| fetch | slots, in-flight states, retry counts, request bounds, tokens and tabs in use; no fetch waits for ever | 2 workers, 2 hosts with 1 slot, both policies, 1 retry, 2 requests per redirect chain, with and without rendering, 1 tab (856 128 states) |
| frontier | FIFO, nothing lost or doubled, drained before closed; everybody leaves after Close | 2 producers with 2 items, 2 consumers, capacity 2, close and cancel anywhere |
| sitemap | reachability, each document once, overshoot and request bound | all 63 869 sites (with robots.txt) of 3 documents with 2 entries, without a limit and with limit 2, cap 2 |
| robots | the parser and matcher agree with a declarative reading; one fetch | all files of up to 4 lines over 8 lines and 1024 of 5 lines, 3 paths, 2 callers |
| algorithms | ten properties of the sequential code, and whole records from concurrent writers | every input of the sets in MCAlgorithms: 48 579 inputs, 243 609 states |

Three workers are needed for the interleavings that matter: one at the limit, one
waiting behind it, one changing what both wait for; a fourth only repeats a role.
Two hosts tell a slot of the right host from one of another. A frontier of one or
two items is full at once. Five URLs contain a diamond, a self link, a link out of
scope, a shortcut and a page that fails. One tab for two workers makes one wait
while it holds a slot. The runs' bounds are `MaxRetries`, `MaxDepth` and the site in
Engine, `Jobs` in Fetch, `Load` in Frontier, `MaxBody` in Sitemap, `Calls` in Robots
and `MaxLines` in Writers (a limit of the code, here 2, so that a console that has
reached it can still be handed a line by a second goroutine). In `Lab` a walk stops
after as many turns as the seed and every link of the site can queue, which no walk
exceeds.

The sets of MCAlgorithms are small in each direction and full in their product:
every spelling of a path of up to two segments with escapes, trailing slashes and
ports; pages with each kind of element under each kind of base and redirect;
command lines of up to three arguments over fourteen, longer ones over those whose
order matters, and repeated headers of equal and different names, with and without a
colon; for three outputs, every set of the efforts after parsing (login, file, engine)
that may fail; strings of up to three characters over the encoder's four
classes; sites with redirect chains and loops, dead links, duplicates and a second
host; samples of up to four runs, and longer ones for the ranks.

Runs that exhibit a disagreement between the code and what the repository says of
it (quoted in PROJECT.json, `findings`):

| Run | What happens |
|---|---|
| engine_backpressure | all workers block in Push on a full frontier; nobody pops; Run hangs |
| engine_depth | a URL first claimed over a longer path keeps the larger depth; pages within the limit are missed |
| engine_drain_leak | after a cancelled crawl the goroutine in `pending.Wait` is leaked |

More sentences of the documentation are stated in the modules and refuted by
them, in traces of a few steps or for one input; they are smaller, and no run is
kept for them (to see one, name it, or its instance for `input`, as INVARIANT or
PROPERTY of the module's cfg):

| Module | Definition | What the code does |
|---|---|---|
| Engine | `BudgetStopIsPartial` | a crawl stopped by its page budget can report itself complete, when the queue drains at the same moment |
| Fetch | `InFlightPerHost` | a redirect is followed to a host, and a source map fetched from one, whose slot is not held |
| Fetch | `NoRetryAfterCancel` | a backoff of zero, or a select that finds a slot or timer ready as well, begins a retry on a cancelled context |
| Fetch | `FollowsMaxRedirects` | `-max-redirects N` follows N-1 hops, because `via` counts requests |
| Headless | `TabsInBrowserBounded` | a tab whose close was given up stays in the browser while its token opens another: more tabs than `-render-concurrency` |
| Frontier | `NoPanic` | Close between Push's check and its send makes Push panic; the engine's order of calls avoids it |
| Sitemap | `LimitCapsLocations` | all locations of the document that reaches the limit are returned |
| Sitemap | `OneLevelOnly` | indexes of indexes are expanded until the document cap |
| Urls | `ScopeFollowsCanonicalForm` | scope is decided on the URL as written, so a seed with a default port puts its own links, written without it, out of scope |
| Urls | `KeepsEscapedSlash` | the normal form writes `%2F` in a path as a separator, so two resources can share a key |
| OpenAPI | `BodyIsDetermined` | without a JSON body, map iteration picks the content type whose schema is reported |
| Session | `LoginAlwaysWins` | a given `authorization` beside a login's `Authorization` may be the one that is sent |
| Writers | `FileIsFull` | an event the console fails to take never reaches the file |

Other behaviour met while modelling, which the modules follow and no sentence of the
repository contradicts outright: a flag left without its value at the end of a command
line takes a word as its value (`reorderArgs`; the one exception
`ArgsKeepTheirMeaning` makes); the login is made before the configuration is
validated; a form login does not look at the status of the answer; `MaxRedirects` of
zero or less becomes 20; an include or exclude expression that does not compile is
dropped without a word. `WellFormed` in `Lab` leaves out the sites on which the oracle
and the engine need not count alike: a redirect that ends at a dead or failing page,
one to another host, a chain of just 20 redirects (`maxRedirectHops` lets it pass, the
client gives up at the last), a form without fields or with repeated ones, an endpoint
written twice. The tables of workloads and scales contain no such site.

Deadlock is checked in every run that can go on; `CHECK_DEADLOCK FALSE` is said
where the system may really stop: `engine_backpressure` (the hang is the point, and
is shown as a liveness violation) and `frontier` (callers stop using it, or a
panic ended the program). In `algorithms` a stream whose goroutines could block
one another for ever would be a deadlock.

### Fairness

Weak fairness of Run, of the drainer, of each worker, producer and consumer: the Go
scheduler runs a goroutine that can run. Weak fairness of `Deadline`: an armed
`time.AfterFunc` fires. In Frontier somebody eventually calls Close. In Fetch a
worker's fairness includes the network's answer, because the client's timeout ends
every request, and in Headless the render timeout, which ends the wait for a tab, its
opening and a page that never settles. Nothing makes the caller cancel. No strong
fairness is assumed: waiting for a slot succeeds because a freed slot is taken by
whichever waiter runs and the work is finite.

## The proofs

Every theorem is proved for all values of the constants that satisfy the named
assumptions of the module it is about (the workers are a finite set; the site maps
URLs to sequences of URLs; the options are what `config.Validate` accepts; limits
are numbers), and each rests on an inductive invariant whose parts have names. Recursive functions
and folds are reasoned about with `Induction`: a set of naturals that contains 0 and
is closed under successor is `Nat`, because a counterexample would have a least
element (`WFMin` over `<`), and from that a function that satisfies a recursive
equation exists, so that one introduced with CHOOSE does satisfy it.

| Module | Theorem | States |
|---|---|---|
| EngineProofs | `TypeCorrect` | `TypeOK` |
| | `PendingCorrect` | the WaitGroup counts queued items, busy workers and children being pushed |
| | `DrainedCorrect` | once `drained` is closed nothing is queued or in process |
| | `SlotsCorrect` | a host's semaphore counts the workers with a request out |
| | `OneRecordCorrect` | at most one record per URL |
| | `QuietCorrect` | after `frontier.Close` no worker pushes, claims, writes about a URL or counts |
| | `BalanceCorrect` | requests are OK, failed, in flight or backing off |
| | `SeedingCorrect` | seeding never blocks |
| | `SummaryCorrect` | the summary's failures, pages, requests and OpenAPI endpoints are those of the records written |
| | `BudgetCorrect` | the page budget is exact |
| | `CompletenessCorrect` | a crawl nobody stopped is complete and its counters add up |
| | `DepthReached` | any number of workers: when Run has returned, a page that reports depth d is reached from the seeds over d links of written pages |
| | `DistanceCorrect` | one worker: at every moment the depth a page reports is its distance from the seeds |
| | `BreadthFirstCorrect` | one worker: a crawl nothing stopped visited every URL within `MaxDepth` links |
| | `RefinementCorrect` | Engine implements Crawl |
| FetchProofs | `TokensCorrect`, `SlotCorrect`, `RetriesCorrect`, `RequestsCorrect`, `PoolCorrect` | the five invariants of the run `fetch`, with and without rendering; `PoolCorrect` is about the tabs in use, not those left behind |
| FrontierProofs | `FifoCorrect`, `DrainCorrect`, `FrontierTypeCorrect` | order, draining, types |
| | `JoinBeforeCloseIsSafe` | if Close comes after the producers, Push never panics |
| RobotsProofs | `OneFetchCorrect`, `WholeFileCorrect` | one fetch per host; every answer is from a whole file |
| | `VerdictCorrect` | for every file, path and number of callers the verdict is the longest match among the rules that speak to the crawler |
| SitemapProofs | `EachDocumentCorrect`, `WalkCorrect`, `OvershootCorrect` | the three invariants of the run `sitemap` |
| AlgorithmsProofs | `RecordsCorrect` | any goroutines, buffers and events: the file is whole lines, one for each accepted event, the summary last; the console lists at most `MaxLines` |
| | `LinksCorrect` | what the extractors find on any page is on the host it came from or on one the page writes out |
| | `FollowedCorrect` | what is queued from any page belongs to the seed's crawl, once, and is not the page |
| | `SourcesCorrect` | a recovered source is filed under its own path, the last of several |
| | `EncodingCorrect` | of every event the encoder appends what encoding/json writes |
| | `NormalFormCorrect` | two URLs have one canonical form exactly when they name one resource |
| BeforeAfterProofs | `CredentialsCorrect` | the form is answered, and every request carries the login's headers, the others given, and the cookies; of two spellings of one name, one |
| | `ArgsCorrect` | any arguments, flags and words in any order: a command line that means one crawl starts that one, with the last header of each name, unless something it asks for fails; what starts has options a crawl can work with |
| | `FirstSpecCorrect` | the first location that leads to a specification is taken, each operation reported once, with the parameters the rule gives it |
| | `OracleCorrect` | well-formed sites of any size and shape: the oracle counts what a crawl of the served site by one worker counts, duplicates, redirects and loops included; with links in normal form the ground truth is what that crawl reaches |
| | `StatisticsCorrect` | samples of any number: nearest ranks, medians, verdicts, effect sizes, common missing paths and scaling ratios are what their definitions say |

**Engine, safety.** The invariant is `IInv`, the conjunction of `TypeInv` (types; a
worker in `push` has a child left), `Phases` (no worker runs before `StartWorkers`,
all have exited when `closed`), `PendingAccounting`, `DrainedMeansZero` (drained
implies `pending = 0`, which with the accounting gives an idle system),
`SlotsAccounted` and `OnePlace`. Uniqueness of records is not inductive: it follows
because a claimed URL is in exactly one place. `OnePlace` says that queued URLs are
distinct, queued and active URLs are seen and unrecorded, and no two of queue,
active items and children being pushed name the same URL. It is preserved along
five kinds of step: an item moves from the queue to a worker (`PopStep`), from a
worker to the queue (`PushStep`), a URL is claimed (`ClaimStep`, `SeedingStep`),
settled (`SettleStep`), or dropped (`ShrinkStep`). The first block of lemmas
(frames) says which steps change a variable, so that each invariant is examined only
against those; `BusyMoves`, `PushingMoves` and `HolderMoves` carry the cardinalities.

**Engine, outcome.** `OInv` adds what a finished crawl is judged by. `Budgeted`
says that written pages and pages being expanded are together the attempts counted,
up to `MaxPages`; the budget property alone does not say where the pages charged but
not yet written are. `LinksClaimed` says that every link of an expanded page is
claimed or still on its worker's list, `Kept` that while the context lives a claimed
URL is queued, worked on, being pushed or written, and `UniqueBalance` that claims
are requests, robots refusals, queue and children. `OutcomesWritten` says what the
counters are worth in records while the crawl runs: error records are failures and
refusals, OK responses beyond the pages written are workers still expanding or waiting
to be admitted. With `Epilogue` (once Run is past the join nobody changes the counters;
the summary is their snapshot, the endpoints those of the probe's record) it gives
`SummaryCorrect`. `Ended` fixes their consequence at
the moment the crawl ends by itself, when `DrainedCorrect` empties all places but
"written".

**Engine, refinement.** The mapping reads a URL's fate off its record or off the
place its item is in. `FlightDistinct` turns `OnePlace` into the uniqueness of that
place, so that a step that moves one item changes one fate (`FateFacts`). `History`
is the second invariant: what a worker's position says about how it got there (a
doomed item means a cancelled context; past the robots check the URL is allowed or
the context cancelled; a successful answer is one the site can give; what is left
to push is among the page's links). Then each worker step is one of Crawl's Visit,
Fail, Abandon and Claim or a stutter (`VisitStep`, `FailStep`, `GiveUpStep`,
`LoseChildStep`, `DiscoverStep`, `QuietStep`), and Run's steps are Claim (seeding),
Stop and Return or stutters (`SeedingRefines`, `RunRefines`).

**Engine, depth.** `PathInv` holds for any number of workers: whatever is queued, in
process, about to be pushed or on record at a depth d > 0 was found on a page, written
or being expanded, at depth d - 1 that links to it (`HasParent`), because a page's
children are pushed with its own depth plus one and its record is written before it
leaves the worker. Induction on d over the records gives `DepthReached`. What depth is
*not*, with two workers, is the distance: one may push the children of a shallow page
behind the grandchildren another already queued, and a URL first claimed over the
longer path keeps it (the run `engine_depth`). With one worker `OrderInv` holds as well:
the queue is sorted and spans at most two levels, the item in process is not below
its front, and no record is deeper than either. With `LinksNear` (a link of a written
page is met at most one level below it) that makes every record the shallowest
(`WithinIsShallow`), which with `PathInv` is `DistanceCorrect`, and with
`CompletenessCorrect` is `BreadthFirstCorrect`.

**Fetch and Headless.** `FInv` states, for every position of a worker, whether it
holds its slot, what it was charged and reported, and whether it has a token and a
tab in use. A tab that a close left behind belongs to no worker, and nothing bounds
those (`TabsInBrowserBounded`, which the model refutes). The semaphores are sums over workers, so each step is shown to move one
worker's share.

**Frontier.** `FirstInFirstOut` relates the histories and the channel and is
inductive with `ItemInLoad` (an item being sent is the producer's own) and
`DrainedIsFinal`; `ClosedAfterPushers` is the extra fact that makes a careful caller
safe.

**Robots.** An entry that exists has one fetcher until it is filled, and callers
answer from filled entries only. For the verdict, the parser's state after n lines is
said without the parser: which agents the open record names, whether a rule has been
seen since the last user-agent line, and that the rules kept for an agent are those of
the lines that speak to it. The longest match is an induction over the rules, with the
best among the first n. `FileAllows`, which knows neither, follows for every file.
**Sitemap.** `Asked` and `Gathered` tie what was
fetched and returned to the queue's prefix that was walked, and `Front` says that
every document an already read one names is in the queue: when the walk ends, that
is closure, and reachability follows as the least closed set.

**Writers.** From Get to Put a buffer belongs to one goroutine and holds its event's
text (`Owned`), the file ends in half a line only while its writer holds the lock
(`FileInv`), and every line belongs to an accepted event or to a goroutine that wrote it
and has not returned (`Tally`): without the last, "one line for each accepted event"
is not inductive. That the summary is last needs that Main writes only after the
others have joined. On the console, what is listed of a type never exceeds what was
counted, and an ellipsis ends the list.

**Pages and scope.** A URL *stays* when it is on the page's host or spelt out on
the page. `Resolve` keeps that for every kind of reference, a `<base>` is trusted
only on the page's host, so each extractor discovers only what stays, and `RunAll`
is the concatenation of what each extractor found. What is followed is then an induction
over the offered URLs: each queued one passed the policies, and the policies, asked of
the URL as found, say of its canonical form what `UnderDomain` says label by label
(`DomainsMatch`, `ScopeIsKept`). The one thing normalization could change, a default
port, is cut off by the same `StripPort` on both sides; for a bare IPv6 literal without
a port that cut takes the last group of the address, in the code as in the model, so a
deny list or the subdomain rule does not see such a host.

**Source maps.** The loop over the sources is followed by an invariant of the mapping
after n sources (`FiledAt`): a path has the text of the last one among the first n.

**Encoder.** appendJSONString copies runs between escapes; after i characters, what
was appended and the pending run are together the first i characters as escaped
(`Scanned`). The lists and objects are put together by appending to what is there, the
reference by joining members, and `NextField` and `OptionalField` carry the one to the
other, field by field, whichever are left out.

**Login.** The form's values are built up field by field, hidden inputs first and the
credentials written over them, and `FieldsKnown` says what the first n inputs leave.
`LoginGives` is what the login then hands on for each kind of account, and `BaseIsSent`
that a request starts from the options' headers with the login's over them, so that no
kind loses what another supplies. Where "authorization" is given beside the login's own
spelling, `Carried` keeps what is certain: every other header has its value, and this
one has one of the two.

**Arguments.** What the first n arguments say is four facts: which flags have their value
so far (`Completed`), that each such value converts (`Converting`), what each option is
set to, by the last of its flags (`SetTo`; for headers, under each name the last of the
values given for it, `GivenLast`), and which words there were (`Collected`).
After n arguments reorderArgs has moved some flags to the front, and the parser, read
at the last of them, agrees with those facts (`Matching`, kept by `MatchesNext`): the
flags moved to the front are a prefix of what it will read (`FlagsGrow`), so its state
there is final. Past the flags it leaves every word to the crawler (`LeavesNext`). The two
readings meet at the end of the line (`ReadAsSaid`), except when a flag at the end lacks
its value, which is why the property leaves those lines out. The only assumption is
that the arguments are a sequence.

**Normal form.** `Kept` and `PathsAgree` settle which parts of a spelling the form can
still tell apart: scheme, host, a port that is not the scheme's own (`PortsAgree`) and
the path without its trailing slashes. For the query, the sorted pairs are said by
rank: the pair at place k is the one with k - 1 occurrences before it. Ranks add up
(`RankAdds`), so every place is taken by exactly one occurrence (`PlaceTaken`,
`PlaceOfOne`); hence sorting keeps every pair as often as it was there (`SortingKeeps`),
two queries with the same pairs in another order are sorted alike (`SortedAlike`), and
sorting twice is sorting once.

**Specifications.** After n declarations the merged list holds, once, the keys declared
so far, the path's first, each with its last declaration (`MergedStep`, `MergesAll`);
read at the end of both lists this is the rule of `ParamsFollowTheRule`: the
operation's own declaration, or else the path's (`MergedFollows`). A bucket holds the
names of its place (`BucketNames`), and a list of lists is as long as its pairs of
indices are many (`FlattenCounts`), which counts the operations.

**Statistics.** Sorting is said by rank here too: the sample at place k is the least
value with at least k samples at most it (`SortedRanks`). `RankIsNearest` is the
arithmetic of the clamped rank, from which `PercentileIsNearest`, for the deviation as
well, and `MediansHalve` follow by counting. When one side wins throughout, its
wins are all pairs, the largest effect there is (`EffectIs`); comparing each failed
run's missing paths with the first one's, by number and inclusion, is comparing them
all (`MissingIs`, since finite sets as many and included are equal); each measured scale but the first
closes one ratio (`RatiosCounted`).

**Laboratory.** The oracle and the crawl are one loop (`Walk`) with two ways to visit an
item, so that what has to be shown is that the visits are equal, counts and keys alike
(`VisitsAgree`), for an item on the site; and that a visit queues only what is on the
site (`Healthy`, the strengthening: a host nobody serves would be met by the two sides
in different ways). The walks are then equal after every turn (`WalksAgree`), so also
after the last: `Enough` turns, one for the seed and for each link, because every turn
takes a key of its own and keys come from links. A visit is
taken apart in the order of the code. Redirects: hop by hop the Location header leads
where the oracle's table does (`HopsAgree`, `ChainsAgree`), and on a well-formed site the
client's limit, one hop short, ends no chain that ends (`EndsAgree`). The served
page: written element by element and read back by the extractors, it gives its links in
order with the forms last (`LinksServed`, `FormsServed`, `DocumentsAgree`), each script's
routes once under its own host (`RoutesFound`, `ScriptsAgree`), and as many forms with as
many parameters as it has (`ParamsNamed`, `NamesCounted`). Much of it is lists of lists that
stay in step: `Related` says so element by element, and `FlattenTogether` that flattening
keeps it. The keys: what a link's address is normalized to is what the link is
normalized to (`KeysAgree`), and the crawl's policies are the site's scope (`ScopesAgree`).
The ground truth is the same loop once more, with keys as they are written; when they
are in normal form it differs from the oracle's in its counts only (`WalksAlike`). The
assumption (`IsSite`) is that a site is finite, its pages are of the type's shape, and
no server gets port 80, where the strict form would lose it.

Only model-checked: all liveness (`RunTerminates`, `FetchReturns`,
`EveryoneLeaves`), which is out of the prover's reach.

## Not modelled

HTML, JSON, YAML and XML parsing and regular expressions, the browser, TLS, proxies
and HTTP itself: the models start from what these return. Wording, colours and layout
of the console view and of the laboratory's reports. The laboratory's running of
other crawlers as processes, its peak-memory sampling, the tables of workloads and
scales, and bootstrap intervals (random by design). In the fetcher, the body limit
and the content-type filter decide only what a body is, and the cookie jar is the
library's. In the retry policies, the float arithmetic of a delay: a delay is any
value the jitter can give, which is the code's range only while `BaseDelay * 2^attempt`
fits 63 bits (a `Retry-After` is a floor that `MaxDelay` does not cap). The laboratory's `S4DefaultBodyCapDemo` says it runs
with a body limit of 10 MiB (scale.go:352), where runner.go:50 sets 64; no model has
the number. The counters that only add up extracted facts (params,
forms, a page's endpoints) appear in `Lab`, not in `Engine`. A write to the output file
that is short or fails (writer.go:83): in `Writers` only the console fails. URLs with
user information and opaque URLs (`mailto:`): the models start from hierarchical ones.
In the comparison of oracle and crawl: `pages_visited` and the endpoints, two more
counters of the same walk (on the oracle's side the endpoints are the routes again),
and the failures the laboratory simulates.

## Plan

1. Done: Engine with Crawl, EngineRefines; Fetch; Frontier; Sitemap; Robots.
2. Done: scope and normalization (`Urls`), extraction, source maps and the way to the
   queue (`Pages`), the headless pool (`Headless`), `OpenAPI`, `Encoding` and
   `Writers`, `Session`, the laboratory's oracle and statistics (`Lab`).
3. Done: proofs of every safety invariant of Engine, of the refinement, and of Fetch
   with Headless, Frontier, Robots and Sitemap; of the extractors, scope, source maps,
   the encoder, the writers, the arguments, the login, the normal form, the specification
   read, the statistics and the laboratory's oracle in `Algorithms`: every invariant and
   every action property a passing run checks.
4. Left to model: the retry delay with int64 width; body limits and the cookie jar; the
   laboratory's runner with its timeouts.
