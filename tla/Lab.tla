--------------------------------- MODULE Lab ---------------------------------
(***************************************************************************)
(* The benchmark laboratory (internal/benchlab): synthetic sites served on *)
(* local ports, the oracle that predicts what a crawl of one counts, and   *)
(* the statistics made of repeated runs.  The engine's side of the         *)
(* comparison is a crawl by one worker with the extractors of Pages.       *)
(*                                                                         *)
(* A link is [host, path, query], host "" being the page's own.  A site is *)
(* [hosts, seed, pages, maxDepth, sameOrigin, strict, sortQuery], pages    *)
(* being a function of places, <<host, path>>.  A page specification is    *)
(* [redirect, status, links, scripts, data, forms, js, endpoints, bad].    *)
(***************************************************************************)
EXTENDS Pages

Link(host, path, query) == [host |-> host, path |-> path, query |-> query]
NoLink == Link("", <<>>, NoQuery)
Plain == [redirect |-> NoLink, status |-> 0, links |-> <<>>, scripts |-> <<>>, data |-> <<>>,
          forms |-> <<>>, js |-> FALSE, endpoints |-> <<>>, bad |-> FALSE]

SeedHost(site) == site.hosts[1]
SeedKey(site) == Link(SeedHost(site), site.seed, NoQuery)
PlaceOf(k) == <<k.host, k.path>>             \* a server routes by the path alone
Has(site, place) == place \in DOMAIN site.pages
Redirects(site, place) == Has(site, place) /\ site.pages[place].redirect # NoLink
StatusOf(page) == IF page.status = 0 THEN 200 ELSE page.status
Broken(site, place) == ~Has(site, place) \/ StatusOf(site.pages[place]) >= 400
OnSelf(link, self) == IF link.host = "" THEN [link EXCEPT !.host = self] ELSE link

\* As it is served, each host is a port, and an unknown label is dropped (resolveLink).
Address(k) == [Url("http", <<"l">>, k.host, k.path) EXCEPT !.query = k.query]
KeyOf(u) == Link(u.port, u.path, u.query)
Href(site, link, self) ==
  Absolute(Address(IF link.host \in ToSet(site.hosts) \ {""} THEN link ELSE [link EXCEPT !.host = self]))

Hrefs(page) == page.links \o page.scripts \o page.data
Actions(page) == [k \in DOMAIN page.forms |-> page.forms[k].action]
-----------------------------------------------------------------------------
(* Chains of redirects.  The oracle follows MaxRedirectHops of them; the   *)
(* client's limit is reached one hop early (fetch.New, CheckRedirect).     *)

MaxRedirectHops == 20
SameHost(site, place) == <<place[1], site.pages[place].redirect.path>>
NextHop(site, place) == PlaceOf(KeyOf(Href(site, site.pages[place].redirect, place[1]).url))

Hop(site, who, at) ==
  IF ~Redirects(site, at.place) THEN at
  ELSE [place |-> IF who = "engine" THEN NextHop(site, at.place) ELSE SameHost(site, at.place),
        hops |-> at.hops + 1]
Chain(site, who, place) ==
  LET at[n \in 0..MaxRedirectHops] ==
        IF n = 0 THEN [place |-> place, hops |-> 0] ELSE Hop(site, who, at[n - 1])
  IN  at
Ends(site, at) == ~Redirects(site, at.place)

ResolveRedirects(site, k) == Chain(site, "oracle", PlaceOf(k))[MaxRedirectHops]
FollowRedirects(site, k) == Chain(site, "engine", PlaceOf(k))[MaxRedirectHops - 1]
Good(site, k) ==
  LET end == ResolveRedirects(site, k) IN Ends(site, end) /\ ~Broken(site, end.place)
-----------------------------------------------------------------------------
(* The oracle and the ground truth.  Visiting an item gives what it adds   *)
(* to the counts, and the keys of its links.                               *)

\* Dedup on the normal form of path and query.
Raw(site, k) == k                                         \* slip
Normalized(site, k) ==
  LET u == FromParsed([Url("", <<>>, "", k.path) EXCEPT !.query = k.query], site.strict, site.sortQuery)
  IN  Link(k.host, u.path, u.query)

JSRouteVariants(e) ==
  <<e.path>> \o IF e.alpha THEN <<e.path \o <<"/", "1">>>> ELSE <<>>
Routes(page) == IF page.js THEN FlatMap(JSRouteVariants, page.endpoints) ELSE <<>>

Zero == [requests |-> 0, ok |-> 0, failed |-> 0, redirects |-> 0, duplicates |-> 0,
         forms |-> 0, params |-> 0, jsFiles |-> 0, jsRoutes |-> 0]
QueryKeys(query) == IF Malformed(query) THEN {} ELSE {query[k][1] : k \in DOMAIN query}
Total(s) == FoldLeft(+, 0, s)

Failure == [counts |-> [Zero EXCEPT !.requests = 1, !.failed = 1], keys |-> <<>>]
OracleVisit(site, item) ==
  LET end == ResolveRedirects(site, item.at)
      page == site.pages[end.place]
      forms == IF page.js \/ page.bad THEN <<>> ELSE page.forms
      links == Hrefs(page) \o Actions(page) \o [k \in DOMAIN Routes(page) |-> Link("", Routes(page)[k], NoQuery)]
  IN  IF ~Good(site, item.at) THEN Failure
      ELSE [counts |-> [Zero EXCEPT !.requests = 1, !.ok = 1, !.redirects = end.hops, !.forms = Len(forms),
                          !.params = Cardinality(QueryKeys(item.at.query))
                            + Total([k \in DOMAIN forms |-> Len(forms[k].fields)]),
                          !.jsFiles = IF page.js THEN 1 ELSE 0, !.jsRoutes = Len(Routes(page))],
            keys |-> [n \in DOMAIN links |-> Normalized(site, OnSelf(links[n], item.at.host))]]

\* DiscoverablePaths: keys as written, and no data links or JS routes.
GroundVisit(site, item) ==
  LET page == site.pages[ResolveRedirects(site, item.at).place]
      links == page.links \o page.scripts \o Actions(page)
  IN  [counts |-> Zero,
       keys |-> IF Good(site, item.at) THEN [n \in DOMAIN links |-> OnSelf(links[n], item.at.host)] ELSE <<>>]

InSiteScope(site, k) == site.sameOrigin => k.host = SeedHost(site)
-----------------------------------------------------------------------------
(* The page as it is served, and the engine's visit.                       *)

ServedPage(site, requested, place) ==
  LET page == site.pages[place]
      Ref(link) == Href(site, link, place[1])
      Tagged(tag, links) == [n \in DOMAIN links |-> [tag |-> tag, ref |-> Ref(links[n]), data |-> <<>>]]
      Field(name) == [name |-> name, type |-> "text", value |-> "", required |-> FALSE, options |-> <<>>]
      forms == [n \in DOMAIN page.forms |->
                  [tag |-> "form", ref |-> Ref(page.forms[n].action), data |-> <<>>, method |-> "GET",
                   fields |-> [m \in DOMAIN page.forms[n].fields |-> Field(page.forms[n].fields[m])]]]
      divs == [n \in DOMAIN page.data |-> [tag |-> "div", ref |-> Absent, data |-> <<Ref(page.data[n])>>]]
      body == Tagged("a", page.links) \o Tagged("script", page.scripts) \o divs \o forms
      js == [templates |-> <<>>, statics |-> page.endpoints, assigned |-> <<>>, suffixes |-> <<>>, chunks |-> <<>>]
  IN  [type |-> IF page.js /\ ~page.bad THEN "javascript" ELSE "html",
       requested |-> Address(requested), final |-> Address(Link(place[1], place[2], NoQuery)),
       elements |-> IF page.js \/ page.bad THEN <<>> ELSE body, script |-> js, sockets |-> <<>>,
       map |-> [where |-> "none"]]

EngineKey(site, url) == KeyOf(FromParsed(url, site.strict, site.sortQuery))
Crawled(site, item) ==
  LET end == FollowRedirects(site, item.at)
      page == ServedPage(site, item.at, end.place)
      found == RunAll(Runs(page, FALSE))
      forms == FlatMap(LAMBDA d : IF d.kind = "form" THEN <<d>> ELSE <<>>, found)
      js == page.type = "javascript"
      hops == [Zero EXCEPT !.requests = 1, !.redirects = IF Ends(site, end) THEN end.hops ELSE 0]
  IN  IF ~Ends(site, end) \/ Broken(site, end.place)
        THEN [Failure EXCEPT !.counts = [hops EXCEPT !.failed = 1]]
        ELSE [counts |-> [hops EXCEPT !.ok = 1, !.forms = Len(forms),
                            !.params = Cardinality(QueryKeys(item.at.query))
                              + Total([n \in DOMAIN forms |-> Cardinality(DOMAIN forms[n].params)]),
                            !.jsFiles = IF js THEN 1 ELSE 0, !.jsRoutes = IF js THEN Len(found) ELSE 0],
              keys |-> [n \in DOMAIN found |-> EngineKey(site, found[n].url)]]

\* Scope is asked before normalizing; here the two URLs have one origin.
EngineScope(site, k) ==
  InScope(Address(k), Address(SeedKey(site)),
          [sameOrigin |-> site.sameOrigin, subdomains |-> FALSE, allow |-> {}, deny |-> {}, include |-> {}, exclude |-> {}])
-----------------------------------------------------------------------------
(* The three walks, breadth first.                                         *)

Visit(site, who, item) ==
  CASE who = "oracle" -> OracleVisit(site, item)
    [] who = "ground" -> GroundVisit(site, item)
    [] who = "engine" -> Crawled(site, item)
Wanted(site, who, k) == IF who = "engine" THEN EngineScope(site, k) ELSE InSiteScope(site, k)
FirstKey(site, who) ==
  CASE who = "oracle" -> Normalized(site, SeedKey(site))
    [] who = "ground" -> SeedKey(site)
    [] who = "engine" -> EngineKey(site, Address(SeedKey(site)))

\* Of the wanted keys, those met for the first time are queued, the others are duplicates.
Added(c, d) == [f \in DOMAIN c |-> c[f] + d[f]]
Queued(acc, item, v, wanted) ==
  LET New(n) == v.keys[n] \notin acc.seen /\ \A j \in wanted : j < n => v.keys[j] # v.keys[n]
      Item(n) == IF n \in wanted /\ New(n) THEN <<[at |-> v.keys[n], depth |-> item.depth + 1]>> ELSE <<>>
      duplicates == Cardinality({n \in wanted : ~New(n)})
  IN  [queue |-> Tail(acc.queue) \o FlatMap(Item, [n \in DOMAIN v.keys |-> n]),
       seen |-> acc.seen \cup {v.keys[n] : n \in wanted},
       counts |-> Added(Added(acc.counts, v.counts), [Zero EXCEPT !.duplicates = duplicates]),
       visited |-> Append(acc.visited, item.at)]
\* The item v is a visit of; its links are offered unless it is as deep as links go.
Follow(site, who, acc, item, v) ==
  Queued(acc, item, v,
         IF item.depth >= site.maxDepth THEN {} ELSE {n \in DOMAIN v.keys : Wanted(site, who, v.keys[n])})
Advance(site, who, acc) ==
  IF acc.queue = <<>> THEN acc
  ELSE Follow(site, who, acc, Head(acc.queue), Visit(site, who, Head(acc.queue)))

\* The turns a walk can take: the seed and every link.
Enough(site) ==
  LET Offers(page) == Len(Hrefs(page) \o page.forms) + 2 * Len(page.endpoints)
  IN  1 + Cardinality(UNION {{place} \X (1..Offers(site.pages[place])) : place \in DOMAIN site.pages})
AtSeed(site, who) ==
  [queue |-> <<[at |-> FirstKey(site, who), depth |-> 0]>>, seen |-> {FirstKey(site, who)}, counts |-> Zero, visited |-> <<>>]
Walk(site, who) ==
  LET after[n \in 0..Enough(site)] ==
        IF n = 0 THEN AtSeed(site, who) ELSE Advance(site, who, after[n - 1])
  IN  after[Enough(site)]

Compute(site) == Walk(site, "oracle").counts
Crawl(site) == Walk(site, "engine")
DiscoverablePaths(site) == {k.path : k \in {x \in ToSet(Walk(site, "ground").visited) : Good(site, x)}}

\* Sites for which the oracle is meant: pages are on known hosts and link to known
\* hosts; redirects stay on their host, do not end at an error, and end within the
\* client's limit if at all; forms have fields with names of their own, endpoints
\* differ, and what is served as garbage or script carries no links.
WellFormed(site) ==
  \A place \in DOMAIN site.pages :
    LET page == site.pages[place]
        At(n) == Chain(site, "oracle", place)[n] IN
    /\ place[1] \in ToSet(site.hosts)
    /\ page.redirect.host = ""
    /\ Ends(site, At(MaxRedirectHops)) => Ends(site, At(MaxRedirectHops - 1))
    /\ page.redirect # NoLink /\ Ends(site, At(MaxRedirectHops)) => ~Broken(site, At(MaxRedirectHops).place)
    /\ \A n \in DOMAIN page.forms :
         page.forms[n].fields # <<>> /\ IsInjective(page.forms[n].fields) /\ "" \notin ToSet(page.forms[n].fields)
    /\ IsInjective(Routes(page))
    /\ \A link \in ToSet(Hrefs(page)) \cup ToSet(Actions(page)) : link.host \in {""} \cup ToSet(site.hosts)
    /\ page.bad \/ page.js => Hrefs(page) \o page.forms = <<>>
    /\ page.bad => ~page.js
-----------------------------------------------------------------------------
(* Statistics.  Durations are numbers; a quotient is kept as a pair.       *)

\* Ascending: at place k stands the sample that less than k are below, and not
\* less than k are at most.
AtMost(s, x) == Cardinality({k \in DOMAIN s : s[k] <= x})
Under(s, x) == Cardinality({k \in DOMAIN s : s[k] < x})
Sorted(s) == [k \in DOMAIN s |-> CHOOSE x \in ToSet(s) : k \in Under(s, x) + 1..AtMost(s, x)]
RankFloor(p, n) == (p * n) \div 100                     \* slip
Rank(p, n) == (p * n + 99) \div 100
Clamp(lo, x, hi) == IF x < lo THEN lo ELSE IF x > hi THEN hi ELSE x
Percentile(s, p) == IF s = <<>> THEN 0 ELSE Sorted(s)[Clamp(1, Rank(p, Len(s)), Len(s))]
MetricMedian(s) == Percentile(s, 50)
Abs(x) == IF x < 0 THEN -x ELSE x
MAD(s) == MetricMedian([k \in DOMAIN s |-> Abs(s[k] - MetricMedian(s))])
UpperMedian(s) == IF s = <<>> THEN 0 ELSE Sorted(s)[Len(s) \div 2 + 1]       \* RSS and RPS
MedianDuration(s) ==                                                        \* pairwise.go
  CASE s = <<>> -> 0
    [] s # <<>> /\ Len(s) % 2 = 1 -> Sorted(s)[Len(s) \div 2 + 1]
    [] OTHER -> (Sorted(s)[Len(s) \div 2] + Sorted(s)[Len(s) \div 2 + 1]) \div 2

Verdict(passed) ==
  LET n == Cardinality({k \in DOMAIN passed : passed[k]}) IN
  CASE Len(passed) = 0 -> "FAIL" [] n = Len(passed) /\ n > 0 -> "PASS"
    [] n = 0 /\ Len(passed) > 0 -> "FAIL" [] OTHER -> "FLAKY"

Wins(a, b) == Cardinality({p \in (DOMAIN a) \X (DOMAIN b) : a[p[1]] > b[p[2]]})
CliffsDelta(a, b) == <<Wins(a, b) - Wins(b, a), Len(a) * Len(b)>>
EffectLabel(d) ==
  CASE d[2] = 0 \/ 1000 * Abs(d[1]) < 147 * d[2] -> "negligible"
    [] 1000 * Abs(d[1]) < 330 * d[2] /\ 1000 * Abs(d[1]) >= 147 * d[2] -> "small"
    [] 1000 * Abs(d[1]) < 474 * d[2] /\ 1000 * Abs(d[1]) >= 330 * d[2] -> "medium"
    [] OTHER -> "large"

\* summarizeMissingPaths: samples are [passed, missing].
SummarizeMissing(samples) ==
  LET failing == {k \in DOMAIN samples : ~samples[k].passed}
      first == samples[CHOOSE k \in failing : \A j \in failing : k <= j].missing
      SameAsFirst(set) == Cardinality(set) = Cardinality(first) /\ set \subseteq first
  IN  [union |-> UNION {samples[k].missing : k \in failing},
       consistent |-> failing # {} /\ \A k \in failing : SameAsFirst(samples[k].missing)]

\* ComputeScalingRatios over points [scale, excluded, median].
Measured(points) == {k \in DOMAIN points : ~points[k].excluded}
ClassifyRatio(from, to) ==
  LET got == IF from.median <= 0 THEN 0 ELSE to.median * from.scale
      par == IF from.median <= 0 THEN 1 ELSE from.median * to.scale IN
  CASE 4 * got < 3 * par -> "sub-linear" [] 4 * got > 5 * par -> "super-linear" [] OTHER -> "roughly linear"
RatioAt(points, k) ==
  LET earlier == {j \in Measured(points) : j < k}
      prev == points[CHOOSE j \in earlier : \A i \in earlier : i <= j]
  IN  IF k \notin Measured(points) \/ earlier = {} THEN <<>>
      ELSE <<[from |-> prev.scale, to |-> points[k].scale, is |-> ClassifyRatio(prev, points[k])]>>
ScalingRatios(points) == FlattenSeq([k \in DOMAIN points |-> RatioAt(points, k)])

\* scoreAgainstGround: paths a tool reported against the ground truth.
Score(found, ground) ==
  [found |-> Cardinality(found \cap ground), extra |-> found \ ground, missing |-> ground \ found]
=============================================================================
