------------------------------ MODULE Algorithms ------------------------------
(***************************************************************************)
(* The program's sequential algorithms, each compared with a definition of *)
(* what it is for on every input of a small set.  A behaviour picks one    *)
(* input; the properties say what the operators of the modules below       *)
(* answer for it.  The one input that takes steps is a stream of events,   *)
(* which the goroutines of a crawl write concurrently (Writers).           *)
(***************************************************************************)
EXTENDS Session, OpenAPI, Writers, Lab

CONSTANTS
  Spellings,     \* URLs
  UrlCases,      \* [kind: "url", u: Spellings, strict, sortQuery]
  PageCases,     \* [kind: "page", page, seed, cfg]
  MapCases,      \* [kind: "map", map]
  SpecCases,     \* [kind: "spec", answers]
  EventCases,    \* [kind: "event", event]
  StreamCases,   \* [kind: "stream", todo]: the events each goroutine writes
  ArgsCases,     \* [kind: "args", args, fails]: a command line and what fails on the way
  LoginCases,    \* [kind: "login", account]
  SiteCases,     \* [kind: "site", site]
  SampleCases    \* [kind: "samples", a, b, runs, points]

\* What the inputs are, as far as the types of the modules below matter.
Sequence(s) == s \in Seq(ToSet(s))
IsUrl(u) ==
  /\ u = [scheme |-> u.scheme, host |-> u.host, port |-> u.port, path |-> u.path, query |-> u.query,
          upper |-> u.upper, frag |-> u.frag]
  /\ Sequence(u.host)
IsSpelling(u) ==
  /\ IsUrl(u) /\ Sequence(u.path)
  /\ Sequence(u.query) /\ ToSet(u.query) \subseteq Nat \X Nat
IsRef(r) ==
  /\ r.kind \in {"absent", "absolute", "net", "rooted", "relative", "fragment", "script", "placeholder", "unparsable"}
  /\ r.kind = "absolute" => IsUrl(r.url)
  /\ r.kind = "net" => Sequence(r.host)
IsPage(page) ==
  /\ IsUrl(page.final) /\ Sequence(page.elements) /\ Sequence(page.sockets)
  /\ \A e \in ToSet(page.elements) : IsRef(e.ref) /\ Sequence(e.data) /\ \A r \in ToSet(e.data) : IsRef(r)
  /\ \A r \in ToSet(page.sockets) \cup ToSet(page.script.chunks) : IsRef(r)
  /\ \A t \in ToSet(page.script.templates) : IsRef(t.ref)
  /\ \A s \in {page.script.templates, page.script.statics, page.script.suffixes, page.script.chunks} : Sequence(s)

IsEndpoint(e) == Sequence(e.url) /\ Sequence(e.query.items) /\ \A q \in ToSet(e.query.items) : Sequence(q)
IsDiscovery(d) ==
  /\ Sequence(d.url) /\ Sequence(d.params.items) /\ Sequence(d.base.items)
  /\ \A p \in ToSet(d.params.items) : Sequence(p.name) /\ Sequence(p.value)
  /\ \A b \in ToSet(d.base.items) : Sequence(b[1]) /\ Sequence(b[2])
IsPageEvent(e) ==
  /\ Sequence(e.url) /\ Sequence(e.final) /\ Sequence(e.chain.items) /\ Sequence(e.found.items)
  /\ \A h \in ToSet(e.chain.items) : Sequence(h.url)
  /\ \A d \in ToSet(e.found.items) : IsDiscovery(d)
IsEvent(e) ==
  /\ e.type \in EventTypes
  /\ e.type = "page" => IsPageEvent(e)
  /\ e.type = "error" => Sequence(e.url) /\ Sequence(e.error)
  /\ e.type = "openapi" => Sequence(e.endpoints.items) /\ \A p \in ToSet(e.endpoints.items) : IsEndpoint(p)
  /\ e.type = "summary" => Sequence(e.seed)

IsAccount(account) ==
  /\ Sequence(account.page.forms)
  /\ \A form \in ToSet(account.page.forms) : Sequence(form.inputs)

IsParams(params) == Sequence(params) /\ \A p \in ToSet(params) : ~p.nil
IsDocument(doc) ==
  /\ "" \notin DOMAIN doc.defs /\ Sequence(doc.items)
  /\ \A item \in ToSet(doc.items) :
       IsParams(item.params) /\ Sequence(item.ops) /\ \A op \in ToSet(item.ops) : IsParams(op.params)
IsAnswer(a) == a.status \in Nat /\ a.second \in Nat /\ IsDocument(a.doc)

IsSamples(s) == Sequence(s) /\ ToSet(s) \subseteq Nat
IsRuns(runs) ==
  Sequence(runs) /\ \A r \in ToSet(runs) : r.passed \in BOOLEAN /\ IsFiniteSet(r.missing)
IsLink(link) == link = Link(link.host, link.path, link.query)
IsForm(form) == IsLink(form.action) /\ Sequence(form.fields)
IsPageSpec(page) ==
  /\ Sequence(page.links) /\ Sequence(page.scripts) /\ Sequence(page.data)
  /\ Sequence(page.forms) /\ Sequence(page.endpoints)
  /\ IsLink(page.redirect) /\ \A link \in ToSet(Hrefs(page)) : IsLink(link)
  /\ \A form \in ToSet(page.forms) : IsForm(form)
  /\ page.js \in BOOLEAN /\ page.bad \in BOOLEAN /\ \A e \in ToSet(page.endpoints) : e.alpha \in BOOLEAN
IsSite(site) ==
  /\ Sequence(site.hosts) /\ site.hosts # <<>> /\ "80" \notin ToSet(site.hosts)
  /\ IsFiniteSet(DOMAIN site.pages)
  /\ \A place \in DOMAIN site.pages :
       place = <<place[1], place[2]>> /\ IsPageSpec(site.pages[place])
Ascending(points) ==
  /\ Sequence(points) /\ \A p \in ToSet(points) : p.scale \in Nat
  /\ \A j, k \in DOMAIN points : j < k => points[j].scale < points[k].scale

OfKind(cases, kind) == \A c \in cases : c.kind = kind

ASSUME AlgorithmsAssumption ==
  /\ OfKind(UrlCases, "url") /\ OfKind(PageCases, "page") /\ OfKind(MapCases, "map")
  /\ OfKind(SpecCases, "spec") /\ OfKind(EventCases, "event") /\ OfKind(StreamCases, "stream")
  /\ OfKind(ArgsCases, "args") /\ OfKind(LoginCases, "login") /\ OfKind(SiteCases, "site")
  /\ OfKind(SampleCases, "samples")
  /\ \A u \in Spellings : IsSpelling(u)
  /\ \A c \in UrlCases : IsSpelling(c.u) /\ c.strict \in BOOLEAN /\ c.sortQuery \in BOOLEAN
  /\ \A c \in StreamCases : StreamOfARun(c.todo)
  /\ \A c \in SpecCases : Sequence(c.answers) /\ \A a \in ToSet(c.answers) : IsAnswer(a)
  /\ \A c \in SampleCases : IsSamples(c.a) /\ IsSamples(c.b) /\ IsRuns(c.runs) /\ Ascending(c.points)
  /\ \A c \in EventCases : IsEvent(c.event)
  /\ \A c \in MapCases : Sequence(c.map.sources)
  /\ \A c \in ArgsCases : Sequence(c.args) /\ c.fails \subseteq Efforts
  /\ \A c \in SiteCases : IsSite(c.site)
  /\ \A c \in LoginCases : IsAccount(c.account)
  /\ \A c \in PageCases : IsPage(c.page) /\ IsUrl(c.seed) /\ \A d \in c.cfg.deny : Sequence(d)

IsCase(c) ==
  \/ c \in UrlCases \/ c \in PageCases \/ c \in MapCases \/ c \in SpecCases \/ c \in EventCases
  \/ c \in StreamCases \/ c \in ArgsCases \/ c \in LoginCases \/ c \in SiteCases \/ c \in SampleCases

VARIABLE input

Is(kind) == input.kind = kind

Init ==
  /\ IsCase(input)
  /\ WritersInit(IF Is("stream") THEN input.todo ELSE [g \in Goroutine |-> <<>>])

Finish == AllWritten /\ UNCHANGED writerVars
Next == (WritersNext \/ Finish) /\ UNCHANGED input
Spec == Init /\ [][Next]_<<input, writerVars>>
-----------------------------------------------------------------------------
(* URLs *)

NormalFormIsCanonical ==
  Is("url") => \A v \in Spellings : CanonicalFor(input.u, v, input.strict, input.sortQuery)
-----------------------------------------------------------------------------
(* Pages *)

Found == RunAll(Runs(input.page, TRUE))
Followed == Children(input.page, input.seed, input.cfg, 0, 1)

Written(page) ==
  {e.ref : e \in {x \in ToSet(page.elements) : x.tag # "base"}}
    \cup (UNION {ToSet(e.data) : e \in ToSet(page.elements)})
    \cup ToSet(page.sockets) \cup ToSet(page.script.chunks)
    \cup {t.ref : t \in ToSet(page.script.templates)}
WrittenHosts(page) ==
  {HostPort(r.url) : r \in {x \in Written(page) : x.kind = "absolute"}}
    \cup {<<r.host, "">> : r \in {x \in Written(page) : x.kind = "net"}}

\* A <base> that names another host never moves the page's relative links there:
\* what is discovered is on the host the page came from (after redirects), or on a
\* host one of its links spells out.
LinksStayOnTheirHost ==
  Is("page") =>
    \A k \in DOMAIN Found :
      LET u == Found[k].url IN
      u = NoUrl \/ u.scheme = "javascript" \/ HostPort(u) \in {HostPort(input.page.final)} \cup WrittenHosts(input.page)

UnderDomain(host, domain) ==
  \/ host = domain
  \/ \E n \in 1..Len(host) : host[n] = "." /\ SubSeq(host, n + 1, Len(host)) = domain

\* What is queued from a page belongs to the crawl, whatever the page, its base
\* and the redirect that led to it: under the same-origin policy the seed's
\* effective origin, with subdomains a host under the seed's, never a denied
\* domain (a literal IPv6 address without a port excepted, which StripPort cuts
\* short); and no URL is queued twice or is the page itself.
FollowedIsInScope ==
  Is("page") =>
    /\ \A k \in DOMAIN Followed :
         LET u == Followed[k] IN
         /\ input.cfg.sameOrigin /\ ~input.cfg.subdomains => Origin(u) = Origin(input.seed)
         /\ StripPort(u) = u.host =>
              /\ input.cfg.sameOrigin /\ input.cfg.subdomains => UnderDomain(u.host, Hostname(input.seed))
              /\ \A d \in input.cfg.deny : ~UnderDomain(u.host, d)
    /\ IsInjective(Followed)
    /\ FromParsed(input.page.requested, input.cfg.strict, input.cfg.sortQuery) \notin ToSet(Followed)
-----------------------------------------------------------------------------
(* Source maps *)

\* Recovered text is filed under the path of the source it belongs to, though
\* noise is left out, contents may be missing and paths may collide: the last one
\* that has text wins.
SourcesUnderTheirPaths ==
  Is("map") =>
    LET m == input.map
        Texts(p) == {k \in DOMAIN m.sources : /\ ~m.sources[k].noise /\ SourcePath(m, k) = p
                                              /\ k \in DOMAIN m.contents /\ m.contents[k] # ""}
    IN  \A p \in {SourcePath(m, k) : k \in DOMAIN m.sources} :
          IF Texts(p) = {} THEN p \notin DOMAIN Sources(m)
          ELSE \E k \in Texts(p) : /\ \A j \in Texts(p) : j <= k
                                   /\ p \in DOMAIN Sources(m) /\ Sources(m)[p] = m.contents[k]
-----------------------------------------------------------------------------
(* OpenAPI *)

Served(status) == status \in 1..399
CarriesSpec(a) ==
  /\ Served(a.status) /\ (a.html => a.embeds /\ Served(a.second))
  /\ a.doc.decodes /\ (a.doc.swagger \/ a.doc.openapi3 \/ a.doc.hasPaths)
Operations(doc) == UNION {{k} \X DOMAIN doc.items[k].ops : k \in DOMAIN doc.items}

\* The probe takes the first location that leads to a specification, itself or by
\* way of a page that embeds one; every operation in it is counted and reported
\* once, with the parameters the specification's rule gives it.
FirstSpecIsRead ==
  Is("spec") =>
    LET found == Discover(input.answers)
        carriers == {k \in DOMAIN input.answers : CarriesSpec(input.answers[k])}
    IN  IF carriers = {} THEN found = NoSpec
        ELSE \E k \in carriers :
               LET doc == input.answers[k].doc IN
               /\ found # NoSpec /\ \A j \in carriers : k <= j
               /\ Len(found[1]) = Cardinality(Operations(doc))
               /\ EndpointCount(input.answers) = Len(found[1])
               /\ \A o \in Operations(doc) :
                    LET item == doc.items[o[1]]
                        op == item.ops[o[2]]
                        Named(in) == {key[1] : key \in {x \in ParamKeys(doc, item, op) : x[2] = in}}
                    IN  /\ ParamsFollowTheRule(doc, item, op)
                        /\ \E e \in ToSet(found[1]) :
                             /\ <<e.path, e.method>> = <<item.path, op.method>>
                             /\ ToSet(e.pathParams) = Named("path") \ {""}
                             /\ ToSet(e.queryParams) = Named("query") \ {""}
-----------------------------------------------------------------------------
(* Events *)

Writable(e) == e.type = "summary" => "NaN" \notin {e.rate, e.useful}

\* "byte-exact compatibility with json.Marshal": runs between escapes are copied exactly once,
\* nil and empty differ, omitempty leaves out what is empty, commas stand between
\* fields whichever are left out; and an event that cannot be encoded leaves no
\* part of itself behind.
EncodingMatchesMarshal ==
  Is("event") =>
    Encode(input.event) = IF Writable(input.event) THEN Marshal(input.event) ELSE <<>>
-----------------------------------------------------------------------------
(* Before the crawl *)

\* Flags may stand anywhere among the words: a command line that says one thing,
\* read from left to right, starts that crawl and no other - of two headers of one
\* name the later one, a header without a colon none at all - if its options are
\* ones a crawl can work with, it asks for no version, and nothing it needs fails;
\* a flag left without its value at the end is the exception (ReorderArgs gives it
\* a word).  Whatever starts has workable options.
ArgsKeepTheirMeaning ==
  Is("args") =>
    LET said == Meant(input.args)
        got == Start(input.args, input.fails)
        Possible == LET o == OptionsFrom(said.settings) IN
                    /\ Workable(o) /\ SeedOf(said.seed).parses /\ SeedOf(said.seed).scheme # "ftp"
                    /\ ~said.settings["version"] /\ ~Fatal(input.fails, o["output"])
                    /\ o["include-subdomains"] => o["same-origin"]
    IN  /\ got.runs => Workable(got.options)
        /\ got.runs => ("console" \in ToSet(got.writers)) # ("records on stdout" \in ToSet(got.writers))
        /\ said.runs /\ Possible =>
             got.runs /\ got.seed = said.seed /\ got.options = OptionsFrom(said.settings)
        /\ got.runs /\ ~Trailing(input.args) => said.runs /\ Possible

\* The login form is answered with its hidden fields and the credentials; what the
\* login gave goes into every request of the crawl, over a header given under the
\* same name, while the cookies given win over those of the login; every other
\* header given is sent as it is.  Only where a header is given as "authorization"
\* can that one stand in a request for the Authorization of the login, or given:
\* the name is there, with one of the two values and no other (LoginAlwaysWins
\* says which of them was promised).
CredentialsReachRequests ==
  Is("login") =>
    LET account == input.account
        result == Login(account)
        given == account.flags.headers
        form == ParseLoginForm(account.page)
        fields == Submitted(form, account.flags)
        Sends(h, n, v) ==
          \/ h[n] = v
          \/ n = "Authorization" /\ OtherSpelling(account) /\ h[n] = given["authorization"]
    IN  /\ account.page.forms # <<>> =>
             /\ \A i \in ToSet(account.page.forms[1].inputs) :
                  i.hidden /\ i.name # "" => i.name \in DOMAIN fields
             /\ fields[account.flags.passField] = account.flags.pass
        /\ result.ok =>
             \A h \in Sent(account) :
               /\ \A n \in DOMAIN result.headers : n \in DOMAIN h /\ Sends(h, n, result.headers[n])
               /\ \A n \in DOMAIN given \ (DOMAIN result.headers \cup {"authorization"}) :
                    n \in DOMAIN h /\ (n # "Cookie" => Sends(h, n, given[n]))
               /\ OtherSpelling(account) => "Authorization" \in DOMAIN h
               /\ account.flags.cookies # "" => h["Cookie"] = <<account.flags.cookies>>
               /\ account.flags.cookies = "" /\ result.cookies # "" => h["Cookie"] = <<result.cookies>>
-----------------------------------------------------------------------------
(* The laboratory *)

CrawledPaths(site) == {k.path : k \in {x \in ToSet(Crawl(site).visited) : Good(site, x)}}
AsWritten(site) ==
  /\ Normalized(site, SeedKey(site)) = SeedKey(site)
  /\ \A place \in DOMAIN site.pages :
       LET page == site.pages[place] IN
       /\ page.data = <<>> /\ ~page.js
       /\ \A link \in ToSet(Hrefs(page)) \cup ToSet(Actions(page)) : Normalized(site, link) = link
Exact(score) == score.extra = {} /\ score.missing = {}

\* "the two can never drift apart": on the sites it is meant for, the oracle counts
\* what a crawl of the served site counts, duplicates, redirects and loops
\* included; and with links in normal form, the paths it asks of other tools are
\* exactly those a crawl reaches.
OracleFollowsEngine ==
  Is("site") /\ WellFormed(input.site) =>
    /\ Compute(input.site) = Crawl(input.site).counts
    /\ AsWritten(input.site) =>
         Exact(Score(CrawledPaths(input.site), DiscoverablePaths(input.site)))

NearestRank(s, p, x) == 100 * AtMost(s, x) >= p * Len(s) /\ 100 * Under(s, x) < p * Len(s)

\* The percentiles are nearest ranks for every number of runs, the deviation is
\* the median one, both medians divide the samples in half; one bad run among good
\* ones is FLAKY and never averaged away; the effect size is that of the other tool
\* reversed; a failure is deterministic when every failing run missed the same
\* paths; and growth is computed between neighbouring measured scales only.
StatisticsMatchDefinitions ==
  Is("samples") =>
    LET s == input.a
        t == input.b
        m == MetricMedian(s)
        runs == input.runs
        missing == SummarizeMissing(runs)
        bad == {k \in DOMAIN runs : ~runs[k].passed}
        passed == [k \in DOMAIN runs |-> runs[k].passed]
        measured == {k \in DOMAIN input.points : ~input.points[k].excluded}
        ratios == ScalingRatios(input.points)
    IN  /\ s # <<>> =>
             /\ \A p \in {50, 90, 95, 99} : NearestRank(s, p, Percentile(s, p))
             /\ NearestRank([k \in DOMAIN s |-> Abs(s[k] - m)], 50, MAD(s))
             /\ \A x \in {UpperMedian(s), MedianDuration(s)} :
                  2 * Under(s, x) <= Len(s) /\ 2 * AtMost(s, x) >= Len(s)
        /\ (Verdict(passed) = "FLAKY") = (bad # {} /\ bad # DOMAIN runs)
        /\ Verdict(passed) = "PASS" => bad = {} /\ runs # <<>>
        /\ CliffsDelta(s, t)[1] = -CliffsDelta(t, s)[1]
        /\ EffectLabel(CliffsDelta(s, t)) = EffectLabel(CliffsDelta(t, s))
        /\ s # <<>> /\ t # <<>> /\ (\A x \in ToSet(s), y \in ToSet(t) : x > y) => EffectLabel(CliffsDelta(s, t)) = "large"
        /\ missing.consistent = (bad # {} /\ \A j, k \in bad : runs[j].missing = runs[k].missing)
        /\ \A k \in bad : runs[k].missing \subseteq missing.union
        /\ Len(ratios) = IF measured = {} THEN 0 ELSE Cardinality(measured) - 1
        /\ \A r \in ToSet(ratios) :
             /\ r.from < r.to
             /\ ~\E k \in measured : input.points[k].scale \in r.from + 1..r.to - 1
=============================================================================
