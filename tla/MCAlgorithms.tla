----------------------------- MODULE MCAlgorithms -----------------------------
(* Small inputs for Algorithms. *)
EXTENDS Algorithms

\* Hosts: the site, one below it, one whose name only ends like it, and a literal
\* IPv6 address.
Site == <<"s", ".", "c">>
Sub == <<"w", ".", "s", ".", "c">>
Lookalike == <<"w", "s", ".", "c">>
V6 == <<"[", "1", "]">>

Slashes == {<<>>, <<"/">>, <<"/", "/">>}
Stems == {<<>>, <<"/", "a">>, <<"/", "%61">>, <<"/", "a", "%2F", "a">>, <<"/", "a", "/", "a">>}
Queries == {<<>>, <<<<1, 1>>, <<2, 1>>>>, <<<<2, 1>>, <<1, 1>>>>, <<<<1, 2>>, <<1, 1>>>>,
            <<<<1, 1>>, <<1, 1>>>>, <<<<2, 1>>, <<0, 1>>>>}
Spelt ==
  {[Url(s, Site, p, stem \o tail) EXCEPT !.query = q, !.upper = up, !.frag = up] :
     s \in {"http", "https"}, p \in {"", "80", "443"},
     stem \in Stems, tail \in Slashes, q \in {<<>>}, up \in {FALSE}}
  \cup {[Url("http", h, p, <<"/", "a">>) EXCEPT !.query = q, !.upper = up, !.frag = fr] :
     h \in {Site, V6}, p \in {"", "80"}, q \in Queries, up \in BOOLEAN, fr \in BOOLEAN}
Urls1 == {[kind |-> "url", u |-> u, strict |-> s, sortQuery |-> q] :
            u \in Spelt, s \in BOOLEAN, q \in BOOLEAN}

Home == Url("http", Site, "", <<"/", "a">>)
Seeds == {Home, Url("http", Site, "8080", <<"/">>), Url("https", Site, "", <<>>)}
Finals == {Home, Url("http", Lookalike, "", <<"/", "b">>), Url("https", Site, "8080", <<"/", "b", "/", "c">>)}

Refs == {Absent, Absolute(Url("http", Site, "80", <<"/", "b">>)), Absolute(Url("https", Site, "", <<"/">>)),
         Absolute(Url("http", Sub, "", <<"/", "b">>)), Absolute(Url("http", Lookalike, "", <<"/">>)),
         Absolute(Url("ws", Site, "", <<"/">>)),
         OnHost(Lookalike, <<"/", "b">>), Rooted(<<"/", "b", "/">>), Relative(<<"b">>), Fragment, Script,
         Placeholder, Unparsable}
BaseRefs == {Absent, Unparsable, Absolute(Url("http", <<"e", ".", "c">>, "", <<"/">>)),
             Absolute(Url("http", Site, "", <<"/", "x", "/">>)), Rooted(<<"/", "y", "/">>)}
Element(tag, ref) == [tag |-> tag, ref |-> ref, data |-> <<>>]
Field(name, type, value, required) ==
  [name |-> name, type |-> type, value |-> value, required |-> required, options |-> <<>>]
Forms == {Element("form", ref) @@ [method |-> "POST", fields |-> fs] :
            ref \in {Absent, Unparsable, Rooted(<<"/", "b">>), Absolute(Url("http", Sub, "", <<"/">>))},
            fs \in {<<>>, <<Field("q", "text", "", TRUE), Field("t", "hidden", "v", FALSE)>>,
                    <<Field("q", "text", "", FALSE), Field("q", "textarea", "", TRUE),
                      Field("go", "submit", "v", FALSE), Field("s", "select", "", FALSE)>>}}
OneOf(S) == UNION {{<<e>>, <<Element("a", Rooted(<<"/", "b">>)), e>>} : e \in S}
Bodies == OneOf({Element(t, r) : t \in {"a", "iframe", "img", "meta"}, r \in Refs} \cup Forms
                  \cup {Element("code", Rooted(<<"/", "b", "/", "c">>))}
                  \cup {[Element("div", Absent) EXCEPT !.data = <<r, Placeholder>>] : r \in Refs})

NoScript == [templates |-> <<>>, statics |-> <<>>, assigned |-> <<>>, suffixes |-> <<>>, chunks |-> <<>>]
Scripts ==
  {[templates |-> ts, statics |-> ss, assigned |-> <<[var |-> "v", path |-> <<"/", "b">>]>>,
    suffixes |-> <<[method |-> "GET", var |-> v, path |-> <<"/", "c">>]>>, chunks |-> <<Relative(<<"k">>)>>] :
     ts \in {<<>>, <<[method |-> "PUT", ref |-> Absolute(Url("http", Lookalike, "", <<"/">>))],
                     [method |-> "GET", ref |-> Rooted(<<"/", "b">>)]>>},
     ss \in {<<>>, <<[method |-> "GET", path |-> <<"/", "b">>, alpha |-> TRUE],
                     [method |-> "GET", path |-> <<"/", "b">>, alpha |-> TRUE]>>},
     v \in {"v", "u"}}

Map(where, base64, status, json, root, sources, contents) ==
  [where |-> where, base64 |-> base64, status |-> status, json |-> json, root |-> root,
   sources |-> sources, contents |-> contents]
NoMap == Map("none", TRUE, 0, TRUE, <<>>, <<>>, <<>>)
Source(p, noise) == [path |-> <<p>>, noise |-> noise]
SourceLists == UNION {[1..n -> {Source(p, z) : p \in {"p", "q"}, z \in BOOLEAN}] : n \in 0..3}
Contents == UNION {[1..n -> {"", "t", "u"}] : n \in 0..3}
Maps == {Map(w, b, st, js, <<"r">>, <<Source("p", FALSE)>>, <<"t">>) :
           w \in {"inline", "remote"}, b \in BOOLEAN, st \in {0, 200, 404}, js \in BOOLEAN}
Maps1 == {[kind |-> "map", map |-> Map("inline", TRUE, 0, TRUE, <<"r">>, ss, cs)] :
            ss \in SourceLists, cs \in Contents}

Page(type, final, elements, script, sockets, map) ==
  [type |-> type, requested |-> Home, final |-> final, elements |-> elements, script |-> script,
   sockets |-> sockets, map |-> map]
Socket == <<Absolute(Url("wss", Site, "", <<"/">>)), Rooted(<<"/", "w">>), Rooted(<<"/", "w">>)>>
HtmlPages == {Page("html", f, <<Element("base", b)>> \o body, NoScript, Socket, NoMap) :
                f \in Finals, b \in BaseRefs, body \in Bodies}
JsPages == {Page("javascript", f, <<>>, js, Socket, m) : f \in Finals, js \in Scripts, m \in Maps}
OtherPages == {Page("other", f, <<Element("a", Rooted(<<"/", "b">>))>>, NoScript, Socket, NoMap) : f \in Finals}

Scope(same, sub, allow, deny) ==
  [sameOrigin |-> same, subdomains |-> sub, allow |-> allow, deny |-> deny, include |-> {},
   exclude |-> {}, strict |-> TRUE, sortQuery |-> FALSE, recoverMaps |-> TRUE]
Scopes == {Scope(TRUE, FALSE, {}, {}), Scope(TRUE, TRUE, {}, {<<"w", ".", "s", ".", "c">>}),
           [Scope(FALSE, FALSE, {}, {Site}) EXCEPT !.strict = FALSE],
           [Scope(TRUE, TRUE, {Site}, {}) EXCEPT !.exclude = {Url("http", Site, "", <<"/", "b">>)}]}
\* Every body under a base, and every base for one body.
TriedPages == JsPages \cup OtherPages
  \cup {Page("html", f, <<Element("base", Absolute(Url("http", Site, "", <<"/", "x", "/">>)))>> \o b, NoScript, <<>>, NoMap) :
          f \in Finals, b \in Bodies}
  \cup {Page("html", f, <<Element("base", b), Element("base", Rooted(<<"/">>)), Element("a", Relative(<<"b">>))>>,
             NoScript, Socket, NoMap) : f \in Finals, b \in BaseRefs}
Pages1 == {[kind |-> "page", page |-> p, seed |-> s, cfg |-> c] :
             p \in TriedPages, s \in Seeds, c \in Scopes}
-----------------------------------------------------------------------------
P(name, in, properties) ==
  [ref |-> "", nil |-> FALSE, name |-> name, in |-> in, properties |-> <<>>,
   schema |-> [ref |-> "", nil |-> FALSE, properties |-> properties]]
Ref(r) == [P("", "", <<>>) EXCEPT !.ref = r]
Defs == [r \in {"id", "body"} |-> IF r = "id" THEN P("id", "path", <<"shared">>)
                                  ELSE [ref |-> "", nil |-> FALSE, properties |-> <<"p", "q">>]]
Ps == {P("id", "path", <<"own">>), P("q", "query", <<>>), P("id", "query", <<>>), Ref("id"), Ref("nowhere"),
       [P("body", "body", <<>>) EXCEPT !.schema = Ref("body")], P("f", "formData", <<>>)}
ParamLists == UNION {[1..n -> Ps] : n \in 0..2}
Body(content) == [ref |-> "", nil |-> FALSE, content |-> content]
SomeSchema == [ref |-> "", nil |-> FALSE, properties |-> <<"p">>]
ReqBodies == {NilObject, Body(<<>>), Body("application/json" :> Ref("body")),
              Body(("application/json" :> NilObject) @@ ("text/xml" :> SomeSchema)),
              Body(("text/xml" :> SomeSchema) @@ ("form" :> Ref("body")))}
Op(method, params, body) == [method |-> method, params |-> params, body |-> body]
Doc(decodes, swagger, three, items) ==
  [decodes |-> decodes, swagger |-> swagger, openapi3 |-> three, hasPaths |-> items # <<>>,
   base |-> "/v2", servers |-> <<[path |-> "/v3"]>>, defs |-> Defs, items |-> items]
ItemOf(path, params, ops) == [path |-> path, params |-> params, ops |-> ops]
Docs == {Doc(d, s, t, items) : d \in BOOLEAN, s \in BOOLEAN, t \in BOOLEAN,
         items \in {<<>>, <<ItemOf("/a", <<>>, <<>>)>>,
                    <<ItemOf("/a", <<Ref("id")>>, <<Op("GET", <<>>, NilObject), Op("POST", <<P("q", "query", <<>>)>>, Body(<<>>))>>),
                      ItemOf("/b", <<>>, <<Op("GET", <<P("id", "path", <<>>)>>, NilObject)>>)>>}}
Location(status, html, embeds, second, doc) ==
  [status |-> status, html |-> html, embeds |-> embeds, second |-> second, doc |-> doc]
Locations == {Location(s, h, e, t, d) : s \in {0, 200, 404}, h \in BOOLEAN, e \in BOOLEAN, t \in {0, 200, 400},
              d \in {x \in Docs : x.decodes /\ ~x.openapi3}}
Last2 == {Location(200, FALSE, FALSE, 0, d) : d \in Docs}
Specs1 == {[kind |-> "spec", answers |-> <<Location(200, FALSE, FALSE, 0,
              Doc(TRUE, v2, ~v2, <<ItemOf("/a", pp, <<Op("GET", op, b)>>)>>))>>] :
             v2 \in BOOLEAN, pp \in ParamLists, op \in ParamLists, b \in {Body("application/json" :> Ref("body"))}}
  \cup {[kind |-> "spec", answers |-> <<Location(200, FALSE, FALSE, 0,
              Doc(TRUE, FALSE, TRUE, <<ItemOf("/a", <<>>, <<Op("GET", <<>>, b)>>)>>))>>] : b \in ReqBodies}
  \cup {[kind |-> "spec", answers |-> <<a, b>>] : a \in Locations, b \in Last2}
-----------------------------------------------------------------------------
Chars == {"x", "quote", "linesep", "invalid"}
Strings == UNION {[1..n -> Chars] : n \in 0..3}
Few == {<<>>, <<"x", "<", "x">>}
ListsOf(S) == {Nil} \cup {Slice(s) : s \in UNION {[1..n -> S] : n \in 0..2}}
Found1 == {[url |-> <<"x">>, params |-> p, base |-> b] :
             p \in ListsOf({[name |-> <<"x">>, value |-> <<"&">>]}),
             b \in ListsOf({<<<<"x">>, <<"tab">>>>})}
PageEvents == {[type |-> "page", url |-> u, final |-> f, status |-> "200", truncated |-> t, chain |-> c,
                found |-> d, retries |-> r] :
               u \in {<<"x">>}, f \in Few, t \in BOOLEAN,
               c \in ListsOf({[url |-> <<"backslash">>, status |-> "302"]}), d \in ListsOf(Found1),
               r \in {"0", "1"}}
Events1 == {[kind |-> "event", event |-> e] : e \in
  PageEvents
  \cup {[type |-> "error", url |-> s, error |-> t, retries |-> r] : s \in Strings, t \in Few, r \in {"0", "1"}}
  \cup {[type |-> "openapi", endpoints |-> es] : es \in ListsOf({[url |-> u, query |-> q] : u \in Few, q \in ListsOf(Few)})}
  \cup {[type |-> "summary", seed |-> s, partial |-> p, requests |-> "3", rate |-> x, useful |-> y] :
          s \in Few, p \in BOOLEAN, x \in {"1.5", "NaN"}, y \in {"0", "NaN"}}}

PageOf(u) == CHOOSE e \in PageEvents : e.url = <<"x">> /\ e.final = u /\ e.chain = Nil /\ e.found = Nil
ErrorOf(u) == [type |-> "error", url |-> u, error |-> <<"x">>, retries |-> "0"]
ApiOf(u) == [type |-> "openapi", endpoints |-> Slice(<<[url |-> u, query |-> Nil]>>)]
SummaryOf(x) == [type |-> "summary", seed |-> <<"x">>, partial |-> FALSE, requests |-> "3", rate |-> x, useful |-> "0"]
\* The pages and errors of two workers; the run's goroutine reports the API.
Streams == {[kind |-> "stream", todo |-> [g \in {"one", "two", "main"} |->
               CASE g = "one" -> es [] g = "two" -> fs [] OTHER -> <<ApiOf(<<"x">>), SummaryOf(x)>>]] :
              es \in {<<PageOf(<<>>), PageOf(<<>>)>>, <<ErrorOf(<<"x">>), PageOf(<<>>)>>},
              fs \in {<<PageOf(<<"x", "<", "x">>)>>, <<ErrorOf(<<>>), ErrorOf(<<"x">>)>>}, x \in {"1.5", "NaN"}}
-----------------------------------------------------------------------------
Word(w) == [dashes |-> 0, name |-> w, eq |-> FALSE, value |-> ""]
Flag(f) == [dashes |-> 1, name |-> f, eq |-> FALSE, value |-> ""]
FlagIs(f, v) == [dashes |-> 2, name |-> f, eq |-> TRUE, value |-> v]
Args == {Word("http://s"), Word("5"), Word("ftp://s"), Flag(""), Flag("1"), Flag("per-host-concurrency"),
         FlagIs("concurrency", "1"), Flag("same-origin"), FlagIs("same-origin", "false"), Flag("legacy-mode"),
         Flag("delay"), Flag("output"), [Flag("") EXCEPT !.dashes = 2], Flag("unknown")}
HeaderArgs == {Flag("header"), FlagIs("header", "X: 1"), Word(" X:2"), Word("Y:1"), Word("5")}
ArgSeqs ==
  UNION {[1..n -> Args] : n \in 0..3}
  \cup {<<Word("http://s"), Flag(f)>> \o rest : f \in {"per-host-concurrency", "delay", "output", "include-subdomains"},
          rest \in [1..3 -> {Flag("1"), Flag("legacy-mode"), FlagIs("same-origin", "false"), Flag("output"), Word("5")}]}
  \cup {<<Flag("header")>> \o rest : rest \in [1..2 -> {Word("http://s"), Word("X: 1"), Flag("version")}]}
  \cup {<<Word("http://s")>> \o rest : rest \in [1..4 -> HeaderArgs]}
Failing == {<<Word("http://s"), FlagIs("output", o)>> : o \in {"", "-", "5"}}
ArgLists == {[kind |-> "args", args |-> a, fails |-> {}] : a \in ArgSeqs}
  \cup {[kind |-> "args", args |-> a, fails |-> s] : a \in Failing, s \in SUBSET Efforts}

LoginForm(action, method, inputs) == [action |-> action, method |-> method, inputs |-> inputs]
Input(name, hidden) == [name |-> name, hidden |-> hidden, value |-> "h"]
Inputs == {<<>>, <<Input("csrf", TRUE), Input("user", FALSE)>>, <<Input("pass", TRUE), Input("", TRUE)>>}
LoginPages == {[answers |-> a, final |-> Home, forms |-> fs] : a \in BOOLEAN,
  fs \in {<<>>} \cup {<<LoginForm(r, m, i), LoginForm(Absent, "", <<Input("csrf", TRUE)>>)>> :
          r \in {Absent, Rooted(<<"/", "b">>)}, m \in {"", "GET"}, i \in Inputs}}
LoginAnswers == {[answers |-> a, cookies |-> c, token |-> t] : a \in BOOLEAN, c \in {"", "sid"},
  t \in {<<"missing", "missing">>, <<"no string", "t2">>, <<"t1", "t2">>}}
GivenHeaders == {<<>>, "X" :> <<"given">>, ("Authorization" :> <<"given">>) @@ ("Cookie" :> <<"own">>),
                 ("authorization" :> <<"given">>) @@ ("X" :> <<"own">>)}
LoginFlags == {[loginURL |-> l, user |-> u, userField |-> "user", pass |-> "p", passField |-> "pass",
                tokenURL |-> t, basic |-> b, headers |-> h, cookies |-> c] :
  l \in BOOLEAN, u \in {"", "u"}, t \in BOOLEAN, b \in {"", "u:p"}, h \in GivenHeaders, c \in {"", "c"}}
Accounts == {[kind |-> "login", account |-> [page |-> p, answer |-> a, flags |-> f]] :
  p \in LoginPages, a \in LoginAnswers,
  f \in {y \in LoginFlags : y.loginURL /\ y.user = "u" /\ ~y.tokenURL /\ y.basic = ""}}
  \cup {[kind |-> "login", account |-> [page |-> p, answer |-> a, flags |-> f]] :
  p \in {CHOOSE x \in LoginPages : x.answers /\ x.forms # <<>>}, a \in LoginAnswers, f \in LoginFlags}
-----------------------------------------------------------------------------
At1(path) == Link("", path, NoQuery)
Root1 == <<"/">>
PA == <<"/", "a">>
LinkCases == {At1(Root1), At1(PA), At1(<<"/", "a", "/">>), At1(<<"/", "no">>), At1(<<"/", "r">>),
              At1(<<"/", "l">>), At1(<<"/", "js">>), At1(<<"/", "bad">>), Link("g", PA, NoQuery),
              Link("", PA, <<<<2, 1>>, <<1, 1>>>>), Link("", PA, <<<<1, 1>>, <<2, 1>>>>)}
Form1 == [action |-> At1(<<"/", "r">>), fields |-> <<"p", "q">>]
Endpoint(path, alpha) == [method |-> "GET", path |-> path, alpha |-> alpha]
SiteOf(hosts, ls, aPage, cfg) ==
  [hosts |-> hosts, seed |-> Root1, maxDepth |-> cfg.depth, sameOrigin |-> cfg.same, strict |-> TRUE,
   sortQuery |-> cfg.sort,
   pages |-> (<<"h", Root1>> :> [Plain EXCEPT !.links = ls]) @@ (<<"h", PA>> :> aPage)
     @@ (<<"h", <<"/", "r">>>> :> [Plain EXCEPT !.redirect = At1(PA)])
     @@ (<<"h", <<"/", "l">>>> :> [Plain EXCEPT !.redirect = At1(<<"/", "m">>)])
     @@ (<<"h", <<"/", "m">>>> :> [Plain EXCEPT !.redirect = At1(<<"/", "l">>)])
     @@ (<<"h", <<"/", "bad">>>> :> [Plain EXCEPT !.bad = TRUE])
     @@ (<<"h", <<"/", "js">>>> :> [Plain EXCEPT !.js = TRUE, !.endpoints = <<Endpoint(PA, TRUE), Endpoint(<<"/", "x">>, FALSE)>>])
     @@ (IF Len(hosts) = 1 THEN <<>> ELSE (<<"g", PA>> :> [Plain EXCEPT !.links = <<At1(PA), Link("h", Root1, NoQuery)>>]))]
APages == {Plain, [Plain EXCEPT !.status = 500],
           [Plain EXCEPT !.links = <<At1(Root1)>>, !.scripts = <<At1(<<"/", "js">>)>>, !.forms = <<Form1, Form1>>],
           [Plain EXCEPT !.data = <<At1(<<"/", "no">>)>>, !.links = <<Link("g", PA, NoQuery)>>]}
SiteCfgs == {[depth |-> d, same |-> s, sort |-> q] : d \in {1, 3}, s \in BOOLEAN, q \in BOOLEAN}
Sites1 == {[kind |-> "site", site |-> SiteOf(h, ls, a, c)] : h \in {<<"h">>, <<"h", "g">>},
             ls \in {<<l>> : l \in LinkCases} \cup {<<At1(<<"/", "r">>), l, At1(PA)>> : l \in LinkCases}, a \in APages, c \in SiteCfgs}

Durations == UNION {[1..n -> 0..2] : n \in 0..4}
Long == {[k \in 1..n |-> (k * 7) % 11] : n \in 5..40}
Run1(p, m) == [passed |-> p, missing |-> IF p THEN {} ELSE m]
RunLists == UNION {[1..n -> {Run1(TRUE, {}), Run1(FALSE, {"x"}), Run1(FALSE, {"y"}), Run1(FALSE, {"x", "y"})}] : n \in 0..3}
Points == {[k \in 1..3 |-> [scale |-> 10 * k, excluded |-> e[k], median |-> 2 * k]] : e \in [1..3 -> BOOLEAN]}
SomePoints == CHOOSE p \in Points : TRUE
Samples1 == {[kind |-> "samples", a |-> a, b |-> b, runs |-> <<>>, points |-> SomePoints] :
               a \in Durations \cup Long, b \in {<<>>, <<1>>, <<0, 2, 1>>}}
  \cup {[kind |-> "samples", a |-> <<>>, b |-> <<>>, runs |-> r, points |-> p] : r \in RunLists, p \in Points}
=============================================================================
