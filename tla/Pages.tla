-------------------------------- MODULE Pages --------------------------------
(***************************************************************************)
(* From a fetched page to the URLs that are queued: the base URL and the   *)
(* extractor registry (engine/pipeline.go, extract), the source map behind *)
(* a script (internal/sourcemap), and maybeEnqueueChild.                   *)
(*                                                                         *)
(* A document is the sequence of its elements in document order; what a    *)
(* regular expression matches in a script is given as the matches.  A      *)
(* reference is what an attribute holds, Absent if it is missing or blank. *)
(***************************************************************************)
EXTENDS Urls, Folds

Absent == [kind |-> "absent"]
Absolute(u) == [kind |-> "absolute", url |-> u]
OnHost(host, path) == [kind |-> "net", host |-> host, path |-> path]    \* //host/path
Rooted(path) == [kind |-> "rooted", path |-> path]
Relative(path) == [kind |-> "relative", path |-> path]
Fragment == [kind |-> "fragment"]
Script == [kind |-> "script"]                                           \* javascript:, mailto:
Placeholder == [kind |-> "placeholder"]                                 \* {...}
Unparsable == [kind |-> "unparsable"]

Folder(path) ==
  SubSeq(path, 1, CHOOSE n \in 0..Len(path) :
                    /\ \A k \in n + 1..Len(path) : path[k] # "/"
                    /\ n = 0 \/ path[n] = "/")

\* url.URL.ResolveReference without the fragment.
Resolve(base, ref) ==
  LET At(path) == [base EXCEPT !.path = path, !.query = NoQuery, !.frag = FALSE] IN
  CASE ref.kind = "absolute" -> [ref.url EXCEPT !.frag = FALSE]
    [] ref.kind = "net" -> [At(ref.path) EXCEPT !.host = ref.host, !.port = ""]
    [] ref.kind = "rooted" -> At(ref.path)
    [] ref.kind = "relative" -> At(Folder(base.path) \o ref.path)
    [] ref.kind = "placeholder" -> At(Folder(base.path) \o <<"{">>)
    [] ref.kind = "fragment" -> [base EXCEPT !.frag = FALSE]
    [] ref.kind = "script" -> Url("javascript", <<>>, "", <<>>)
Resolves(ref) == ref.kind \notin {"absent", "unparsable"}

HostPort(u) == <<u.host, u.port>>
OriginRoot(u, path) == Url(u.scheme, u.host, u.port, path)

AnyBase(page, resolved) == TRUE      \* slip: a <base> on another host is believed
TrustsBase(page, resolved) == HostPort(resolved) = HostPort(page.final)

HasDoc(page) == page.type = "html" /\ page.elements # <<>>
BaseURL(page) ==
  LET bases == {k \in DOMAIN page.elements : page.elements[k].tag = "base" /\ page.elements[k].ref.kind # "absent"}
      ref == page.elements[Min(bases)].ref
  IN  IF /\ HasDoc(page) /\ bases # {}
         /\ Resolves(ref) /\ TrustsBase(page, Resolve(page.final, ref))
        THEN Resolve(page.final, ref) ELSE page.final
-----------------------------------------------------------------------------
(* The extractors.  A discovery has a URL or NoUrl.                        *)

\* A Go map, with the entries of another, or one more, written into it.
Over(new, map) ==
  [k \in DOMAIN new \cup DOMAIN map |-> IF k \in DOMAIN new THEN new[k] ELSE map[k]]
Entry(key, value) == [k \in {key} |-> value]

NoUrl == Url("", <<>>, "", <<>>)
Discovery(kind, url) == [kind |-> kind, url |-> url, method |-> "", params |-> <<>>]

FlatMap(Op(_), s) == FlattenSeq([k \in DOMAIN s |-> Op(s[k])])

Skippable(ref) == ref.kind \in {"script", "fragment"}
LinkTags == {"a", "link", "script", "img", "iframe", "button", "meta"}
SkippingTags == {"a", "link", "iframe", "button"}

LinkExtractor(page, base) ==
  LET Add(ref) == IF Resolves(ref) THEN <<Discovery("link", Resolve(base, ref))>> ELSE <<>>
      Own(e) ==
        CASE e.tag \in LinkTags /\ ~(e.tag \in SkippingTags /\ Skippable(e.ref)) -> Add(e.ref)
          [] e.tag = "code" -> <<Discovery("code_path", OriginRoot(base, e.ref.path))>>
          [] OTHER -> <<>>
      Data(e) ==
        FlatMap(LAMBDA ref : IF Skippable(ref) \/ ref = Placeholder THEN <<>> ELSE Add(ref), e.data)
  IN  FlatMap(LAMBDA e : Own(e) \o Data(e), page.elements)

\* selectValue: the last selected option, or else the first that has a value.
Picked(options) ==
  LET chosen == SelectSeq(options, LAMBDA o : o.selected)
      valued == SelectSeq(options, LAMBDA o : o.value # "")
  IN  CASE chosen # <<>> /\ Last(chosen).value # "" -> Last(chosen).value
        [] valued # <<>> -> valued[1].value
        [] OTHER -> ""

Value(f) ==
  CASE f.type = "select" -> Picked(f.options)
    [] f.type = "textarea" -> IF f.required THEN "default" ELSE ""
    [] OTHER -> IF f.value = "" /\ f.required THEN "default" ELSE f.value

NeverSent == {"button", "image", "reset"}
Replayed == {"submit", "hidden"}
FormParams(fields) ==
  LET params[k \in 0..Len(fields)] ==
        IF k = 0 THEN <<>>
        ELSE IF fields[k].name = "" \/ fields[k].type \in NeverSent \cup Replayed THEN params[k - 1]
        ELSE Over(Entry(fields[k].name, Value(fields[k])), params[k - 1])
  IN  params[Len(fields)]

FormExtractor(page, base) ==
  LET Form(e) ==
        IF e.tag # "form" \/ FormParams(e.fields) = <<>> THEN <<>>
        ELSE <<[Discovery("form", IF Resolves(e.ref) THEN Resolve(base, e.ref) ELSE base)
                  EXCEPT !.method = e.method, !.params = FormParams(e.fields)]>>
  IN  FlatMap(Form, page.elements)

\* The path last assigned to each variable.
VarBases(assigned) == FoldLeft(LAMBDA known, a : (a.var :> a.path) @@ known, <<>>, assigned)

\* Templates, static paths with their "/1" variants, variable bases with
\* suffixes, each method and URL once; then the chunks.
JSEndpointExtractor(page, base) ==
  LET js == page.script
      Hit(m, u) == [Discovery("link", u) EXCEPT !.method = m]
      Template(t) ==
        <<Hit(t.method, IF t.ref.kind = "absolute" THEN t.ref.url ELSE OriginRoot(base, t.ref.path))>>
      Static(s) ==
        <<Hit(s.method, OriginRoot(base, s.path))>>
          \o IF s.alpha THEN <<Hit(s.method, OriginRoot(base, s.path \o <<"/", "1">>))>> ELSE <<>>
      bases == VarBases(js.assigned)
      Suffix(s) == IF s.var \in DOMAIN bases
                     THEN <<Hit(s.method, OriginRoot(base, bases[s.var] \o s.path))>> ELSE <<>>
      hits == FlatMap(Template, js.templates) \o FlatMap(Static, js.statics)
                \o FlatMap(Suffix, js.suffixes)
      Fresh(k) == \A j \in 1..k - 1 : hits[j] # hits[k]
      Chunk(ref) == IF Resolves(ref) THEN <<Discovery("link", Resolve(base, ref))>> ELSE <<>>
  IN  FlatMap(LAMBDA k : IF Fresh(k) THEN <<hits[k]>> ELSE <<>>, [k \in DOMAIN hits |-> k])
        \o FlatMap(Chunk, js.chunks)

WebSocketExtractor(page, base) ==
  LET Scheme == IF base.scheme = "https" THEN "wss" ELSE "ws"
      Address(ref) == IF ref.kind = "absolute" THEN ref.url
                      ELSE [OriginRoot(base, ref.path) EXCEPT !.scheme = Scheme]
      Fresh(k) == \A j \in 1..k - 1 : Address(page.sockets[j]) # Address(page.sockets[k])
  IN  FlatMap(LAMBDA k : IF Fresh(k) THEN <<Discovery("ws_url", Address(page.sockets[k]))>> ELSE <<>>,
              [k \in DOMAIN page.sockets |-> k])
-----------------------------------------------------------------------------
(* internal/sourcemap: the comment in the script's last bytes names a map, *)
(* which is inline or fetched.  A map lists its sources; contents may be   *)
(* fewer, or empty.                                                        *)

MapFails(map) ==
  \/ map.where = "inline" /\ ~map.base64
  \/ map.where = "remote" /\ (map.status >= 400 \/ map.status = 0)
  \/ ~map.json

SourcePath(map, k) == map.root \o map.sources[k].path      \* joinSourceRoot
HasText(map, k) == k \in DOMAIN map.contents /\ map.contents[k] # ""

ByRank(result, k) == Len(result.mapping) + 1               \* slip: the rank among the kept ones
ByIndex(result, k) == k

\* parse's loop: the source k is kept under its path, unless it is noise, and so
\* is its text if there is any.
Recover(map, result, k) ==
  LET path == SourcePath(map, k)
      text == ByIndex(result, k)
      filed == [p \in DOMAIN result.sources \cup {path} |->
                  IF p = path THEN map.contents[text] ELSE result.sources[p]]
  IN  IF map.sources[k].noise THEN result
      ELSE [mapping |-> Append(result.mapping, path),
            sources |-> IF HasText(map, text) THEN filed ELSE result.sources]
Parse(map) ==
  LET after[k \in 0..Len(map.sources)] ==
        IF k = 0 THEN [mapping |-> <<>>, sources |-> <<>>] ELSE Recover(map, after[k - 1], k)
  IN  after[Len(map.sources)]
Sources(map) == Parse(map).sources

SourceMapExtractor(page) ==
  IF page.map.where = "none" \/ MapFails(page.map) \/ Sources(page.map) = <<>> THEN <<>>
  ELSE <<Discovery("source_map", NoUrl)>>
-----------------------------------------------------------------------------
(* Registry.RunAll and the engine.                                         *)

\* The extractors that apply; only the source map's can fail.
Runs(page, recoverMaps) ==
  LET base == BaseURL(page)
      html == page.type = "html"
      js == page.type = "javascript"
      Run(applies, found) == IF applies THEN <<[found |-> found, failed |-> FALSE]>> ELSE <<>>
  IN  Run(html, IF HasDoc(page) THEN LinkExtractor(page, base) ELSE <<>>)
        \o Run(html, IF HasDoc(page) THEN FormExtractor(page, base) ELSE <<>>)
        \o Run(js, JSEndpointExtractor(page, base))
        \o Run(html \/ js, WebSocketExtractor(page, base))
        \o IF js /\ recoverMaps
             THEN <<[found |-> SourceMapExtractor(page),
                     failed |-> page.map.where # "none" /\ MapFails(page.map)]>>
             ELSE <<>>

RunAll(runs) == FlatMap(LAMBDA r : IF r.failed THEN <<>> ELSE r.found, runs)

AfterNormalizing(u, seed, cfg, norm) == TRUE      \* slip: the scope is not asked
ChecksScope(u, seed, cfg, norm) == InScope(u, seed, cfg)

\* maybeEnqueueChild, and over a page's discoveries: the URLs pushed, in order.
Offered(queue, d, seed, cfg, seen) ==
  LET norm == FromParsed(d.url, cfg.strict, cfg.sortQuery) IN
  IF \/ d.url = NoUrl \/ ~ChecksScope(d.url, seed, cfg, norm) \/ norm \in seen \cup ToSet(queue)
    THEN queue ELSE Append(queue, norm)
Enqueued(discoveries, seed, cfg, seen) ==
  LET after[n \in 0..Len(discoveries)] ==
        IF n = 0 THEN <<>> ELSE Offered(after[n - 1], discoveries[n], seed, cfg, seen)
  IN  after[Len(discoveries)]

Children(page, seed, cfg, depth, maxDepth) ==
  IF depth >= maxDepth THEN <<>>
  ELSE Enqueued(RunAll(Runs(page, cfg.recoverMaps)), seed, cfg,
                {FromParsed(page.requested, cfg.strict, cfg.sortQuery)})
=============================================================================
