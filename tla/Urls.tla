-------------------------------- MODULE Urls --------------------------------
(***************************************************************************)
(* URLs as the crawl sees them: the canonical form used as the key of the  *)
(* visited set (internal/normalize) and the policies that decide what is   *)
(* followed (internal/scope, composed by engine.New).                      *)
(*                                                                         *)
(* A URL is a record of what net/url makes of it: hosts and paths are      *)
(* sequences of characters, "%2F" and "%61" standing for the escaped slash *)
(* and letter; upper says that scheme or host are not in lower case; frag  *)
(* that there is a fragment; a query is a sequence of <<key, value>>, keys *)
(* being numbers, and one with the key 0 does not parse.  A host that is   *)
(* a bracketed IPv6 literal starts with "[".                               *)
(***************************************************************************)
EXTENDS Integers, Sequences, FiniteSets, SequencesExt, TLC

NoQuery == <<>>
Url(scheme, host, port, path) ==
  [scheme |-> scheme, host |-> host, port |-> port, path |-> path,
   query |-> NoQuery, upper |-> FALSE, frag |-> FALSE]

DefaultPort(scheme) == CASE scheme = "http" -> "80" [] scheme = "https" -> "443" [] OTHER -> ""
EffectivePort(u) == IF u.port = "" THEN DefaultPort(u.scheme) ELSE u.port
Origin(u) == <<u.scheme, u.host, EffectivePort(u)>>
-----------------------------------------------------------------------------
(* internal/normalize                                                      *)

\* url.URL.Path holds the path unescaped.
Unescaped(path) ==
  [k \in DOMAIN path |-> CASE path[k] = "%2F" -> "/" [] path[k] = "%61" -> "a" [] OTHER -> path[k]]

KeepsSlash(path) == path     \* slip: the trailing slashes stay
TrimSlashes(path) ==
  SubSeq(path, 1, CHOOSE n \in 0..Len(path) :
                    /\ \A k \in n + 1..Len(path) : path[k] = "/"
                    /\ n = 0 \/ path[n] # "/")
CanonicalPath(path) ==
  LET trimmed == TrimSlashes(path) IN IF trimmed = <<>> THEN <<"/">> ELSE trimmed

StripDefaultPort(u) == IF u.port = DefaultPort(u.scheme) THEN "" ELSE u.port

\* Keys in order, and the values of a key in order: a parameter stands behind all
\* that come before it, as often as it was given.
Before(p, q) == p[1] < q[1] \/ (p[1] = q[1] /\ p[2] < q[2])
Malformed(query) == \E k \in DOMAIN query : query[k][1] = 0
Smaller(pair, query) == Cardinality({k \in DOMAIN query : Before(query[k], pair)})
Occurs(pair, query) == Cardinality({k \in DOMAIN query : query[k] = pair})
InOrder(query) ==
  [i \in DOMAIN query |->
     CHOOSE pair \in ToSet(query) : i \in Smaller(pair, query) + 1..Smaller(pair, query) + Occurs(pair, query)]
SortQuery(query) == IF Malformed(query) THEN query ELSE InOrder(query)

FromParsed(u, strict, sortQuery) ==
  [u EXCEPT !.upper = FALSE, !.frag = FALSE,
            !.port = IF strict THEN StripDefaultPort(u) ELSE u.port,
            !.path = CanonicalPath(Unescaped(u.path)),
            !.query = IF sortQuery THEN SortQuery(u.query) ELSE u.query]
-----------------------------------------------------------------------------
(* internal/scope, and the choice of policies in engine.New.  A policy     *)
(* setting is a record [sameOrigin, subdomains, allow, deny, include,      *)
(* exclude]; include and exclude stand for the URLs their patterns match.  *)

\* Case is folded, ports are compared as written.
ExactOrigin(u, seed) ==
  u.scheme = seed.scheme /\ u.host = seed.host /\ u.port = seed.port

AnySuffix(host, domain) == IsSuffix(domain, host)     \* slip: no dot before the domain
MatchesDomain(host, domain) == host = domain \/ IsSuffix(<<".">> \o domain, host)

\* stripPort cuts at the last colon, which in a bare IPv6 literal is its own.
StripPort(u) == IF u.port = "" /\ u.host # <<>> /\ u.host[1] = "[" THEN <<"[">> ELSE u.host
\* url.URL.Hostname takes the brackets off.
Hostname(u) == IF u.host # <<>> /\ u.host[1] = "[" THEN SubSeq(u.host, 2, Len(u.host) - 1) ELSE u.host

Subdomain(u, root) == MatchesDomain(StripPort(u), root)

AllowDeny(u, allow, deny) ==
  /\ \A d \in deny : ~MatchesDomain(StripPort(u), d)
  /\ allow = {} \/ \E d \in allow : MatchesDomain(StripPort(u), d)

Patterns(u, include, exclude) == u \notin exclude /\ (include = {} \/ u \in include)

\* CompositeScope over the policies engine.New lists.
InScope(u, seed, cfg) ==
  /\ cfg.sameOrigin /\ cfg.subdomains => Subdomain(u, Hostname(seed))
  /\ cfg.sameOrigin /\ ~cfg.subdomains => ExactOrigin(u, seed)
  /\ AllowDeny(u, cfg.allow, cfg.deny)
  /\ Patterns(u, cfg.include, cfg.exclude)
-----------------------------------------------------------------------------
(* What the canonical form is for, said without computing one.             *)

SamePath(p, q) ==
  LET OnlySlashesMore(x, y) ==
        IsPrefix(x, y) /\ \A k \in Len(x) + 1..Len(y) : y[k] = "/"
  IN  OnlySlashesMore(Unescaped(p), Unescaped(q)) \/ OnlySlashesMore(Unescaped(q), Unescaped(p))

SameParams(p, q) ==
  IF Malformed(p) \/ Malformed(q) THEN p = q
  ELSE \A pair \in ToSet(p) \cup ToSet(q) : Occurs(pair, p) = Occurs(pair, q)

SameResource(u, v, strict, sortQuery) ==
  /\ IF strict THEN Origin(u) = Origin(v)
               ELSE <<u.scheme, u.host, u.port>> = <<v.scheme, v.host, v.port>>
  /\ SamePath(u.path, v.path)
  /\ IF sortQuery THEN SameParams(u.query, v.query) ELSE u.query = v.query

\* Two spellings get one canonical form exactly when they name one resource: the
\* same effective origin (the same literal one in legacy mode), the same path but
\* for trailing slashes, the same parameters in any order; and the form is stable,
\* so that a URL that comes back normalized is recognised as seen.
CanonicalFor(u, v, strict, sortQuery) ==
  LET N(x) == FromParsed(x, strict, sortQuery) IN
  /\ (N(u) = N(v)) = SameResource(u, v, strict, sortQuery)
  /\ N(N(u)) = N(u)

\* "Package normalize canonicalizes URLs before dedup and scope checks": then
\* what is in scope would not depend on the spelling.
ScopeFollowsCanonicalForm(u, seed, cfg, strict, sortQuery) ==
  InScope(u, seed, cfg) = InScope(FromParsed(u, strict, sortQuery), seed, cfg)

\* The escaped slash is no separator, so the canonical form should keep it.
KeepsEscapedSlash(u, strict, sortQuery) ==
  "%2F" \in ToSet(u.path) => "%2F" \in ToSet(FromParsed(u, strict, sortQuery).path)
=============================================================================
