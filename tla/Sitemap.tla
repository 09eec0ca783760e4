------------------------------- MODULE Sitemap -------------------------------
(***************************************************************************)
(* sitemap.Discover (internal/sitemap): the breadth-first expansion of a   *)
(* site's sitemaps, which Engine calls before it starts any worker.        *)
(*                                                                         *)
(* The site is fixed at the start and arbitrary: a document is an index of *)
(* documents, which may be cyclic, a list of locations, or broken (it      *)
(* cannot be fetched or parsed).  A location is named by its document and  *)
(* its place there.                                                        *)
(***************************************************************************)
EXTENDS Integers, Sequences, FiniteSets

CONSTANTS
  Doc, Fallback,    \* Fallback is /sitemap.xml
  Setting,          \* what Discover is given: [limit, docs], a limit of 0 being none
  MaxBody           \* bound: entries per document and Sitemap: lines in robots.txt

ASSUME SitemapAssumption ==
  /\ IsFiniteSet(Doc) /\ Fallback \in Doc
  /\ MaxBody \in Nat /\ Setting \subseteq [limit : Nat, docs : Nat]

Lists(S) == UNION {[1..n -> S] : n \in 0..MaxBody}
Index == [kind : {"index"}, body : Lists(Doc)]
UrlSet == [kind : {"urlset"}, size : 0..MaxBody]
Broken == [kind : {"broken"}]

VARIABLES
  site,      \* [Doc -> document]
  setting,   \* the limit, and maxSitemapDocs
  robots,    \* the documents robots.txt names; none if it is missing
  queue, i, seen, locs,
  fetched,   \* history: the documents requested, in order
  pc

Limit == setting.limit
Cap == setting.docs

vars == <<site, setting, robots, queue, i, seen, locs, fetched, pc>>

Init ==
  /\ site \in [Doc -> Index \cup UrlSet \cup Broken]
  /\ robots \in Lists(Doc) /\ setting \in Setting
  /\ queue = <<>> /\ i = 1 /\ seen = {} /\ locs = <<>> /\ fetched = <<>>
  /\ pc = "robots"

FromRobots ==
  /\ pc = "robots"
  /\ queue' = IF robots = <<>> THEN <<Fallback>> ELSE robots
  /\ pc' = "loop"
  /\ UNCHANGED <<site, setting, robots, i, seen, locs, fetched>>

NoDocCap == i <= Len(queue)                   \* slip: the loop follows the queue only
InQueue == i <= Len(queue) /\ i <= Cap + 1
LateLimit == Limit = 0 \/ Len(locs) <= Limit  \* slip: > for >=
BelowLimit == Limit = 0 \/ Len(locs) < Limit

Current == queue[i]

Skip ==
  /\ pc = "loop" /\ InQueue /\ BelowLimit
  /\ Current \in seen /\ i' = i + 1
  /\ UNCHANGED <<site, setting, robots, queue, seen, locs, fetched, pc>>

NotSeen == UNCHANGED seen                     \* slip: seen is never written
MarkSeen == seen' = seen \cup {Current}

Locations(d) == [k \in 1..site[d].size |-> <<d, k>>]

IndexInstead(d) == queue' = site[d].body /\ UNCHANGED locs   \* slip: = for append
ExpandIndex(d) == queue' = queue \o site[d].body /\ UNCHANGED locs

FetchDoc ==
  /\ pc = "loop" /\ InQueue /\ BelowLimit /\ Current \notin seen
  /\ MarkSeen /\ fetched' = Append(fetched, Current) /\ i' = i + 1
  /\ \/ site[Current].kind = "broken" /\ UNCHANGED <<queue, locs>>
     \/ site[Current].kind = "index" /\ ExpandIndex(Current)
     \/ site[Current].kind = "urlset" /\ locs' = locs \o Locations(Current) /\ UNCHANGED queue
  /\ UNCHANGED <<site, setting, robots, pc>>

Return ==
  /\ pc = "loop" /\ ~(InQueue /\ BelowLimit) /\ pc' = "done"
  /\ UNCHANGED <<site, setting, robots, queue, i, seen, locs, fetched>>

Next == FromRobots \/ Skip \/ FetchDoc \/ Return \/ (pc = "done" /\ UNCHANGED vars)

Spec == Init /\ [][Next]_vars /\ WF_vars(Next)
-----------------------------------------------------------------------------
Roots == IF robots = <<>> THEN {Fallback} ELSE {robots[k] : k \in DOMAIN robots}
Listed(d) == IF site[d].kind = "index" THEN {site[d].body[k] : k \in DOMAIN site[d].body} ELSE {}

\* The documents a walk along index entries reaches: the least closed set.
Reachable ==
  {d \in Doc : \A S \in SUBSET Doc :
     Roots \subseteq S /\ (\A e \in S : Listed(e) \subseteq S) => d \in S}

Fetched == {fetched[k] : k \in DOMAIN fetched}
Found == {locs[k] : k \in DOMAIN locs}
LocsOf(d) == IF site[d].kind = "urlset" THEN {<<d, k>> : k \in 1..site[d].size} ELSE {}

TypeOK ==
  /\ robots \in Lists(Doc) /\ queue \in Seq(Doc) /\ i \in 1..Cap + 2
  /\ seen \subseteq Doc /\ locs \in Seq(Doc \X (1..MaxBody)) /\ fetched \in Seq(Doc)
  /\ pc \in {"robots", "loop", "done"}

\* A cyclic or repeated index asks for no document twice, no location is
\* reported twice, and nothing outside the reachable documents is asked for.
EachDocumentOnce ==
  /\ Cardinality(Fetched) = Len(fetched) /\ Cardinality(Found) = Len(locs)
  /\ Fetched \subseteq Reachable

\* The walk that neither the limit nor the document cap cut short has found every
\* location of every reachable document, whatever the order and the cycles.
FindsEverything ==
  pc = "done" /\ BelowLimit /\ i > Len(queue) =>
    /\ Fetched = Reachable
    /\ Found = UNION {LocsOf(d) : d \in Reachable}

\* Requests stay bounded however large or self-referential the site's indexes, and
\* the limit is overshot by the document that reached it at most.
OvershootIsOneDocument ==
  /\ Len(fetched) <= Cap + 1
  /\ Limit > 0 /\ fetched # <<>> =>
       Cardinality({l \in Found : l[1] # fetched[Len(fetched)]}) < Limit

\* "limit caps locations returned"
LimitCapsLocations == pc = "done" /\ Limit > 0 => Len(locs) <= Limit

\* "expanding a sitemap index one level"
OneLevelOnly == Fetched \subseteq Roots \cup UNION {Listed(d) : d \in Roots}
=============================================================================
