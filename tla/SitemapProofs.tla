---------------------------- MODULE SitemapProofs ----------------------------
(***************************************************************************)
(* Theorems about Sitemap, for every finite set of documents, every site   *)
(* over it, cyclic ones included, and any limits.                          *)
(***************************************************************************)
EXTENDS Sitemap, SequenceTheorems, FiniteSetTheorems, TLAPS

Ran(s) == {s[k] : k \in DOMAIN s}
Location == Doc \X (Nat \ {0})

SitemapTypes ==
  /\ site \in [Doc -> Index \cup UrlSet \cup Broken]
  /\ robots \in Seq(Doc) /\ setting \in Setting
  /\ queue \in Seq(Doc) /\ i \in Nat \ {0} /\ seen \subseteq Doc
  /\ locs \in Seq(Location) /\ fetched \in Seq(Doc)
  /\ pc \in {"robots", "loop", "done"}

\* What has been asked for, and what that gave.
Asked == seen = Fetched /\ Cardinality(Fetched) = Len(fetched) /\ Fetched \subseteq Reachable
Gathered ==
  Found = UNION {LocsOf(d) : d \in seen} /\ IsFiniteSet(Found) /\ Cardinality(Found) = Len(locs)

\* The queue has all that is known to exist, and its front has been asked for.
Front ==
  /\ Ran(queue) \subseteq Reachable
  /\ pc # "robots" => Roots \subseteq Ran(queue) /\ \A d \in seen : Listed(d) \subseteq Ran(queue)
  /\ pc = "robots" => i = 1 /\ seen = {} /\ fetched = <<>>
  /\ \A k \in DOMAIN queue : k < i => queue[k] \in seen

Bounded == Len(fetched) < i /\ i <= Cap + 2
Overshoot ==
  Limit > 0 /\ fetched # <<>> =>
    Cardinality({l \in Found : l[1] # fetched[Len(fetched)]}) < Limit

SInv == SitemapTypes /\ Asked /\ Gathered /\ Front /\ Bounded /\ Overshoot
-----------------------------------------------------------------------------
(* Sequences and their elements. *)

LEMMA RanAppend ==
  ASSUME NEW S, NEW s \in Seq(S), NEW x \in S
  PROVE  Ran(Append(s, x)) = Ran(s) \cup {x}
<1> DEFINE t == Append(s, x)
<1>1. /\ t \in Seq(S) /\ Len(t) = Len(s) + 1 /\ Len(s) \in Nat
      /\ \A k \in 1..Len(s) : t[k] = s[k]
      /\ t[Len(s) + 1] = x
  BY AppendProperties, LenProperties
<1>2. DOMAIN s = 1..Len(s) /\ DOMAIN t = 1..Len(t)
  BY <1>1, LenProperties
<1> HIDE DEF t
<1>3. 1..Len(t) = (1..Len(s)) \cup {Len(s) + 1}
  BY <1>1
<1>4. Ran(t) = Ran(s) \cup {x}
  BY <1>1, <1>2, <1>3 DEF Ran
<1> QED BY <1>4 DEF t

LEMMA RanConcat ==
  ASSUME NEW S, NEW s \in Seq(S), NEW t \in Seq(S)
  PROVE  Ran(s \o t) = Ran(s) \cup Ran(t)
<1> DEFINE u == s \o t
<1>1. /\ u \in Seq(S) /\ Len(u) = Len(s) + Len(t)
      /\ \A k \in 1..Len(s) + Len(t) : u[k] = IF k <= Len(s) THEN s[k] ELSE t[k - Len(s)]
  BY ConcatProperties
<1>2. /\ DOMAIN s = 1..Len(s) /\ DOMAIN t = 1..Len(t) /\ DOMAIN u = 1..Len(u)
      /\ Len(s) \in Nat /\ Len(t) \in Nat
  BY <1>1, LenProperties
<1> HIDE DEF u
<1>3. \A k \in 1..Len(s) : k \in 1..Len(s) + Len(t) /\ u[k] = s[k]
  BY <1>1, <1>2
<1>4. ASSUME NEW k \in 1..Len(t) PROVE Len(s) + k \in 1..Len(s) + Len(t) /\ u[Len(s) + k] = t[k]
  <2>1. Len(s) + k \in 1..Len(s) + Len(t) /\ ~(Len(s) + k <= Len(s)) /\ (Len(s) + k) - Len(s) = k
    BY <1>2
  <2> QED BY <1>1, <2>1
<1>5. ASSUME NEW k \in 1..Len(s) + Len(t) PROVE u[k] \in Ran(s) \cup Ran(t)
  <2>1. CASE k <= Len(s)
    BY <1>1, <1>2, <1>5, <2>1 DEF Ran
  <2>2. CASE ~(k <= Len(s))
    <3>1. k - Len(s) \in 1..Len(t) /\ u[k] = t[k - Len(s)]
      BY <1>1, <1>2, <1>5, <2>2
    <3> QED BY <1>2, <3>1 DEF Ran
  <2> QED BY <2>1, <2>2
<1>6. Ran(s) \subseteq Ran(u)
  BY ONLY <1>1, <1>2, <1>3 DEF Ran
<1>7. Ran(t) \subseteq Ran(u)
  BY ONLY <1>1, <1>2, <1>4 DEF Ran
<1>8. Ran(u) \subseteq Ran(s) \cup Ran(t)
  <2>1. DOMAIN u = 1..Len(s) + Len(t)
    BY <1>1, <1>2
  <2> QED BY ONLY <2>1, <1>5 DEF Ran
<1> QED BY <1>6, <1>7, <1>8 DEF u

LEMMA RanEmpty == Ran(<<>>) = {}
BY EmptySeq DEF Ran

\* A document's locations are as many as its size says.
LEMMA LocationCount ==
  ASSUME NEW d, NEW n \in Nat
  PROVE  LET L == {<<d, k>> : k \in 1..n} IN IsFiniteSet(L) /\ Cardinality(L) = n
<1> DEFINE L == {<<d, k>> : k \in 1..n}
           f == [k \in 1..n |-> <<d, k>>]
<1>1. f \in Bijection(1..n, L)
  <2>1. f \in [1..n -> L]
    OBVIOUS
  <2>2. \A j, k \in 1..n : f[j] = f[k] => j = k
    OBVIOUS
  <2>3. \A l \in L : \E k \in 1..n : f[k] = l
    OBVIOUS
  <2> QED BY <2>1, <2>2, <2>3 DEF Bijection, Injection, Surjection, IsInjective
<1>2. ExistsBijection(1..n, L)
  BY <1>1 DEF ExistsBijection
<1>3. IsFiniteSet(1..n) /\ Cardinality(1..n) = n
  BY FS_Interval
<1> QED BY <1>2, <1>3, FS_Bijection

\* The body of an index, and what site and setting are made of.
LEMMA ListsAreSeqs == ASSUME NEW S, NEW s \in Lists(S) PROVE s \in Seq(S)
BY SitemapAssumption, SeqDef DEF Lists, SitemapAssumption

LEMMA Documents ==
  ASSUME SitemapTypes, NEW d \in Doc
  PROVE  /\ site[d].kind = "index" => site[d].body \in Seq(Doc)
         /\ site[d].kind = "urlset" => site[d].size \in Nat
         /\ Limit \in Nat /\ Cap \in Nat
<1>1. site[d].kind = "index" => site[d] \in Index
  BY DEF SitemapTypes, Index, UrlSet, Broken
<1>2. site[d].kind = "urlset" => site[d] \in UrlSet
  BY DEF SitemapTypes, Index, UrlSet, Broken
<1>3. site[d].kind = "index" => site[d].body \in Seq(Doc)
  BY <1>1, ListsAreSeqs DEF Index
<1>4. site[d].kind = "urlset" => site[d].size \in Nat
  BY <1>2, SitemapAssumption DEF UrlSet, SitemapAssumption
<1>5. Limit \in Nat /\ Cap \in Nat
  BY SitemapAssumption DEF SitemapTypes, SitemapAssumption, Limit, Cap
<1> QED BY <1>3, <1>4, <1>5
-----------------------------------------------------------------------------
(***************************************************************************)
(* The walk along index entries.                                           *)
(***************************************************************************)
LEMMA ReachableClosed ==
  ASSUME SitemapTypes
  PROVE  /\ Roots \subseteq Reachable
         /\ \A d \in Reachable : Listed(d) \subseteq Reachable
<1>1. Roots \subseteq Doc
  BY SitemapAssumption, ElementOfSeq, LenProperties DEF Roots, SitemapTypes, SitemapAssumption
<1>2. Roots \subseteq Reachable
  BY <1>1 DEF Reachable
<1>3. ASSUME NEW d \in Reachable, NEW e \in Listed(d) PROVE e \in Reachable
  <2>1. d \in Doc
    BY DEF Reachable
  <2>2. e \in Doc
    BY <1>3, <2>1, Documents, ElementOfSeq, LenProperties DEF Listed
  <2>3. ASSUME NEW S \in SUBSET Doc, Roots \subseteq S, \A x \in S : Listed(x) \subseteq S PROVE e \in S
    BY <1>3, <2>3 DEF Reachable
  <2> QED BY <2>2, <2>3 DEF Reachable
<1> QED BY <1>2, <1>3

\* A closed set of documents that has the roots has everything.
LEMMA ReachableLeast ==
  ASSUME NEW S \in SUBSET Doc, Roots \subseteq S, \A d \in S : Listed(d) \subseteq S
  PROVE  Reachable \subseteq S
BY DEF Reachable

LEMMA SiteStays ==
  ASSUME UNCHANGED <<site, setting, robots>>
  PROVE  /\ Reachable' = Reachable /\ Roots' = Roots
         /\ Limit' = Limit /\ Cap' = Cap
         /\ \A d : Listed(d)' = Listed(d) /\ LocsOf(d)' = LocsOf(d)
<1>1. Roots' = Roots /\ \A d : Listed(d)' = Listed(d) /\ LocsOf(d)' = LocsOf(d)
  BY DEF Roots, Listed, LocsOf
<1>2. Reachable' = Reachable
  BY <1>1 DEF Reachable
<1> QED BY <1>1, <1>2 DEF Limit, Cap

LEMMA SitemapStart == Init => SInv
<1> SUFFICES ASSUME Init PROVE SInv
  OBVIOUS
<1>1. /\ queue = <<>> /\ i = 1 /\ seen = {} /\ locs = <<>> /\ fetched = <<>> /\ pc = "robots"
      /\ robots \in Seq(Doc) /\ setting \in Setting /\ site \in [Doc -> Index \cup UrlSet \cup Broken]
  BY ListsAreSeqs DEF Init
<1>2. Len(<<>>) = 0 /\ Ran(<<>>) = {} /\ Cardinality({}) = 0 /\ IsFiniteSet({}) /\ DOMAIN <<>> = {}
  BY EmptySeq, RanEmpty, FS_EmptySet
<1>3. SitemapTypes
  BY <1>1, EmptySeq DEF SitemapTypes
<1>4. Fetched = {} /\ Found = {}
  BY <1>1, <1>2 DEF Fetched, Found
<1>5. Asked /\ Gathered
  BY <1>1, <1>2, <1>4 DEF Asked, Gathered
<1>6. Front
  BY <1>1, <1>2 DEF Front
<1>7. Cap \in Nat
  BY <1>1, SitemapAssumption DEF SitemapAssumption, Cap
<1>8. Bounded /\ Overshoot
  BY <1>1, <1>2, <1>7 DEF Bounded, Overshoot
<1> QED BY <1>3, <1>5, <1>6, <1>8 DEF SInv

LEMMA FromRobotsStep == ASSUME SInv, FromRobots PROVE SInv'
<1>1. /\ pc = "robots" /\ pc' = "loop" /\ queue' = IF robots = <<>> THEN <<Fallback>> ELSE robots
      /\ UNCHANGED <<site, setting, robots, i, seen, locs, fetched>>
  BY DEF FromRobots
<1>2. queue' \in Seq(Doc)
  BY <1>1, SitemapAssumption DEF SInv, SitemapTypes, SitemapAssumption
<1>3. SitemapTypes'
  BY <1>1, <1>2 DEF SInv, SitemapTypes
<1>4. Ran(queue') = Roots
  BY <1>1 DEF Ran, Roots
<1>5. i = 1 /\ seen = {} /\ fetched = <<>>
  BY <1>1 DEF SInv, Front
<1>6. Fetched' = Fetched /\ Found' = Found
  BY <1>1 DEF Fetched, Found
<1>7. Asked' /\ Gathered' /\ Bounded' /\ Overshoot'
  BY <1>1, <1>5, <1>6, SiteStays DEF SInv, Asked, Gathered, Bounded, Overshoot
<1>8. Front'
  <2>1. Ran(queue') \subseteq Reachable'
    BY <1>1, <1>4, SiteStays, ReachableClosed DEF SInv
  <2>2. Roots' \subseteq Ran(queue')
    BY <1>1, <1>4, SiteStays
  <2>3. \A k \in DOMAIN queue' : ~(k < 1)
    BY <1>2, LenProperties
  <2> QED BY <1>1, <1>5, <2>1, <2>2, <2>3 DEF Front, Ran
<1> QED BY <1>3, <1>7, <1>8 DEF SInv

\* A step that only moves along the queue, or ends the loop.
LEMMA MovesOn ==
  ASSUME SInv, pc = "loop", pc' \in {"loop", "done"}, i' \in {i, i + 1},
         i' = i + 1 => InQueue /\ Current \in seen,
         UNCHANGED <<site, setting, robots, queue, seen, locs, fetched>>
  PROVE  SInv'
<1>1. SitemapTypes'
  BY DEF SInv, SitemapTypes
<1>2. Fetched' = Fetched /\ Found' = Found
  BY DEF Fetched, Found
<1>3. Asked' /\ Gathered' /\ Overshoot'
  BY <1>2, SiteStays DEF SInv, Asked, Gathered, Overshoot
<1>4. i \in Nat /\ Cap \in Nat /\ Len(fetched) \in Nat
  BY SitemapAssumption, LenProperties DEF SInv, SitemapTypes, SitemapAssumption, Cap
<1>5. Bounded'
  <2>1. i' = i + 1 => i <= Cap + 1
    BY DEF InQueue
  <2>2. Len(fetched) < i /\ i <= Cap + 2 /\ Cap' = Cap
    BY SiteStays DEF SInv, Bounded
  <2> QED BY <1>4, <2>1, <2>2 DEF Bounded
<1>6. \A k \in DOMAIN queue' : k < i' => queue'[k] \in seen'
  <2>1. \A k \in DOMAIN queue : k \in Nat /\ (k < i => queue[k] \in seen)
    BY LenProperties DEF SInv, SitemapTypes, Front
  <2>2. CASE i' = i
    BY <2>1, <2>2
  <2>3. CASE i' = i + 1
    <3>1. queue[i] \in seen
      BY <2>3 DEF Current
    <3> QED BY <1>4, <2>1, <2>3, <3>1
  <2> QED BY <2>2, <2>3
<1>7. Front'
  BY <1>6, SiteStays DEF SInv, Front, Ran
<1> QED BY <1>1, <1>3, <1>5, <1>7 DEF SInv

LEMMA SkipStep == ASSUME SInv, Skip PROVE SInv'
BY MovesOn DEF Skip

LEMMA ReturnStep == ASSUME SInv, Return PROVE SInv'
<1>1. i' = i /\ i \in Nat
  BY DEF Return, SInv, SitemapTypes
<1> QED BY <1>1, MovesOn DEF Return
-----------------------------------------------------------------------------
(* The document at the front of the queue is asked for and read.           *)

LEMMA FetchDocStep == ASSUME SInv, FetchDoc PROVE SInv'
<1> DEFINE d == Current
<1>1. /\ pc = "loop" /\ pc' = "loop" /\ i' = i + 1 /\ seen' = seen \cup {d} /\ d \notin seen
      /\ fetched' = Append(fetched, d) /\ InQueue /\ BelowLimit
      /\ UNCHANGED <<site, setting, robots>>
  BY DEF FetchDoc, MarkSeen
<1>2. \/ site[d].kind = "broken" /\ queue' = queue /\ locs' = locs
      \/ site[d].kind = "index" /\ queue' = queue \o site[d].body /\ locs' = locs
      \/ site[d].kind = "urlset" /\ queue' = queue /\ locs' = locs \o Locations(d)
  BY DEF FetchDoc, ExpandIndex
<1>3. /\ i \in Nat \ {0} /\ queue \in Seq(Doc) /\ fetched \in Seq(Doc) /\ locs \in Seq(Location)
      /\ Len(queue) \in Nat /\ DOMAIN queue = 1..Len(queue) /\ Len(fetched) \in Nat /\ Len(locs) \in Nat
  BY LenProperties DEF SInv, SitemapTypes
<1>4. i \in DOMAIN queue /\ d = queue[i]
  BY <1>1, <1>3 DEF InQueue, Current
<1>5. d \in Doc /\ d \in Ran(queue)
  BY <1>3, <1>4, ElementOfSeq DEF Ran
<1> HIDE DEF d
<1>6. /\ site[d].kind = "index" => site[d].body \in Seq(Doc)
      /\ site[d].kind = "urlset" => site[d].size \in Nat
      /\ Limit \in Nat /\ Cap \in Nat
  BY <1>5, Documents DEF SInv
<1>7. queue' \in Seq(Doc) /\ Ran(queue') = Ran(queue) \cup Listed(d)
  <2>1. site[d].kind = "index" => Listed(d) = Ran(site[d].body)
    BY DEF Listed, Ran
  <2>2. site[d].kind # "index" => Listed(d) = {}
    BY DEF Listed
  <2>3. CASE site[d].kind = "index"
    <3> DEFINE b == site[d].body
    <3>1. b \in Seq(Doc) /\ queue' = queue \o b /\ Listed(d) = Ran(b)
      BY <1>2, <1>6, <2>1, <2>3
    <3> HIDE DEF b
    <3> QED BY <1>3, <3>1, RanConcat, ConcatProperties
  <2>4. CASE site[d].kind # "index"
    BY <1>2, <1>3, <2>2, <2>4
  <2> QED BY <2>3, <2>4
<1>8. Len(queue') \in Nat /\ DOMAIN queue' = 1..Len(queue') /\ \A k \in DOMAIN queue : queue'[k] = queue[k]
  <2>1. Len(queue') \in Nat /\ DOMAIN queue' = 1..Len(queue')
    BY <1>7, LenProperties
  <2>2. CASE site[d].kind = "index"
    <3> DEFINE b == site[d].body
    <3>1. b \in Seq(Doc) /\ Len(b) \in Nat /\ queue' = queue \o b
      BY <1>2, <1>6, <2>2, LenProperties
    <3> HIDE DEF b
    <3>2. \A k \in 1..Len(queue) + Len(b) : queue'[k] = IF k <= Len(queue) THEN queue[k] ELSE b[k - Len(queue)]
      BY <1>3, <3>1, ConcatProperties
    <3>3. \A k \in 1..Len(queue) : k \in 1..Len(queue) + Len(b) /\ k <= Len(queue)
      BY <1>3, <3>1
    <3> QED BY <1>3, <2>1, <3>2, <3>3
  <2>3. CASE site[d].kind # "index"
    BY <1>2, <2>1, <2>3
  <2> QED BY <2>2, <2>3
<1>9. fetched' \in Seq(Doc) /\ Len(fetched') = Len(fetched) + 1 /\ fetched' # <<>>
      /\ fetched'[Len(fetched')] = d
  BY <1>1, <1>3, <1>5, AppendProperties
<1>10. Fetched' = Fetched \cup {d}
  <2>1. Fetched = Ran(fetched) /\ Fetched' = Ran(fetched')
    BY DEF Fetched, Ran
  <2> QED BY <1>1, <1>3, <1>5, <2>1, RanAppend
<1>11. Asked'
  <2>1. Fetched = seen /\ seen \subseteq Doc
    BY DEF SInv, Asked, SitemapTypes
  <2>2. IsFiniteSet(Fetched)
    BY <2>1, SitemapAssumption, FS_Subset DEF SitemapAssumption
  <2>3. Cardinality(Fetched') = Cardinality(Fetched) + 1
    BY <1>1, <1>10, <2>1, <2>2, FS_AddElement
  <2>4. Fetched' \subseteq Reachable'
    BY <1>1, <1>5, <1>10, SiteStays DEF SInv, Asked, Front
  <2> QED BY <1>1, <1>9, <1>10, <2>1, <2>3, <2>4 DEF SInv, Asked
<1>12. locs' \in Seq(Location) /\ Found' = Found \cup LocsOf(d) /\ IsFiniteSet(LocsOf(d))
       /\ Len(locs') = Len(locs) + Cardinality(LocsOf(d))
  <2>1. CASE site[d].kind = "urlset"
    <3> DEFINE n == site[d].size
               L == Locations(d)
    <3>1. n \in Nat /\ L = [k \in 1..n |-> <<d, k>>] /\ locs' = locs \o L
      BY <1>2, <1>6, <2>1 DEF Locations
    <3>2. LocsOf(d) = {<<d, k>> : k \in 1..n}
      BY <2>1 DEF LocsOf
    <3> HIDE DEF n, L
    <3>3. L \in Seq(Location) /\ Len(L) = n
      <4>1. L \in [1..n -> Location]
        BY <1>5, <3>1 DEF Location
      <4> QED BY <3>1, <4>1, SeqDef, LenProperties
    <3>4. Ran(L) = LocsOf(d)
      BY <3>1, <3>2 DEF Ran
    <3>5. IsFiniteSet(LocsOf(d)) /\ Cardinality(LocsOf(d)) = n
      BY <3>1, <3>2, LocationCount
    <3> DEFINE M == locs \o L
    <3>6. Ran(M) = Ran(locs) \cup Ran(L) /\ M \in Seq(Location) /\ Len(M) = Len(locs) + Len(L)
      <4>1. locs \in Seq(Location) /\ L \in Seq(Location)
        BY <1>3, <3>3
      <4>2. Ran(M) = Ran(locs) \cup Ran(L)
        BY <4>1, RanConcat
      <4>3. M \in Seq(Location) /\ Len(M) = Len(locs) + Len(L)
        BY <4>1, ConcatProperties
      <4> QED BY <4>2, <4>3
    <3>7. /\ Ran(locs') = Ran(locs) \cup Ran(L)
          /\ locs' \in Seq(Location) /\ Len(locs') = Len(locs) + Len(L)
      BY <3>1, <3>6
    <3>8. Found' = Ran(locs') /\ Found = Ran(locs)
      BY DEF Found, Ran
    <3> QED BY <3>3, <3>4, <3>5, <3>6, <3>7, <3>8
  <2>2. CASE site[d].kind # "urlset"
    <3>1. LocsOf(d) = {} /\ locs' = locs
      BY <1>2, <2>2 DEF LocsOf
    <3> QED BY <1>3, <3>1, FS_EmptySet DEF Found
  <2> QED BY <2>1, <2>2
<1>13. \A l \in Found : l[1] \in seen /\ l[1] # d
  <2>1. \A e, l : l \in LocsOf(e) => l[1] = e
    BY DEF LocsOf
  <2> QED BY <1>1, <2>1 DEF SInv, Gathered
<1>14. \A l \in LocsOf(d) : l[1] = d
  BY DEF LocsOf
<1>15. Gathered'
  <2>1. Found \cap LocsOf(d) = {}
    BY <1>13, <1>14
  <2>2. IsFiniteSet(Found) /\ Cardinality(Found) = Len(locs) /\ Found = UNION {LocsOf(e) : e \in seen}
    BY DEF SInv, Gathered
  <2>3. IsFiniteSet(Found') /\ Cardinality(Found') = Cardinality(Found) + Cardinality(LocsOf(d)) - Cardinality({})
    BY <1>12, <2>1, <2>2, FS_Union
  <2>4. Cardinality({}) = 0 /\ Cardinality(LocsOf(d)) \in Nat
    BY <1>12, FS_EmptySet, FS_CardinalityType
  <2>5. Cardinality(Found') = Len(locs')
    BY <1>3, <1>12, <2>2, <2>3, <2>4
  <2>6. \A e : LocsOf(e)' = LocsOf(e)
    BY <1>1, SiteStays
  <2>7. Found' = UNION {LocsOf(e)' : e \in seen'}
    BY <1>1, <1>12, <2>2, <2>6
  <2> QED BY <2>3, <2>5, <2>7 DEF Gathered
<1>16. Overshoot'
  <2>1. {l \in Found' : l[1] # fetched'[Len(fetched')]} = Found
    BY <1>9, <1>12, <1>13, <1>14
  <2>2. Limit > 0 => Cardinality(Found) < Limit
    BY <1>1, <1>3, <1>6 DEF SInv, Gathered, BelowLimit
  <2> QED BY <1>1, <2>1, <2>2, SiteStays DEF Overshoot
<1>17. Bounded'
  <2>1. i <= Cap + 1 /\ Len(fetched) < i /\ Cap' = Cap
    BY <1>1, SiteStays DEF InQueue, SInv, Bounded
  <2> QED BY <1>1, <1>3, <1>6, <1>9, <2>1 DEF Bounded
<1>18. Front'
  <2>1. Listed(d) \subseteq Reachable
    BY <1>5, ReachableClosed DEF SInv, Front
  <2>2. Ran(queue') \subseteq Reachable'
    BY <1>1, <1>7, <2>1, SiteStays DEF SInv, Front
  <2>3. Roots' \subseteq Ran(queue') /\ \A e \in seen' : Listed(e)' \subseteq Ran(queue')
    BY <1>1, <1>7, SiteStays DEF SInv, Front
  <2>4. ASSUME NEW k \in DOMAIN queue', k < i + 1 PROVE queue'[k] \in seen'
    <3>1. k \in DOMAIN queue /\ (k < i \/ k = i)
      BY <1>3, <1>4, <1>8, <2>4
    <3> QED BY <1>1, <1>4, <1>8, <3>1 DEF SInv, Front
  <2> QED BY <1>1, <2>2, <2>3, <2>4 DEF Front, Ran
<1>19. SitemapTypes'
  BY <1>1, <1>3, <1>5, <1>7, <1>9, <1>12 DEF SInv, SitemapTypes
<1> QED BY <1>11, <1>15, <1>16, <1>17, <1>18, <1>19 DEF SInv
-----------------------------------------------------------------------------
LEMMA SitemapInductive == SInv /\ [Next]_vars => SInv'
<1> SUFFICES ASSUME SInv, [Next]_vars PROVE SInv'
  OBVIOUS
<1>1. ASSUME UNCHANGED vars PROVE SInv'
  <2>1. UNCHANGED <<site, setting, robots, queue, i, seen, locs, fetched, pc>>
    BY <1>1 DEF vars
  <2>2. SitemapTypes' /\ Fetched' = Fetched /\ Found' = Found
    BY <2>1 DEF SInv, SitemapTypes, Fetched, Found
  <2>3. Asked' /\ Gathered' /\ Overshoot' /\ Bounded'
    BY <2>1, <2>2, SiteStays DEF SInv, Asked, Gathered, Overshoot, Bounded
  <2>4. Front'
    BY <2>1, SiteStays DEF SInv, Front, Ran
  <2> QED BY <2>2, <2>3, <2>4 DEF SInv
<1> QED BY <1>1, FromRobotsStep, SkipStep, FetchDocStep, ReturnStep DEF Next

LEMMA SInvAlways == Spec => []SInv
BY SitemapStart, SitemapInductive, PTL DEF Spec
-----------------------------------------------------------------------------
\* Discover over a site of any size and shape: no document is asked for twice,
\* none that the site's own sitemaps do not lead to, and no location comes twice.
THEOREM EachDocumentCorrect == Spec => []EachDocumentOnce
<1>1. SInv => EachDocumentOnce
  BY DEF SInv, Asked, Gathered, EachDocumentOnce
<1> QED BY <1>1, SInvAlways, PTL

\* A walk that no limit cut short has asked for exactly the documents reachable
\* from robots.txt or the fallback, and returned every location they list.
THEOREM WalkCorrect == Spec => []FindsEverything
<1>1. ASSUME SInv, pc = "done", i > Len(queue)
      PROVE  Fetched = Reachable /\ Found = UNION {LocsOf(d) : d \in Reachable}
  <2>1. i \in Nat /\ Len(queue) \in Nat /\ DOMAIN queue = 1..Len(queue) /\ seen = Fetched /\ seen \in SUBSET Doc
    BY <1>1, LenProperties DEF SInv, SitemapTypes, Asked
  <2>2. Ran(queue) \subseteq seen
    BY <1>1, <2>1 DEF SInv, Front, Ran
  <2>3. Roots \subseteq seen /\ \A d \in seen : Listed(d) \subseteq seen
    BY <1>1, <2>2 DEF SInv, Front
  <2>4. Reachable \subseteq seen
    BY <2>1, <2>3, ReachableLeast
  <2>5. seen \subseteq Reachable /\ Found = UNION {LocsOf(d) : d \in seen}
    BY <1>1, <2>1 DEF SInv, Asked, Gathered
  <2> QED BY <2>1, <2>4, <2>5
<1>2. SInv => FindsEverything
  BY <1>1 DEF FindsEverything
<1> QED BY <1>2, SInvAlways, PTL

\* maxSitemapDocs and the limit: one request more than the cap at most, and all
\* the documents but the last one read stay below the limit.
THEOREM OvershootCorrect == Spec => []OvershootIsOneDocument
<1>1. ASSUME SInv PROVE OvershootIsOneDocument
  <2>1. i \in Nat /\ Len(fetched) \in Nat /\ Cap \in Nat
    BY <1>1, SitemapAssumption, LenProperties DEF SInv, SitemapTypes, SitemapAssumption, Cap
  <2> QED BY <1>1, <2>1 DEF SInv, Bounded, Overshoot, OvershootIsOneDocument
<1> QED BY <1>1, SInvAlways, PTL
=============================================================================
