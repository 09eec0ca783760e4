------------------------------- MODULE Headless -------------------------------
(***************************************************************************)
(* The JS-rendering fetcher (internal/headless) in the plain fetcher's     *)
(* place: assets go on to the plain fetcher it wraps, pages are rendered   *)
(* in a tab of a bounded pool.  One timeout covers the wait for a tab, its *)
(* opening and the rendering, and all the while the worker holds its       *)
(* host's slot.  The browser is external: a tab opens, renders or fails as *)
(* it likes, and a page may keep it busy for ever.  A tab carries the      *)
(* timeout's context, so a close may be given up before the browser got to *)
(* it, and the tab stays.                                                  *)
(***************************************************************************)
EXTENDS Fetch

CONSTANTS
  Renderers,      \* whether cfg.RenderJS is set: the settings considered
  PoolSize        \* cfg.RenderConcurrency

ASSUME HeadlessAssumption == Renderers \subseteq BOOLEAN /\ PoolSize \in Int

VARIABLES
  rendering,      \* the setting
  tokens,         \* in pagePool.sem
  tabs,           \* workers rendering in a tab of their own
  left            \* tabs in the browser that no fetch knows of any more

poolVars == <<rendering, tokens, tabs, left>>
allVars == <<vars, poolVars>>

Room == IF PoolSize < 1 THEN 1 ELSE PoolSize      \* New

HeadlessInit == Init /\ rendering \in Renderers /\ tokens = 0 /\ tabs = {} /\ left = 0

KeepsButSent ==
  UNCHANGED <<policy, cancelled, sems, host, held, at, hops, attempt, backoff, jobs>>
KeepsFetch == KeepsButSent /\ UNCHANGED sent

Failing(w) == reply' = [reply EXCEPT ![w] = Error("headless")]

\* Fetch was just called for a page; for an asset the worker goes on in Fetch.
WantTab(w) ==
  /\ rendering /\ pc[w] = "attempt" /\ sent[w] = 0 /\ attempt[w] = 0
  /\ Goto(w, "tab") /\ KeepsFetch /\ UNCHANGED <<reply, poolVars>>

TakeTab(w) ==
  /\ pc[w] = "tab" /\ tokens < Room
  /\ tokens' = tokens + 1 /\ Goto(w, "open")
  /\ KeepsFetch /\ UNCHANGED <<reply, rendering, tabs, left>>

\* The timeout, or the crawl's context, ended the wait.
WaitExpires(w) ==
  /\ pc[w] = "tab" /\ Failing(w) /\ Goto(w, "return")
  /\ KeepsFetch /\ UNCHANGED poolVars

\* The tab is open, and is told to navigate.
Open(w) ==
  /\ pc[w] = "open" /\ tabs' = tabs \cup {w} /\ Goto(w, "render")
  /\ sent' = [sent EXCEPT ![w] = @ + 1]
  /\ KeepsButSent /\ UNCHANGED <<reply, rendering, tokens, left>>

OpenForgets(w) ==     \* slip: the error path keeps the token
  /\ pc[w] = "open" /\ Failing(w) /\ Goto(w, "return")
  /\ KeepsFetch /\ UNCHANGED poolVars
OpenFails(w) ==
  /\ pc[w] = "open" /\ Failing(w) /\ Goto(w, "return")
  /\ tokens' = tokens - 1
  /\ KeepsFetch /\ UNCHANGED <<rendering, tabs, left>>

\* Navigate, wait for load and for quiet, read the HTML: a page that answers.
Rendered(w, s) ==
  /\ pc[w] = "render" /\ reply' = [reply EXCEPT ![w] = Response(s, 0)] /\ Goto(w, "close")
  /\ KeepsFetch /\ UNCHANGED poolVars

NeverSettles(w) ==
  /\ pc[w] = "render" /\ Goto(w, "stuck")
  /\ KeepsFetch /\ UNCHANGED <<reply, poolVars>>

\* Navigation fails, the timeout passes, or the context is cancelled.
RenderFails(w) ==
  /\ pc[w] \in {"render", "stuck"} /\ Failing(w) /\ Goto(w, "close")
  /\ KeepsFetch /\ UNCHANGED poolVars

\* The deferred Release: first the tab, then its token. The context may have
\* ended, or end during the close, and the close's error is dropped.
CloseTab(w) ==
  /\ pc[w] = "close" /\ tabs' = tabs \ {w} /\ Goto(w, "free")
  /\ left' \in {left, left + 1}
  /\ KeepsFetch /\ UNCHANGED <<reply, rendering, tokens>>

FreeToken(w) ==
  /\ pc[w] = "free" /\ tokens' = tokens - 1 /\ Goto(w, "return")
  /\ KeepsFetch /\ UNCHANGED <<reply, rendering, tabs, left>>

\* The browser gets to a close that was given up. Nothing says it ever does.
ClosesLate ==
  /\ left > 0 /\ left' = left - 1
  /\ UNCHANGED <<vars, rendering, tokens, tabs>>

Pool(w) ==
  \/ WantTab(w) \/ TakeTab(w) \/ WaitExpires(w) \/ Open(w) \/ OpenFails(w)
  \/ NeverSettles(w) \/ RenderFails(w) \/ CloseTab(w) \/ FreeToken(w)
  \/ \E s \in Status : Rendered(w, s)

HeadlessNext ==
  \/ Next /\ UNCHANGED poolVars
  \/ \E w \in Worker : Pool(w)
  \/ ClosesLate

\* As in Fetch; and the render timeout fires.
HeadlessSpec ==
  /\ HeadlessInit /\ [][HeadlessNext]_allVars
  /\ \A w \in Worker : WF_allVars((Step(w) /\ UNCHANGED poolVars) \/ Pool(w))
-----------------------------------------------------------------------------
\* "bounds concurrent browser pages in use": every token taken is some worker's
\* on its way through a tab, whichever of the error paths it leaves by; a page in
\* use has its token, so there are never more of them than the pool's size; and
\* from the wait for a tab until the token is back the worker holds its host's slot.
TabsInUseBounded ==
  /\ Cardinality(tabs) <= tokens /\ tokens <= Room
  /\ tokens = Cardinality({w \in Worker : pc[w] \in {"open", "render", "stuck", "close", "free"}})
  /\ \A w \in Worker :
       pc[w] \in {"tab", "open", "render", "stuck", "close", "free"} => held[w]

\* "max concurrent browser tabs"
TabsInBrowserBounded == Cardinality(tabs) + left <= Room
=============================================================================
